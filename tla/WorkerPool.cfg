CONSTANTS
  a1 = a1
  a2 = a2
  Accounts = {a1, a2}
  Capacity = 2
  Holds <- MCHolds
  MaxVersion = 1
  MaxTries = 1
  MaxFaults = 2
  MaxActs = 1
  None = None
SPECIFICATION MCSpec
INVARIANTS OneSnapshot
PROPERTIES QuarantineHolds PurgeSpares CatchesUp
CHECK_DEADLOCK FALSE
