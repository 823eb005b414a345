CONSTANTS
  a1 = a1
  a2 = a2
  c1 = c1
  c2 = c2
  Accounts = {a1, a2}
  Contracts = {c1, c2}
  Owner <- MCOwner
  MaxFaults = 1
  MaxActs = 2
  MaxLive = 1
  None = None
SPECIFICATION MCSpec
INVARIANTS TradesAreTrue OwnAccount MarkedWaits
PROPERTY SoldSettles
CHECK_DEADLOCK FALSE
