CONSTANTS
  Subs = {1}
  Procs = {p1, p2}
  Period = 1
  Timeout = 1
  FollowUp = 1
  MaxTime = 2
  MaxCopies = 1
  Faults = {"crash", "silence", "enqueue", "error"}
  MaxFaults = 1
  Acts = {"cancel", "extend", "refund"}
  MaxActs = 1
  Named = {TRUE, FALSE}
  Wallet = TRUE
  NoJob = NoJob
SPECIFICATION MCFairSpec
PROPERTIES OverdueExpires  PaidServed
CHECK_DEADLOCK FALSE
