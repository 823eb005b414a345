CONSTANTS
  Subs = {1, 2}
  Procs = {p1, p2}
  Period = 1
  Timeout = 1
  FollowUp = 1
  MaxTime = 2
  MaxCopies = 2
  Faults = {"crash", "enqueue", "silence", "error", "hook"}
  MaxFaults = 2
  Acts = {"cancel", "extend", "assign", "campaign", "refund"}
  MaxActs = 1
  Named = {TRUE, FALSE}
  Wallet = TRUE
  NoJob = NoJob
SPECIFICATION MCSpec
SYMMETRY Alike
INVARIANTS PaidFor PendingWatched
PROPERTIES StaysResolved EndsEarlyOnlyByStale
CHECK_DEADLOCK FALSE
