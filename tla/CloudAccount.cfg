CONSTANTS
  MaxTasks = 2
  Types = {"START", "STOP", "SYNC"}
  Redispatch = 0
  Dedup = 2
  TokenLife = 3
  Grace = 1
  Offline = 1
  Outcomes = {"ok", "down"}
  Faults = {"poll", "ack", "metrics", "event", "exchange", "worker", "backend"}
  MaxFaults = 1
SPECIFICATION MCSpec
INVARIANTS RepeatsOnlyAfterLoss LastWishHolds
PROPERTIES EveryTaskEnds ShownInTheEnd
