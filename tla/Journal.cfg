CONSTANTS
  d1 = d1
  d2 = d2
  i1 = i1
  i2 = i2
  i3 = i3
  Deals = {d1, d2}
  Manual = {d2}
  Recent = {d2}
  Imports = {i1, i2, i3}
  Batch <- MCBatch
  ByWorker = {i3}
  Moves = {m1}
  Reverts = {r1}
  Notes = {n1}
  Views = {v1}
  MaxFaults = 1
  None = None
  Hand = Hand
SPECIFICATION MCSpec
INVARIANTS BalanceExplained ProfitOnce LogBacked
PROPERTY CopyHeals
CHECK_DEADLOCK FALSE
