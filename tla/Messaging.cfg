CONSTANTS
  b1 = b1
  b2 = b2
  u1 = u1
  w1 = w1
  w2 = w2
  Broadcast = {b1, b2}
  User = {u1}
  Recurring = {b2}
  Rows <- MCRows
  HasEmail = {u1}
  HasPhone = {u1}
  Limit <- MCLimit
  Worker = {w1, w2}
  Mailers = 2
  MaxMonth = 1
  MaxFaults = 2
  MaxActs = 1
  None = None
SPECIFICATION MCSpec
INVARIANTS NoSecondCopy LimitHolds
PROPERTIES EverybodyIsTold
CHECK_DEADLOCK FALSE
