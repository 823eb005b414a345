SPECIFICATION MCSpec
CONSTANTS
  u1 = u1
  u2 = u2
  u3 = u3
  u4 = u4
  Users = {u1, u2, u3, u4}
  Base <- MCBase
  Name <- MCName
  Statistics <- MCStatistics
  First <- MCFirst
  Unranked = 99
  Runs = {p1, p2}
  MaxStarts = 3
  MaxChanges = 2
  MaxCrashes = 1
SYMMETRY Symmetry
INVARIANTS TableIsRanking RankingIsFair OneRowEach
CHECK_DEADLOCK FALSE
