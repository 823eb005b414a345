SPECIFICATION MCSpec
CONSTANTS
  a1 = a1
  a2 = a2
  r1 = r1
  r2 = r2
  Accounts = {a1, a2}
  All = All
  AllTrades <- MCTrades
  Hours = 4
  Offset = 1
  Start = 1000
  Limit = 2
  ListLife = 2
  FigureLife = 0
  Risk = 10
  Reward = 2
  NoAnswer = NoAnswer
  Requests = {r1, r2}
  MaxTime = 4
  MaxChanges = 2
  MaxFailures = 1
  Pages = {today, yesterday}
  Fields = {form, image}
  Texts = {x, y}
  Unset = Unset
  Savers = {r1, r2}
  MaxSaves = 4
INVARIANTS AnswersAreViews DiaryKept
CHECK_DEADLOCK FALSE
SYMMETRY Alike
