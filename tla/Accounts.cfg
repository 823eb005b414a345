CONSTANTS
  m1 = m1
  d1 = d1
  t1 = t1
  Mt5 = {m1}
  Deriv = {d1}
  Typo = {t1}
  Request = {r1, r2}
  MaxAccounts = 5
  Budgets <- MCBudgets
  None = None
SPECIFICATION MCSpec
INVARIANTS DefaultStays AccountsMatchLogins NoOrphans
PROPERTIES DeletedStays ServedShown
CHECK_DEADLOCK FALSE
