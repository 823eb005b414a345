----------------------------- MODULE MCAccounts -----------------------------
EXTENDS Accounts, TLC

CONSTANTS m1, d1, t1

VARIABLE solo \* the instance in which requests never overlap

Calls(one, two) == [op \in Ops |-> IF op \in one THEN 1 ELSE IF op \in two THEN 2 ELSE 0]

OneByOne == Calls({"connect", "report", "primary", "delete", "restore", "list", "archive"}, {"create"})

\* Lists beside what the worker and the user do to the account of a login; the
\* acts on manual accounts; imports beside deletions and edits; the requests
\* that create a default account; and a long sequence, one by one.
MCBudgets ==
  {Calls({"connect", "archive", "reset", "report"}, {"list"}),
   Calls({"connect", "delete", "edit", "report", "list"}, {}),
   Calls({"primary", "archive", "delete"}, {"create"}),
   Calls({"delete", "edit", "connect", "report"}, {"import"}),
   Calls({"signin", "default", "deriv", "list", "create", "import"}, {}),
   OneByOne}

MCInit == Init /\ solo = (left = OneByOne)
MCNext == Next /\ UNCHANGED solo /\ (solo => ~overlapped')
MCSpec == MCInit /\ [][MCNext]_<<vars, solo>> /\ Fairness
=============================================================================
