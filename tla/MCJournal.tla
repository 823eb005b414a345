------------------------------ MODULE MCJournal ------------------------------
EXTENDS Journal, TLC

CONSTANTS d1, d2, i1, i2, i3

MCBatch == i1 :> {d1} @@ i2 :> {d1} @@ i3 :> {d1}

New(calls, S) == \A c \in DOMAIN calls : calls[c].at = IF c \in S THEN "new" ELSE "never"

\* Three instances in one: what happens to the table and the balance, without
\* dashboards; what happens to the copy, without movements and notes; and an
\* import of the worker beside one of the user.
MCInit ==
  /\ Init
  /\ New(revert, Reverts)
  /\ \/ New(import, {i1, i2}) /\ New(move, Moves) /\ New(note, Notes) /\ New(view, {})
     \/ New(import, {i1, i2}) /\ New(move, {}) /\ New(note, {}) /\ New(view, Views)
     \/ New(import, {i1, i3}) /\ New(move, {}) /\ New(note, {}) /\ New(view, {})

MCSpec == MCInit /\ [][Next]_vars /\ Fairness
=============================================================================
