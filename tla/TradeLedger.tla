---------------------------- MODULE TradeLedger ----------------------------
(***************************************************************************)
(* What the MT5 synchronisation promises, without saying how: the trades   *)
(* an account closes at its broker are booked in the journal, each one     *)
(* once and for good, and the checkpoint up to which the worker will not   *)
(* look back never passes a trade that is not booked.                      *)
(***************************************************************************)
EXTENDS Naturals

CONSTANT Trades                \* tickets of the closing deals of one account

VARIABLES closed,              \* trades that exist at the broker
          booked,              \* trades the journal holds
          mark                 \* tickets up to here are not asked for again

vars == <<closed, booked, mark>>

\* The highest ticket the checkpoint may take: no unbooked trade is below it.
Safe(m, B) == \A t \in closed : t <= m => t \in B

TypeOK ==
  /\ closed \subseteq Trades
  /\ booked \subseteq Trades
  /\ mark \in Nat

Init ==
  /\ closed = {}
  /\ booked = {}
  /\ mark = 0

\* The broker closes a trade. Its ticket is above every ticket given before.
Close(t) ==
  /\ t \notin closed
  /\ \A u \in closed : u < t
  /\ t > mark
  /\ closed' = closed \cup {t}
  /\ UNCHANGED <<booked, mark>>

\* Closed trades enter the journal.
Book(S) ==
  /\ S \subseteq closed
  /\ booked' = booked \cup S
  /\ UNCHANGED <<closed, mark>>

\* The checkpoint moves: forward over booked trades, or back (a restart from
\* an older copy, an account that is connected anew).
Move ==
  /\ mark' \in Nat
  /\ Safe(mark', booked)
  /\ UNCHANGED <<closed, booked>>

Next ==
  \/ \E t \in Trades : Close(t)
  \/ \E S \in SUBSET closed : Book(S)
  \/ Move

Spec == Init /\ [][Next]_vars

=============================================================================
