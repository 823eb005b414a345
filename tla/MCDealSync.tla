----------------------------- MODULE MCDealSync -----------------------------
(***************************************************************************)
(* A history for DealSync: a deposit, the end of a trade opened before the *)
(* window, and a position that is opened and closed.                       *)
(***************************************************************************)
EXTENDS DealSync

MCDeals == 1..4
MCKind == <<"balance", "out", "in", "out">>

\* The day ends after the first deal or the second. (No fairness is assumed of
\* days and deals, so none is lost by this.)
MCNext == Next /\ (day' # day => history \in {{1}, {1, 2}})

MCSpec == Init /\ [][MCNext]_vars /\ Fairness
=============================================================================
