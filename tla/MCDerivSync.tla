---------------------------- MODULE MCDerivSync ----------------------------
EXTENDS DerivSync, TLC

CONSTANTS a1, a2, c1, c2

MCOwner == c1 :> a1 @@ c2 :> a1

Has(w1, w2, A) ==
  /\ world = (c1 :> w1 @@ c2 :> w2)
  /\ \A a \in Accounts : connecting[a] = IF a \in A THEN "no" ELSE "never"

\* A contract beside one that was sold before the user connected; a contract
\* of a user with two accounts; a contract of one account with a failure; one
\* that is sold already, with a failure and a disconnection.
MCInit ==
  /\ Init
  /\ \/ Has("future", "sold", {a1}) /\ acts = 1 /\ faults = 1
     \/ Has("open", "never", {a1, a2}) /\ acts = 0 /\ faults = 1
     \/ Has("open", "never", {a1}) /\ acts = 1 /\ faults = 0
     \/ Has("sold", "never", {a1}) /\ acts = 0 /\ faults = 0

MCSpec == MCInit /\ [][Next]_vars /\ Fairness
=============================================================================
