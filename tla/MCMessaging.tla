---------------------------- MODULE MCMessaging ----------------------------
EXTENDS Messaging, TLC

CONSTANTS b1, b2, u1, w1, w2

\* The user has two active subscriptions of the tier b1 goes to.
MCRows == <<b1, u1>> :> 2 @@ <<b2, u1>> :> 1
MCLimit == u1 :> 1

\* A one-shot broadcast with a failure or an act of an administrator; the
\* recurring one with a failure, over two months; both at once; the recurring
\* one with an act; and one execution of it with two failures.
MCInit ==
  /\ Init
  /\ \/ status[b1] = "scheduled" /\ nextRun = (b1 :> 1 @@ b2 :> 2) /\ faults + acts = 2
     \/ status[b1] = "sent" /\ nextRun = (b1 :> 0 @@ b2 :> 0) /\ faults = 1 /\ acts = 1
     \/ status[b1] = "scheduled" /\ nextRun = (b1 :> 1 @@ b2 :> 1) /\ faults = 2 /\ acts = 1
     \/ status[b1] = "sent" /\ nextRun = (b1 :> 1 @@ b2 :> 1) /\ faults = 2 /\ acts = 0
     \/ status[b1] = "sent" /\ nextRun = (b1 :> 2 @@ b2 :> 1) /\ faults = 0 /\ acts = 1

Resting(w) == exec[w] = Rest

\* The executions are alike: the second begins only beside the first. Two mails
\* are in hand at once only when no execution is.
MCNext ==
  /\ Next
  /\ Resting(w1) /\ Resting(w2) => Resting(w2)'
  /\ nextRun[b1] = 2 => Resting(w2)'
  /\ hands' = 2 => \A w \in Worker : Resting(w)'

MCSpec == MCInit /\ [][MCNext]_vars /\ Fairness
=============================================================================
