--------------------------- MODULE MCSubscription ---------------------------
EXTENDS Subscription, TLC

VARIABLE instance

MCvars == <<vars, instance>>

\* Two handlers at once on one row, with two faults, or one and the
\* administrator's cancelling or extending or the payer's money back; or two
\* rows over two periods, one handler at a time, with his assignments and the
\* trial beside the payments.
MCInit == Init /\ instance \in {"one row", "two rows"}

OneRow ==
  /\ row'[2] = row[2]
  /\ faults' + acts' <= 2
  /\ ~\E p \in Procs : task'[p].do \in {"assign", "trial"}

TwoRows ==
  /\ Cardinality({p \in Procs : task'[p] # Idle}) <= 1
  /\ ~\E p \in Procs : task'[p].do \in {"cancel", "extend", "follow", "payload"}
  /\ \A s \in Subs : row'[s].status = "APPROVAL_PENDING" => row'[s].linked
  /\ faults' + acts' <= 1
  /\ acts' = 0 \/ ~trialUsed'
  /\ \A s \in Subs : payment'[s] # "refunded"
  /\ faults' # faults => \E p \in Procs : TrialGrant(p)
  /\ faults' = 0 \/ \A s \in Subs : payment'[s] = "none"
  /\ \A j \in Job : jobs'[j] <= 1

MCNext ==
  /\ Next
  /\ instance' = instance
  /\ IF instance = "one row" THEN OneRow ELSE TwoRows

MCSpec == MCInit /\ [][MCNext]_MCvars

\* One row whatever happens to it, under fairness.
MCFairInit == Init /\ instance = "one row"
MCFairNext == Next /\ instance' = instance /\ faults' + acts' <= 1
MCFairSpec == MCFairInit /\ [][MCFairNext]_MCvars /\ Fairness

\* Handlers do not differ.
Alike == Permutations(Procs)
=============================================================================
