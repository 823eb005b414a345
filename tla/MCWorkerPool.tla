---------------------------- MODULE MCWorkerPool ----------------------------
EXTENDS WorkerPool, TLC

CONSTANTS a1, a2

\* The digits of a1 occur in what a2 sends.
MCHolds == {<<a1, a1>>, <<a2, a2>>, <<a1, a2>>}

Left(a, kind) == [acc |-> a, kind |-> kind, v |-> 0, tries |-> 0]

\* Two accounts and a fault; a start, stop, sync, restart or deletion while the
\* buffer holds something of each; one account and two faults; nobody in the
\* pool at first, and a task and a fault.
MCInit ==
  /\ Init
  /\ \/ /\ pool = (a1 :> "ONLINE" @@ a2 :> "ONLINE") /\ faults = 1 /\ acts = 1
        /\ buffer = {} /\ truth = (a1 :> 0 @@ a2 :> 1)
     \/ /\ pool = (a1 :> "ONLINE" @@ a2 :> "ONLINE") /\ faults = 2 /\ acts = 0
        /\ buffer = {Left(a1, "metrics"), Left(a2, "metrics")}
        /\ truth = (a1 :> 1 @@ a2 :> 1)
     \/ /\ pool = (a1 :> "ONLINE" @@ a2 :> "out") /\ faults = 0 /\ acts = 1
        /\ buffer = {} /\ truth = (a1 :> 0 @@ a2 :> 0)
     \/ /\ pool = (a1 :> "out" @@ a2 :> "out") /\ faults = 1 /\ acts = 0
        /\ buffer = {} /\ truth = (a1 :> 0 @@ a2 :> 0)

MCSpec == MCInit /\ [][Next]_vars /\ Fairness
=============================================================================
