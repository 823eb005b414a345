-------------------------- MODULE WorkerPoolProofs --------------------------
(***************************************************************************)
(* Quarantine, the purge of the buffer, the age of the balance and the     *)
(* snapshots of the positions, for any number of accounts, tasks, faults   *)
(* and versions.                                                           *)
(*                                                                         *)
(* The invariant says whom the loop is at and what it waits for, that no   *)
(* account of the round was resting when it began, that nothing on its way *)
(* is newer than the broker, and that who has not mixed snapshots has one  *)
(* of them on its way at most.                                             *)
(***************************************************************************)
EXTENDS WorkerPool, TLAPS, FiniteSetTheorems

Stages == {"connect", "metrics", "positions", "trades"}

\* What carries a version carries one.
Carried ==
  /\ \A i \in buffer \cup batch : i.kind = "metrics" => i.v \in Version
  /\ \A r \in net : /\ r.kind = "metrics" => r.v \in Version
                    /\ r.at = "deleted" => r.kind = "positions" /\ r.v \in Version

\* The loop is at an account of the pool, or at none; what it waits for is at
\* the backend.
Awaits(r) ==
  /\ r.id = worker.wait
  /\ worker.at \in {"metrics", "positions", "flush"}
  /\ worker.at = "metrics" => r.kind = "metrics" /\ r.acc = worker.acc
  /\ worker.at = "positions" => r.kind = "positions"

Held ==
  /\ worker.acc \in Pooled \cup {None}
  /\ worker.at \in Stages => worker.acc # None
  /\ worker.at = "idle" => worker = Rest
  /\ worker.at = "flush" => worker.wait # 0 /\ worker.item \in Item
  /\ worker.wait # 0 => \E r \in net : Awaits(r)

Distinct == \A r, q \in net : r.id = q.id => r = q

\* Nothing that is on its way or shown is newer than the broker; metrics the loop
\* waits for are no older than what is shown or comes in besides.
Rising ==
  /\ \A a \in Accounts : shown[a] <= truth[a]
  /\ \A i \in buffer \cup batch : i.kind = "metrics" => i.v <= truth[i.acc]
  /\ \A r \in net : r.kind = "metrics" => r.v <= truth[r.acc]

Newest ==
  \A r \in net : r.kind = "metrics" /\ worker.at = "metrics" /\ r.id = worker.wait =>
    /\ shown[r.acc] <= r.v
    /\ \A q \in net : q.kind = "metrics" /\ q.acc = r.acc => q.v <= r.v

\* An account that has mixed nothing has one snapshot on its way at most, and
\* no rows while it is being saved.
Apart ==
  \A a \in Accounts \ mixed :
    /\ \A p, q \in positions[a] : p = q
    /\ \A r, q \in net : r.kind = "positions" /\ q.kind = "positions" /\ r.acc = a /\ q.acc = a => r = q
    /\ \A r \in net : r.acc = a /\ r.at = "deleted" => positions[a] = {}

\* Nobody who rested when the round began is in it.
Rested ==
  /\ \A i \in 1..Len(round) : round[i] \notin resting
  /\ worker.task = "none" => worker.acc \notin resting

IInv == TypeOK /\ Carried /\ Held /\ Distinct /\ Rising /\ Newest /\ Apart /\ Rested

\* The loop waits for nothing.
Settled ==
  /\ worker \in Loop /\ worker.wait = 0
  /\ worker.acc \in Pooled \cup {None}
  /\ worker.at \in Stages => worker.acc # None
  /\ worker.at = "idle" => worker = Rest
  /\ worker.at # "flush"
  /\ worker.task = "none" => worker.acc \notin resting

-----------------------------------------------------------------------------
(* The pool.                                                               *)

StoreOK == /\ pool \in [Accounts -> {"out", "ONLINE", "OFFLINE", "FAILED"}]
           /\ errors \in [Accounts -> 0..2]
           /\ Cardinality(Pooled) <= Capacity

LEMMA Bounds == /\ Capacity \in Nat /\ MaxVersion \in Nat /\ MaxTries \in Nat \ {0}
                /\ MaxFaults \in Nat /\ MaxActs \in Nat /\ None \notin Accounts /\ None \notin Nat
  BY PoolAssumption

LEMMA PooledFinite == IsFiniteSet(Pooled) /\ Cardinality(Pooled) \in Nat
  BY PoolAssumption, FS_Subset, FS_CardinalityType DEF Pooled

\* Putting a pooled account on line, or one more while there is room.
LEMMA AddedOK ==
  ASSUME StoreOK, NEW a \in Accounts, Added(a), a \in Pooled \/ Cardinality(Pooled) < Capacity
  PROVE  StoreOK' /\ Pooled' = Pooled \cup {a}
  <1>1. pool' \in [Accounts -> {"out", "ONLINE", "OFFLINE", "FAILED"}] /\ errors' \in [Accounts -> 0..2]
    BY DEF StoreOK, Added
  <1>2. Pooled' = Pooled \cup {a}
    BY DEF StoreOK, Added, Pooled
  <1>3. Cardinality(Pooled') <= Capacity
    <2>1. Cardinality(Pooled \cup {a}) = IF a \in Pooled THEN Cardinality(Pooled) ELSE Cardinality(Pooled) + 1
      BY PooledFinite, FS_AddElement
    <2>2. Cardinality(Pooled \cup {a}) <= Capacity
      BY <2>1, PooledFinite, Bounds DEF StoreOK
    <2> QED
      BY <1>2, <2>2
  <1> QED
    BY <1>1, <1>2, <1>3 DEF StoreOK

LEMMA CheckpointOK ==
  ASSUME StoreOK, NEW a \in Pooled, Checkpoint(a)
  PROVE  StoreOK' /\ Pooled' = Pooled
  <1>1. a \in Accounts /\ Added(a) /\ Pooled \cup {a} = Pooled
    BY DEF Checkpoint, Pooled
  <1> QED
    BY <1>1, AddedOK

LEMMA MarkedOK ==
  ASSUME StoreOK, NEW a \in Pooled, NEW auth \in BOOLEAN, Marked(a, auth)
  PROVE  StoreOK' /\ Pooled' = Pooled
  <1>1. a \in Accounts /\ pool[a] # "out" /\ errors[a] \in 0..2
    BY DEF StoreOK, Pooled
  <1>2. /\ errors' = [errors EXCEPT ![a] = IF @ < 2 THEN @ + 1 ELSE @]
        /\ \E s \in {"FAILED", "OFFLINE"} : pool' = [pool EXCEPT ![a] = s]
    BY <1>1 DEF Marked
  <1>3. errors' \in [Accounts -> 0..2]
    BY <1>1, <1>2 DEF StoreOK
  <1>4. pool' \in [Accounts -> {"out", "ONLINE", "OFFLINE", "FAILED"}]
    BY <1>1, <1>2 DEF StoreOK
  <1>5. Pooled' = Pooled
    BY <1>1, <1>2 DEF StoreOK, Pooled
  <1> QED
    BY <1>3, <1>4, <1>5 DEF StoreOK

LEMMA RemovedOK ==
  ASSUME StoreOK, NEW a \in Accounts, Removed(a)
  PROVE  StoreOK' /\ Pooled' = Pooled \ {a}
  <1>1. pool' \in [Accounts -> {"out", "ONLINE", "OFFLINE", "FAILED"}] /\ errors' \in [Accounts -> 0..2]
    BY DEF StoreOK, Removed
  <1>2. Pooled' = Pooled \ {a}
    BY DEF StoreOK, Removed, Pooled
  <1>3. Cardinality(Pooled') <= Capacity
    <2>1. Cardinality(Pooled \ {a}) = IF a \in Pooled THEN Cardinality(Pooled) - 1 ELSE Cardinality(Pooled)
      BY PooledFinite, FS_RemoveElement
    <2>2. Cardinality(Pooled \ {a}) <= Capacity
      BY <2>1, PooledFinite, Bounds DEF StoreOK
    <2> QED
      BY <1>2, <2>2
  <1> QED
    BY <1>1, <1>2, <1>3 DEF StoreOK

LEMMA LoadedOK ==
  ASSUME StoreOK, Loaded, UNCHANGED errors
  PROVE  StoreOK' /\ Pooled' = Pooled
  <1>1. pool' \in [Accounts -> {"out", "ONLINE", "OFFLINE", "FAILED"}]
    BY DEF StoreOK, Loaded
  <1>2. Pooled' = Pooled
    BY DEF StoreOK, Loaded, Pooled
  <1> QED
    BY <1>1, <1>2 DEF StoreOK

LEMMA SameStore ==
  ASSUME StoreOK, UNCHANGED store
  PROVE  StoreOK' /\ Pooled' = Pooled
  BY DEF StoreOK, Pooled, store

LEMMA FaultTyped == TypeOK /\ (Fault \/ UNCHANGED faults) => faults' \in 0..MaxFaults
  BY PoolAssumption DEF TypeOK, Fault

LEMMA ActTyped == TypeOK /\ (Act \/ UNCHANGED acts) => acts' \in 0..MaxActs
  BY PoolAssumption DEF TypeOK, Act

LEMMA RestTyped ==
  /\ Rest \in Loop /\ Rest.wait = 0 /\ Rest.acc = None /\ Rest.at = "idle" /\ Rest.task = "none"
  /\ \A S \in SUBSET Accounts : None \notin S
  BY Bounds DEF Rest, Loop

LEMMA AtTyped ==
  ASSUME NEW at \in Stages, NEW a \in Accounts, NEW task \in Kinds \cup {"none"}
  PROVE  /\ At(at, a, task) \in Loop /\ At(at, a, task).wait = 0
         /\ At(at, a, task).at = at /\ At(at, a, task).acc = a /\ At(at, a, task).task = task
         /\ a # None
  <1>1. At(at, a, task) = [Rest EXCEPT !.at = at, !.acc = a, !.task = task] /\ Rest \in Loop /\ Rest.wait = 0
    BY RestTyped DEF At
  <1>2. at \in {"idle", "connect", "metrics", "positions", "trades", "flush"}
    BY DEF Stages
  <1> QED
    BY <1>1, <1>2, Bounds DEF Loop

-----------------------------------------------------------------------------
(* Initially.                                                              *)

LEMMA InitOK == Init => IInv
  <1> SUFFICES ASSUME Init PROVE IInv
    OBVIOUS
  <1>1. TypeOK
    <2>1. resting \subseteq Accounts /\ worker \in Loop
      BY RestTyped DEF Init
    <2>2. round \in Seq(Accounts)
      BY DEF Init
    <2>3. buffer \subseteq Item
      BY DEF Init
    <2>4. /\ shown \in [Accounts -> Version] /\ errors \in [Accounts -> 0..2]
          /\ positions \in [Accounts -> SUBSET (Version \X (1..2))]
      BY Bounds DEF Init, Version
    <2> QED
      BY <2>1, <2>2, <2>3, <2>4 DEF Init, TypeOK
  <1>2. Settled
    BY RestTyped DEF Init, Settled, Stages
  <1>3. Carried /\ Rising
    BY Bounds DEF Init, Carried, Rising, Version, Item
  <1>4. Distinct /\ Apart /\ Rested
    BY <1>2 DEF Init, Distinct, Apart, Rested, Settled
  <1>5. Held /\ Newest
    BY <1>2 DEF Init, Held, Newest, Settled
  <1> QED
    BY <1>1, <1>3, <1>4, <1>5 DEF IInv

-----------------------------------------------------------------------------
(* What the worker does between its requests.                              *)

LEMMA Between ==
  ASSUME IInv, UNCHANGED <<truth, known, shown, positions, net, mixed>>,
         Settled', StoreOK', UNCHANGED buffer, batch' \subseteq buffer \cup batch,
         terminal' \in Accounts \cup {None}, round' \in Seq(Accounts), resting' \subseteq Accounts,
         \A i \in 1..Len(round') : round'[i] \notin resting',
         tasks' \subseteq [acc : Accounts, kind : Kinds],
         faults' \in 0..MaxFaults, acts' \in 0..MaxActs
  PROVE  IInv'
  <1> USE DEF IInv
  <1>1. TypeOK'
    BY DEF TypeOK, StoreOK, Settled
  <1>2. Carried' /\ Rising' /\ Distinct' /\ Apart'
    BY DEF Carried, Rising, Distinct, Apart
  <1>3. Held' /\ Newest'
    <2>1. worker'.wait = 0 /\ \A r \in net' : r.id # 0
      BY DEF Settled, TypeOK, Request
    <2> QED
      BY <2>1 DEF Held, Newest, Settled
  <1>4. Rested'
    BY DEF Rested, Settled
  <1> QED
    BY <1>1, <1>2, <1>3, <1>4

LEMMA TaskStep ==
  ASSUME IInv, NEW t \in tasks, TakeTask(t)
  PROVE  IInv'
  <1>0. /\ UNCHANGED <<truth, known, shown, positions, net, round, buffer, batch, acts, resting, mixed>>
        /\ worker = Rest /\ t.acc \in Accounts /\ resting \subseteq Accounts /\ StoreOK
        /\ tasks' \subseteq [acc : Accounts, kind : Kinds]
    BY DEF TakeTask, backend, Idle, Held, TypeOK, IInv, StoreOK
  <1>1. /\ terminal' \in Accounts \cup {None} /\ faults' \in 0..MaxFaults
        /\ round' \in Seq(Accounts) /\ acts' \in 0..MaxActs
        /\ \A i \in 1..Len(round') : round'[i] \notin resting'
    BY <1>0, FaultTyped DEF TakeTask, TypeOK, IInv, Rested
  <1>2. StoreOK' /\ Settled'
    <2>1. CASE t.kind = "START" /\ Added(t.acc) /\ worker' = At("connect", t.acc, "START")
               /\ (t.acc \in Pooled \/ Cardinality(Pooled) < Capacity)
      BY <1>0, <2>1, AddedOK, AtTyped DEF Settled, Stages, Kinds
    <2>2. CASE UNCHANGED <<store, worker>>
      <3>1. StoreOK' /\ Pooled' = Pooled
        BY <1>0, <2>2, SameStore
      <3>2. worker' = Rest
        BY <1>0, <2>2
      <3> QED
        BY <1>0, <3>1, <3>2, RestTyped DEF Settled, Stages
    <2>3. CASE Removed(t.acc) /\ UNCHANGED worker
      <3>1. worker' = Rest
        BY <1>0, <2>3
      <3> QED
        BY <1>0, <2>3, <3>1, RemovedOK, RestTyped DEF Settled, Stages
    <2>4. ASSUME NEW k \in {"SYNC", "RESTART"}, UNCHANGED store, t.acc \in Pooled, worker' = At("connect", t.acc, k)
          PROVE  StoreOK' /\ Settled'
      <3>1. StoreOK' /\ Pooled' = Pooled
        BY <1>0, <2>4, SameStore
      <3> QED
        BY <1>0, <2>4, <3>1, AtTyped DEF Settled, Stages, Kinds
    <2> QED
      BY <2>1, <2>2, <2>3, <2>4 DEF TakeTask
  <1> QED
    BY <1>0, <1>1, <1>2, Between

LEMMA StartRoundStep ==
  ASSUME IInv, StartRound
  PROVE  IInv'
  <1>0. /\ UNCHANGED <<truth, known, shown, positions, net, pool, errors, terminal, worker, buffer, batch, tasks,
                       faults, acts, mixed>>
        /\ worker = Rest /\ StoreOK
    BY DEF StartRound, backend, store, Idle, Held, IInv, TypeOK, StoreOK
  <1>1. resting' = {a \in Accounts : pool[a] = "FAILED"} /\ resting' \cap Active = {} /\ resting' \subseteq Accounts
    BY DEF StartRound, Active
  <1>2. /\ round' \in Seq(Accounts)
        /\ \A i \in 1..Len(round') : round'[i] \in Active
    <2>1. Cardinality(Active) \in Nat
      BY PoolAssumption, FS_Subset, FS_CardinalityType DEF Active
    <2>2. round' \in [1..Cardinality(Active) -> Active]
      BY DEF StartRound, Orders
    <2>3. round' \in Seq(Active)
      BY <2>1, <2>2
    <2>4. Len(round') = Cardinality(Active)
      BY <2>1, <2>2
    <2>5. Active \subseteq Accounts
      BY DEF Active
    <2>6. round' \in Seq(Accounts)
      BY <2>1, <2>2, <2>5
    <2> QED
      BY <2>2, <2>4, <2>6
  <1>3. Settled'
    <2>1. worker' = Rest
      BY <1>0
    <2> QED
      BY <1>1, <2>1, RestTyped DEF Settled, Stages
  <1>4. StoreOK'
    BY <1>0, SameStore DEF store
  <1> QED
    BY <1>0, <1>1, <1>2, <1>3, <1>4, Between DEF IInv, TypeOK

LEMMA NextOfRoundStep ==
  ASSUME IInv, NextOfRound
  PROVE  IInv'
  <1>0. /\ UNCHANGED <<truth, known, shown, positions, net, pool, errors, terminal, buffer, batch, tasks,
                       faults, acts, resting, mixed>>
        /\ worker = Rest /\ StoreOK /\ round \in Seq(Accounts) /\ round # <<>> /\ round' = Tail(round)
        /\ resting \subseteq Accounts
    BY DEF NextOfRound, backend, store, Idle, Held, IInv, TypeOK, StoreOK
  <1>1. /\ Head(round) \in Accounts \ resting /\ round' \in Seq(Accounts)
        /\ \A i \in 1..Len(round') : round'[i] \notin resting'
    <2>1. /\ Head(round) = round[1] /\ 1 \in 1..Len(round) /\ Tail(round) \in Seq(Accounts)
          /\ \A i \in 1..Len(Tail(round)) : i + 1 \in 1..Len(round) /\ Tail(round)[i] = round[i + 1]
          /\ round[1] \in Accounts
      BY <1>0
    <2> QED
      BY <1>0, <2>1 DEF IInv, Rested
  <1>2. StoreOK' /\ Pooled' = Pooled
    BY <1>0, SameStore DEF store
  <1>3. Settled'
    <2>1. CASE Head(round) \in Pooled
      <3>1. worker' = At("connect", Head(round), "none")
        BY <2>1 DEF NextOfRound
      <3> QED
        BY <1>0, <1>1, <1>2, <2>1, <3>1, AtTyped DEF Settled, Stages
    <2>2. CASE Head(round) \notin Pooled
      <3>1. worker' = Rest
        BY <1>0, <2>2 DEF NextOfRound
      <3> QED
        BY <1>0, <3>1, RestTyped DEF Settled, Stages
    <2> QED
      BY <2>1, <2>2
  <1> QED
    BY <1>0, <1>1, <1>2, <1>3, Between DEF IInv, TypeOK

LEMMA ConnectStep ==
  ASSUME IInv, Connect
  PROVE  IInv'
  <1>0. /\ UNCHANGED <<truth, known, shown, positions, net, round, buffer, batch, tasks, acts, resting, mixed>>
        /\ worker \in Loop /\ worker.at = "connect" /\ worker.acc \in Pooled /\ worker.acc \in Accounts /\ StoreOK
        /\ resting \subseteq Accounts
    BY DEF Connect, backend, Held, IInv, TypeOK, StoreOK, Stages, Pooled
  <1>1. faults' \in 0..MaxFaults /\ terminal' \in Accounts \cup {None}
    BY <1>0, FaultTyped DEF Connect, Login, IInv
  <1>2. StoreOK' /\ Pooled' = Pooled
    <2>1. CASE UNCHANGED store
      BY <1>0, <2>1, SameStore
    <2>2. CASE Added(worker.acc)
      <3>1. Pooled \cup {worker.acc} = Pooled
        BY <1>0
      <3> QED
        BY <1>0, <2>2, <3>1, AddedOK
    <2>3. CASE \E auth \in BOOLEAN : Marked(worker.acc, auth)
      BY <1>0, <2>3, MarkedOK
    <2> QED
      BY <2>1, <2>2, <2>3 DEF Connect
  <1>3. Settled'
    <2>1. CASE worker' = [worker EXCEPT !.at = "metrics"]
      <3>1. worker.wait = 0
        BY <1>0 DEF IInv, Held, Awaits
      <3>2. /\ worker' \in Loop /\ worker'.wait = 0 /\ worker'.at = "metrics"
            /\ worker'.acc = worker.acc /\ worker'.task = worker.task
        BY <1>0, <2>1, <3>1 DEF Loop
      <3> QED
        BY <1>0, <1>2, <3>2, Bounds DEF Settled, Stages, IInv, Rested
    <2>2. CASE worker' = Rest
      BY <1>0, <2>2, RestTyped DEF Settled, Stages
    <2> QED
      BY <2>1, <2>2 DEF Connect
  <1> QED
    BY <1>0, <1>1, <1>2, <1>3, Between DEF IInv, TypeOK, Rested

LEMMA TradesStep ==
  ASSUME IInv, SendTrades
  PROVE  IInv'
  <1>0. /\ UNCHANGED <<truth, known, shown, positions, net, terminal, round, buffer, batch, tasks, acts, resting, mixed>>
        /\ worker' = Rest /\ worker.acc \in Pooled /\ StoreOK /\ resting \subseteq Accounts
    BY DEF SendTrades, backend, Held, IInv, TypeOK, StoreOK, Stages
  <1>1. faults' \in 0..MaxFaults
    BY FaultTyped DEF SendTrades, IInv
  <1>2. StoreOK'
    BY <1>0, CheckpointOK, SameStore DEF SendTrades
  <1>3. Settled'
    BY <1>0, RestTyped DEF Settled, Stages
  <1> QED
    BY <1>0, <1>1, <1>2, <1>3, Between DEF IInv, TypeOK, Rested

LEMMA StartFlushStep ==
  ASSUME IInv, NEW S \in SUBSET buffer, StartFlush(S)
  PROVE  IInv'
  <1>0. /\ UNCHANGED <<truth, known, shown, positions, net, pool, errors, terminal, worker, round, buffer, tasks,
                       faults, acts, resting, mixed>>
        /\ worker = Rest /\ StoreOK /\ batch' \subseteq buffer /\ resting \subseteq Accounts
    BY DEF StartFlush, backend, store, Idle, Held, IInv, TypeOK, StoreOK
  <1>1. StoreOK'
    BY <1>0, SameStore DEF store
  <1>2. Settled'
    <2>1. worker' = Rest
      BY <1>0
    <2> QED
      BY <1>0, <2>1, RestTyped DEF Settled, Stages
  <1> QED
    BY <1>0, <1>1, <1>2, Between DEF IInv, TypeOK, Rested

LEMMA RestartStep ==
  ASSUME IInv, Restart
  PROVE  IInv'
  <1>0. /\ UNCHANGED <<truth, known, shown, positions, net, errors, terminal, buffer, tasks, acts, mixed>>
        /\ worker' = Rest /\ StoreOK /\ batch' = {} /\ round' = <<>> /\ resting' = {}
    BY DEF Restart, backend, IInv, TypeOK, StoreOK
  <1>1. faults' \in 0..MaxFaults
    BY FaultTyped DEF Restart, IInv
  <1>2. StoreOK'
    BY <1>0, LoadedOK DEF Restart
  <1>3. Settled'
    BY <1>0, RestTyped DEF Settled, Stages
  <1>4. round' \in Seq(Accounts) /\ Len(round') = 0
    BY <1>0
  <1> QED
    BY <1>0, <1>1, <1>2, <1>3, <1>4, Between DEF IInv, TypeOK

-----------------------------------------------------------------------------
(* Requests of the worker.                                                 *)

New(a, kind, v, id) == [acc |-> a, kind |-> kind, v |-> v, id |-> id, at |-> "sent"]

LEMMA NewTyped ==
  ASSUME NEW a \in Accounts, NEW kind \in {"metrics", "positions"}, NEW v \in Content, NEW id \in 1..2
  PROVE  /\ New(a, kind, v, id) \in Request /\ New(a, kind, v, id).acc = a /\ New(a, kind, v, id).kind = kind
         /\ New(a, kind, v, id).v = v /\ New(a, kind, v, id).id = id /\ New(a, kind, v, id).at = "sent"
  BY DEF New, Request

\* A request that sets out while the loop waits for nothing.
LEMMA Sending ==
  ASSUME IInv, worker.wait = 0, UNCHANGED <<truth, known, shown, positions, buffer>>, batch' \subseteq batch,
         NEW a \in Accounts, NEW kind \in {"metrics", "positions"}, NEW v \in Content, NEW id \in (1..2) \ Ids,
         kind = "metrics" => v \in Version /\ v <= truth[a],
         net' = net \cup {New(a, kind, v, id)},
         mixed' = IF kind = "positions" /\ \E r \in net : r.kind = "positions" /\ r.acc = a
                  THEN mixed \cup {a} ELSE mixed
  PROVE  /\ net' \subseteq Request /\ mixed' \subseteq Accounts
         /\ Carried' /\ Distinct' /\ Rising' /\ Apart'
  <1> DEFINE n == New(a, kind, v, id)
  <1> USE DEF IInv
  <1>1. /\ n \in Request /\ n.acc = a /\ n.kind = kind /\ n.v = v /\ n.id = id /\ n.at = "sent"
        /\ net' = net \cup {n} /\ net \subseteq Request /\ mixed \subseteq Accounts
    BY NewTyped DEF TypeOK
  <1> HIDE DEF n
  <1>2. net' \subseteq Request /\ mixed' \subseteq Accounts
    BY <1>1
  <1>3. Carried' /\ Rising'
    BY <1>1 DEF Carried, Rising
  <1>4. Distinct'
    BY <1>1 DEF Distinct, Ids
  <1>5. Apart'
    <2> SUFFICES ASSUME NEW b \in Accounts \ mixed'
                 PROVE  /\ \A p, q \in positions[b] : p = q
                        /\ \A r, q \in net' :
                             r.kind = "positions" /\ q.kind = "positions" /\ r.acc = b /\ q.acc = b => r = q
                        /\ \A r \in net' : r.acc = b /\ r.at = "deleted" => positions[b] = {}
      BY DEF Apart
    <2>1. b \notin mixed /\ mixed \subseteq mixed'
      OBVIOUS
    <2>2. n.kind = "positions" /\ n.acc = b => \A r \in net : ~(r.kind = "positions" /\ r.acc = b)
      BY <1>1
    <2>3. \A r, q \in net : r.kind = "positions" /\ q.kind = "positions" /\ r.acc = b /\ q.acc = b => r = q
      BY <2>1 DEF Apart
    <2>4. \A r \in net' : r.acc = b /\ r.at = "deleted" => positions[b] = {}
      BY <1>1, <2>1 DEF Apart
    <2>5. \A p, q \in positions[b] : p = q
      BY <2>1 DEF Apart
    <2>6. ASSUME NEW r \in net', NEW q \in net', r.kind = "positions", q.kind = "positions", r.acc = b, q.acc = b
          PROVE  r = q
      BY <1>1, <2>2, <2>3, <2>6
    <2> QED
      BY <2>4, <2>5, <2>6
  <1> QED
    BY <1>2, <1>3, <1>4, <1>5

LEMMA MetricsStep ==
  ASSUME IInv, SendMetrics
  PROVE  IInv'
  <1>0. /\ UNCHANGED <<truth, known, shown, positions, pool, errors, terminal, round, buffer, batch, tasks,
                       faults, acts, resting>>
        /\ worker \in Loop /\ worker.at = "metrics" /\ worker.wait = 0 /\ worker.acc \in Pooled
        /\ worker.acc \in Accounts /\ StoreOK /\ resting \subseteq Accounts
        /\ worker.task = "none" => worker.acc \notin resting
    BY DEF SendMetrics, backend, store, Held, IInv, TypeOK, StoreOK, Stages, Pooled, Rested
  <1>1. StoreOK' /\ Pooled' = Pooled
    BY <1>0, SameStore DEF store
  <1>2. CASE terminal = worker.acc
    <2> DEFINE a == worker.acc
               v == truth[a]
    <2>1. PICK id \in (1..2) \ Ids :
            /\ net' = net \cup {New(a, "metrics", v, id)}
            /\ worker' = [worker EXCEPT !.wait = id]
            /\ mixed' = IF "metrics" = "positions" /\ \E r \in net : r.kind = "positions" /\ r.acc = a
                        THEN mixed \cup {a} ELSE mixed
      BY <1>2 DEF SendMetrics, Send, New
    <2>2. v \in Version /\ v \in Content /\ v <= truth[a]
      BY <1>0 DEF IInv, TypeOK, Version, Content
    <2>3. /\ net' \subseteq Request /\ mixed' \subseteq Accounts
          /\ Carried' /\ Distinct' /\ Rising' /\ Apart'
      BY <1>0, <2>1, <2>2, Sending
    <2>4. /\ worker' \in Loop /\ worker'.wait = id /\ worker'.at = "metrics"
          /\ worker'.acc = a /\ worker'.task = worker.task /\ id # 0
      BY <1>0, <2>1 DEF Loop
    <2> DEFINE n == New(a, "metrics", v, id)
    <2>5. n \in net' /\ n.id = id /\ n.kind = "metrics" /\ n.acc = a /\ n.v = v
      BY <1>0, <2>1, <2>2, NewTyped
    <2>6. TypeOK'
      BY <1>0, <1>1, <2>3, <2>4 DEF IInv, TypeOK, StoreOK
    <2>7. Held'
      BY <1>0, <1>1, <2>4, <2>5, Bounds DEF Held, Awaits
    <2>8. Newest'
      <3>1. \A r \in net' : r.id = worker'.wait => r = n
        BY <2>3, <2>4, <2>5 DEF Distinct
      <3>2. shown[a] <= v /\ \A q \in net' : q.kind = "metrics" /\ q.acc = a => q.v <= v
        BY <1>0, <2>3 DEF IInv, Rising
      <3> QED
        BY <1>0, <2>5, <3>1, <3>2 DEF Newest
    <2>9. Rested'
      BY <1>0, <2>4 DEF IInv, Rested
    <2> QED
      BY <2>3, <2>6, <2>7, <2>8, <2>9 DEF IInv
  <1>3. CASE terminal # worker.acc
    <2>1. worker' = [worker EXCEPT !.at = "positions"] /\ UNCHANGED <<net, mixed>>
      BY <1>3 DEF SendMetrics
    <2>2. /\ worker' \in Loop /\ worker'.wait = 0 /\ worker'.at = "positions"
          /\ worker'.acc = worker.acc /\ worker'.task = worker.task
      BY <1>0, <2>1 DEF Loop
    <2>3. Settled'
      BY <1>0, <1>1, <2>2, Bounds DEF Settled, Stages
    <2> QED
      BY <1>0, <1>1, <2>1, <2>3, Between DEF IInv, TypeOK, Rested
  <1> QED
    BY <1>2, <1>3

LEMMA PositionsStep ==
  ASSUME IInv, SendPositions
  PROVE  IInv'
  <1>0. /\ UNCHANGED <<truth, known, shown, positions, pool, errors, terminal, round, buffer, batch, tasks,
                       faults, acts, resting>>
        /\ worker \in Loop /\ worker.at = "positions" /\ worker.wait = 0 /\ worker.acc \in Pooled
        /\ worker.acc \in Accounts /\ StoreOK /\ resting \subseteq Accounts
        /\ worker.task = "none" => worker.acc \notin resting
    BY DEF SendPositions, backend, store, Held, IInv, TypeOK, StoreOK, Stages, Pooled, Rested
  <1>1. StoreOK' /\ Pooled' = Pooled
    BY <1>0, SameStore DEF store
  <1> DEFINE a == worker.acc
             v == IF terminal = worker.acc THEN truth[worker.acc] ELSE None
  <1>2. PICK id \in (1..2) \ Ids :
          /\ net' = net \cup {New(a, "positions", v, id)}
          /\ worker' = [worker EXCEPT !.wait = id]
          /\ mixed' = IF "positions" = "positions" /\ \E r \in net : r.kind = "positions" /\ r.acc = a
                      THEN mixed \cup {a} ELSE mixed
    BY DEF SendPositions, Send, New
  <1>3. v \in Content
    BY <1>0 DEF IInv, TypeOK, Content
  <1>4. /\ net' \subseteq Request /\ mixed' \subseteq Accounts
        /\ Carried' /\ Distinct' /\ Rising' /\ Apart'
    BY <1>0, <1>2, <1>3, Sending
  <1>5. /\ worker' \in Loop /\ worker'.wait = id /\ worker'.at = "positions"
        /\ worker'.acc = a /\ worker'.task = worker.task
    BY <1>0, <1>2 DEF Loop
  <1> DEFINE n == New(a, "positions", v, id)
  <1>6. n \in net' /\ n.id = id /\ n.kind = "positions"
    BY <1>0, <1>2, <1>3, NewTyped
  <1>7. TypeOK'
    BY <1>0, <1>1, <1>4, <1>5 DEF IInv, TypeOK, StoreOK
  <1>8. Held' /\ Newest'
    BY <1>0, <1>1, <1>5, <1>6, Bounds DEF Held, Awaits, Newest
  <1>9. Rested'
    BY <1>0, <1>5 DEF IInv, Rested
  <1> QED
    BY <1>4, <1>7, <1>8, <1>9 DEF IInv

LEMMA FlushNextStep ==
  ASSUME IInv, NEW i \in batch, FlushNext(i)
  PROVE  IInv'
  <1>0. /\ UNCHANGED <<truth, known, shown, positions, pool, errors, terminal, round, buffer, tasks,
                       faults, acts, resting>>
        /\ worker = Rest /\ batch' = batch \ {i} /\ i \in Item /\ StoreOK /\ resting \subseteq Accounts
    BY DEF FlushNext, backend, store, Held, IInv, TypeOK, StoreOK
  <1>1. StoreOK' /\ Pooled' = Pooled
    BY <1>0, SameStore DEF store
  <1>2. PICK id \in (1..2) \ Ids :
          /\ net' = net \cup {New(i.acc, i.kind, i.v, id)}
          /\ worker' = [Rest EXCEPT !.at = "flush", !.wait = id, !.item = i]
          /\ mixed' = IF i.kind = "positions" /\ \E r \in net : r.kind = "positions" /\ r.acc = i.acc
                      THEN mixed \cup {i.acc} ELSE mixed
    BY DEF FlushNext, New
  <1>3. /\ i.acc \in Accounts /\ i.kind \in {"metrics", "positions"} /\ i.v \in Content
        /\ i.kind = "metrics" => i.v \in Version /\ i.v <= truth[i.acc]
    BY <1>0 DEF Item, IInv, Carried, Rising
  <1>4. /\ net' \subseteq Request /\ mixed' \subseteq Accounts
        /\ Carried' /\ Distinct' /\ Rising' /\ Apart'
    BY <1>0, <1>2, <1>3, RestTyped, Sending
  <1>5. /\ worker' \in Loop /\ worker'.wait = id /\ worker'.at = "flush" /\ worker'.item = i
        /\ worker'.acc = None /\ worker'.task = "none" /\ id # 0
    <2>1. Rest \in Loop /\ Rest.acc = None /\ Rest.task = "none"
      BY RestTyped
    <2> QED
      <3>1. id \in 0..2 /\ i \in Item \cup {None} /\ id # 0
        BY <1>0
      <3>2. worker' = [Rest EXCEPT !.at = "flush", !.wait = id, !.item = i]
        BY <1>2
      <3>3. worker' \in Loop
        <4>1. [Rest EXCEPT !.at = "flush"] \in Loop
          BY <2>1 DEF Loop
        <4>2. [[Rest EXCEPT !.at = "flush"] EXCEPT !.wait = id] \in Loop
          BY <3>1, <4>1 DEF Loop
        <4>3. [[[Rest EXCEPT !.at = "flush"] EXCEPT !.wait = id] EXCEPT !.item = i] \in Loop
          BY <3>1, <4>2 DEF Loop
        <4> QED
          BY <3>2, <4>3
      <3>4. worker'.wait = id /\ worker'.at = "flush" /\ worker'.item = i
        BY <2>1, <3>2 DEF Loop
      <3>5. worker'.acc = None /\ worker'.task = "none"
        BY <2>1, <3>2 DEF Loop
      <3> QED
        BY <3>1, <3>3, <3>4, <3>5
  <1> DEFINE n == New(i.acc, i.kind, i.v, id)
  <1>6. n \in net' /\ n.id = id
    BY <1>0, <1>2, <1>3, NewTyped
  <1>7. TypeOK'
    BY <1>0, <1>1, <1>4, <1>5 DEF IInv, TypeOK, StoreOK
  <1>8. Held' /\ Newest'
    BY <1>0, <1>1, <1>5, <1>6 DEF Held, Awaits, Newest, Stages
  <1>9. Rested'
    BY <1>0, <1>5, RestTyped DEF IInv, Rested
  <1> QED
    BY <1>4, <1>7, <1>8, <1>9 DEF IInv

-----------------------------------------------------------------------------
(* Answers.                                                                *)

LEMMA OnwardTyped ==
  ASSUME NEW w \in Loop, NEW at \in Stages
  PROVE  LET x == [w EXCEPT !.wait = 0, !.at = at]
         IN  x \in Loop /\ x.wait = 0 /\ x.at = at /\ x.acc = w.acc /\ x.task = w.task
  <1>1. [w EXCEPT !.wait = 0] \in Loop
    BY DEF Loop
  <1>2. [[w EXCEPT !.wait = 0] EXCEPT !.at = at] \in Loop
    BY <1>1 DEF Loop, Stages
  <1> QED
    BY <1>2 DEF Loop

\* What the worker goes on with when it stops waiting.
LEMMA AfterSettled ==
  ASSUME IInv, worker.wait # 0
  PROVE  /\ After \in Loop /\ After.wait = 0 /\ After.acc \in {worker.acc, None}
         /\ After.at \in Stages => After.acc # None
         /\ After.at = "idle" => After = Rest
         /\ After.at # "flush"
         /\ After.task = "none" => After.acc \notin resting
  <1>1. /\ worker \in Loop /\ worker.at \in {"metrics", "positions", "flush"}
        /\ worker.at \in Stages => worker.acc # None
        /\ worker.task = "none" => worker.acc \notin resting
        /\ resting \subseteq Accounts
    BY DEF IInv, TypeOK, Held, Awaits, Rested
  <1>2. CASE worker.at = "metrics"
    <2>1. After = [worker EXCEPT !.wait = 0, !.at = "positions"]
      BY <1>2 DEF After
    <2>2. After \in Loop /\ After.wait = 0 /\ After.at = "positions" /\ After.acc = worker.acc /\ After.task = worker.task
      BY <1>1, <2>1, OnwardTyped DEF Stages
    <2> QED
      BY <1>1, <1>2, <2>2 DEF Stages
  <1>3. CASE worker.at = "positions"
    <2>1. After = [worker EXCEPT !.wait = 0, !.at = "trades"]
      BY <1>3 DEF After
    <2>2. After \in Loop /\ After.wait = 0 /\ After.at = "trades" /\ After.acc = worker.acc /\ After.task = worker.task
      BY <1>1, <2>1, OnwardTyped DEF Stages
    <2> QED
      BY <1>1, <1>3, <2>2 DEF Stages
  <1>4. CASE worker.at = "flush"
    <2>1. After = Rest
      BY <1>4 DEF After
    <2> QED
      BY <1>1, <2>1, RestTyped DEF Stages
  <1> QED
    BY <1>1, <1>2, <1>3, <1>4

\* A request leaves and is answered, or was given up before.
LEMMA AnsweredOK ==
  ASSUME IInv, NEW r \in net, NEW found \in BOOLEAN, Answered(r, found),
         net' = net \ {r}, UNCHANGED resting
  PROVE  /\ StoreOK' /\ worker' \in Loop /\ buffer' \subseteq buffer /\ Held'
         /\ worker' = worker \/ worker'.wait = 0
         /\ worker'.task = "none" => worker'.acc \notin resting'
  <1>0. /\ StoreOK /\ worker \in Loop /\ r.acc \in Accounts /\ r.id \in 1..2 /\ resting \subseteq Accounts
        /\ worker.acc \in Pooled \cup {None}
        /\ worker.task = "none" => worker.acc \notin resting
    BY DEF IInv, TypeOK, StoreOK, Request, Held, Rested
  <1>1. CASE worker.wait # r.id
    <2>1. UNCHANGED <<worker, store, buffer>>
      BY <1>1 DEF Answered
    <2>2. StoreOK' /\ Pooled' = Pooled
      BY <1>0, <2>1, SameStore
    <2>3. worker.wait # 0 => \E q \in net' : Awaits(q)
      BY <1>1 DEF IInv, Held, Awaits
    <2>4. Held'
      BY <2>1, <2>2, <2>3 DEF IInv, Held, Awaits
    <2> QED
      BY <1>0, <2>1, <2>2, <2>4
  <1>2. CASE worker.wait = r.id
    <2>1. worker.wait # 0
      BY <1>0, <1>2
    <2>2. buffer' \subseteq buffer
      BY <1>2 DEF Answered, Purge
    <2>3. CASE worker.at = "metrics" /\ ~found
      <3>1. worker' = Rest /\ Removed(r.acc)
        BY <1>2, <2>3 DEF Answered
      <3>2. StoreOK'
        BY <1>0, <3>1, RemovedOK
      <3>3. Held'
        BY <3>1, RestTyped DEF Held, Stages
      <3> QED
        BY <1>0, <2>2, <3>1, <3>2, <3>3, RestTyped
    <2>4. CASE ~(worker.at = "metrics" /\ ~found)
      <3>1. worker' = After /\ UNCHANGED store
        BY <1>2, <2>4 DEF Answered
      <3>2. StoreOK' /\ Pooled' = Pooled
        BY <1>0, <3>1, SameStore
      <3>3. worker'.acc \in Pooled' \cup {None}
        BY <1>0, <2>1, <3>1, <3>2, AfterSettled
      <3>4. Held'
        BY <2>1, <3>1, <3>3, AfterSettled DEF Held
      <3> QED
        BY <2>1, <2>2, <3>1, <3>2, <3>4, AfterSettled
    <2> QED
      BY <2>3, <2>4
  <1> QED
    BY <1>1, <1>2

\* The row of the account is there, or it is not.
LEMMA FoundOrNot ==
  ASSUME NEW r \in net, Answered(r, r.acc \in known)
  PROVE  \E found \in BOOLEAN : Answered(r, found)
  <1>1. CASE r.acc \in known
    <2>1. Answered(r, TRUE)
      BY <1>1 DEF Answered
    <2> QED
      BY <2>1
  <1>2. CASE r.acc \notin known
    <2>1. Answered(r, FALSE)
      BY <1>2 DEF Answered
    <2> QED
      BY <2>1
  <1> QED
    BY <1>1, <1>2

\* The worker stops waiting without an answer.
LEMMA UnansweredOK ==
  ASSUME IInv, worker.wait # 0, Unanswered, UNCHANGED <<store, resting, truth>>
  PROVE  /\ StoreOK' /\ worker' \in Loop /\ worker'.wait = 0 /\ Held' /\ buffer' \subseteq Item
         /\ \A i \in buffer' : i.kind = "metrics" => i.v \in Version /\ i.v <= truth[i.acc]
         /\ worker'.task = "none" => worker'.acc \notin resting'
  <1>0. /\ StoreOK /\ worker.acc \in Pooled \cup {None} /\ worker' = After /\ buffer \subseteq Item
        /\ \A i \in buffer : i.kind = "metrics" => i.v \in Version /\ i.v <= truth[i.acc]
    BY DEF IInv, TypeOK, StoreOK, Held, Unanswered, Carried, Rising
  <1>1. StoreOK' /\ Pooled' = Pooled
    BY <1>0, SameStore
  <1>2. worker'.acc \in Pooled' \cup {None}
    BY <1>0, <1>1, AfterSettled
  <1>3. Held'
    BY <1>0, <1>2, AfterSettled DEF Held
  <1>4. \A i \in buffer' : i \in Item /\ (i.kind = "metrics" => i.v \in Version /\ i.v <= truth[i.acc])
    <2> DEFINE r == CHOOSE q \in net : q.id = worker.wait
               i == worker.item
    <2>1. r \in net /\ r \in Request
      BY DEF IInv, TypeOK, Held, Awaits
    <2> HIDE DEF r
    <2>2. CASE worker.at # "flush"
      <3> DEFINE n == [acc |-> r.acc, kind |-> r.kind, v |-> r.v, tries |-> 0]
      <3>1. buffer' = buffer \cup {n}
        BY <2>2 DEF Unanswered, r
      <3>2. n \in Item /\ n.kind = r.kind /\ n.v = r.v /\ n.acc = r.acc
        BY <2>1, Bounds DEF Request, Item
      <3>3. n.kind = "metrics" => n.v \in Version /\ n.v <= truth[n.acc]
        BY <2>1, <3>2 DEF IInv, Carried, Rising
      <3> QED
        BY <1>0, <3>1, <3>2, <3>3
    <2>3. CASE worker.at = "flush" /\ i \notin buffer
      BY <1>0, <2>3 DEF Unanswered
    <2>4. CASE worker.at = "flush" /\ i \in buffer
      <3> DEFINE n == [i EXCEPT !.tries = @ + 1]
      <3> DEFINE dead == i.tries + 1 >= MaxTries
      <3>1. buffer' = (buffer \ {i}) \cup (IF dead THEN {} ELSE {n})
        BY <2>4 DEF Unanswered, Again
      <3>2. CASE ~dead
        <4>1. i \in Item /\ i.tries \in Nat
          BY <1>0, <2>4, Bounds DEF Item
        <4>2. i.tries + 1 \in 0..(MaxTries - 1)
          BY <3>2, <4>1, Bounds
        <4>3. n \in Item /\ n.kind = i.kind /\ n.v = i.v /\ n.acc = i.acc
          BY <4>1, <4>2 DEF Item
        <4> QED
          BY <1>0, <2>4, <3>1, <4>3
      <3>3. CASE dead
        BY <1>0, <3>1, <3>3
      <3> QED
        BY <3>2, <3>3
    <2> QED
      BY <2>2, <2>3, <2>4
  <1> QED
    BY <1>0, <1>1, <1>3, <1>4, AfterSettled

\* What a request that leaves without being processed disturbs.
LEMMA Leaving ==
  ASSUME IInv, NEW r \in net, net' = net \ {r}, UNCHANGED <<truth, shown, positions, batch, mixed>>,
         \A i \in buffer' : i.kind = "metrics" => i.v \in Version /\ i.v <= truth[i.acc],
         worker' = worker \/ worker'.wait = 0
  PROVE  Carried' /\ Distinct' /\ Rising' /\ Newest' /\ Apart'
  <1> USE DEF IInv
  <1>1. Carried' /\ Distinct' /\ Rising'
    BY DEF Carried, Distinct, Rising
  <1>2. Newest'
    BY DEF Newest, TypeOK, Request
  <1>3. Apart'
    BY DEF Apart
  <1> QED
    BY <1>1, <1>2, <1>3

LEMMA GiveUpStep ==
  ASSUME IInv, GiveUp
  PROVE  IInv'
  <1>0. /\ UNCHANGED <<truth, known, shown, positions, net, pool, errors, terminal, round, batch, tasks,
                       acts, resting, mixed>>
        /\ worker.wait # 0 /\ Unanswered
    BY DEF GiveUp, backend, store
  <1>1. /\ StoreOK' /\ worker' \in Loop /\ worker'.wait = 0 /\ Held' /\ buffer' \subseteq Item
        /\ \A i \in buffer' : i.kind = "metrics" => i.v \in Version /\ i.v <= truth[i.acc]
        /\ worker'.task = "none" => worker'.acc \notin resting'
    BY <1>0, UnansweredOK DEF store
  <1>2. faults' \in 0..MaxFaults
    BY FaultTyped DEF GiveUp, IInv
  <1>3. TypeOK'
    BY <1>0, <1>1, <1>2 DEF IInv, TypeOK, StoreOK
  <1>4. Carried' /\ Distinct' /\ Rising' /\ Apart' /\ Rested'
    BY <1>0, <1>1 DEF IInv, Carried, Distinct, Rising, Apart, Rested
  <1>5. Newest'
    BY <1>0, <1>1 DEF IInv, TypeOK, Newest, Request
  <1> QED
    BY <1>1, <1>3, <1>4, <1>5 DEF IInv

LEMMA FailsStep ==
  ASSUME IInv, NEW r \in net, Fails(r)
  PROVE  IInv'
  <1>0. /\ UNCHANGED <<truth, known, shown, positions, pool, errors, terminal, round, batch, tasks,
                       acts, resting, mixed>>
        /\ net' = net \ {r} /\ StoreOK /\ r.id # 0 /\ buffer \subseteq Item /\ net \subseteq Request
    BY DEF Fails, backend, store, IInv, TypeOK, StoreOK, Request
  <1>1. /\ StoreOK' /\ worker' \in Loop /\ Held' /\ buffer' \subseteq Item
        /\ worker' = worker \/ worker'.wait = 0
        /\ \A i \in buffer' : i.kind = "metrics" => i.v \in Version /\ i.v <= truth[i.acc]
        /\ worker'.task = "none" => worker'.acc \notin resting'
    <2>1. CASE worker.wait = r.id
      <3>1. Unanswered
        BY <2>1 DEF Fails
      <3> QED
        BY <1>0, <2>1, <3>1, UnansweredOK DEF store
    <2>2. CASE worker.wait # r.id
      <3>1. UNCHANGED <<worker, buffer>>
        BY <2>2 DEF Fails
      <3>2. StoreOK' /\ Pooled' = Pooled
        BY <1>0, SameStore DEF store
      <3>3. worker.wait # 0 => \E q \in net' : Awaits(q)
        BY <1>0, <2>2 DEF IInv, Held, Awaits
      <3>4. Held'
        BY <3>1, <3>2, <3>3 DEF IInv, Held, Awaits
      <3> QED
        BY <1>0, <3>1, <3>2, <3>4 DEF IInv, TypeOK, Carried, Rising, Rested
    <2> QED
      BY <2>1, <2>2
  <1>2. Carried' /\ Distinct' /\ Rising' /\ Newest' /\ Apart'
    BY <1>0, <1>1, Leaving
  <1>3. faults' \in 0..MaxFaults
    BY FaultTyped DEF Fails, IInv
  <1>4. TypeOK'
    BY <1>0, <1>1, <1>3 DEF IInv, TypeOK, StoreOK
  <1>5. Rested'
    BY <1>0, <1>1 DEF IInv, Rested
  <1> QED
    BY <1>1, <1>2, <1>4, <1>5 DEF IInv

-----------------------------------------------------------------------------
(* What the backend saves.                                                 *)

LEMMA SaveMetricsStep ==
  ASSUME IInv, NEW r \in net, SaveMetrics(r)
  PROVE  IInv'
  <1>0. /\ UNCHANGED <<truth, known, positions, terminal, round, batch, tasks, faults, acts, resting, mixed>>
        /\ r.kind = "metrics" /\ net' = net \ {r} /\ net \subseteq Request /\ buffer \subseteq Item
        /\ Answered(r, r.acc \in known) /\ r.acc \in Accounts /\ r.v \in Version /\ r.v <= truth[r.acc]
    BY DEF SaveMetrics, IInv, TypeOK, Request, Carried, Rising
  <1>1. /\ StoreOK' /\ worker' \in Loop /\ buffer' \subseteq buffer /\ Held'
        /\ worker' = worker \/ worker'.wait = 0
        /\ worker'.task = "none" => worker'.acc \notin resting'
    <2>1. PICK found \in BOOLEAN : Answered(r, found)
      BY <1>0, FoundOrNot
    <2> QED
      BY <1>0, <2>1, AnsweredOK
  <1>2. /\ shown' \in [Accounts -> Version]
        /\ \A a \in Accounts : shown'[a] = shown[a] \/ (a = r.acc /\ shown'[a] = r.v)
    <2>1. shown \in [Accounts -> Version] /\ (shown' = shown \/ shown' = [shown EXCEPT ![r.acc] = r.v])
      BY DEF SaveMetrics, IInv, TypeOK
    <2> QED
      BY <1>0, <2>1
  <1>3. TypeOK'
    BY <1>0, <1>1, <1>2 DEF IInv, TypeOK, StoreOK
  <1>4. Carried' /\ Distinct' /\ Apart'
    BY <1>0, <1>1 DEF IInv, Carried, Distinct, Apart
  <1>5. Rising'
    BY <1>0, <1>1, <1>2 DEF IInv, Rising
  <1>6. Newest'
    <2>1. CASE worker' = worker
      <3>1. ASSUME NEW q \in net', q.kind = "metrics", worker.at = "metrics", q.id = worker.wait
            PROVE  shown'[q.acc] <= q.v
        <4>1. shown[q.acc] <= q.v /\ (r.acc = q.acc => r.v <= q.v) /\ q.acc \in Accounts
          BY <1>0, <3>1 DEF IInv, Newest, Request
        <4> QED
          BY <1>2, <4>1
      <3> QED
        BY <1>0, <2>1, <3>1 DEF IInv, Newest
    <2>2. CASE worker'.wait = 0
      BY <1>0, <2>2 DEF Newest, Request
    <2> QED
      BY <1>1, <2>1, <2>2
  <1>7. Rested'
    BY <1>0, <1>1 DEF IInv, Rested
  <1> QED
    BY <1>1, <1>3, <1>4, <1>5, <1>6, <1>7 DEF IInv

LEMMA DeletePositionsStep ==
  ASSUME IInv, NEW r \in net, DeletePositions(r)
  PROVE  IInv'
  <1>0. /\ UNCHANGED <<truth, known, shown, terminal, round, batch, tasks, faults, acts, resting, mixed>>
        /\ r.kind = "positions" /\ r \in Request /\ r.acc \in Accounts /\ net \subseteq Request /\ buffer \subseteq Item
        /\ positions' = positions \/ positions' = [positions EXCEPT ![r.acc] = {}]
    BY DEF DeletePositions, Wiped, IInv, TypeOK, Request
  <1>1. /\ positions' \in [Accounts -> SUBSET (Version \X (1..2))]
        /\ \A a \in Accounts : positions'[a] = positions[a] \/ positions'[a] = {}
    BY <1>0 DEF IInv, TypeOK
  <1>2. CASE r.acc \in known /\ r.v # None
    <2> DEFINE n == [r EXCEPT !.at = "deleted"]
    <2>1. /\ net' = (net \ {r}) \cup {n} /\ UNCHANGED <<worker, pool, errors, buffer>>
          /\ positions' = [positions EXCEPT ![r.acc] = {}]
      BY <1>2 DEF DeletePositions, Wiped, store
    <2>2. /\ n \in Request /\ n.at = "deleted" /\ n.acc = r.acc /\ n.kind = "positions" /\ n.v = r.v /\ n.id = r.id
          /\ r.v \in Version
      BY <1>0, <1>2 DEF Request, Content
    <2> HIDE DEF n
    <2>3. positions'[r.acc] = {}
      BY <1>0, <2>1 DEF IInv, TypeOK
    <2>4. TypeOK'
      BY <1>0, <1>1, <2>1, <2>2 DEF IInv, TypeOK, Pooled
    <2>5. Carried' /\ Rising'
      BY <1>0, <2>1, <2>2 DEF IInv, Carried, Rising
    <2>6. Distinct'
      BY <2>1, <2>2 DEF IInv, Distinct
    <2>7. Newest'
      BY <1>0, <2>1, <2>2 DEF IInv, Newest
    <2>8. Apart'
      <3> SUFFICES ASSUME NEW b \in Accounts \ mixed
                   PROVE  /\ \A p, q \in positions'[b] : p = q
                          /\ \A x, y \in net' :
                               x.kind = "positions" /\ y.kind = "positions" /\ x.acc = b /\ y.acc = b => x = y
                          /\ \A x \in net' : x.acc = b /\ x.at = "deleted" => positions'[b] = {}
        BY <1>0 DEF Apart
      <3>1. \A p, q \in positions'[b] : p = q
        BY <1>1 DEF IInv, Apart
      <3>2. ASSUME NEW x \in net', NEW y \in net', x.kind = "positions", y.kind = "positions", x.acc = b, y.acc = b
            PROVE  x = y
        <4>1. \A u, w \in net : u.kind = "positions" /\ w.kind = "positions" /\ u.acc = b /\ w.acc = b => u = w
          BY DEF IInv, Apart
        <4> QED
          BY <1>0, <2>1, <2>2, <3>2, <4>1
      <3>3. \A x \in net' : x.acc = b /\ x.at = "deleted" => positions'[b] = {}
        BY <1>1, <2>1, <2>2, <2>3 DEF IInv, Apart
      <3> QED
        BY <3>1, <3>2, <3>3
    <2>9. Held' /\ Rested'
      <3>1. worker.wait # 0 => \E q \in net' : Awaits(q)
        <4>1. Awaits(r) => Awaits(n)
          BY <1>0, <2>2 DEF Awaits
        <4> QED
          BY <2>1, <4>1 DEF IInv, Held
      <3> QED
        BY <1>0, <2>1, <3>1 DEF IInv, Held, Awaits, Rested, Pooled
    <2> QED
      BY <2>4, <2>5, <2>6, <2>7, <2>8, <2>9 DEF IInv
  <1>3. CASE ~(r.acc \in known /\ r.v # None)
    <2>1. net' = net \ {r} /\ Answered(r, r.acc \in known)
      BY <1>3 DEF DeletePositions
    <2>2. /\ StoreOK' /\ worker' \in Loop /\ buffer' \subseteq buffer /\ Held'
          /\ worker' = worker \/ worker'.wait = 0
          /\ worker'.task = "none" => worker'.acc \notin resting'
      <3>1. PICK found \in BOOLEAN : Answered(r, found)
        BY <2>1, FoundOrNot
      <3> QED
        BY <1>0, <2>1, <3>1, AnsweredOK
    <2>3. TypeOK'
      BY <1>0, <1>1, <2>1, <2>2 DEF IInv, TypeOK, StoreOK
    <2>4. Carried' /\ Distinct' /\ Rising'
      BY <1>0, <2>1, <2>2 DEF IInv, Carried, Distinct, Rising
    <2>5. Newest'
      BY <1>0, <2>1, <2>2 DEF IInv, Newest, Request
    <2>6. Apart'
      BY <1>0, <1>1, <2>1 DEF IInv, Apart
    <2>7. Rested'
      BY <1>0, <2>2 DEF IInv, Rested
    <2> QED
      BY <2>2, <2>3, <2>4, <2>5, <2>6, <2>7 DEF IInv
  <1> QED
    BY <1>2, <1>3

LEMMA SavePositionsStep ==
  ASSUME IInv, NEW r \in net, SavePositions(r)
  PROVE  IInv'
  <1>0. /\ UNCHANGED <<truth, known, shown, terminal, round, batch, tasks, faults, acts, resting, mixed>>
        /\ r.at = "deleted" /\ r.kind = "positions" /\ r.v \in Version /\ r.acc \in Accounts /\ r.id \in 1..2
        /\ net' = net \ {r} /\ net \subseteq Request /\ buffer \subseteq Item
        /\ positions' = [positions EXCEPT ![r.acc] = @ \cup {<<r.v, r.id>>}]
    BY DEF SavePositions, IInv, TypeOK, Request, Carried
  <1>1. /\ StoreOK' /\ worker' \in Loop /\ buffer' \subseteq buffer /\ Held'
        /\ worker' = worker \/ worker'.wait = 0
        /\ worker'.task = "none" => worker'.acc \notin resting'
    BY <1>0, AnsweredOK DEF SavePositions
  <1>2. /\ positions' \in [Accounts -> SUBSET (Version \X (1..2))]
        /\ \A a \in Accounts : positions'[a] = IF a = r.acc THEN positions[a] \cup {<<r.v, r.id>>} ELSE positions[a]
    <2> DEFINE T == Version \X (1..2)
               S == positions[r.acc] \cup {<<r.v, r.id>>}
    <2>1. positions \in [Accounts -> SUBSET T]
      BY DEF IInv, TypeOK
    <2>2. <<r.v, r.id>> \in T
      BY <1>0
    <2>3. positions' = [positions EXCEPT ![r.acc] = S]
      BY <1>0
    <2>4. S \in SUBSET T
      BY <1>0, <2>1, <2>2
    <2> HIDE DEF T, S
    <2>5. positions' \in [Accounts -> SUBSET T] /\ \A a \in Accounts : positions'[a] = IF a = r.acc THEN S ELSE positions[a]
      BY <1>0, <2>1, <2>3, <2>4
    <2> QED
      BY <2>5 DEF T, S
  <1>3. TypeOK'
    BY <1>0, <1>1, <1>2 DEF IInv, TypeOK, StoreOK
  <1>4. Carried' /\ Distinct' /\ Rising'
    BY <1>0, <1>1 DEF IInv, Carried, Distinct, Rising
  <1>5. Newest'
    BY <1>0, <1>1 DEF IInv, Newest, Request
  <1>6. Apart'
    <2> SUFFICES ASSUME NEW b \in Accounts \ mixed
                 PROVE  /\ \A p, q \in positions'[b] : p = q
                        /\ \A x, y \in net' :
                             x.kind = "positions" /\ y.kind = "positions" /\ x.acc = b /\ y.acc = b => x = y
                        /\ \A x \in net' : x.acc = b /\ x.at = "deleted" => positions'[b] = {}
      BY <1>0 DEF Apart
    <2>1. \A x, y \in net : x.kind = "positions" /\ y.kind = "positions" /\ x.acc = b /\ y.acc = b => x = y
      BY DEF IInv, Apart
    <2>2. CASE b = r.acc
      <3>1. positions'[b] = {<<r.v, r.id>>}
        BY <1>0, <1>2, <2>2 DEF IInv, Apart
      <3>2. \A x \in net' : ~(x.acc = b /\ x.at = "deleted")
        BY <1>0, <2>1, <2>2 DEF IInv, Carried
      <3> QED
        BY <1>0, <2>1, <3>1, <3>2
    <2>3. CASE b # r.acc
      BY <1>0, <1>2, <2>1, <2>3 DEF IInv, Apart
    <2> QED
      BY <2>2, <2>3
  <1>7. Rested'
    BY <1>0, <1>1 DEF IInv, Rested
  <1> QED
    BY <1>1, <1>3, <1>4, <1>5, <1>6, <1>7 DEF IInv

-----------------------------------------------------------------------------
(* Around them.                                                            *)

\* Steps beside the worker that touch neither its pool nor what is on its way.
LEMMA Beside ==
  ASSUME IInv, UNCHANGED <<shown, net, pool, errors, worker, round, buffer, batch, resting, mixed>>,
         truth' \in [Accounts -> Version], \A a \in Accounts : truth[a] <= truth'[a],
         positions' \in [Accounts -> SUBSET (Version \X (1..2))],
         \A a \in Accounts : positions'[a] = positions[a] \/ positions'[a] = {},
         known' \subseteq Accounts, terminal' \in Accounts \cup {None},
         tasks' \subseteq [acc : Accounts, kind : Kinds],
         faults' \in 0..MaxFaults, acts' \in 0..MaxActs
  PROVE  IInv'
  <1> USE DEF IInv
  <1>1. TypeOK'
    BY DEF TypeOK, Pooled
  <1>2. Carried' /\ Distinct' /\ Newest' /\ Rested'
    BY DEF Carried, Distinct, Newest, Rested
  <1>3. Rising'
    <2>1. /\ \A a \in Accounts : shown[a] \in Nat /\ truth[a] \in Nat /\ truth'[a] \in Nat
          /\ \A i \in buffer \cup batch : i.kind = "metrics" => i.v \in Nat /\ i.acc \in Accounts
          /\ \A r \in net : r.kind = "metrics" => r.v \in Nat /\ r.acc \in Accounts
      BY DEF TypeOK, Carried, Version, Item, Request
    <2>2. \A a \in Accounts : shown'[a] <= truth'[a]
      BY <2>1 DEF Rising
    <2>3. \A i \in buffer \cup batch : i.kind = "metrics" => i.v <= truth'[i.acc]
      BY <2>1 DEF Rising
    <2>4. \A r \in net : r.kind = "metrics" => r.v <= truth'[r.acc]
      BY <2>1 DEF Rising
    <2> QED
      BY <2>2, <2>3, <2>4 DEF Rising
  <1>4. Held'
    BY DEF Held, Awaits, Pooled
  <1>5. Apart'
    BY DEF Apart
  <1> QED
    BY <1>1, <1>2, <1>3, <1>4, <1>5

LEMMA AroundStep ==
  ASSUME IInv, Around \/ TerminalDrops \/ UNCHANGED vars
  PROVE  IInv'
  <1>0. /\ truth \in [Accounts -> Version] /\ positions \in [Accounts -> SUBSET (Version \X (1..2))]
        /\ \A a \in Accounts : truth[a] \in Nat
        /\ known \subseteq Accounts /\ terminal \in Accounts \cup {None}
        /\ tasks \subseteq [acc : Accounts, kind : Kinds]
        /\ faults \in 0..MaxFaults /\ acts \in 0..MaxActs
    BY DEF IInv, TypeOK, Version
  <1>1. ASSUME NEW a \in Accounts, Change(a) PROVE IInv'
    <2>1. /\ truth' \in [Accounts -> Version] /\ \A b \in Accounts : truth[b] <= truth'[b]
      BY <1>0, <1>1, Bounds DEF Change, Version
    <2> QED
      BY <1>0, <1>1, <2>1, Beside DEF Change, backend, store
  <1>2. ASSUME NEW a \in Accounts, Delete(a) PROVE IInv'
    <2>1. /\ positions' \in [Accounts -> SUBSET (Version \X (1..2))]
          /\ \A b \in Accounts : positions'[b] = positions[b] \/ positions'[b] = {}
          /\ known' \subseteq Accounts /\ acts' \in 0..MaxActs
      BY <1>0, <1>2, ActTyped DEF Delete, IInv
    <2> QED
      BY <1>0, <1>2, <2>1, Beside DEF Delete, store
  <1>3. ASSUME NEW a \in Accounts, NEW kind \in Kinds, Ask([acc |-> a, kind |-> kind]) PROVE IInv'
    <2>1. tasks' \subseteq [acc : Accounts, kind : Kinds] /\ acts' \in 0..MaxActs
      BY <1>0, <1>3, ActTyped DEF Ask, IInv
    <2> QED
      BY <1>0, <1>3, <2>1, Beside DEF Ask, backend, store
  <1>4. CASE TerminalDrops
    <2>1. terminal' = None /\ faults' \in 0..MaxFaults
      BY <1>4, FaultTyped DEF TerminalDrops, IInv
    <2> QED
      BY <1>0, <1>4, <2>1, Beside DEF TerminalDrops, backend, store
  <1>5. CASE UNCHANGED vars
    BY <1>0, <1>5, Beside DEF vars, backend, store
  <1> QED
    BY <1>1, <1>2, <1>3, <1>4, <1>5 DEF Around

LEMMA NextOK == IInv /\ [Next]_vars => IInv'
  <1> SUFFICES ASSUME IInv, [Next]_vars PROVE IInv'
    OBVIOUS
  <1>1. CASE Tasking
    BY <1>1, TaskStep DEF Tasking
  <1>2. CASE Syncing
    BY <1>2, StartRoundStep, NextOfRoundStep, ConnectStep, MetricsStep, PositionsStep, TradesStep DEF Syncing
  <1>3. CASE Flushing
    BY <1>3, StartFlushStep, FlushNextStep DEF Flushing
  <1>4. CASE Serving
    BY <1>4, SaveMetricsStep, DeletePositionsStep, SavePositionsStep DEF Serving
  <1>5. CASE Failing
    BY <1>5, GiveUpStep, AroundStep, RestartStep, FailsStep DEF Failing
  <1>6. CASE Around \/ UNCHANGED vars
    BY <1>6, AroundStep
  <1> QED
    BY <1>1, <1>2, <1>3, <1>4, <1>5, <1>6 DEF Next

THEOREM Invariant == Spec => []IInv
  BY InitOK, NextOK, PTL DEF Spec

-----------------------------------------------------------------------------
(* What follows.                                                           *)

\* Every state is one of the types the module declares; the pool never holds
\* more accounts than it may.
THEOREM TypeCorrect == Spec => []TypeOK
  <1>1. IInv => TypeOK
    BY DEF IInv
  <1> QED
    BY <1>1, Invariant, PTL

\* The rows of positions are of one snapshot, unless two were on their way at once.
THEOREM SnapshotsDoNotMix == Spec => []OneSnapshot
  <1>1. ASSUME IInv PROVE OneSnapshot
    <2>1. ASSUME NEW a \in Accounts, a \notin mixed PROVE ~(Cardinality(positions[a]) > 1)
      <3>1. \A p, q \in positions[a] : p = q
        BY <1>1, <2>1 DEF IInv, Apart
      <3>2. positions[a] = {} \/ \E p \in positions[a] : positions[a] = {p}
        BY <3>1
      <3>3. Cardinality(positions[a]) \in {0, 1}
        BY <3>2, FS_EmptySet, FS_Singleton
      <3> QED
        BY <3>3
    <2> QED
      BY <2>1 DEF OneSnapshot
  <1> QED
    BY <1>1, Invariant, PTL

\* The loop sets nobody's state but that of the account it is at.
LEMMA Comeback ==
  ASSUME IInv, [Next]_vars, NEW a \in Accounts, pool[a] = "FAILED", pool'[a] \in {"ONLINE", "OFFLINE"}
  PROVE  \/ \E t \in tasks \ tasks' : t.acc = a /\ t.kind = "START"
         \/ worker.acc = a /\ (worker.task # "none" \/ a \notin resting)
  <1>0. pool \in [Accounts -> {"out", "ONLINE", "OFFLINE", "FAILED"}] /\ pool' # pool
    BY DEF IInv, TypeOK
  <1>1. CASE Tasking
    <2>1. PICK t \in tasks : TakeTask(t)
      BY <1>1 DEF Tasking
    <2>2. t \in tasks \ tasks' /\ ((t.kind = "START" /\ Added(t.acc)) \/ Removed(t.acc) \/ UNCHANGED store)
      BY <2>1 DEF TakeTask
    <2>3. \A b \in Accounts : pool'[b] \in {pool[b], "out"} \/ (t.kind = "START" /\ t.acc = b)
      BY <1>0, <2>2 DEF Added, Removed, store
    <2> QED
      BY <2>2, <2>3
  <1>2. CASE Connect \/ SendTrades
    <2>1. \/ Added(worker.acc) \/ UNCHANGED store
          \/ \E auth \in BOOLEAN : Marked(worker.acc, auth)
      BY <1>2 DEF Connect, SendTrades, Checkpoint
    <2>2. \A b \in Accounts : b # worker.acc => pool'[b] = pool[b]
      BY <1>0, <2>1 DEF Added, Marked, store
    <2>3. worker.acc = a
      BY <2>2
    <2> QED
      BY <2>3 DEF IInv, Rested
  <1>3. CASE Serving
    <2>1. PICK r \in net : (\E found \in BOOLEAN : Answered(r, found)) \/ UNCHANGED store
      <3>1. PICK r \in net : SaveMetrics(r) \/ DeletePositions(r) \/ SavePositions(r)
        BY <1>3 DEF Serving
      <3>2. CASE SaveMetrics(r)
        BY <3>2, FoundOrNot DEF SaveMetrics
      <3>3. CASE DeletePositions(r)
        BY <3>3, FoundOrNot DEF DeletePositions
      <3>4. CASE SavePositions(r)
        BY <3>4 DEF SavePositions
      <3> QED
        BY <3>1, <3>2, <3>3, <3>4
    <2>2. Removed(r.acc) \/ UNCHANGED store
      BY <2>1 DEF Answered
    <2>3. \A b \in Accounts : pool'[b] \in {pool[b], "out"}
      BY <1>0, <2>2 DEF Removed, store
    <2> QED
      BY <2>3
  <1>4. CASE Restart
    BY <1>4 DEF Restart, Loaded
  <1>5. CASE \/ StartRound \/ NextOfRound \/ SendMetrics \/ SendPositions \/ Flushing
             \/ GiveUp \/ TerminalDrops \/ (\E r \in net : Fails(r)) \/ Around \/ UNCHANGED vars
    <2>1. UNCHANGED pool
      BY <1>5 DEF StartRound, NextOfRound, SendMetrics, SendPositions, Flushing, StartFlush, FlushNext,
                  GiveUp, TerminalDrops, Fails, Around, Change, Delete, Ask, vars, store
    <2> QED
      BY <1>0, <2>1
  <1> QED
    BY <1>1, <1>2, <1>3, <1>4, <1>5 DEF Next, Syncing, Failing

\* A quarantined account comes back by a task for it, or by the round during
\* which it was quarantined: never by a later round, a delayed answer or a restart.
THEOREM QuarantineIsKept == Spec => QuarantineHolds
  <1>1. IInv /\ [Next]_vars =>
          [\A a \in Accounts : pool[a] = "FAILED" /\ pool'[a] \in {"ONLINE", "OFFLINE"} =>
             \/ \E t \in tasks \ tasks' : t.acc = a /\ t.kind = "START"
             \/ worker.acc = a /\ (worker.task # "none" \/ a \notin resting)]_vars
    BY Comeback
  <1> QED
    BY <1>1, Invariant, PTL DEF Spec, QuarantineHolds

\* Metrics the loop waits for are no older than what is shown, so only those of
\* the buffer, or those it has given up, can be.
LEMMA Backward ==
  ASSUME IInv, [Next]_vars, NEW a \in Accounts, shown'[a] < shown[a]
  PROVE  \E r \in net \ net' : r.acc = a /\ (worker.at = "flush" \/ r.id # worker.wait)
  <1>0. shown \in [Accounts -> Version] /\ shown[a] \in Nat /\ shown' # shown
    BY Bounds DEF IInv, TypeOK, Version
  <1>1. \E r \in net : SaveMetrics(r)
    <2>1. CASE Next
      BY <1>0, <2>1 DEF Next, Tasking, TakeTask, Syncing, StartRound, NextOfRound, Connect, SendMetrics, SendPositions,
                 SendTrades, Flushing, StartFlush, FlushNext, Serving, DeletePositions, SavePositions, Failing,
                 GiveUp, TerminalDrops, Restart, Fails, Around, Change, Delete, Ask, backend
    <2>2. CASE UNCHANGED vars
      BY <1>0, <2>2 DEF vars, backend
    <2> QED
      BY <2>1, <2>2
  <1>2. PICK r \in net : SaveMetrics(r)
    BY <1>1
  <1>3. /\ r \in net \ net' /\ r.kind = "metrics" /\ r \in Request
        /\ shown' = shown \/ shown' = [shown EXCEPT ![r.acc] = r.v]
    BY <1>2 DEF SaveMetrics, IInv, TypeOK
  <1>4. r.acc = a /\ r.v < shown[a]
    BY <1>0, <1>3
  <1>5. worker.at = "flush" \/ r.id # worker.wait
    <2> SUFFICES ASSUME worker.at # "flush", r.id = worker.wait PROVE FALSE
      OBVIOUS
    <2>1. PICK q \in net : Awaits(q)
      BY <1>3 DEF Request, IInv, Held
    <2>2. q = r
      BY <2>1 DEF Awaits, IInv, Distinct
    <2>3. worker.at = "metrics"
      BY <1>3, <2>1, <2>2 DEF Awaits
    <2>4. shown[r.acc] <= r.v /\ r.v \in Nat
      BY <1>3, <2>3, Bounds DEF IInv, Newest, Carried, Version
    <2> QED
      BY <1>0, <1>4, <2>4
  <1> QED
    BY <1>3, <1>4, <1>5

\* The balance goes back to an older version only by an item of the offline
\* buffer or by a request the worker has given up.
THEOREM BackwardOnlyByBuffer == Spec => BackOnlyByBuffer
  <1>1. IInv /\ [Next]_vars =>
          [\A a \in Accounts : shown'[a] < shown[a] =>
             \E r \in net \ net' : r.acc = a /\ (worker.at = "flush" \/ r.id # worker.wait)]_vars
    BY Backward
  <1> QED
    BY <1>1, Invariant, PTL DEF Spec, BackOnlyByBuffer

LEMMA AnsweredPurge ==
  ASSUME NEW r \in net, r.acc \in Accounts, Answered(r, r.acc \in known), NEW i \in buffer \ buffer', i.acc \in known
  PROVE  \/ worker.at = "flush" /\ worker.item = i
         \/ \E a \in Accounts \ known : <<a, i.acc>> \in Holds
  <1>1. worker.at = "flush" /\ buffer' = IF r.acc \in known THEN buffer \ {worker.item} ELSE Purge(r.acc) \ {worker.item}
    BY DEF Answered
  <1> QED
    BY <1>1 DEF Purge

LEMMA Purging ==
  ASSUME IInv, [Next]_vars, NEW i \in buffer \ buffer', i.acc \in known
  PROVE  \/ worker.at = "flush" /\ worker.item = i
         \/ \E a \in Accounts \ known : <<a, i.acc>> \in Holds
  <1>0. \A r \in net : r.acc \in Accounts
    BY DEF IInv, TypeOK, Request
  <1>1. CASE Serving
    <2>1. PICK r \in net : SaveMetrics(r) \/ DeletePositions(r) \/ SavePositions(r)
      BY <1>1 DEF Serving
    <2>2. CASE SaveMetrics(r)
      BY <1>0, <2>2, AnsweredPurge DEF SaveMetrics
    <2>3. CASE DeletePositions(r)
      BY <1>0, <2>3, AnsweredPurge DEF DeletePositions
    <2>4. CASE SavePositions(r)
      BY <2>4 DEF SavePositions, Answered
    <2> QED
      BY <2>1, <2>2, <2>3, <2>4
  <1>2. CASE GiveUp \/ \E r \in net : Fails(r)
    BY <1>2 DEF GiveUp, Fails, Unanswered
  <1>3. CASE Tasking \/ Syncing \/ Flushing \/ TerminalDrops \/ Restart \/ Around \/ UNCHANGED vars
    <2>1. UNCHANGED buffer
      BY <1>3 DEF Tasking, TakeTask, Syncing, StartRound, NextOfRound, Connect, SendMetrics, SendPositions, SendTrades,
                  Flushing, StartFlush, FlushNext, TerminalDrops, Restart, Around, Change, Delete, Ask, vars
    <2> QED
      BY <2>1
  <1> QED
    BY <1>1, <1>2, <1>3 DEF Next, Failing

\* What is buffered for an account the backend knows is lost only as a dead
\* letter, or with what is purged of an account that is gone.
THEOREM PurgeIsConfined == Spec => PurgeSpares
  <1>1. IInv /\ [Next]_vars =>
          [\A i \in buffer \ buffer' : i.acc \in known =>
             \/ worker.at = "flush" /\ worker.item = i
             \/ \E a \in Accounts \ known : <<a, i.acc>> \in Holds]_vars
    BY Purging
  <1> QED
    BY <1>1, Invariant, PTL DEF Spec, PurgeSpares
=============================================================================
