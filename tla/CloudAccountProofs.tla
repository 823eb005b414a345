------------------------- MODULE CloudAccountProofs -------------------------
(***************************************************************************)
(* No task is executed again but for something that was lost, and who      *)
(* disconnects an account last stays disconnected: for any number of       *)
(* tasks, any times of redispatch and memory, and any faults.              *)
(*                                                                         *)
(* The first invariant counts: as long as a task may still be handed out,  *)
(* or is already waiting in the batch, its executions are paid for by      *)
(* faults. Only the task in hand is ahead by one, and its outcome pays for *)
(* it.                                                                     *)
(***************************************************************************)
EXTENDS MCCloudAccount, TLAPS

TaskRecord == [type : TaskType, status : Status, age : 0 .. Redispatch + 1]
Place == {"idle", "taken", "login", "sync", "done", "refused", "failed", "told", "untold"}

\* What the worker holds are tasks that were created.
HandOK ==
  /\ \A t \in batch : task[t].status # "none"
  /\ hand.at # "idle" => hand.task \in Task /\ task[hand.task].status # "none"
  /\ hand.at \in {"told", "untold"} => task[hand.task].type \in {"START", "STOP"}

\* The worker is at t, and its outcome is still to be acknowledged.
InHand(t) == hand.task = t /\ hand.at \notin {"idle", "told", "untold"}

PaidFor(t) ==
  /\ runs[t] <= 1 + faults
  /\ t \in batch => runs[t] <= faults
  /\ task[t].status \in {"none", "RECEIVED"} => runs[t] <= faults
  /\ task[t].status = "IN_PROGRESS" /\ ~InHand(t) => runs[t] <= faults

IInv ==
  /\ TypeOK
  /\ HandOK
  /\ \A t \in Task : PaidFor(t)

LEMMA Numbers ==
  /\ MaxTasks \in Nat /\ Redispatch \in Nat /\ Dedup \in Nat /\ TokenLife \in Nat
  /\ Grace \in Nat /\ Offline \in Nat /\ MaxFaults \in Nat
  BY CloudAccountAssumption

\* An age stays within its limit.
LEMMA OlderBounded == ASSUME NEW limit \in Nat, NEW age \in 0 .. limit PROVE Older(age, limit) \in 0 .. limit
  BY DEF Older

\* An ack changes one task, to what it says, unless that task is gone; it keeps
\* its type.
LEMMA AckedTyped ==
  ASSUME TypeOK, NEW t \in Task, NEW status \in {"IN_PROGRESS", "SUCCESS", "FAILED"},
         task[t].status # "none", Acked(t, status)
  PROVE  /\ task' \in [Task -> TaskRecord]
         /\ state' \in State
         /\ audits' \subseteq Task \X Final
         /\ \A u \in Task : task'[u].type = task[u].type
         /\ \A u \in Task \ {t} : task'[u] = task[u]
         /\ task'[t].status \in {status, "gone"}
  <1>1. CASE task[t].status = "gone"
    BY <1>1 DEF Acked, TypeOK, TaskRecord
  <1>2. CASE task[t].status # "gone"
    <2>1. /\ task' = [task EXCEPT ![t].status = status]
          /\ audits' = IF status \in Final THEN audits \cup {<<t, status>>} ELSE audits
          /\ state' \in {"CONNECTING", "SYNCING", "DISCONNECTED", "CONNECTED", "AUTH_FAILED", state}
      BY <1>2 DEF Acked
    <2>2. task \in [Task -> TaskRecord]
      BY DEF TypeOK, TaskRecord
    <2>3. [task[t] EXCEPT !.status = status] \in TaskRecord
      BY <2>2 DEF TaskRecord, Status, Final
    <2>4. task' \in [Task -> TaskRecord]
      BY <2>1, <2>2, <2>3
    <2>5. \A u \in Task : task'[u].type = task[u].type
      BY <2>1, <2>2 DEF TaskRecord
    <2>6. state' \in State
      BY <2>1 DEF TypeOK, State
    <2>7. audits' \subseteq Task \X Final
      BY <2>1 DEF TypeOK
    <2> QED
      BY <2>1, <2>2, <2>4, <2>5, <2>6, <2>7 DEF TaskRecord
  <1> QED
    BY <1>1, <1>2

THEOREM InitOK == Init => IInv
  <1> SUFFICES ASSUME Init PROVE IInv
    OBVIOUS
  <1> USE Numbers DEF Init, Nothing
  <1>1. task \in [Task -> TaskRecord]
    BY DEF TaskRecord, TaskType, Status
  <1>2. pool \in [status : {"absent", "ONLINE", "OFFLINE", "FAILED"}, errors : 0 .. 2]
    BY DEF Absent
  <1>5. /\ token \in [Task -> 0 .. TokenLife] /\ processed \in [Task -> 0 .. Dedup]
        /\ runs \in [Task -> Nat]
    BY DEF Forgotten
  <1>6. row \in [connected : BOOLEAN, age : 0 .. Offline] /\ faults \in 0 .. MaxFaults
    OBVIOUS
  <1>7. hand \in [task : 0 .. MaxTasks, at : Place]
    BY DEF Place
  <1>3. TypeOK
    BY <1>1, <1>2, <1>5, <1>6, <1>7 DEF TypeOK, TaskRecord, State, Place
  <1>4. HandOK /\ \A t \in Task : PaidFor(t)
    BY DEF HandOK, PaidFor
  <1> QED
    BY <1>3, <1>4 DEF IInv

-----------------------------------------------------------------------------
(***************************************************************************)
(* Steps of the backend.                                                   *)
(***************************************************************************)

LEMMA TickStep == ASSUME IInv, Tick PROVE IInv'
  <1> USE Numbers DEF IInv, Tick
  <1>1. task \in [Task -> TaskRecord]
    BY DEF TypeOK, TaskRecord
  <1>2. ASSUME NEW t \in Task
        PROVE  /\ task'[t] = [task[t] EXCEPT !.age = Older(@, Redispatch + 1)]
               /\ task'[t] \in TaskRecord
               /\ task'[t].status = task[t].status
               /\ task'[t].type = task[t].type
    <2>1. Older(task[t].age, Redispatch + 1) \in 0 .. Redispatch + 1
      <3>1. task[t].age \in 0 .. Redispatch + 1 /\ Redispatch + 1 \in Nat
        BY <1>1 DEF TaskRecord
      <3> QED
        BY <3>1, OlderBounded
    <2>2. task'[t] = [task[t] EXCEPT !.age = Older(@, Redispatch + 1)]
      BY DEF Tick
    <2> QED
      BY <1>1, <2>1, <2>2 DEF TaskRecord
  <1>3. task' \in [Task -> TaskRecord]
    BY <1>2
  <1>4. token' \in [Task -> 0 .. TokenLife]
    BY DEF TypeOK
  <1>5. row' \in [connected : BOOLEAN, age : 0 .. Offline]
    BY OlderBounded DEF TypeOK
  <1>6. processed' \in [Task -> 0 .. Dedup]
    BY OlderBounded DEF TypeOK, Forgotten
  <1>7. TypeOK'
    BY <1>3, <1>4, <1>5, <1>6 DEF TypeOK, TaskRecord
  <1>8. HandOK'
    BY <1>2 DEF HandOK, TypeOK
  <1>9. \A t \in Task : PaidFor(t)'
    BY <1>2 DEF PaidFor, InHand
  <1> QED
    BY <1>7, <1>8, <1>9

LEMMA CreateTaskStep == ASSUME IInv, NEW type \in Types, CreateTask(type) PROVE IInv'
  <1> USE Numbers DEF IInv
  <1>1. PICK t \in Unused : CreateTask(type)!(t)
    BY DEF CreateTask
  <1>2. task \in [Task -> TaskRecord] /\ t \in Task /\ task[t].status = "none"
        /\ type \in TaskType
    BY CloudAccountAssumption DEF TypeOK, TaskRecord, Unused
  <1>3. ASSUME NEW u \in Task
        PROVE  /\ task'[u] \in TaskRecord
               /\ task[u].status # "none" => task'[u].status # "none" /\ task'[u].type = task[u].type
               /\ task'[u].status # "gone" =>
                    task'[u].status = task[u].status \/ task[u].status = "none"
               /\ task'[u].status = "IN_PROGRESS" => task[u].status = "IN_PROGRESS"
    <2>1. CASE u = t
      BY <1>1, <1>2, <2>1 DEF TaskRecord, Status
    <2>2. CASE u # t /\ u \in Superseded(type)
      BY <1>1, <1>2, <2>2 DEF TaskRecord, Status, Superseded
    <2>3. CASE u # t /\ u \notin Superseded(type)
      BY <1>1, <1>2, <2>3
    <2> QED
      BY <2>1, <2>2, <2>3
  <1>4. task' \in [Task -> TaskRecord]
    BY <1>1, <1>3
  <1>5. TypeOK'
    <2>1. token' \in [Task -> 0 .. TokenLife]
      <3>1. token' = [token EXCEPT ![t] = IF type = "START" THEN TokenLife ELSE 0]
        BY <1>1
      <3>2. (IF type = "START" THEN TokenLife ELSE 0) \in 0 .. TokenLife
        OBVIOUS
      <3> QED
        BY <3>1, <3>2 DEF TypeOK
    <2>2. row' \in {row, [row EXCEPT !.connected = FALSE]}
      BY <1>1
    <2>3. row' \in [connected : BOOLEAN, age : 0 .. Offline]
      BY <2>2 DEF TypeOK
    <2>4. state' \in State
      BY <1>1 DEF TypeOK, State
    <2> QED
      BY <1>1, <1>4, <2>1, <2>3, <2>4 DEF TypeOK, TaskRecord, worker
  <1>6. HandOK'
    <2>1. batch' = batch /\ hand' = hand /\ batch \subseteq Task
      BY <1>1 DEF TypeOK, worker
    <2> QED
      BY <1>3, <2>1 DEF HandOK
  <1>7. \A u \in Task : PaidFor(u)'
    BY <1>1, <1>3 DEF PaidFor, InHand, worker, TypeOK
  <1> QED
    BY <1>5, <1>6, <1>7

LEMMA ForgetStep == ASSUME IInv, NEW t \in Task, Forget(t) PROVE IInv'
  <1> USE DEF IInv, Forget
  <1>1. task \in [Task -> TaskRecord]
    BY DEF TypeOK, TaskRecord
  <1>2. \A u \in Task : /\ task'[u] \in TaskRecord
                        /\ task'[u].type = task[u].type
                        /\ task'[u].status = task[u].status \/ task'[u].status = "gone"
    BY <1>1 DEF TaskRecord, Status
  <1>3. task' \in [Task -> TaskRecord]
    BY <1>1, <1>2
  <1>4. TypeOK'
    BY <1>3 DEF TypeOK, TaskRecord, worker
  <1>5. HandOK'
    BY <1>2 DEF HandOK, TypeOK, worker
  <1>6. \A u \in Task : PaidFor(u)'
    BY <1>2 DEF PaidFor, InHand, worker
  <1> QED
    BY <1>4, <1>5, <1>6

\* What neither tasks nor executions nor the worker's hands have to do with.
LEMMA ElsewhereStep ==
  ASSUME IInv, UNCHANGED <<task, batch, hand, faults, runs>>, TypeOK' PROVE IInv'
  BY DEF IInv, HandOK, PaidFor, InHand

LEMMA AuditStep ==
  ASSUME IInv, NEW t \in Task, NEW status \in Final, Audit(t, status) PROVE IInv'
  <1>1. row' \in [connected : BOOLEAN, age : 0 .. Offline]
    <2>1. row' \in {row, [row EXCEPT !.connected = FALSE], [connected |-> TRUE, age |-> 0]}
      BY DEF Audit
    <2> QED
      <3>1. [connected |-> TRUE, age |-> 0] \in [connected : BOOLEAN, age : 0 .. Offline]
        BY Numbers
      <3>2. [row EXCEPT !.connected = FALSE] \in [connected : BOOLEAN, age : 0 .. Offline]
        BY DEF IInv, TypeOK
      <3> QED
        BY <2>1, <3>1, <3>2 DEF IInv, TypeOK
  <1>2. TypeOK'
    BY <1>1 DEF Audit, IInv, TypeOK, worker
  <1> QED
    BY <1>2, ElsewhereStep DEF Audit, worker

LEMMA CheckDisconnectionsStep == ASSUME IInv, CheckDisconnections PROVE IInv'
  <1>1. TypeOK'
    BY DEF CheckDisconnections, IInv, TypeOK, worker
  <1> QED
    BY <1>1, ElsewhereStep DEF CheckDisconnections, worker

LEMMA BackendDiesStep == ASSUME IInv, BackendDies PROVE IInv'
  <1> USE Numbers DEF IInv, BackendDies, Fault
  <1>1. task \in [Task -> TaskRecord] /\ faults \in 0 .. MaxFaults /\ faults' = faults + 1
    BY DEF TypeOK, TaskRecord
  <1>2. \A u \in Task : /\ task'[u] \in TaskRecord
                        /\ task'[u].type = task[u].type
                        /\ task'[u].status = task[u].status \/ task'[u].status = "gone"
    BY <1>1 DEF TaskRecord, Status
  <1>3. task' \in [Task -> TaskRecord]
    BY <1>2
  <1>4. TypeOK'
    BY <1>3 DEF TypeOK, TaskRecord, worker, State
  <1>5. HandOK'
    BY <1>2 DEF HandOK, TypeOK, worker
  <1>6. \A u \in Task : PaidFor(u)'
    BY <1>1, <1>2 DEF PaidFor, InHand, worker, TypeOK
  <1> QED
    BY <1>4, <1>5, <1>6
-----------------------------------------------------------------------------
(***************************************************************************)
(* Steps of the worker.                                                    *)
(***************************************************************************)

LEMMA PollStep == ASSUME IInv, Poll PROVE IInv'
  <1>1. task \in [Task -> TaskRecord] /\ hand.task = 0 /\ hand.at = "idle" /\ hand' = hand
    BY DEF IInv, TypeOK, TaskRecord, Poll, Free, Nothing
  <1>2. \A t \in Task :
          /\ task'[t] \in TaskRecord
          /\ task'[t].type = task[t].type
          /\ \/ task'[t].status = task[t].status
             \/ task[t].status = "RECEIVED" /\ task'[t].status = "IN_PROGRESS"
    <2> TAKE t \in Task
    <2>1. CASE t \in Deliverable
      <3>1. task'[t] = [task[t] EXCEPT !.status = "IN_PROGRESS", !.age = 0]
        BY <2>1 DEF Poll
      <3>2. task[t].status \in {"RECEIVED", "IN_PROGRESS"}
        BY <2>1 DEF Deliverable
      <3>3. task'[t] \in TaskRecord
        <4>1. task[t] \in TaskRecord /\ 0 \in 0 .. Redispatch + 1 /\ "IN_PROGRESS" \in Status
          BY <1>1, Numbers DEF Status
        <4> QED
          BY <3>1, <4>1 DEF TaskRecord
      <3> QED
        BY <1>1, <3>1, <3>2, <3>3 DEF TaskRecord
    <2>2. CASE t \notin Deliverable
      BY <1>1, <2>2 DEF Poll
    <2> QED
      BY <2>1, <2>2
  <1>3. task' \in [Task -> TaskRecord]
    BY <1>2 DEF Poll
  <1>4. faults' \in {faults, faults + 1} /\ faults' \in 0 .. MaxFaults
    <2>1. faults \in 0 .. MaxFaults
      BY DEF IInv, TypeOK
    <2>2. faults' = faults \/ (faults < MaxFaults /\ faults' = faults + 1)
      BY DEF Poll, Fault
    <2> QED
      BY <2>1, <2>2, Numbers
  <1>5. \A t \in batch' : t \in Task /\ task[t].status \in {"RECEIVED", "IN_PROGRESS"}
    BY DEF Poll, Free, Deliverable
  <1>6. TypeOK'
    BY <1>3, <1>4, <1>5 DEF IInv, TypeOK, TaskRecord, Poll
  <1>7. HandOK'
    <2>1. \A t \in batch' : task'[t].status # "none"
      <3> SUFFICES ASSUME NEW t \in batch' PROVE task'[t].status # "none"
        OBVIOUS
      <3>1. t \in Task /\ task[t].status \in {"RECEIVED", "IN_PROGRESS"}
        BY <1>5
      <3> QED
        BY <1>2, <3>1
    <2> QED
      BY <2>1, <1>1 DEF HandOK
  <1>8. ASSUME NEW t \in Task PROVE PaidFor(t)'
    <2>1. ~InHand(t)
      BY <1>1 DEF InHand
    <2>2. PaidFor(t) /\ runs[t] \in Nat /\ faults \in Nat /\ runs' = runs
      <3>1. runs' = runs
        BY DEF Poll
      <3> QED
        BY <3>1, Numbers DEF IInv, TypeOK
    <2>3. task[t].status \in {"RECEIVED", "IN_PROGRESS"} => runs[t] <= faults
      BY <2>1, <2>2 DEF PaidFor
    <2>4. t \in batch' => task[t].status \in {"RECEIVED", "IN_PROGRESS"}
      BY <1>5
    <2>5. /\ task'[t].status \in {"none", "RECEIVED"} => task[t].status \in {"none", "RECEIVED"}
          /\ task'[t].status = "IN_PROGRESS" => task[t].status \in {"RECEIVED", "IN_PROGRESS"}
      BY <1>2
    <2> QED
      BY <1>4, <2>2, <2>3, <2>4, <2>5 DEF PaidFor
  <1> QED
    BY <1>6, <1>7, <1>8 DEF IInv

LEMMA TakeStep == ASSUME IInv, NEW t \in Task, Take(t) PROVE IInv'
  <1> USE Numbers DEF IInv
  <1>1. /\ hand = Nothing /\ t \in batch /\ batch' = batch \ {t}
        /\ runs' = [runs EXCEPT ![t] = @ + 1]
        /\ hand' \in {[task |-> t, at |-> "sync"], [task |-> t, at |-> "taken"]}
    BY DEF Take
  <1>2. faults' \in {faults, faults + 1} /\ faults' \in 0 .. MaxFaults
    BY DEF Take, Fault, TypeOK
  <1>3. /\ task' \in [Task -> TaskRecord] /\ state' \in State
        /\ audits' \subseteq Task \X Final
        /\ \A u \in Task : task'[u].type = task[u].type
        /\ \A u \in Task \ {t} : task'[u] = task[u]
        /\ \/ task'[t].status \in {"IN_PROGRESS", "gone"}
           \/ task' = task /\ faults' = faults + 1
    <2>1. task[t].status # "none"
      BY <1>1 DEF HandOK
    <2>2. CASE Acked(t, "IN_PROGRESS")
      BY <2>1, <2>2, AckedTyped
    <2>3. CASE Fault("ack") /\ UNCHANGED <<task, state, audits>>
      BY <2>3 DEF TypeOK, TaskRecord, Fault
    <2> QED
      BY <2>2, <2>3 DEF Take
  <1>4. TypeOK'
    <2>1. hand' \in [task : 0 .. MaxTasks, at : Place]
      BY <1>1 DEF Place, Task
    <2>2. processed' \in [Task -> 0 .. Dedup] /\ runs' \in [Task -> Nat]
      BY <1>1 DEF TypeOK, Take
    <2> QED
      BY <1>1, <1>2, <1>3, <2>1, <2>2 DEF TypeOK, Take, TaskRecord, Place
  <1>5. HandOK'
    <2>1. batch \subseteq Task /\ \A u \in batch : task[u].status # "none"
      BY DEF TypeOK, HandOK
    <2>2. task'[t].status # "none"
      BY <1>1, <1>3, <2>1
    <2>3. \A u \in batch' : task'[u].status # "none"
      BY <1>1, <1>3, <2>1
    <2>4. hand'.task = t /\ hand'.at \in {"sync", "taken"}
      BY <1>1
    <2> QED
      BY <2>2, <2>3, <2>4 DEF HandOK
  <1>6. ASSUME NEW u \in Task PROVE PaidFor(u)'
    <2>1. runs[t] <= faults /\ runs[t] \in Nat /\ runs[u] \in Nat /\ faults \in Nat
      BY <1>1 DEF PaidFor, TypeOK
    <2>2. CASE u = t
      <3>1. runs'[t] = runs[t] + 1 /\ t \notin batch' /\ InHand(t)'
        BY <1>1 DEF InHand, TypeOK
      <3>2. task'[t].status \in {"none", "RECEIVED"} => faults' = faults + 1
        BY <1>3
      <3> QED
        BY <2>1, <2>2, <3>1, <3>2, <1>2 DEF PaidFor
    <2>3. CASE u # t
      <3>1. runs'[u] = runs[u] /\ ~InHand(u) /\ task'[u] = task[u] /\ (u \in batch' => u \in batch)
        BY <1>1, <1>3, <2>3 DEF InHand, TypeOK, Nothing
      <3> QED
        BY <2>1, <3>1, <1>2 DEF PaidFor
    <2> QED
      BY <2>2, <2>3
  <1> QED
    BY <1>4, <1>5, <1>6

\* The worker goes on with the task in hand, whose outcome is still to come.
LEMMA GoesOnStep ==
  ASSUME IInv, UNCHANGED <<task, audits, batch, processed, runs>>,
         hand.at \in {"taken", "login", "sync"},
         NEW at \in {"login", "sync", "done", "refused", "failed"}, Goes(at),
         token' \in [Task -> 0 .. TokenLife],
         state' \in State,
         row' \in [connected : BOOLEAN, age : 0 .. Offline],
         buffered' \in BOOLEAN,
         pool' \in [status : {"absent", "ONLINE", "OFFLINE", "FAILED"}, errors : 0 .. 2],
         faults' \in {faults, faults + 1}, faults' \in 0 .. MaxFaults
  PROVE  IInv'
  <1> USE Numbers DEF IInv, Goes
  <1>1. hand'.at = at /\ hand'.task = hand.task /\ hand' \in [task : 0 .. MaxTasks, at : Place]
    BY DEF TypeOK, Place
  <1>2. TypeOK'
    BY <1>1 DEF TypeOK, Place
  <1>3. HandOK'
    BY <1>1 DEF HandOK
  <1>4. ASSUME NEW t \in Task PROVE PaidFor(t)'
    <2>1. InHand(t)' <=> InHand(t)
      BY <1>1 DEF InHand
    <2> QED
      BY <2>1 DEF PaidFor, TypeOK
  <1> QED
    BY <1>2, <1>3, <1>4

LEMMA ExchangeStep == ASSUME IInv, Exchange PROVE IInv'
  <1> USE Numbers DEF Exchange, At
  <1>1. token' \in [Task -> 0 .. TokenLife]
    <2>1. CASE token' = [token EXCEPT ![hand.task] = IF @ > Grace THEN Grace ELSE @]
      <3>1. \A t \in Task : (IF token[t] > Grace THEN Grace ELSE token[t]) \in 0 .. TokenLife
        BY DEF IInv, TypeOK
      <3> QED
        BY <2>1, <3>1 DEF IInv, TypeOK
    <2>2. CASE token' = token
      BY <2>2 DEF IInv, TypeOK
    <2> QED
      BY <2>1, <2>2
  <1>2. pool' \in {pool, Online}
    OBVIOUS
  <1>3. pool' \in [status : {"absent", "ONLINE", "OFFLINE", "FAILED"}, errors : 0 .. 2]
    BY <1>2 DEF IInv, TypeOK, Online
  <1>4. faults' \in {faults, faults + 1} /\ faults' \in 0 .. MaxFaults
    BY DEF Fault, IInv, TypeOK
  <1>5. Goes("login") \/ Goes("failed")
    OBVIOUS
  <1>6. UNCHANGED <<task, state, row, audits, batch, processed, buffered, runs>>
    OBVIOUS
  <1> QED
    BY <1>1, <1>3, <1>4, <1>5, <1>6, GoesOnStep DEF IInv, TypeOK

\* A marked account is one of the pool.
LEMMA MarkedTyped ==
  ASSUME TypeOK, NEW outcome
  PROVE  Marked(outcome) \in [status : {"absent", "ONLINE", "OFFLINE", "FAILED"}, errors : 0 .. 2]
  BY DEF Marked, TypeOK

LEMMA LoginStep == ASSUME IInv, NEW outcome \in Outcomes, Login(outcome) PROVE IInv'
  <1>1. pool' \in {Online, Marked(outcome)}
    BY DEF Login
  <1>2. pool' \in [status : {"absent", "ONLINE", "OFFLINE", "FAILED"}, errors : 0 .. 2]
    BY <1>1, MarkedTyped DEF IInv, Online
  <1>3. hand.at = "login" /\ (Goes("sync") \/ Goes("refused"))
    BY DEF Login, At
  <1>4. UNCHANGED <<task, token, state, row, audits, batch, processed, buffered, faults, runs>>
    BY DEF Login, backend
  <1> QED
    BY <1>2, <1>3, <1>4, GoesOnStep DEF IInv, TypeOK

LEMMA StopStep == ASSUME IInv, Stop PROVE IInv'
  <1>1. pool' \in [status : {"absent", "ONLINE", "OFFLINE", "FAILED"}, errors : 0 .. 2]
    BY DEF Stop, Absent
  <1>2. hand.at = "taken" /\ Goes("done")
    BY DEF Stop, At
  <1>3. UNCHANGED <<task, token, state, row, audits, batch, processed, buffered, faults, runs>>
    BY DEF Stop, backend
  <1> QED
    BY <1>1, <1>2, <1>3, GoesOnStep DEF IInv, TypeOK

\* What a sync of the account does is well typed.
LEMMA SyncOnceTyped ==
  ASSUME TypeOK, NEW outcome, SyncOnce(outcome)
  PROVE  /\ pool' \in [status : {"absent", "ONLINE", "OFFLINE", "FAILED"}, errors : 0 .. 2]
         /\ state' \in State
         /\ row' \in [connected : BOOLEAN, age : 0 .. Offline]
         /\ buffered' \in BOOLEAN
         /\ faults' \in {faults, faults + 1} /\ faults' \in 0 .. MaxFaults
  <1>1. pool' \in {pool, Online, Marked(outcome)}
    BY DEF SyncOnce
  <1>2. state' \in {state, "CONNECTED", "DISCONNECTED"}
    BY DEF SyncOnce, Metrics
  <1>3. row' \in {row, [connected |-> TRUE, age |-> 0], [row EXCEPT !.connected = FALSE]}
    BY DEF SyncOnce, Metrics
  <1>4. buffered' \in {buffered, TRUE}
    BY DEF SyncOnce
  <1>5. faults' = faults \/ (faults < MaxFaults /\ faults' = faults + 1)
    BY DEF SyncOnce, Fault
  <1>6. [connected |-> TRUE, age |-> 0] \in [connected : BOOLEAN, age : 0 .. Offline]
    BY Numbers
  <1>7. [row EXCEPT !.connected = FALSE] \in [connected : BOOLEAN, age : 0 .. Offline]
    BY DEF TypeOK
  <1>8. faults' \in {faults, faults + 1} /\ faults' \in 0 .. MaxFaults
    BY <1>5, Numbers DEF TypeOK
  <1> QED
    <2>1. pool' \in [status : {"absent", "ONLINE", "OFFLINE", "FAILED"}, errors : 0 .. 2]
      BY <1>1, MarkedTyped DEF TypeOK, Online
    <2>2. row' \in [connected : BOOLEAN, age : 0 .. Offline]
      BY <1>3, <1>6, <1>7 DEF TypeOK
    <2> QED
      BY <1>2, <1>4, <1>8, <2>1, <2>2 DEF TypeOK, State

LEMMA SyncTaskStep == ASSUME IInv, NEW outcome \in Outcomes, SyncTask(outcome) PROVE IInv'
  BY SyncOnceTyped, GoesOnStep DEF SyncTask, IInv, TypeOK

\* Beside the tasks: no more faults than before are undone.
LEMMA AsideStep ==
  ASSUME IInv, UNCHANGED <<task, batch, hand, runs>>, faults' \in {faults, faults + 1}, TypeOK'
  PROVE  IInv'
  BY DEF IInv, HandOK, PaidFor, InHand, TypeOK

LEMMA SyncCycleStep == ASSUME IInv, NEW outcome \in Outcomes, SyncCycle(outcome) PROVE IInv'
  <1>1. TypeOK' /\ faults' \in {faults, faults + 1}
    BY SyncOnceTyped DEF SyncCycle, IInv, TypeOK
  <1> QED
    BY <1>1, AsideStep DEF SyncCycle

LEMMA FlushStep == ASSUME IInv, Flush PROVE IInv'
  <1>1. TypeOK'
    <2>1. row' \in [connected : BOOLEAN, age : 0 .. Offline] /\ state' \in State
      BY Numbers DEF Flush, Metrics, State
    <2> QED
      BY <2>1 DEF Flush, IInv, TypeOK
  <1> QED
    BY <1>1, ElsewhereStep DEF Flush

\* The outcome of the task in hand is acknowledged, or the ack is lost.
LEMMA FinishStep == ASSUME IInv, Finish PROVE IInv'
  <1>1. PICK t \in Task : t = hand.task
    BY DEF Finish, IInv, HandOK
  <1>2. hand.at \in {"done", "refused", "failed"} /\ task[t].status # "none"
    BY <1>1 DEF Finish, IInv, HandOK
  <1>3. faults' \in {faults, faults + 1} /\ faults' \in 0 .. MaxFaults
    BY Numbers DEF Finish, Fault, IInv, TypeOK
  <1>4. /\ task' \in [Task -> TaskRecord] /\ state' \in State
        /\ audits' \subseteq Task \X Final
        /\ \A u \in Task : task'[u].type = task[u].type
        /\ \A u \in Task \ {t} : task'[u] = task[u]
        /\ \/ task'[t].status \in {"SUCCESS", "FAILED", "gone"}
           \/ task' = task /\ faults' = faults + 1
    <2>1. CASE hand.at = "done" /\ Acked(t, "SUCCESS")
      BY <1>2, <2>1, AckedTyped DEF IInv
    <2>2. CASE hand.at # "done" /\ Acked(t, "FAILED")
      BY <1>2, <2>2, AckedTyped DEF IInv
    <2>3. CASE Fault("ack") /\ UNCHANGED <<task, state, audits>>
      BY <2>3 DEF IInv, TypeOK, TaskRecord, Fault
    <2>4. \/ hand.at = "done" /\ Acked(t, "SUCCESS")
          \/ hand.at # "done" /\ Acked(t, "FAILED")
          \/ Fault("ack") /\ UNCHANGED <<task, state, audits>>
      BY <1>1 DEF Finish, Acked
    <2> QED
      BY <2>1, <2>2, <2>3, <2>4
  <1>5. \/ hand'.at = "idle" /\ hand'.task = 0 /\ hand' \in [task : 0 .. MaxTasks, at : Place]
        \/ /\ hand'.at \in {"told", "untold"} /\ hand'.task = t
           /\ hand' \in [task : 0 .. MaxTasks, at : Place]
           /\ task[t].type \in {"START", "STOP"}
    BY <1>1, Numbers DEF Finish, Goes, Nothing, IInv, TypeOK, Place
  <1>6. UNCHANGED <<token, row, pool, batch, processed, buffered, runs>>
    BY DEF Finish
  <1>7. TypeOK'
    BY <1>3, <1>4, <1>5, <1>6 DEF IInv, TypeOK, TaskRecord, Place
  <1>8. HandOK'
    <2>1. task'[t].status # "none"
      BY <1>2, <1>4
    <2>2. \A u \in batch' : task'[u].status # "none"
      BY <2>1, <1>4, <1>6 DEF IInv, HandOK, TypeOK
    <2> QED
      BY <2>1, <2>2, <1>4, <1>5 DEF HandOK
  <1>9. ASSUME NEW u \in Task PROVE PaidFor(u)'
    <2>1. PaidFor(u) /\ runs[u] \in Nat /\ faults \in Nat /\ runs' = runs /\ batch' = batch
      BY <1>6 DEF IInv, TypeOK
    <2>2. CASE u = t
      <3>1. task'[t].status \in {"none", "RECEIVED", "IN_PROGRESS"} => faults' = faults + 1
        BY <1>4
      <3> QED
        BY <1>3, <2>1, <2>2, <3>1 DEF PaidFor
    <2>3. CASE u # t
      <3>1. task'[u] = task[u] /\ ~InHand(u)
        BY <1>1, <1>4, <2>3 DEF InHand
      <3> QED
        BY <1>3, <2>1, <3>1 DEF PaidFor
    <2> QED
      BY <2>2, <2>3
  <1> QED
    BY <1>7, <1>8, <1>9 DEF IInv

LEMMA EventStep == ASSUME IInv, Event PROVE IInv'
  <1>1. /\ hand.at \in {"told", "untold"} /\ hand'.at = "idle"
        /\ hand' \in [task : 0 .. MaxTasks, at : Place]
    BY Numbers DEF Event, Nothing, Place
  <1>2. state' \in State
    <2>1. hand.at = "untold" \/ At("START", "told") \/ At("STOP", "told")
      BY <1>1 DEF At, IInv, HandOK
    <2> QED
      BY <2>1 DEF Event, State, IInv, TypeOK
  <1>3. row' \in [connected : BOOLEAN, age : 0 .. Offline]
    <2>1. row' \in {row, [row EXCEPT !.connected = FALSE]}
      BY DEF Event
    <2> QED
      BY <2>1 DEF IInv, TypeOK
  <1>4. faults' \in {faults, faults + 1} /\ faults' \in 0 .. MaxFaults
    BY Numbers DEF Event, Fault, IInv, TypeOK
  <1>5. UNCHANGED <<task, token, audits, pool, batch, processed, buffered, runs>>
    BY DEF Event
  <1>6. TypeOK'
    BY <1>1, <1>2, <1>3, <1>4, <1>5 DEF IInv, TypeOK, Place
  <1>7. HandOK'
    BY <1>1, <1>5 DEF IInv, HandOK
  <1>8. ASSUME NEW t \in Task PROVE PaidFor(t)'
    <2>1. ~InHand(t)
      BY <1>1 DEF InHand
    <2>2. PaidFor(t) /\ runs[t] \in Nat /\ faults \in Nat
      BY DEF IInv, TypeOK
    <2> QED
      BY <1>4, <1>5, <2>1, <2>2 DEF PaidFor
  <1> QED
    BY <1>6, <1>7, <1>8 DEF IInv

LEMMA WorkerDiesStep == ASSUME IInv, WorkerDies PROVE IInv'
  <1>1. faults' = faults + 1 /\ faults' \in 0 .. MaxFaults
    BY Numbers DEF WorkerDies, Fault, IInv, TypeOK
  <1>2. batch' = {} /\ hand'.at = "idle" /\ hand' \in [task : 0 .. MaxTasks, at : Place]
    BY Numbers DEF WorkerDies, Nothing, Place
  <1>3. processed' \in [Task -> 0 .. Dedup]
    BY Numbers DEF WorkerDies, Forgotten
  <1>4. pool' \in [status : {"absent", "ONLINE", "OFFLINE", "FAILED"}, errors : 0 .. 2]
    BY DEF WorkerDies, IInv, TypeOK
  <1>5. UNCHANGED <<task, token, state, row, audits, buffered, runs>>
    BY DEF WorkerDies, backend
  <1>6. TypeOK'
    BY <1>1, <1>2, <1>3, <1>4, <1>5 DEF IInv, TypeOK, Place
  <1>7. HandOK'
    BY <1>2 DEF HandOK
  <1>8. ASSUME NEW t \in Task PROVE PaidFor(t)'
    BY <1>1, <1>2, <1>5 DEF PaidFor, IInv, TypeOK
  <1> QED
    BY <1>6, <1>7, <1>8 DEF IInv

-----------------------------------------------------------------------------

LEMMA StutterStep == ASSUME IInv, UNCHANGED vars PROVE IInv'
  BY DEF vars, IInv, TypeOK, HandOK, PaidFor, InHand, Unused

LEMMA NextStep == ASSUME IInv, Next PROVE IInv'
  <1>1. CASE Tick
    BY <1>1, TickStep
  <1>2. CASE Backend
    BY <1>2, CreateTaskStep, ForgetStep, AuditStep, CheckDisconnectionsStep DEF Backend
  <1>3. CASE Poll
    BY <1>3, PollStep
  <1>4. CASE Execute
    BY <1>4, TakeStep, ExchangeStep, StopStep, FinishStep, EventStep, LoginStep, SyncTaskStep
    DEF Execute
  <1>5. CASE Round
    BY <1>5, SyncCycleStep DEF Round
  <1>6. CASE Flush \/ WorkerDies \/ BackendDies
    BY <1>6, FlushStep, WorkerDiesStep, BackendDiesStep
  <1> QED
    BY <1>1, <1>2, <1>3, <1>4, <1>5, <1>6 DEF Next

\* Everything stays in the counted invariant.
THEOREM Invariance == Spec => []IInv
  <1>1. IInv /\ [Next]_vars => IInv'
    BY NextStep, StutterStep
  <1> QED
    BY InitOK, <1>1, PTL DEF Spec

\* The tasks, the tokens and what both sides hold are well typed, always.
THEOREM TypeCorrect == Spec => []TypeOK
  <1>1. IInv => TypeOK
    BY DEF IInv
  <1> QED
    BY Invariance, <1>1, PTL

\* createAccountTask, getPendingTasks and acknowledgeTask with the worker's
\* memory of what it did: a task is taken up again only when something was lost.
THEOREM RepeatsArePaidFor == Spec => []RepeatsOnlyAfterLoss
  <1>1. IInv => RepeatsOnlyAfterLoss
    BY DEF IInv, PaidFor, RepeatsOnlyAfterLoss
  <1> QED
    BY Invariance, <1>1, PTL

-----------------------------------------------------------------------------
(***************************************************************************)
(* The last wish: who disconnects last stays disconnected.                 *)
(*                                                                         *)
(* A STOP takes every START with it that nobody has claimed. A START that  *)
(* was claimed can still put the account back into the pool, when taken up *)
(* (again) with a token that is alive. So, once the last STOP has been     *)
(* claimed, every START is harmless: its token is spent by the time the    *)
(* START may be handed out again, or it is not with the worker, which has  *)
(* never taken it up. And from the moment the STOP is taken up, no START   *)
(* with the worker has a token: those of its own batch came before it.     *)
(***************************************************************************)

Over(t) == task[t].status \in Final \cup {"gone"}
Start(t) == task[t].type = "START" /\ task[t].status # "none"

\* s is the last of the user's wishes, and it is to disconnect.
LastStop(s) ==
  /\ task[s].type = "STOP" /\ task[s].status # "none"
  /\ \A u \in Task : task[u].type \in {"START", "STOP"} /\ task[u].status # "none" => u <= s

\* The token is alive for one tick at most, and is dead when t is due again.
Spent(t) == token[t] <= 1 /\ (task[t].age > Redispatch => token[t] = 0)

\* The worker does not have t, and if it is handed out again, has not heard of it.
Away(t) ==
  /\ t \notin batch /\ hand.task # t
  /\ Over(t) \/ (task[t].status = "IN_PROGRESS" /\ runs[t] = 0)

Harmless(t) == Spent(t) \/ Away(t)

\* With the worker, t has no token.
Powerless(t) ==
  /\ t \in batch => token[t] = 0
  /\ hand.task = t => token[t] = 0 /\ hand.at # "login"

\* Tasks are created in order, and taken up only after that; what the worker has
\* was claimed; a STOP goes through its own stages.
InOrder == \A t, u \in Task : task[t].status = "none" /\ t <= u => task[u].status = "none"
Unrun == \A t \in Task : task[t].status = "none" => runs[t] = 0
Claimed == \A t \in Task : t \in batch \/ hand.task = t => task[t].status \notin {"none", "RECEIVED"}
AtRest == hand.at = "idle" => hand.task = 0
StopStages ==
  hand.at # "idle" /\ task[hand.task].type = "STOP" => hand.at \in {"taken", "done", "told"}

Orderly == InOrder /\ Unrun /\ Claimed /\ AtRest /\ StopStages

\* A START that was taken up has only the grace left on its token, unless it is
\* about to exchange it.
Exchanged(t) ==
  Start(t) /\ runs[t] > 0 /\ ~(hand.task = t /\ hand.at = "taken") => token[t] <= Grace

LastIsKept(s) ==
  /\ \A t \in Task : Start(t) => task[t].status # "RECEIVED"
  /\ task[s].status # "RECEIVED" => \A t \in Task : Start(t) => Harmless(t)
  /\ hand.task = s \/ Over(s) => \A t \in Task : Start(t) => Powerless(t)
  /\ (hand.task = s /\ hand.at \in {"done", "told"}) \/ Over(s) => pool = Absent

Wished ==
  /\ \A t \in Task : Exchanged(t)
  /\ \A s \in Task : LastStop(s) => LastIsKept(s)

WInv == Orderly /\ (undone \/ Wished)

\* Every record of a task, part by part.
LEMMA TaskParts ==
  ASSUME TypeOK, NEW t \in Task
  PROVE  /\ task[t].type \in TaskType /\ task[t].status \in Status
         /\ task[t].age \in Nat /\ token[t] \in Nat /\ runs[t] \in Nat /\ t \in Nat
         /\ DOMAIN task = Task /\ DOMAIN token = Task /\ DOMAIN runs = Task
         /\ batch \subseteq Task
  BY Numbers DEF TypeOK, Task

\* What a step leaves of the tasks' order when it creates none: statuses only end.
LEMMA CalmOrder ==
  ASSUME TypeOK, HandOK, Orderly,
         \A t \in Task : /\ task'[t].type = task[t].type
                         /\ \/ task'[t].status = task[t].status
                            \/ task[t].status # "none" /\ Over(t)',
         batch' \subseteq batch, runs' = runs,
         \/ hand' = Nothing
         \/ hand' = hand
         \/ hand.at # "idle" /\ hand'.task = hand.task /\ hand'.at # "idle",
         hand'.at # "idle" /\ task'[hand'.task].type = "STOP" => hand'.at \in {"taken", "done", "told"}
  PROVE  Orderly'
  <1>1. \A t \in Task : Over(t)' => task'[t].status \notin {"none", "RECEIVED"}
    BY DEF Over, Final
  <1>2. InOrder'
    BY <1>1 DEF Orderly, InOrder
  <1>3. Unrun'
    BY <1>1 DEF Orderly, Unrun
  <1>4. Claimed'
    <2> SUFFICES ASSUME NEW t \in Task, t \in batch' \/ hand'.task = t
                 PROVE  task'[t].status \notin {"none", "RECEIVED"}
      BY DEF Claimed
    <2>1. t \in batch \/ hand.task = t
      BY Numbers DEF Nothing, Task
    <2>2. task[t].status \notin {"none", "RECEIVED"}
      BY <2>1 DEF Orderly, Claimed
    <2> QED
      BY <1>1, <2>2
  <1>5. AtRest'
    BY DEF Orderly, AtRest, Nothing
  <1>6. StopStages'
    BY DEF StopStages
  <1> QED
    BY <1>2, <1>3, <1>4, <1>5, <1>6 DEF Orderly

\* The same of the wishes, when no START gets further than the failure of its
\* exchange and no last STOP is given up.
LEMMA CalmWished ==
  ASSUME TypeOK, HandOK, Orderly, Wished,
         \A t \in Task : /\ task'[t].type = task[t].type
                         /\ task'[t].age = task[t].age
                         /\ token'[t] \in Nat /\ token'[t] <= token[t]
                         /\ \/ task'[t].status = task[t].status
                            \/ task[t].status # "none" /\ Over(t)',
         batch' \subseteq batch, runs' = runs,
         \/ hand' = Nothing
         \/ hand' = hand
         \/ hand.at # "idle" /\ hand'.task = hand.task /\ hand'.at \notin {"idle", "login"},
         \A t \in Task : Start(t) /\ hand.task = t /\ hand.at = "taken" => hand' = hand,
         \A s \in Task : task[s].type = "STOP" /\ Over(s)' => hand.task = s \/ Over(s),
         \A s \in Task : LastStop(s) /\ ((hand'.task = s /\ hand'.at \in {"done", "told"}) \/ Over(s)')
                         => pool' = Absent
  PROVE  Wished'
  <1>1. \A t \in Task : Over(t)' => task'[t].status \notin {"none", "RECEIVED", "IN_PROGRESS"}
    BY DEF Over, Final
  <1>2. \A t \in Task : /\ task'[t].status = "none" <=> task[t].status = "none"
                        /\ Start(t)' <=> Start(t)
                        /\ task'[t].status = "RECEIVED" => task[t].status = "RECEIVED"
    BY <1>1 DEF Start
  <1>3. \A t \in Task : hand'.task = t => hand.task = t
    BY Numbers DEF Nothing, Task
  <1>4. ASSUME NEW t \in Task PROVE Exchanged(t)'
    <2> SUFFICES ASSUME Start(t), runs[t] > 0, ~(hand'.task = t /\ hand'.at = "taken")
                 PROVE  token'[t] <= Grace
      BY <1>2 DEF Exchanged
    <2>1. ~(hand.task = t /\ hand.at = "taken")
      OBVIOUS
    <2>2. token[t] <= Grace
      BY <2>1 DEF Wished, Exchanged
    <2> QED
      BY <2>2, Numbers, TaskParts
  <1>5. ASSUME NEW s \in Task, LastStop(s)' PROVE LastIsKept(s)'
    <2>1. LastStop(s)
      BY <1>2, <1>5 DEF LastStop
    <2>2. LastIsKept(s) /\ task[s].type = "STOP"
      BY <2>1 DEF Wished, LastStop
    <2>3. \A t \in Task : Start(t)' => task'[t].status # "RECEIVED"
      BY <1>2, <2>2 DEF LastIsKept
    <2>4. ASSUME task'[s].status # "RECEIVED", NEW t \in Task, Start(t)' PROVE Harmless(t)'
      <3>1. task[s].status # "RECEIVED"
        <4>1. CASE Over(s)'
          <5>1. hand.task = s \/ Over(s)
            BY <2>2, <4>1
          <5> QED
            BY <5>1 DEF Orderly, Claimed, Over, Final
        <4>2. CASE ~Over(s)'
          BY <2>4, <4>2
        <4> QED
          BY <4>1, <4>2
      <3>2. Harmless(t)
        BY <1>2, <2>2, <2>4, <3>1 DEF LastIsKept
      <3>3. CASE Spent(t)
        BY <3>3, TaskParts DEF Harmless, Spent
      <3>4. CASE Away(t)
        BY <1>3, <3>4 DEF Harmless, Away, Over
      <3> QED
        BY <3>2, <3>3, <3>4 DEF Harmless
    <2>5. ASSUME hand'.task = s \/ Over(s)', NEW t \in Task, Start(t)' PROVE Powerless(t)'
      <3>1. hand.task = s \/ Over(s)
        BY <1>3, <2>2, <2>5
      <3>2. Powerless(t)
        BY <1>2, <2>2, <2>5, <3>1 DEF LastIsKept
      <3>3. token[t] = 0 => token'[t] = 0
        BY TaskParts
      <3>4. hand'.task = t => hand'.at # "login"
        BY <1>3, <3>2 DEF Powerless, Nothing
      <3> QED
        BY <1>3, <3>2, <3>3, <3>4 DEF Powerless
    <2>6. (hand'.task = s /\ hand'.at \in {"done", "told"}) \/ Over(s)' => pool' = Absent
      BY <2>1
    <2> QED
      BY <2>3, <2>4, <2>5, <2>6 DEF LastIsKept
  <1> QED
    BY <1>4, <1>5 DEF Wished

-----------------------------------------------------------------------------
(***************************************************************************)
(* The last wish: steps of the backend.                                    *)
(***************************************************************************)

\* Steps that have nothing to do with the wishes.
LEMMA ElsewhereOrder ==
  ASSUME Orderly, UNCHANGED <<task, batch, hand, runs>> PROVE Orderly'
  BY DEF Orderly, InOrder, Unrun, Claimed, AtRest, StopStages

LEMMA ElsewhereWished ==
  ASSUME TypeOK, Wished, UNCHANGED <<task, token, batch, hand, runs>>,
         pool = Absent => pool' = Absent
  PROVE  Wished'
  BY DEF Wished, Exchanged, LastStop, LastIsKept, Start, Over, Harmless, Spent, Away, Powerless

LEMMA TickOrder == ASSUME TypeOK, HandOK, Orderly, Tick PROVE Orderly'
  <1>1. \A t \in Task : task'[t].status = task[t].status /\ task'[t].type = task[t].type
    <2> SUFFICES ASSUME NEW t \in Task
                 PROVE  task'[t].status = task[t].status /\ task'[t].type = task[t].type
      OBVIOUS
    <2>1. task'[t] = [task[t] EXCEPT !.age = Older(@, Redispatch + 1)]
      BY DEF Tick
    <2> QED
      BY <2>1 DEF TypeOK
  <1>2. UNCHANGED <<batch, hand, runs>>
    BY DEF Tick
  <1>3. StopStages'
    BY <1>1, <1>2 DEF HandOK, Orderly, StopStages
  <1> QED
    BY <1>1, <1>2, <1>3 DEF Orderly, InOrder, Unrun, Claimed, AtRest

\* A token that is good for one tick more is spent when its task is due.
LEMMA TickWished == ASSUME TypeOK, HandOK, Orderly, Wished, Tick PROVE Wished'
  <1>1. ASSUME NEW t \in Task
        PROVE  /\ task'[t].status = task[t].status /\ task'[t].type = task[t].type
               /\ task'[t].age \in Nat
               /\ token'[t] = IF token[t] > 0 THEN token[t] - 1 ELSE 0
    <2>1. task'[t] = [task[t] EXCEPT !.age = Older(@, Redispatch + 1)]
      BY DEF Tick
    <2>2. Older(task[t].age, Redispatch + 1) \in Nat
      BY OlderBounded, Numbers, TaskParts DEF Older
    <2> QED
      BY <2>1, <2>2 DEF TypeOK, Tick
  <1>2. UNCHANGED <<batch, hand, runs, pool>>
    BY DEF Tick
  <1>3. \A t \in Task : /\ Start(t)' <=> Start(t)
                        /\ Over(t)' <=> Over(t)
                        /\ LastStop(t)' <=> LastStop(t)
    BY <1>1 DEF Start, Over, LastStop
  <1>4. ASSUME NEW t \in Task PROVE Exchanged(t)'
    <2>1. token'[t] <= token[t] /\ token'[t] \in Nat
      BY <1>1, TaskParts
    <2> QED
      BY <1>2, <1>3, <2>1, Numbers, TaskParts DEF Wished, Exchanged
  <1>5. ASSUME NEW t \in Task, Harmless(t) PROVE Harmless(t)'
    <2>1. CASE Spent(t)
      <3>1. token[t] \in Nat /\ token[t] <= 1
        BY <2>1, TaskParts DEF Spent
      <3>2. token'[t] = 0
        BY <1>1, <3>1
      <3> QED
        BY <3>2 DEF Harmless, Spent
    <2>2. CASE Away(t)
      BY <1>1, <1>2, <1>3, <2>2 DEF Harmless, Away
    <2> QED
      BY <1>5, <2>1, <2>2 DEF Harmless
  <1>6. ASSUME NEW t \in Task, Powerless(t) PROVE Powerless(t)'
    <2>1. token[t] = 0 => token'[t] = 0
      BY <1>1
    <2> QED
      BY <1>2, <1>6, <2>1 DEF Powerless
  <1>7. ASSUME NEW s \in Task, LastStop(s)' PROVE LastIsKept(s)'
    <2>1. LastIsKept(s)
      BY <1>3, <1>7 DEF Wished
    <2> QED
      BY <1>1, <1>2, <1>3, <1>5, <1>6, <2>1 DEF LastIsKept
  <1> QED
    BY <1>4, <1>7 DEF Wished

\* A task that was created comes before the ones that were not.
LEMMA Newest ==
  ASSUME TypeOK, Orderly, NEW n \in Unused, NEW u \in Task, task[u].status # "none"
  PROVE  u <= n
  <1>1. n \in Task /\ task[n].status = "none"
    BY DEF Unused
  <1>2. ~(n <= u)
    BY <1>1 DEF Orderly, InOrder
  <1> QED
    BY <1>1, <1>2, TaskParts

\* What a new task does to the tasks there are.
LEMMA Created ==
  ASSUME IInv, Orderly, NEW type \in Types, NEW n \in Unused, CreateTask(type)!(n)
  PROVE  /\ n \in Task /\ task[n].status = "none" /\ type \in TaskType
         /\ task'[n].type = type /\ task'[n].status = "RECEIVED"
         /\ UNCHANGED <<pool, batch, hand, runs>>
         /\ runs[n] = 0 /\ n \notin batch /\ hand.task # n
         /\ \A u \in Task : u # n => /\ token'[u] = token[u]
                                     /\ task'[u].type = task[u].type
                                     /\ task'[u].age = task[u].age
                                     /\ task'[u].status =
                                          IF u \in Superseded(type) THEN "gone" ELSE task[u].status
  <1> USE DEF IInv
  <1>1. n \in Task /\ task[n].status = "none" /\ type \in TaskType
    BY CloudAccountAssumption DEF Unused
  <1>2. UNCHANGED <<pool, batch, hand, runs>>
    BY DEF worker
  <1>3. task'[n].type = type /\ task'[n].status = "RECEIVED"
    BY <1>1
  <1>4. runs[n] = 0 /\ n \notin batch /\ hand.task # n
    BY <1>1 DEF Orderly, Unrun, Claimed
  <1>5. ASSUME NEW u \in Task, u # n
        PROVE  /\ token'[u] = token[u]
               /\ task'[u].type = task[u].type
               /\ task'[u].age = task[u].age
               /\ task'[u].status = IF u \in Superseded(type) THEN "gone" ELSE task[u].status
    <2>1. token'[u] = token[u]
      BY <1>1, <1>5 DEF TypeOK
    <2>2. task'[u] = IF u \in Superseded(type) THEN [task[u] EXCEPT !.status = "gone"] ELSE task[u]
      BY <1>5
    <2> QED
      BY <2>1, <2>2 DEF TypeOK
  <1> QED
    BY <1>1, <1>2, <1>3, <1>4, <1>5

LEMMA CreateTaskOrder ==
  ASSUME IInv, Orderly, NEW type \in Types, CreateTask(type) PROVE Orderly'
  <1>1. PICK n \in Unused : CreateTask(type)!(n)
    BY DEF CreateTask
  <1>2. /\ n \in Task /\ task[n].status = "none"
        /\ task'[n].status = "RECEIVED"
        /\ UNCHANGED <<batch, hand, runs>>
        /\ n \notin batch /\ hand.task # n
    BY <1>1, Created
  <1>3. \A u \in Task : u # n => /\ task'[u].type = task[u].type
                                 /\ task'[u].status =
                                      IF u \in Superseded(type) THEN "gone" ELSE task[u].status
    BY <1>1, Created
  <1>4. \A u \in Task : u # n => \/ task'[u].status = task[u].status
                                 \/ task[u].status # "none" /\ task'[u].status = "gone"
    BY <1>3 DEF Superseded
  <1>5. InOrder'
    <2> SUFFICES ASSUME NEW t \in Task, NEW u \in Task, task'[t].status = "none", t <= u
                 PROVE  task'[u].status = "none"
      BY DEF InOrder
    <2>1. t # n /\ task[t].status = "none" /\ n <= t
      BY <1>1, <1>2, <1>4 DEF Unused
    <2>2. u # n
      BY <2>1, TaskParts DEF IInv
    <2>3. task[u].status = "none"
      BY <2>1 DEF Orderly, InOrder
    <2> QED
      BY <1>4, <2>2, <2>3
  <1>6. Unrun'
    BY <1>2, <1>4 DEF Orderly, Unrun
  <1>7. Claimed'
    BY <1>2, <1>4 DEF Orderly, Claimed
  <1>8. AtRest'
    BY <1>2, <1>4 DEF Orderly, AtRest
  <1>9. StopStages'
    BY <1>2, <1>3, <1>4 DEF Orderly, StopStages, IInv, HandOK
  <1> QED
    BY <1>5, <1>6, <1>7, <1>8, <1>9 DEF Orderly

\* A new STOP leaves no START that nobody has claimed; after a new START the last
\* wish is none to disconnect.
LEMMA CreateTaskWished ==
  ASSUME IInv, Orderly, Wished, NEW type \in Types, CreateTask(type) PROVE Wished'
  <1>1. PICK n \in Unused : CreateTask(type)!(n)
    BY DEF CreateTask
  <1>2. /\ n \in Task /\ task[n].status = "none" /\ type \in TaskType
        /\ task'[n].type = type /\ task'[n].status = "RECEIVED"
        /\ UNCHANGED <<pool, batch, hand, runs>>
        /\ runs[n] = 0 /\ n \notin batch /\ hand.task # n
    BY <1>1, Created
  <1>3. \A u \in Task : u # n => /\ token'[u] = token[u]
                                 /\ task'[u].type = task[u].type
                                 /\ task'[u].age = task[u].age
                                 /\ task'[u].status =
                                      IF u \in Superseded(type) THEN "gone" ELSE task[u].status
    BY <1>1, Created
  <1>4. \A u \in Task : task[u].status # "none" => u <= n
    BY Newest DEF IInv
  <1>5. \A u \in Task : u # n => /\ task'[u].status = "none" <=> task[u].status = "none"
                                 /\ Start(u)' <=> Start(u)
    BY <1>3 DEF Start, Superseded
  <1>6. ASSUME NEW t \in Task PROVE Exchanged(t)'
    <2>1. CASE t = n
      BY <1>2, <2>1 DEF Exchanged
    <2>2. CASE t # n
      BY <1>2, <1>3, <1>5, <2>2 DEF Wished, Exchanged
    <2> QED
      BY <2>1, <2>2
  <1>7. ASSUME NEW s \in Task, LastStop(s)', s # n PROVE LastIsKept(s)'
    <2>1. LastStop(s)
      BY <1>2, <1>3, <1>5, <1>7 DEF LastStop
    <2>2. type \notin {"START", "STOP"}
      <3>1. s <= n
        BY <1>4, <2>1 DEF LastStop
      <3>2. ~(n <= s)
        BY <1>2, <1>7, <3>1, TaskParts DEF IInv
      <3> QED
        BY <1>2, <1>7, <3>2 DEF LastStop
    <2>3. \A t \in Task : task[t].type \in {"START", "STOP"} => t \notin Superseded(type)
      BY <2>2 DEF Superseded
    <2>4. task'[s].status = task[s].status /\ LastIsKept(s)
      BY <1>3, <1>7, <2>1, <2>3 DEF Wished, LastStop
    <2>5. \A t \in Task : Start(t)' => /\ Start(t) /\ token'[t] = token[t]
                                       /\ task'[t].age = task[t].age
                                       /\ task'[t].status = task[t].status
      BY <1>2, <1>3, <1>5, <2>2, <2>3 DEF Start
    <2>6. ASSUME NEW t \in Task, Start(t)'
          PROVE  (Harmless(t) => Harmless(t)') /\ (Powerless(t) => Powerless(t)')
      BY <1>2, <2>5, <2>6 DEF Harmless, Spent, Away, Over, Powerless
    <2> QED
      BY <1>2, <2>4, <2>5, <2>6 DEF LastIsKept, Over
  <1>8. ASSUME LastStop(n)' PROVE LastIsKept(n)'
    <2>1. type = "STOP"
      BY <1>2, <1>8 DEF LastStop
    <2>2. \A t \in Task : Start(t)' => task'[t].status # "RECEIVED"
      BY <1>2, <1>3, <2>1 DEF Start, Superseded
    <2>3. hand'.task # n /\ ~Over(n)' /\ task'[n].status = "RECEIVED"
      BY <1>2 DEF Over, Final
    <2> QED
      BY <2>2, <2>3 DEF LastIsKept
  <1> QED
    BY <1>6, <1>7, <1>8 DEF Wished

LEMMA ForgetKeeps ==
  ASSUME TypeOK, HandOK, Orderly, NEW t \in Task, Forget(t)
  PROVE  Orderly' /\ (Wished => Wished')
  <1>1. UNCHANGED <<token, pool, batch, hand, runs>>
    BY DEF Forget, worker
  <1>2. \A u \in Task : /\ task'[u].type = task[u].type /\ task'[u].age = task[u].age
                        /\ task'[u].status = task[u].status
                           \/ (Over(u) /\ task[u].status # "none" /\ Over(u)')
    BY DEF Forget, TypeOK, Over, Final
  <1>3. StopStages'
    BY <1>1, <1>2 DEF Orderly, StopStages, HandOK
  <1>4. Orderly'
    BY <1>1, <1>2, <1>3, CalmOrder DEF StopStages
  <1>5. \A u \in Task : token'[u] \in Nat /\ token'[u] <= token[u]
    BY <1>1, TaskParts
  <1>6. \A u \in Task : Over(u)' => Over(u)
    BY <1>2 DEF Over
  <1>7. ASSUME Wished PROVE Wished'
    <2>1. \A s \in Task : LastStop(s) /\ ((hand'.task = s /\ hand'.at \in {"done", "told"}) \/ Over(s)')
                          => pool' = Absent
      BY <1>1, <1>6, <1>7 DEF Wished, LastIsKept
    <2> QED
      BY <1>1, <1>2, <1>5, <1>6, <1>7, <2>1, CalmWished
  <1> QED
    BY <1>4, <1>7

\* The backend dies with no STOP undone: what is over was over before.
LEMMA BackendDiesKeeps ==
  ASSUME TypeOK, HandOK, Orderly, BackendDies
  PROVE  /\ Orderly'
         /\ Wished /\ (\A t \in Task : ~Dropped(t)) => Wished'
  <1>1. UNCHANGED <<pool, batch, hand, runs>> /\ token' = [t \in Task |-> 0]
    BY DEF BackendDies, worker
  <1>2. \A u \in Task : /\ task'[u].type = task[u].type /\ task'[u].age = task[u].age
                        /\ task'[u].status = IF task[u].status = "none" THEN "none" ELSE "gone"
    BY DEF BackendDies, TypeOK, Unused
  <1>3. \A u \in Task : task'[u].status = task[u].status
                        \/ (task[u].status # "none" /\ Over(u)')
    BY <1>2 DEF Over
  <1>4. StopStages'
    BY <1>1, <1>2 DEF Orderly, StopStages, HandOK
  <1>5. Orderly'
    BY <1>1, <1>2, <1>3, <1>4, CalmOrder DEF StopStages
  <1>6. \A u \in Task : token'[u] \in Nat /\ token'[u] <= token[u]
    BY <1>1, TaskParts
  <1>7. ASSUME Wished, \A t \in Task : ~Dropped(t) PROVE Wished'
    <2>1. \A s \in Task : task[s].type = "STOP" /\ Over(s)' => Over(s)
      <3> SUFFICES ASSUME NEW s \in Task, task[s].type = "STOP", Over(s)' PROVE Over(s)
        OBVIOUS
      <3>1. task[s].status # "none" /\ task'[s].status = "gone"
        BY <1>2 DEF Over, Final
      <3>2. faults' # faults
        BY DEF BackendDies, Fault, TypeOK
      <3>3. task[s].status \notin {"RECEIVED", "IN_PROGRESS"}
        BY <1>7, <3>1, <3>2 DEF Dropped
      <3> QED
        BY <3>1, <3>3, TaskParts DEF Over, Status
    <2>2. \A s \in Task : LastStop(s) /\ ((hand'.task = s /\ hand'.at \in {"done", "told"}) \/ Over(s)')
                          => pool' = Absent
      BY <1>1, <1>7, <2>1 DEF Wished, LastIsKept, LastStop
    <2> QED
      BY <1>1, <1>2, <1>3, <1>6, <1>7, <2>1, <2>2, CalmWished
  <1> QED
    BY <1>5, <1>7

-----------------------------------------------------------------------------
(***************************************************************************)
(* The last wish: steps of the worker.                                     *)
(***************************************************************************)

\* What a poll does to the tasks, and what the worker gets of it.
LEMMA Polled ==
  ASSUME TypeOK, Poll
  PROVE  /\ batch = {} /\ hand.task = 0 /\ hand.at = "idle"
         /\ UNCHANGED <<token, pool, hand, runs>>
         /\ \A t \in Task : /\ task'[t].type = task[t].type
                            /\ t \in Deliverable => task'[t].status = "IN_PROGRESS" /\ task'[t].age = 0
                            /\ t \notin Deliverable => task'[t] = task[t]
         /\ batch' \subseteq Deliverable
  <1>1. ASSUME NEW t \in Task
        PROVE  /\ task'[t].type = task[t].type
               /\ t \in Deliverable => task'[t].status = "IN_PROGRESS" /\ task'[t].age = 0
               /\ t \notin Deliverable => task'[t] = task[t]
    <2>1. task'[t] = IF t \in Deliverable
                     THEN [task[t] EXCEPT !.status = "IN_PROGRESS", !.age = 0]
                     ELSE task[t]
      BY DEF Poll
    <2> QED
      BY <2>1 DEF TypeOK
  <1>2. batch' \subseteq Deliverable
    BY DEF Poll, Free
  <1>3. /\ batch = {} /\ hand.task = 0 /\ hand.at = "idle"
        /\ UNCHANGED <<token, pool, hand, runs>>
    BY DEF Poll, Free, Nothing
  <1> QED
    BY <1>1, <1>2, <1>3

LEMMA PollOrder == ASSUME TypeOK, Orderly, Poll PROVE Orderly'
  <1>1. \A t \in Task : task'[t].status = "none" <=> task[t].status = "none"
    BY Polled DEF Deliverable
  <1>2. hand.task = 0 /\ hand' = hand /\ runs' = runs /\ hand.at = "idle"
    BY Polled
  <1>3. InOrder' /\ Unrun'
    BY <1>1, <1>2 DEF Orderly, InOrder, Unrun
  <1>4. Claimed'
    <2>1. \A t \in batch' : task'[t].status = "IN_PROGRESS"
      BY Polled DEF Deliverable
    <2>2. \A t \in Task : hand'.task # t
      BY <1>2, Numbers DEF Task
    <2> QED
      BY <2>1, <2>2 DEF Claimed
  <1> QED
    BY <1>2, <1>3, <1>4 DEF Orderly, AtRest, StopStages

\* A poll makes every START harmless: it starts its age anew, when only the grace
\* is left, or hands out what the worker has not heard of.
LEMMA PollWished ==
  ASSUME TypeOK, Orderly, Wished, Poll, Grace <= 1, \A t \in Task : ~Late(t)
  PROVE  Wished'
  <1>1. batch = {} /\ hand.task = 0 /\ hand.at = "idle" /\ UNCHANGED <<token, pool, hand, runs>>
    BY Polled
  <1>2. \A t \in Task : task'[t].type = task[t].type
    BY Polled
  <1>3. \A t \in Task : t \in Deliverable => task'[t].status = "IN_PROGRESS" /\ task'[t].age = 0
    BY Polled
  <1>4. \A t \in Task : t \notin Deliverable => task'[t] = task[t]
    BY Polled
  <1>5. \A t \in Task : hand'.task # t /\ hand.task # t
    BY <1>1, Numbers DEF Task
  <1>6. \A t \in Task : /\ Start(t)' <=> Start(t)
                        /\ LastStop(t)' <=> LastStop(t)
                        /\ Over(t)' <=> Over(t)
    <2>1. \A t \in Task : task'[t].status = "none" <=> task[t].status = "none"
      BY <1>3, <1>4 DEF Deliverable
    <2> QED
      BY <1>2, <1>3, <1>4, <2>1 DEF Start, LastStop, Over, Final, Deliverable
  <1>7. \A t \in Task : Exchanged(t)'
    BY <1>1, <1>6 DEF Wished, Exchanged
  <1>8. ASSUME NEW s \in Task, LastStop(s)' PROVE LastIsKept(s)'
    <2>1. LastIsKept(s)
      BY <1>6, <1>8 DEF Wished
    <2>2. ASSUME NEW t \in Task, Start(t) PROVE task[t].status \in {"IN_PROGRESS"} \cup Final \cup {"gone"}
      BY <2>1, <2>2, TaskParts DEF LastIsKept, Start, Status
    <2>3. \A t \in Task : Start(t)' => task'[t].status # "RECEIVED"
      BY <1>3, <1>4, <1>6, <2>1 DEF LastIsKept
    <2>4. ASSUME NEW t \in Task, Start(t), t \in batch' PROVE runs[t] > 0
      <3>1. t \in Deliverable /\ task[t].status = "IN_PROGRESS"
        BY <2>2, <2>4, Polled DEF Deliverable, Final
      <3> QED
        BY <1>1, <2>4, <3>1, TaskParts DEF Late, Start
    <2>5. ASSUME NEW t \in Task, Start(t), runs[t] > 0 PROVE token[t] <= 1
      <3>1. token[t] <= Grace
        BY <1>1, <2>5 DEF Wished, Exchanged
      <3> QED
        BY <3>1, Numbers, TaskParts
    <2>6. ASSUME NEW t \in Task, Start(t) PROVE Harmless(t)'
      <3>1. CASE Over(t)
        <4>1. t \notin batch'
          BY <3>1, Polled DEF Deliverable, Over, Final
        <4> QED
          BY <1>5, <1>6, <3>1, <4>1 DEF Harmless, Away
      <3>2. CASE ~Over(t) /\ runs[t] = 0
        <4>1. task'[t].status = "IN_PROGRESS"
          BY <1>3, <1>4, <2>2, <2>6, <3>2 DEF Over
        <4>2. t \notin batch'
          BY <2>4, <2>6, <3>2
        <4> QED
          BY <1>1, <1>5, <3>2, <4>1, <4>2 DEF Harmless, Away
      <3>3. CASE ~Over(t) /\ runs[t] > 0
        <4>1. token'[t] <= 1
          BY <1>1, <2>5, <2>6, <3>3
        <4>2. task'[t].age <= Redispatch
          <5>1. CASE t \in Deliverable
            BY <1>3, <5>1, Numbers
          <5>2. CASE t \notin Deliverable
            <6>1. task[t].status = "IN_PROGRESS"
              BY <2>2, <2>6, <3>3 DEF Over
            <6> QED
              BY <1>4, <5>2, <6>1, Numbers, TaskParts DEF Deliverable
          <5> QED
            BY <5>1, <5>2
        <4>3. ~(task'[t].age > Redispatch)
          <5>1. task'[t].age \in Nat
            BY <1>3, <1>4, TaskParts
          <5> QED
            BY <4>2, <5>1, Numbers
        <4> QED
          BY <4>1, <4>3 DEF Harmless, Spent
      <3> QED
        BY <3>1, <3>2, <3>3, TaskParts
    <2>7. ASSUME hand'.task = s \/ Over(s)', NEW t \in Task, Start(t) PROVE Powerless(t)'
      <3>1. Over(s) /\ Harmless(t)
        BY <1>5, <1>6, <2>1, <2>7 DEF LastIsKept, Over, Final
      <3>2. ASSUME t \in batch' PROVE token[t] = 0
        <4>1. t \in Deliverable /\ task[t].status = "IN_PROGRESS" /\ runs[t] > 0
          BY <2>2, <2>4, <2>7, <3>2, Polled DEF Deliverable, Final
        <4>2. task[t].age > Redispatch
          BY <4>1 DEF Deliverable
        <4>3. ~Away(t)
          BY <4>1 DEF Away, Over, Final
        <4> QED
          BY <3>1, <4>2, <4>3 DEF Harmless, Spent
      <3> QED
        BY <1>1, <1>5, <3>2 DEF Powerless
    <2>8. (hand'.task = s /\ hand'.at \in {"done", "told"}) \/ Over(s)' => pool' = Absent
      BY <1>1, <1>5, <1>6, <2>1 DEF LastIsKept
    <2> QED
      BY <1>6, <2>3, <2>6, <2>7, <2>8 DEF LastIsKept
  <1> QED
    BY <1>7, <1>8 DEF Wished

\* What the worker does to the tasks when it takes one up.
LEMMA Taken ==
  ASSUME IInv, Orderly, NEW n \in Task, Take(n)
  PROVE  /\ hand.task = 0 /\ hand.at = "idle" /\ n \in batch /\ batch' = batch \ {n}
         /\ UNCHANGED <<token, pool>> /\ runs' = [runs EXCEPT ![n] = @ + 1]
         /\ hand'.task = n
         /\ hand'.at = IF task[n].type \in {"SYNC", "FULL"} THEN "sync" ELSE "taken"
         /\ task[n].status \notin {"none", "RECEIVED"}
         /\ task'[n].type = task[n].type /\ task'[n].age = task[n].age
         /\ task'[n].status \in {"IN_PROGRESS", task[n].status}
         /\ \A u \in Task : u # n => task'[u] = task[u]
  <1>1. task[n].status \notin {"none", "RECEIVED"} /\ n \in batch
    BY DEF Orderly, Claimed, Take
  <1>2. \/ task' = task
        \/ task' = [task EXCEPT ![n].status = "IN_PROGRESS"]
    BY DEF Take, Acked
  <1>3. /\ task'[n].type = task[n].type /\ task'[n].age = task[n].age
        /\ task'[n].status \in {"IN_PROGRESS", task[n].status}
        /\ \A u \in Task : u # n => task'[u] = task[u]
    BY <1>2 DEF IInv, TypeOK
  <1>4. /\ hand.task = 0 /\ hand.at = "idle" /\ batch' = batch \ {n}
        /\ UNCHANGED <<token, pool>> /\ runs' = [runs EXCEPT ![n] = @ + 1]
        /\ hand'.task = n
        /\ hand'.at = IF task[n].type \in {"SYNC", "FULL"} THEN "sync" ELSE "taken"
    BY DEF Take, Nothing
  <1> QED
    BY <1>1, <1>3, <1>4

LEMMA TakeOrder == ASSUME IInv, Orderly, NEW n \in Task, Take(n) PROVE Orderly'
  <1> USE DEF IInv
  <1>1. /\ n \in batch /\ batch' = batch \ {n} /\ hand'.task = n /\ hand'.at # "idle"
        /\ runs' = [runs EXCEPT ![n] = @ + 1]
        /\ task[n].status \notin {"none", "RECEIVED"}
        /\ task[n].type = "STOP" => hand'.at = "taken"
    BY Taken
  <1>2. /\ task'[n].type = task[n].type
        /\ task'[n].status \in {"IN_PROGRESS", task[n].status}
        /\ \A u \in Task : u # n => task'[u] = task[u]
    BY Taken
  <1>3. InOrder'
    BY <1>1, <1>2 DEF Orderly, InOrder
  <1>4. Unrun'
    BY <1>1, <1>2 DEF Orderly, Unrun, TypeOK
  <1>5. Claimed'
    BY <1>1, <1>2 DEF Orderly, Claimed
  <1>6. AtRest' /\ StopStages'
    BY <1>1, <1>2 DEF AtRest, StopStages
  <1> QED
    BY <1>3, <1>4, <1>5, <1>6 DEF Orderly

\* When the last wish is taken up, a STOP, no START is left in the batch: they
\* came before it, and have the same priority.
LEMMA NoStartAfter ==
  ASSUME TypeOK, NEW s \in Task, LastStop(s), Take(s), NEW t \in Task, Start(t)
  PROVE  t \notin batch
  <1> SUFFICES ASSUME t \in batch PROVE FALSE
    OBVIOUS
  <1>1. Precedes(s, t) /\ task[s].type = "STOP" /\ task[t].type = "START"
    BY DEF Take, LastStop, Start
  <1>2. Priority(s) = 1 /\ Priority(t) = 1
    BY <1>1 DEF Priority
  <1>3. s <= t
    BY <1>1, <1>2 DEF Precedes
  <1>4. t <= s
    BY DEF LastStop, Start
  <1>5. s = t
    BY <1>3, <1>4, TaskParts
  <1> QED
    BY <1>1, <1>5

LEMMA TakeWished == ASSUME IInv, Orderly, Wished, NEW n \in Task, Take(n) PROVE Wished'
  <1> USE DEF IInv
  <1>1. /\ hand.task = 0 /\ hand.at = "idle" /\ n \in batch /\ batch' = batch \ {n}
        /\ UNCHANGED <<token, pool>> /\ runs' = [runs EXCEPT ![n] = @ + 1]
        /\ hand'.task = n
        /\ hand'.at = IF task[n].type \in {"SYNC", "FULL"} THEN "sync" ELSE "taken"
        /\ task[n].status \notin {"none", "RECEIVED"}
    BY Taken
  <1>2. /\ task'[n].type = task[n].type /\ task'[n].age = task[n].age
        /\ task'[n].status \in {"IN_PROGRESS", task[n].status}
        /\ \A u \in Task : u # n => task'[u] = task[u]
    BY Taken
  <1>3. \A t \in Task : /\ Start(t)' <=> Start(t)
                        /\ LastStop(t)' <=> LastStop(t)
                        /\ Over(t)' => Over(t)
                        /\ task'[t].status = "RECEIVED" <=> task[t].status = "RECEIVED"
    <2>1. \A t \in Task : /\ task'[t].type = task[t].type
                          /\ task'[t].status = "none" <=> task[t].status = "none"
      BY <1>1, <1>2
    <2> QED
      BY <1>1, <1>2, <2>1 DEF Start, LastStop, Over, Final
  <1>4. ASSUME NEW t \in Task PROVE Exchanged(t)'
    <2>1. CASE t = n
      BY <1>1, <1>3, <2>1 DEF Exchanged, Start
    <2>2. CASE t # n
      <3>1. runs'[t] = runs[t] /\ token' = token
        BY <1>1, <2>2 DEF TypeOK
      <3> QED
        BY <1>1, <1>3, <3>1 DEF Wished, Exchanged
    <2> QED
      BY <2>1, <2>2
  <1>5. ASSUME NEW s \in Task, LastStop(s)' PROVE LastIsKept(s)'
    <2>1. LastStop(s) /\ LastIsKept(s)
      BY <1>3, <1>5 DEF Wished
    <2>2. \A t \in Task : Start(t)' => task'[t].status # "RECEIVED"
      BY <1>3, <2>1 DEF LastIsKept
    <2>3. ASSUME task'[s].status # "RECEIVED", NEW t \in Task, Start(t) PROVE Harmless(t)'
      <3>1. Harmless(t)
        BY <1>3, <2>1, <2>3 DEF LastIsKept
      <3>2. CASE Spent(t)
        BY <1>1, <1>2, <3>2 DEF Harmless, Spent
      <3>3. CASE Away(t)
        <4>1. t # n
          BY <1>1, <3>3 DEF Away
        <4>2. runs'[t] = runs[t] /\ task'[t] = task[t] /\ t \notin batch'
          BY <1>1, <1>2, <3>3, <4>1 DEF TypeOK, Away
        <4> QED
          BY <1>1, <3>3, <4>1, <4>2 DEF Harmless, Away, Over
      <3> QED
        BY <3>1, <3>2, <3>3 DEF Harmless
    <2>4. ASSUME hand'.task = s \/ Over(s)', NEW t \in Task, Start(t) PROVE Powerless(t)'
      <3>1. CASE s = n
        <4>1. t \notin batch'
          BY <1>1, <2>1, <2>4, <3>1, NoStartAfter
        <4>2. hand'.task # t
          BY <1>1, <2>1, <2>4, <3>1 DEF LastStop, Start
        <4> QED
          BY <4>1, <4>2 DEF Powerless
      <3>2. CASE s # n
        <4>1. Powerless(t)
          BY <1>1, <1>3, <2>1, <2>4, <3>2 DEF LastIsKept
        <4> QED
          BY <1>1, <4>1 DEF Powerless
      <3> QED
        BY <3>1, <3>2
    <2>5. (hand'.task = s /\ hand'.at \in {"done", "told"}) \/ Over(s)' => pool' = Absent
      BY <1>1, <1>3, <2>1 DEF LastIsKept
    <2> QED
      BY <1>3, <2>2, <2>3, <2>4, <2>5 DEF LastIsKept
  <1> QED
    BY <1>4, <1>5 DEF Wished

\* A step of the task in hand that changes neither tasks nor batch.
LEMMA OnwardOrder ==
  ASSUME TypeOK, HandOK, Orderly, UNCHANGED <<task, batch, runs>>,
         hand.at # "idle", hand'.task = hand.task, hand'.at # "idle",
         task[hand.task].type = "STOP" => hand'.at \in {"taken", "done", "told"}
  PROVE  Orderly'
  BY DEF Orderly, InOrder, Unrun, Claimed, AtRest, StopStages

\* START: the token is exchanged, and has the grace left. If the last wish is a
\* STOP that was taken up, the token is dead.
LEMMA ExchangeKeeps ==
  ASSUME IInv, Orderly, Exchange PROVE Orderly' /\ (Wished => Wished')
  <1> USE DEF IInv
  <1>1. PICK n \in Task : n = hand.task
    BY DEF Exchange, At, HandOK
  <1>2. /\ hand.at = "taken" /\ task[n].type = "START" /\ task[n].status # "none"
        /\ UNCHANGED <<task, batch, runs>>
        /\ hand'.task = n /\ hand'.at \in {"login", "failed"}
    BY <1>1 DEF Exchange, At, Goes, TypeOK, HandOK
  <1>3. /\ token[n] = 0 => token' = token /\ pool' = pool /\ hand'.at = "failed"
        /\ token' \in {token, [token EXCEPT ![n] = IF @ > Grace THEN Grace ELSE @]}
        /\ token[n] > 0 => token' = [token EXCEPT ![n] = IF @ > Grace THEN Grace ELSE @]
    BY <1>1, TaskParts DEF Exchange, Goes, TypeOK
  <1>4. /\ \A t \in Task : token'[t] \in Nat /\ token'[t] <= token[t]
        /\ token'[n] <= Grace
    <2>1. token[n] \in Nat /\ Grace \in Nat
      BY Numbers, TaskParts
    <2>2. CASE token[n] = 0
      BY <1>3, <2>1, <2>2, TaskParts
    <2>3. CASE token[n] > 0
      <3>1. \A t \in Task : token'[t] = IF t = n /\ token[n] > Grace THEN Grace ELSE token[t]
        BY <1>3, <2>3 DEF TypeOK
      <3> QED
        BY <2>1, <3>1, TaskParts
    <2> QED
      BY <2>1, <2>2, <2>3
  <1>5. Orderly'
    BY <1>1, <1>2, OnwardOrder
  <1>6. ASSUME Wished PROVE Wished'
    <2>1. ASSUME NEW t \in Task PROVE Exchanged(t)'
      <3>1. CASE t = n
        BY <1>4, <3>1 DEF Exchanged
      <3>2. CASE t # n
        <4>1. Exchanged(t) /\ hand.task # t /\ Grace \in Nat /\ token[t] \in Nat
          BY <1>1, <1>6, <3>2, Numbers, TaskParts DEF Wished
        <4> QED
          BY <1>2, <1>4, <4>1 DEF Exchanged, Start
      <3> QED
        BY <3>1, <3>2
    <2>2. ASSUME NEW s \in Task, LastStop(s)' PROVE LastIsKept(s)'
      <3>1. LastStop(s) /\ LastIsKept(s)
        BY <1>2, <1>6, <2>2 DEF LastStop, Wished
      <3>2. hand'.task # s /\ hand.task # s
        BY <1>1, <1>2, <3>1 DEF LastStop
      <3>3. Over(s) => token[n] = 0
        BY <1>1, <1>2, <3>1 DEF LastIsKept, Start, Powerless
      <3>4. ASSUME NEW t \in Task, Harmless(t) PROVE Harmless(t)'
        <4>1. CASE Spent(t)
          BY <1>2, <1>4, <4>1, TaskParts DEF Harmless, Spent
        <4>2. CASE Away(t)
          BY <1>1, <1>2, <4>2 DEF Harmless, Away, Over
        <4> QED
          BY <3>4, <4>1, <4>2 DEF Harmless
      <3>5. ASSUME Over(s), NEW t \in Task, Powerless(t) PROVE Powerless(t)'
        <4>1. token' = token /\ hand'.at = "failed"
          BY <1>3, <3>3, <3>5
        <4> QED
          BY <1>1, <1>2, <3>5, <4>1 DEF Powerless
      <3>6. Over(s) => pool' = Absent
        BY <1>3, <3>1, <3>3 DEF LastIsKept
      <3> QED
        BY <1>2, <3>1, <3>2, <3>4, <3>5, <3>6 DEF LastIsKept, Start, Over
    <2> QED
      BY <2>1, <2>2 DEF Wished
  <1> QED
    BY <1>5, <1>6

\* START: the terminal logs in, but not after the last STOP was taken up.
LEMMA LoginKeeps ==
  ASSUME IInv, Orderly, NEW outcome, Login(outcome) PROVE Orderly' /\ (Wished => Wished')
  <1> USE DEF IInv
  <1>1. PICK n \in Task : n = hand.task
    BY DEF Login, At, HandOK
  <1>2. /\ hand.at = "login" /\ task[n].type = "START" /\ task[n].status # "none"
        /\ UNCHANGED <<task, token, batch, runs>>
        /\ hand'.task = hand.task /\ hand'.at \in {"sync", "refused"}
    BY <1>1 DEF Login, At, Goes, TypeOK, HandOK, backend
  <1>3. Orderly'
    BY <1>1, <1>2, OnwardOrder
  <1>4. ASSUME Wished PROVE Wished'
    <2>1. \A s \in Task : LastStop(s) /\ ((hand'.task = s /\ hand'.at \in {"done", "told"}) \/ Over(s)')
                          => pool' = Absent
      <3> SUFFICES ASSUME NEW s \in Task, LastStop(s), hand'.task = s \/ Over(s)' PROVE FALSE
        BY <1>2
      <3>1. Over(s) /\ LastIsKept(s)
        BY <1>1, <1>2, <1>4 DEF LastStop, Over, Wished
      <3>2. Powerless(n)
        BY <1>2, <3>1 DEF LastIsKept, Start
      <3> QED
        BY <1>1, <1>2, <3>2 DEF Powerless
    <2>2. \A t \in Task : /\ task'[t].type = task[t].type /\ task'[t].age = task[t].age
                          /\ token'[t] \in Nat /\ token'[t] <= token[t]
                          /\ task'[t].status = task[t].status
                          /\ Over(t)' => Over(t)
      BY <1>2, TaskParts DEF Over
    <2> QED
      BY <1>2, <1>4, <2>1, <2>2, CalmWished
  <1> QED
    BY <1>3, <1>4

\* STOP: the account leaves the pool.
LEMMA StopKeeps == ASSUME IInv, Orderly, Stop PROVE Orderly' /\ (Wished => Wished')
  <1> USE DEF IInv
  <1>1. PICK n \in Task : n = hand.task
    BY DEF Stop, At, HandOK
  <1>2. /\ hand.at = "taken" /\ task[n].type = "STOP"
        /\ UNCHANGED <<task, token, batch, runs>>
        /\ hand'.task = hand.task /\ hand'.at = "done" /\ pool' = Absent
    BY <1>1 DEF Stop, At, Goes, TypeOK, backend
  <1>3. Orderly'
    BY <1>1, <1>2, OnwardOrder
  <1>4. \A t \in Task : /\ task'[t].type = task[t].type /\ task'[t].age = task[t].age
                        /\ token'[t] \in Nat /\ token'[t] <= token[t]
                        /\ task'[t].status = task[t].status
                        /\ Over(t)' => Over(t)
    BY <1>2, TaskParts DEF Over
  <1>5. \A t \in Task : ~(Start(t) /\ hand.task = t)
    BY <1>1, <1>2 DEF Start
  <1>6. Wished => Wished'
    BY <1>2, <1>4, <1>5, CalmWished
  <1> QED
    BY <1>3, <1>6

\* What is not in the pool is not synchronised.
LEMMA SyncOnceAbsent ==
  ASSUME NEW outcome, SyncOnce(outcome), pool = Absent PROVE pool' = Absent
  BY DEF SyncOnce

LEMMA SyncTaskKeeps ==
  ASSUME IInv, Orderly, NEW outcome, SyncTask(outcome) PROVE Orderly' /\ (Wished => Wished')
  <1> USE DEF IInv
  <1>1. PICK n \in Task : n = hand.task
    BY DEF SyncTask, HandOK
  <1>2. /\ hand.at = "sync" /\ UNCHANGED <<task, token, batch, runs>>
        /\ hand'.task = hand.task /\ hand'.at = "done"
        /\ pool = Absent => pool' = Absent
    BY SyncOnceAbsent DEF SyncTask, Goes, TypeOK
  <1>3. task[n].type # "STOP"
    BY <1>1, <1>2 DEF Orderly, StopStages
  <1>4. Orderly'
    BY <1>1, <1>2, <1>3, OnwardOrder
  <1>5. \A t \in Task : /\ task'[t].type = task[t].type /\ task'[t].age = task[t].age
                        /\ token'[t] \in Nat /\ token'[t] <= token[t]
                        /\ task'[t].status = task[t].status
                        /\ Over(t)' => Over(t)
    BY <1>2, TaskParts DEF Over
  <1>6. ASSUME Wished PROVE Wished'
    <2>1. \A s \in Task : LastStop(s) /\ ((hand'.task = s /\ hand'.at \in {"done", "told"}) \/ Over(s)')
                          => Over(s)
      BY <1>1, <1>2, <1>3, <1>5 DEF LastStop
    <2>2. \A s \in Task : LastStop(s) /\ ((hand'.task = s /\ hand'.at \in {"done", "told"}) \/ Over(s)')
                          => pool' = Absent
      BY <1>2, <1>6, <2>1 DEF Wished, LastIsKept
    <2> QED
      BY <1>2, <1>5, <1>6, <2>2, CalmWished
  <1> QED
    BY <1>4, <1>6

\* The outcome of a STOP is acknowledged when the account is out of the pool.
LEMMA FinishKeeps == ASSUME IInv, Orderly, Finish PROVE Orderly' /\ (Wished => Wished')
  <1> USE DEF IInv
  <1>1. PICK n \in Task : n = hand.task
    BY DEF Finish, HandOK
  <1>2. /\ hand.at \in {"done", "refused", "failed"} /\ task[n].status # "none"
        /\ UNCHANGED <<token, pool, batch, runs>>
        /\ hand' = Nothing
           \/ (hand'.task = hand.task /\ hand'.at = IF hand.at = "done" THEN "told" ELSE "untold")
    BY <1>1 DEF Finish, Goes, TypeOK, HandOK
  <1>3. \/ task' = task
        \/ task' = [task EXCEPT ![n].status = IF hand.at = "done" THEN "SUCCESS" ELSE "FAILED"]
    BY <1>1 DEF Finish, Acked
  <1>4. \A t \in Task : /\ task'[t].type = task[t].type /\ task'[t].age = task[t].age
                        /\ \/ task'[t].status = task[t].status
                           \/ task[t].status # "none" /\ Over(t)'
                        /\ Over(t)' => t = n \/ Over(t)
    BY <1>2, <1>3 DEF TypeOK, Over, Final
  <1>5. task[n].type = "STOP" => hand.at = "done"
    BY <1>1, <1>2 DEF Orderly, StopStages
  <1>6. hand'.at # "idle" /\ task'[hand'.task].type = "STOP" => hand'.at \in {"taken", "done", "told"}
    BY <1>1, <1>2, <1>4, <1>5 DEF Nothing
  <1>7. Orderly'
    BY <1>2, <1>4, <1>6, CalmOrder
  <1>8. \A t \in Task : token'[t] \in Nat /\ token'[t] <= token[t]
    BY <1>2, TaskParts
  <1>9. ASSUME Wished PROVE Wished'
    <2>1. \A s \in Task : LastStop(s) /\ ((hand'.task = s /\ hand'.at \in {"done", "told"}) \/ Over(s)')
                          => pool' = Absent
      <3> SUFFICES ASSUME NEW s \in Task, LastStop(s), hand'.task = s \/ Over(s)' PROVE pool = Absent
        BY <1>2
      <3>1. s = n \/ Over(s)
        BY <1>1, <1>2, <1>4, Numbers DEF Nothing, Task
      <3>2. s = n => hand.at = "done"
        BY <1>5 DEF LastStop
      <3> QED
        BY <1>1, <1>9, <3>1, <3>2 DEF Wished, LastIsKept
    <2>2. \A s \in Task : Over(s)' => hand.task = s \/ Over(s)
      BY <1>1, <1>4
    <2>3. \A t \in Task : ~(Start(t) /\ hand.task = t /\ hand.at = "taken")
      BY <1>2
    <2>4. /\ batch' \subseteq batch /\ runs' = runs
          /\ \/ hand' = Nothing
             \/ hand.at # "idle" /\ hand'.task = hand.task /\ hand'.at \notin {"idle", "login"}
      BY <1>2
    <2> QED
      BY <1>4, <1>8, <1>9, <2>1, <2>2, <2>3, <2>4, CalmWished
  <1> QED
    BY <1>7, <1>9

\* The worker's hands are empty again, and nothing else happens to the tasks.
LEMMA EmptyHanded ==
  ASSUME TypeOK, HandOK, Orderly, UNCHANGED <<task, token, runs>>, batch' \subseteq batch,
         hand' = Nothing, pool = Absent => pool' = Absent
  PROVE  /\ Orderly'
         /\ Wished /\ (\A t \in Task : ~(Start(t) /\ hand.task = t /\ hand.at = "taken")) => Wished'
  <1>1. hand'.at = "idle"
    BY DEF Nothing
  <1>2. Orderly'
    BY <1>1, CalmOrder
  <1>3. \A t \in Task : /\ task'[t].type = task[t].type /\ task'[t].age = task[t].age
                        /\ token'[t] \in Nat /\ token'[t] <= token[t]
                        /\ task'[t].status = task[t].status
                        /\ Over(t)' => Over(t)
    BY TaskParts DEF Over
  <1>4. ASSUME Wished, \A t \in Task : ~(Start(t) /\ hand.task = t /\ hand.at = "taken")
        PROVE  Wished'
    <2>1. \A s \in Task : LastStop(s) /\ ((hand'.task = s /\ hand'.at \in {"done", "told"}) \/ Over(s)')
                          => pool' = Absent
      BY <1>1, <1>3, <1>4 DEF Wished, LastIsKept
    <2> QED
      BY <1>3, <1>4, <2>1, CalmWished
  <1> QED
    BY <1>2, <1>4

LEMMA EventKeeps == ASSUME IInv, Orderly, Event PROVE Orderly' /\ (Wished => Wished')
  <1>1. /\ hand.at # "taken" /\ hand' = Nothing
        /\ UNCHANGED <<task, token, runs, batch, pool>>
    BY DEF Event
  <1> QED
    BY <1>1, EmptyHanded DEF IInv

\* The worker dies, but not between taking up a START and exchanging its token.
LEMMA WorkerDiesKeeps ==
  ASSUME IInv, Orderly, WorkerDies
  PROVE  Orderly' /\ (Wished /\ (\A t \in Task : ~Kept(t)) => Wished')
  <1>1. /\ hand' = Nothing /\ batch' \subseteq batch /\ UNCHANGED <<task, token, runs>>
        /\ pool = Absent => pool' = Absent
    BY DEF WorkerDies, backend, Absent
  <1>2. faults' # faults
    BY DEF WorkerDies, Fault, IInv, TypeOK
  <1>3. (\A t \in Task : ~Kept(t))
        => \A t \in Task : ~(Start(t) /\ hand.task = t /\ hand.at = "taken")
    BY <1>1, <1>2 DEF Kept, Start
  <1> QED
    BY <1>1, <1>3, EmptyHanded DEF IInv

-----------------------------------------------------------------------------

\* No step hands a START out late, loses one that was taken up, or drops a STOP.
Undoes == \E t \in Task : Late(t) \/ Kept(t) \/ Dropped(t)

LEMMA NextOrder == ASSUME IInv, Orderly, Next PROVE Orderly'
  <1> USE DEF IInv
  <1>1. CASE Tick
    BY <1>1, TickOrder
  <1>2. CASE Backend
    <2>1. ASSUME NEW t \in Task, NEW status \in Final, Audit(t, status) PROVE Orderly'
      BY <2>1, ElsewhereOrder DEF Audit, worker
    <2>2. ASSUME CheckDisconnections PROVE Orderly'
      BY <2>2, ElsewhereOrder DEF CheckDisconnections, worker
    <2> QED
      BY <1>2, <2>1, <2>2, CreateTaskOrder, ForgetKeeps DEF Backend
  <1>3. CASE Poll
    BY <1>3, PollOrder
  <1>4. CASE Execute
    BY <1>4, TakeOrder, ExchangeKeeps, StopKeeps, FinishKeeps, EventKeeps, LoginKeeps, SyncTaskKeeps
    DEF Execute
  <1>5. CASE Round
    BY <1>5, ElsewhereOrder DEF Round, SyncCycle
  <1>6. CASE Flush
    BY <1>6, ElsewhereOrder DEF Flush
  <1>7. CASE WorkerDies \/ BackendDies
    BY <1>7, WorkerDiesKeeps, BackendDiesKeeps
  <1> QED
    BY <1>1, <1>2, <1>3, <1>4, <1>5, <1>6, <1>7 DEF Next

LEMMA NextWished ==
  ASSUME IInv, Orderly, Wished, Next, ~Undoes, Grace <= 1 PROVE Wished'
  <1> USE DEF IInv
  <1>1. CASE Tick
    BY <1>1, TickWished
  <1>2. CASE Backend
    <2>1. ASSUME NEW t \in Task, NEW status \in Final, Audit(t, status) PROVE Wished'
      BY <2>1, ElsewhereWished DEF Audit, worker
    <2>2. ASSUME CheckDisconnections PROVE Wished'
      BY <2>2, ElsewhereWished DEF CheckDisconnections, worker
    <2> QED
      BY <1>2, <2>1, <2>2, CreateTaskWished, ForgetKeeps DEF Backend
  <1>3. CASE Poll
    BY <1>3, PollWished DEF Undoes
  <1>4. CASE Execute
    BY <1>4, TakeWished, ExchangeKeeps, StopKeeps, FinishKeeps, EventKeeps, LoginKeeps, SyncTaskKeeps
    DEF Execute
  <1>5. CASE Round
    BY <1>5, ElsewhereWished, SyncOnceAbsent DEF Round, SyncCycle
  <1>6. CASE Flush
    BY <1>6, ElsewhereWished DEF Flush
  <1>7. CASE WorkerDies
    BY <1>7, WorkerDiesKeeps DEF Undoes
  <1>8. CASE BackendDies
    BY <1>8, BackendDiesKeeps DEF Undoes
  <1> QED
    BY <1>1, <1>2, <1>3, <1>4, <1>5, <1>6, <1>7, <1>8 DEF Next

LEMMA FirstWishes == Init => Orderly /\ Wished
  <1> SUFFICES ASSUME Init PROVE Orderly /\ Wished
    OBVIOUS
  <1>1. /\ \A t \in Task : task[t].status = "none" /\ runs[t] = 0
        /\ batch = {} /\ hand.task = 0 /\ hand.at = "idle"
    BY DEF Init, Nothing
  <1>2. \A t \in Task : hand.task # t
    BY <1>1, Numbers DEF Task
  <1>3. Orderly
    BY <1>1, <1>2 DEF Orderly, InOrder, Unrun, Claimed, AtRest, StopStages
  <1>4. Wished
    BY <1>1 DEF Wished, Exchanged, Start, LastStop
  <1> QED
    BY <1>3, <1>4

\* A wish that is kept is what is left when nothing is to be done any more.
LEMMA KeptAtRest == ASSUME TypeOK, WInv PROVE LastWishHolds
  <1> SUFFICES ASSUME ~undone, Quiet, LastIsStop PROVE pool = Absent
    BY DEF LastWishHolds
  <1>1. Wished
    BY DEF WInv
  <1>2. PICK s \in Wishes : task[s].type = "STOP" /\ \A u \in Wishes : u <= s
    BY DEF LastIsStop
  <1>3. s \in Task /\ LastStop(s)
    BY <1>2 DEF Wishes, Unused, LastStop
  <1>4. Over(s)
    BY <1>3, TaskParts DEF Quiet, LastStop, Over, Status
  <1> QED
    BY <1>1, <1>3, <1>4 DEF Wished, LastIsKept

\* createAccountTask, getPendingTasks and exchangeCredential with the worker's
\* START and STOP: unless a START was claimed and not heard of, or taken up and
\* never exchanged, or a STOP forgotten, an account that was disconnected last is
\* out of the pool when nothing is left to be done; for any number of tasks, any
\* times of redispatch, memory and life of a token, if only the grace an
\* exchanged token has (30 s) is no longer than a tick (90 s).
THEOREM LastWishIsKept ==
  ASSUME Grace <= 1
  PROVE  MCSpec => []LastWishHolds
  <1>1. MCInit => IInv /\ WInv
    BY InitOK, FirstWishes DEF MCInit, WInv
  <1>2. IInv /\ WInv /\ [MCNext]_<<vars, undone>> => (IInv /\ WInv)'
    <2> SUFFICES ASSUME IInv, WInv, [MCNext]_<<vars, undone>> PROVE (IInv /\ WInv)'
      OBVIOUS
    <2>1. CASE MCNext
      <3>1. Next /\ (undone' <=> undone \/ Undoes)
        BY <2>1 DEF MCNext, Undoes
      <3>2. IInv' /\ Orderly'
        BY <3>1, NextStep, NextOrder DEF WInv
      <3>3. undone' \/ Wished'
        BY <3>1, NextWished DEF WInv
      <3> QED
        BY <3>2, <3>3 DEF WInv
    <2>2. CASE UNCHANGED <<vars, undone>>
      <3>1. IInv' /\ undone' = undone
        BY <2>2, StutterStep
      <3>2. Orderly' /\ (Wished => Wished')
        BY <2>2, ElsewhereOrder, ElsewhereWished DEF vars, IInv, WInv
      <3> QED
        BY <3>1, <3>2 DEF WInv
    <2> QED
      BY <2>1, <2>2
  <1>3. IInv /\ WInv => LastWishHolds
    BY KeptAtRest DEF IInv
  <1> QED
    BY <1>1, <1>2, <1>3, PTL DEF MCSpec
=============================================================================
