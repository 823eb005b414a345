---------------------------- MODULE CloudAccount ----------------------------
(***************************************************************************)
(* One MT5 account in the cloud: what its user asks for (connect, sync,    *)
(* disconnect) becomes a task in the memory of the backend, which the      *)
(* worker on the Windows server polls, executes and acknowledges over a    *)
(* network that loses calls. Both sides may die. Beside the tasks: the     *)
(* tokens by which a password is fetched, the account in the worker's      *)
(* pool, and what the backend tells the user of the connection.            *)
(***************************************************************************)
EXTENDS Naturals, FiniteSets

CONSTANTS
  MaxTasks,       \* requests of the user (bound)
  Types,          \* what the user asks for: subset of TaskType
  Redispatch,     \* ticks after which a claimed task is handed out again
  Dedup,          \* ticks the worker remembers a task it has taken up
  TokenLife,      \* ticks a token is good for
  Grace,          \* ticks it is still good after it has been exchanged
  Offline,        \* ticks without news after which an account is disconnected
  Outcomes,       \* how connecting the terminal ends: subset of Outcome
  Faults,         \* kinds of faults that happen: subset of FaultKinds
  MaxFaults       \* how many of them (bound)

TaskType == {"START", "STOP", "FULL", "SYNC"}
Outcome == {"ok", "auth", "down"}
FaultKinds == {"poll", "ack", "exchange", "event", "metrics", "worker", "backend"}

ASSUME CloudAccountAssumption ==
  /\ {MaxTasks, Redispatch, Dedup, TokenLife, Grace, Offline, MaxFaults} \subseteq Nat
  /\ Types \subseteq TaskType /\ Outcomes \subseteq Outcome /\ Faults \subseteq FaultKinds

Task == 1 .. MaxTasks

VARIABLES
  task,           \* pendingTasks, in the order of their creation
  token,          \* credentialsStore: ticks the token of a task has left
  state,          \* accountTelemetry: connectionState
  row,            \* the account's isConnected, and the age of its lastSeen
  audits,         \* persistTaskAuditLog: started, not yet done
  pool,           \* the account in the worker's pool, on its disk
  batch,          \* polled tasks the worker has yet to look at
  processed,      \* _processed_tasks: ticks since it took the task up
  hand,           \* the task in hand and how far it has come
  buffered,       \* is a metrics item waiting in the offline buffer?
  faults,         \* faults so far
  runs            \* history: how often each task was taken up

vars == <<task, token, state, row, audits, pool, batch, processed, hand, buffered,
          faults, runs>>

backend == <<task, token, state, row, audits>>
worker == <<pool, batch, processed, hand, buffered>>

Final == {"SUCCESS", "FAILED"}
Status == {"none", "RECEIVED", "IN_PROGRESS", "gone"} \cup Final
State == {"UNKNOWN", "CONNECTING", "SYNCING", "CONNECTED", "DISCONNECTED", "AUTH_FAILED"}

\* Ages stop growing when they no longer matter.
Older(age, limit) == IF age < limit THEN age + 1 ELSE age

Absent == [status |-> "absent", errors |-> 0]
Online == [status |-> "ONLINE", errors |-> 0]
Forgotten == Dedup
Nothing == [task |-> 0, at |-> "idle"]

TypeOK ==
  /\ task \in [Task -> [type : TaskType, status : Status, age : 0 .. Redispatch + 1]]
  /\ token \in [Task -> 0 .. TokenLife]
  /\ state \in State
  /\ row \in [connected : BOOLEAN, age : 0 .. Offline]
  /\ audits \subseteq Task \X Final
  /\ pool \in [status : {"absent", "ONLINE", "OFFLINE", "FAILED"}, errors : 0 .. 2]
  /\ batch \subseteq Task
  /\ processed \in [Task -> 0 .. Dedup]
  /\ hand \in [task : 0 .. MaxTasks,
               at : {"idle", "taken", "login", "sync", "done", "refused", "failed",
                     "told", "untold"}]
  /\ buffered \in BOOLEAN
  /\ faults \in 0 .. MaxFaults
  /\ runs \in [Task -> Nat]

-----------------------------------------------------------------------------

Fault(kind) ==
  /\ kind \in Faults
  /\ faults < MaxFaults
  /\ faults' = faults + 1

\* Half a minute or so goes by, whatever the two are doing.
Tick ==
  /\ task' = [t \in Task |-> [task[t] EXCEPT !.age = Older(@, Redispatch + 1)]]
  /\ token' = [t \in Task |-> IF token[t] > 0 THEN token[t] - 1 ELSE 0]
  /\ row' = [row EXCEPT !.age = Older(@, Offline)]
  /\ processed' = [t \in Task |-> Older(processed[t], Forgotten)]
  /\ UNCHANGED <<state, audits, pool, batch, hand, buffered, faults, runs>>

-----------------------------------------------------------------------------
(***************************************************************************)
(* The backend: requests of the user.                                      *)
(***************************************************************************)

\* Tasks nobody has claimed that a new one of this type replaces.
Superseded(type) ==
  {t \in Task : task[t].status = "RECEIVED" /\ (task[t].type = type \/ type = "STOP")}

Unused == {t \in Task : task[t].status = "none"}

\* createAccountTask: connecting leaves the password under a token;
\* disconnecting also marks the row.
CreateTask(type) ==
  \E t \in Unused :
    /\ \A u \in Unused : t <= u
    /\ task' = [u \in Task |->
         IF u = t THEN [type |-> type, status |-> "RECEIVED", age |-> 0]
         ELSE IF u \in Superseded(type) THEN [task[u] EXCEPT !.status = "gone"]
         ELSE task[u]]
    /\ token' = [token EXCEPT ![t] = IF type = "START" THEN TokenLife ELSE 0]
    /\ state' = IF type = "START" THEN "CONNECTING" ELSE state
    /\ row' = IF type = "STOP" THEN [row EXCEPT !.connected = FALSE] ELSE row
    /\ UNCHANGED <<audits, worker, faults, runs>>

\* A finished task is dropped after a while.
Forget(t) ==
  /\ task[t].status \in Final
  /\ task' = [task EXCEPT ![t].status = "gone"]
  /\ UNCHANGED <<token, state, row, audits, worker, faults, runs>>

\* persistTaskAuditLog, started by a final ack and not awaited by it.
Audit(t, status) ==
  /\ <<t, status>> \in audits
  /\ audits' = audits \ {<<t, status>>}
  /\ row' = IF task[t].type = "STOP"
            THEN IF status = "SUCCESS" THEN [row EXCEPT !.connected = FALSE] ELSE row
            ELSE IF status = "SUCCESS"
            THEN IF row.connected THEN row ELSE [connected |-> TRUE, age |-> 0]
            ELSE IF task[t].type = "START" THEN [row EXCEPT !.connected = FALSE] ELSE row
  /\ UNCHANGED <<task, token, state, worker, faults, runs>>

\* Mutant: the cron compares the age the wrong way round.
CheckDisconnectionsYoung ==
  /\ row.connected
  /\ row.age < Offline
  /\ row' = [row EXCEPT !.connected = FALSE]
  /\ UNCHANGED <<task, token, state, audits, worker, faults, runs>>

\* The cron that disconnects an account without news.
CheckDisconnections ==
  /\ row.connected
  /\ row.age = Offline
  /\ row' = [row EXCEPT !.connected = FALSE]
  /\ UNCHANGED <<task, token, state, audits, worker, faults, runs>>

-----------------------------------------------------------------------------
(***************************************************************************)
(* The worker: one loop that polls, executes what it got, and syncs.       *)
(***************************************************************************)

\* Mutant: what is finished is handed out again, too.
DeliverableEver ==
  {t \in Task : \/ task[t].status = "RECEIVED"
                \/ task[t].status \in {"IN_PROGRESS"} \cup Final /\ task[t].age > Redispatch}

\* Mutant: a claimed task is never handed out again.
DeliverableOnce == {t \in Task : task[t].status = "RECEIVED"}

\* What a poll is handed: new tasks, and claimed ones long unfinished.
Deliverable ==
  {t \in Task : \/ task[t].status = "RECEIVED"
                \/ task[t].status = "IN_PROGRESS" /\ task[t].age > Redispatch}

Free == hand = Nothing /\ batch = {}

\* The poll claims the tasks; its answer may be lost. The worker forgets what
\* it took up long ago, and skips what it still remembers.
Poll ==
  /\ Free
  /\ Deliverable # {}
  /\ task' = [t \in Task |-> IF t \in Deliverable
                             THEN [task[t] EXCEPT !.status = "IN_PROGRESS", !.age = 0]
                             ELSE task[t]]
  /\ \/ /\ batch' = {t \in Deliverable : processed[t] = Forgotten}
        /\ UNCHANGED faults
     \/ /\ Fault("poll")
        /\ UNCHANGED batch
  /\ UNCHANGED <<token, state, row, audits, pool, processed, hand, buffered, runs>>

Priority(t) ==
  CASE task[t].type \in {"START", "STOP"} -> 1
    [] task[t].type = "FULL" -> 3
    [] task[t].type = "SYNC" -> 5

\* By priority, then in the order of creation.
Precedes(t, u) ==
  \/ Priority(t) < Priority(u)
  \/ Priority(t) = Priority(u) /\ t <= u

\* An ack reaches the backend: what it does to the task and to the state. A
\* task that is gone is not found.
Acked(t, status) ==
  IF task[t].status = "gone"
  THEN UNCHANGED <<task, state, audits>>
  ELSE /\ task' = [task EXCEPT ![t].status = status]
       /\ audits' = IF status \in Final THEN audits \cup {<<t, status>>} ELSE audits
       /\ state' = CASE status = "IN_PROGRESS" ->
                          IF task[t].type = "START" THEN "CONNECTING" ELSE "SYNCING"
                     [] status = "SUCCESS" ->
                          IF task[t].type = "STOP" THEN "DISCONNECTED" ELSE "CONNECTED"
                     [] status = "FAILED" ->
                          IF task[t].type = "START" THEN "AUTH_FAILED" ELSE state

\* The next task is taken up, and the backend told.
Take(t) ==
  /\ hand = Nothing
  /\ t \in batch
  /\ \A u \in batch : Precedes(t, u)
  /\ batch' = batch \ {t}
  /\ processed' = [processed EXCEPT ![t] = 0]
  /\ runs' = [runs EXCEPT ![t] = @ + 1]
  /\ hand' = [task |-> t, at |-> IF task[t].type \in {"SYNC", "FULL"} THEN "sync" ELSE "taken"]
  /\ \/ Acked(t, "IN_PROGRESS") /\ UNCHANGED faults
     \/ Fault("ack") /\ UNCHANGED <<task, state, audits>>
  /\ UNCHANGED <<token, row, pool, buffered>>

At(type, at) ==
  /\ hand.at = at
  /\ task[hand.task].type = type

Goes(at) == hand' = [hand EXCEPT !.at = at]

\* Mutant: a token that has been exchanged lives on.
ExchangeAgain ==
  /\ At("START", "taken")
  /\ \/ /\ token[hand.task] > 0
        /\ \/ pool' = Online /\ Goes("login") /\ UNCHANGED faults
           \/ Fault("exchange") /\ Goes("failed") /\ UNCHANGED pool
     \/ /\ token[hand.task] = 0
        /\ Goes("failed")
        /\ UNCHANGED <<pool, faults>>
  /\ UNCHANGED <<token, task, state, row, audits, batch, processed, buffered, runs>>

\* START: the token is exchanged for the password, which is put into the pool
\* at once. A dead token, and a call that fails, fail the task.
Exchange ==
  /\ At("START", "taken")
  /\ \/ /\ token[hand.task] > 0
        /\ token' = [token EXCEPT ![hand.task] = IF @ > Grace THEN Grace ELSE @]
        /\ \/ pool' = Online /\ Goes("login") /\ UNCHANGED faults
           \/ Fault("exchange") /\ Goes("failed") /\ UNCHANGED pool
     \/ /\ token[hand.task] = 0
        /\ Goes("failed")
        /\ UNCHANGED <<token, pool, faults>>
  /\ UNCHANGED <<task, state, row, audits, batch, processed, buffered, runs>>

\* mark_error: wrong credentials or the second failure quarantine the account.
Marked(outcome) ==
  LET errors == IF pool.errors < 2 THEN pool.errors + 1 ELSE 2
  IN  IF outcome = "auth" \/ errors = 2
      THEN [status |-> "FAILED", errors |-> errors]
      ELSE [status |-> "OFFLINE", errors |-> errors]

\* START: the terminal logs in.
Login(outcome) ==
  /\ At("START", "login")
  /\ IF outcome = "ok"
     THEN pool' = Online /\ Goes("sync")
     ELSE pool' = Marked(outcome) /\ Goes("refused")
  /\ UNCHANGED <<backend, batch, processed, buffered, faults, runs>>

\* STOP: the terminal is stopped, the account leaves the pool.
Stop ==
  /\ At("STOP", "taken")
  /\ pool' = Absent
  /\ Goes("done")
  /\ UNCHANGED <<backend, batch, processed, buffered, faults, runs>>

\* The metrics reach syncAccountMetrics.
Metrics ==
  /\ state' = "CONNECTED"
  /\ row' = [connected |-> TRUE, age |-> 0]

\* _sync_single_account: the account is reported, or marked and reported
\* as disconnected. What does not get through is buffered.
SyncOnce(outcome) ==
  \/ /\ pool = Absent
     /\ UNCHANGED <<pool, state, row, buffered, faults>>
  \/ /\ pool # Absent
     /\ outcome = "ok"
     /\ \/ pool' = Online /\ Metrics /\ UNCHANGED <<buffered, faults>>
        \/ /\ Fault("metrics")
           /\ pool' \in {pool, Online}
           /\ buffered' = TRUE
           /\ UNCHANGED <<state, row>>
  \/ /\ pool # Absent
     /\ outcome # "ok"
     /\ pool' = Marked(outcome)
     /\ \/ /\ state' = "DISCONNECTED"
           /\ row' = [row EXCEPT !.connected = FALSE]
           /\ UNCHANGED faults
        \/ Fault("event") /\ UNCHANGED <<state, row>>
     /\ UNCHANGED buffered

\* The sync a task asks for. Whatever comes of it, the task is done.
SyncTask(outcome) ==
  /\ hand.at = "sync"
  /\ SyncOnce(outcome)
  /\ Goes("done")
  /\ UNCHANGED <<task, token, audits, batch, processed, runs>>

\* The worker's own round over the accounts that are not quarantined.
SyncCycle(outcome) ==
  /\ hand = Nothing
  /\ pool.status \in {"ONLINE", "OFFLINE"}
  /\ SyncOnce(outcome)
  /\ UNCHANGED <<task, token, audits, batch, processed, hand, runs>>

\* The outcome is acknowledged, once. A START that reached the terminal and a
\* STOP are followed by an event.
Finish ==
  /\ hand.at \in {"done", "refused", "failed"}
  /\ \/ /\ Acked(hand.task, IF hand.at = "done" THEN "SUCCESS" ELSE "FAILED")
        /\ UNCHANGED faults
     \/ /\ Fault("ack")
        /\ UNCHANGED <<task, state, audits>>
  /\ IF hand.at # "failed" /\ task[hand.task].type \in {"START", "STOP"}
     THEN Goes(IF hand.at = "done" THEN "told" ELSE "untold")
     ELSE hand' = Nothing
  /\ UNCHANGED <<token, row, pool, batch, processed, buffered, runs>>

\* recordWorkerEvent: the event sets the state, and the row unless connected.
Event ==
  /\ hand.at \in {"told", "untold"}
  /\ hand' = Nothing
  /\ \/ /\ state' = CASE hand.at = "untold" -> "AUTH_FAILED"
                        [] At("START", "told") -> "CONNECTED"
                        [] At("STOP", "told") -> "DISCONNECTED"
        /\ row' = IF At("START", "told") THEN row ELSE [row EXCEPT !.connected = FALSE]
        /\ UNCHANGED faults
     \/ /\ Fault("event")
        /\ UNCHANGED <<state, row>>
  /\ UNCHANGED <<task, token, audits, pool, batch, processed, buffered, runs>>

\* The buffer is flushed: old metrics are reported.
Flush ==
  /\ hand = Nothing
  /\ buffered
  /\ buffered' = FALSE
  /\ Metrics
  /\ UNCHANGED <<task, token, audits, pool, batch, processed, hand, faults, runs>>

-----------------------------------------------------------------------------

\* The worker dies; it starts again with the pool it finds on its disk.
WorkerDies ==
  /\ Fault("worker")
  /\ batch' = {}
  /\ processed' = [t \in Task |-> Forgotten]
  /\ hand' = Nothing
  /\ pool' = IF pool.status = "OFFLINE" THEN [pool EXCEPT !.status = "ONLINE"] ELSE pool
  /\ UNCHANGED <<backend, buffered, runs>>

\* The backend dies, and with it what it keeps in memory.
BackendDies ==
  /\ Fault("backend")
  /\ task' = [t \in Task |-> IF t \in Unused THEN task[t]
                             ELSE [task[t] EXCEPT !.status = "gone"]]
  /\ token' = [t \in Task |-> 0]
  /\ state' = "UNKNOWN"
  /\ audits' = {}
  /\ UNCHANGED <<row, worker, runs>>

Init ==
  /\ task = [t \in Task |-> [type |-> "SYNC", status |-> "none", age |-> 0]]
  /\ token = [t \in Task |-> 0]
  /\ state = "UNKNOWN"
  /\ row = [connected |-> FALSE, age |-> Offline]
  /\ audits = {}
  /\ pool = Absent
  /\ batch = {}
  /\ processed = [t \in Task |-> Forgotten]
  /\ hand = Nothing
  /\ buffered = FALSE
  /\ faults = 0
  /\ runs = [t \in Task |-> 0]

Backend ==
  \/ \E type \in Types : CreateTask(type)
  \/ \E t \in Task : Forget(t) \/ \E status \in Final : Audit(t, status)
  \/ CheckDisconnections

Execute ==
  \/ \E t \in Task : Take(t)
  \/ Exchange \/ Stop \/ Finish \/ Event
  \/ \E outcome \in Outcomes : Login(outcome) \/ SyncTask(outcome)

Round == \E outcome \in Outcomes : SyncCycle(outcome)

Next ==
  Tick \/ Backend \/ Poll \/ Execute \/ Round \/ Flush \/ WorkerDies \/ BackendDies

Spec == Init /\ [][Next]_vars

\* Time passes, the two go on with what they have begun, and the worker's loop
\* comes by its poll, its round and its buffer, the backend by its cron.
Fairness ==
  /\ WF_vars(Tick) /\ WF_vars(Poll) /\ WF_vars(Execute) /\ WF_vars(Round)
  /\ WF_vars(Flush) /\ WF_vars(CheckDisconnections)
  /\ \A t \in Task, status \in Final : WF_vars(Audit(t, status))

FairSpec == Spec /\ Fairness

-----------------------------------------------------------------------------
(***************************************************************************)
(* Properties.                                                             *)
(***************************************************************************)

\* No task is executed a second time but for something that was lost: a task
\* whose outcome was heard, or is still to come, is not handed out again.
RepeatsOnlyAfterLoss == \A t \in Task : runs[t] <= 1 + faults

\* Nothing is left to be done.
Quiet ==
  /\ hand = Nothing /\ batch = {} /\ ~buffered
  /\ \A t \in Task : task[t].status \notin {"RECEIVED", "IN_PROGRESS"}

\* The last of the user's wishes to connect or to disconnect.
Wishes == {t \in Task \ Unused : task[t].type \in {"START", "STOP"}}
LastIsStop == \E t \in Wishes : task[t].type = "STOP" /\ \A u \in Wishes : u <= t

\* Every task ends, or is dropped for a newer one or with the backend, however
\* often polls and acks are lost and the worker dies.
EveryTaskEnds ==
  \A t \in Task : task[t].status \in {"RECEIVED", "IN_PROGRESS"}
                  ~> task[t].status \in Final \cup {"gone"}

\* An account that left the worker for good is not shown as connected for ever,
\* and one that is on line comes to be shown so, also after the backend has lost
\* its memory and whatever events were lost, late or out of order.
ShownInTheEnd ==
  /\ <>[](pool = Absent) => <>[](~row.connected)
  /\ <>[](pool.status = "ONLINE") => []<>(state = "CONNECTED")
=============================================================================
