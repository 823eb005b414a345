----------------------------- MODULE WorkerPool -----------------------------
(***************************************************************************)
(* The loop of the worker over all its accounts: tasks, rounds and the     *)
(* offline buffer, one terminal for everybody, and what the backend makes  *)
(* of the metrics and the open positions it is sent.                       *)
(*                                                                         *)
(* What the broker has of an account is a version number; a request, an    *)
(* item of the buffer and the tables carry the version they were made of.  *)
(* Which deals an account sends is the subject of DealSync.                *)
(***************************************************************************)
EXTENDS Naturals, Sequences, FiniteSets

CONSTANTS
  Accounts,
  Capacity,   \* max_accounts
  Holds,      \* <<a, b>>: the digits of a occur in the payloads of b
  MaxVersion, \* bound on changes of an account
  MaxTries,   \* failures after which a buffered item is a dead letter
  MaxFaults,  \* bound on failures, drops and restarts
  MaxActs,    \* bound on tasks and deletions of accounts
  None

ASSUME PoolAssumption ==
  /\ IsFiniteSet(Accounts) /\ None \notin Accounts \cup Nat
  /\ Holds \subseteq Accounts \X Accounts /\ \A a \in Accounts : <<a, a>> \in Holds
  /\ {Capacity, MaxVersion, MaxFaults, MaxActs} \subseteq Nat /\ MaxTries \in Nat \ {0}

VARIABLES
  truth,     \* broker: the version of an account
  known,     \* backend: accounts that have a row
  shown,     \* backend: the version of the balance
  positions, \* backend: snapshots the position rows are of
  net,       \* requests at the backend, awaited or given up
  pool, errors, \* accounts_pool.json: status and error_count
  terminal,  \* the account the one terminal is logged in to
  worker,    \* what the loop is at
  round,     \* accounts the round has still to sync
  buffer, batch, \* offline_buffer; the items the flush has still to send
  tasks,     \* tasks the backend holds for the worker
  faults, acts,
  resting,   \* history: accounts in quarantine when the round began
  mixed      \* history: accounts whose snapshots were sent while another was saved

backend == <<known, shown, positions>>
store   == <<pool, errors>>
vars == <<truth, backend, net, store, terminal, worker, round, buffer, batch, tasks, faults, acts, resting, mixed>>

Version == 0..MaxVersion
Content == Version \cup {None} \* None: no positions
Item    == [acc : Accounts, kind : {"metrics", "positions"}, v : Content, tries : 0..(MaxTries - 1)]
Request == [acc : Accounts, kind : {"metrics", "positions"}, v : Content, id : 1..2, at : {"sent", "deleted"}]
Kinds   == {"START", "STOP", "SYNC", "RESTART"}
Loop    == [at : {"idle", "connect", "metrics", "positions", "trades", "flush"},
            acc : Accounts \cup {None}, task : Kinds \cup {"none"}, wait : 0..2, item : Item \cup {None}]
Rest    == [at |-> "idle", acc |-> None, task |-> "none", wait |-> 0, item |-> None]
At(at, a, task) == [Rest EXCEPT !.at = at, !.acc = a, !.task = task]

Fault == faults < MaxFaults /\ faults' = faults + 1
Act   == acts < MaxActs /\ acts' = acts + 1

Pooled == {a \in Accounts : pool[a] # "out"}

\* Mutant: only an account without a session rests.
ActiveAll == Pooled

\* get_active_account_ids: a quarantined account rests.
Active == {a \in Accounts : pool[a] \in {"ONLINE", "OFFLINE"}}

Init ==
  /\ truth \in [Accounts -> Version] /\ known = Accounts
  /\ shown \in [Accounts -> {0}] /\ positions = [a \in Accounts |-> {}]
  /\ net = {} /\ pool \in [Accounts -> {"out", "ONLINE"}] /\ errors = [a \in Accounts |-> 0]
  /\ Cardinality(Pooled) <= Capacity
  /\ terminal = None /\ round = <<>> /\ batch = {} /\ tasks = {}
  /\ buffer \in SUBSET {i \in Item : i.v = 0 /\ i.tries = 0} \* left by an earlier run
  /\ worker = Rest
  /\ faults \in 0..MaxFaults /\ acts \in 0..MaxActs \* what is left of the bounds
  /\ resting = {} /\ mixed = {}

-----------------------------------------------------------------------------
(* The pool of accounts.                                                   *)

\* add_or_update_account
Added(a) == /\ pool' = [pool EXCEPT ![a] = "ONLINE"]
            /\ errors' = [errors EXCEPT ![a] = 0]

\* update_checkpoint, whatever the status was.
Checkpoint(a) == IF pool[a] = "out" THEN UNCHANGED store ELSE Added(a)

\* mark_error: an authorisation that is refused, or a second failure, quarantines.
Marked(a, auth) ==
  IF pool[a] = "out" THEN UNCHANGED store
  ELSE /\ errors' = [errors EXCEPT ![a] = IF @ < 2 THEN @ + 1 ELSE @]
       /\ pool' = [pool EXCEPT ![a] = IF auth \/ errors[a] + 1 >= 2 THEN "FAILED" ELSE "OFFLINE"]

Removed(a) == /\ pool' = [pool EXCEPT ![a] = "out"]
              /\ errors' = [errors EXCEPT ![a] = 0]

\* _load_pool
Loaded == pool' = [a \in Accounts |-> IF pool[a] \in {"out", "FAILED"} THEN pool[a] ELSE "ONLINE"]

-----------------------------------------------------------------------------
(* Tasks, before each account of a round and between rounds.               *)

Idle == worker.at = "idle" /\ batch = {}

TakeTask(t) ==
  /\ Idle /\ t \in tasks
  /\ tasks' = tasks \ {t}
  /\ \/ /\ t.kind = "START" \* the token is exchanged and the account put into the pool
        /\ IF t.acc \in Pooled \/ Cardinality(Pooled) < Capacity
           THEN Added(t.acc) /\ worker' = At("connect", t.acc, "START")
           ELSE UNCHANGED <<store, worker>>
        /\ UNCHANGED <<terminal, faults>>
     \/ t.kind = "START" /\ Fault /\ UNCHANGED <<store, worker, terminal>> \* the exchange fails
     \/ /\ t.kind = "STOP" \* the terminal that stops is the one of everybody
        /\ Removed(t.acc) /\ terminal' \in {terminal, None}
        /\ UNCHANGED <<worker, faults>>
     \/ /\ t.kind = "SYNC"
        /\ worker' = IF t.acc \in Pooled THEN At("connect", t.acc, "SYNC") ELSE worker
        /\ UNCHANGED <<store, terminal, faults>>
     \/ /\ t.kind = "RESTART"
        /\ IF t.acc \in Pooled
           THEN worker' = At("connect", t.acc, "RESTART") /\ terminal' \in {terminal, None}
           ELSE UNCHANGED <<worker, terminal>>
        /\ UNCHANGED <<store, faults>>
  /\ UNCHANGED <<truth, backend, net, round, buffer, batch, acts, resting, mixed>>

-----------------------------------------------------------------------------
(* Rounds, and the sync of one account.                                    *)

Orders(S) == {s \in [1..Cardinality(S) -> S] : \A i, j \in DOMAIN s : s[i] = s[j] => i = j}

StartRound ==
  /\ Idle /\ round = <<>> /\ Active # {}
  /\ round' \in Orders(Active)
  /\ resting' = {a \in Accounts : pool[a] = "FAILED"}
  /\ UNCHANGED <<truth, backend, net, store, terminal, worker, buffer, batch, tasks, faults, acts, mixed>>

\* The list is the one the round began with; an account that left is skipped.
NextOfRound ==
  /\ Idle /\ round # <<>>
  /\ round' = Tail(round)
  /\ worker' = IF Head(round) \in Pooled
               THEN At("connect", Head(round), "none") ELSE worker
  /\ UNCHANGED <<truth, backend, net, store, terminal, buffer, batch, tasks, faults, acts, resting, mixed>>

\* Mutant: a terminal that is logged in will do.
LoginOnce(a) == IF terminal = None THEN a ELSE terminal

\* ensure_connected logs the one terminal in to the account of the step.
Login(a) == a

Connect ==
  /\ worker.at = "connect"
  /\ \/ /\ terminal' = Login(worker.acc)
        /\ worker' = [worker EXCEPT !.at = "metrics"]
        /\ IF worker.task = "START" THEN Added(worker.acc) ELSE UNCHANGED store
        /\ UNCHANGED faults
     \/ /\ terminal' = None /\ Fault
        /\ worker' = Rest
        /\ IF worker.task = "RESTART" THEN UNCHANGED store
           ELSE \E auth \in BOOLEAN : Marked(worker.acc, auth)
  /\ UNCHANGED <<truth, backend, net, round, buffer, batch, tasks, acts, resting, mixed>>

Ids == {r.id : r \in net}

Send(a, kind, v) ==
  \E id \in (1..2) \ Ids :
    /\ net' = net \cup {[acc |-> a, kind |-> kind, v |-> v, id |-> id, at |-> "sent"]}
    /\ worker' = [worker EXCEPT !.wait = id]
    /\ mixed' = IF kind = "positions" /\ \E r \in net : r.kind = "positions" /\ r.acc = a
                THEN mixed \cup {a} ELSE mixed

\* Of a terminal that is with another account nothing is read: no metrics.
SendMetrics ==
  /\ worker.at = "metrics" /\ worker.wait = 0
  /\ IF terminal = worker.acc THEN Send(worker.acc, "metrics", truth[worker.acc])
     ELSE worker' = [worker EXCEPT !.at = "positions"] /\ UNCHANGED <<net, mixed>>
  /\ UNCHANGED <<truth, backend, store, terminal, round, buffer, batch, tasks, faults, acts, resting>>

\* And no positions, which is sent as such.
SendPositions ==
  /\ worker.at = "positions" /\ worker.wait = 0
  /\ Send(worker.acc, "positions", IF terminal = worker.acc THEN truth[worker.acc] ELSE None)
  /\ UNCHANGED <<truth, backend, store, terminal, round, buffer, batch, tasks, faults, acts, resting>>

\* The deals are answered, or there are none: the checkpoint is saved.
SendTrades ==
  /\ worker.at = "trades"
  /\ worker' = Rest
  /\ \/ Checkpoint(worker.acc) /\ UNCHANGED faults
     \/ UNCHANGED store /\ (IF worker.acc \in known THEN Fault ELSE UNCHANGED faults)
  /\ UNCHANGED <<truth, backend, net, terminal, round, buffer, batch, tasks, acts, resting, mixed>>

-----------------------------------------------------------------------------
(* The offline buffer.                                                     *)

StartFlush(S) ==
  /\ Idle /\ round = <<>> /\ S # {} /\ S \subseteq buffer
  /\ batch' = S
  /\ UNCHANGED <<truth, backend, net, store, terminal, worker, round, buffer, tasks, faults, acts, resting, mixed>>

\* Mutant: the pending items of whoever is not the refused account go.
PurgeAll(a) == {}

\* purge_account_items: LIKE on the digits of the account.
Purge(a) == {i \in buffer : <<a, i.acc>> \notin Holds}

FlushNext(i) ==
  /\ worker.at = "idle" /\ i \in batch
  /\ batch' = batch \ {i}
  /\ \E id \in (1..2) \ Ids :
       /\ net' = net \cup {[acc |-> i.acc, kind |-> i.kind, v |-> i.v, id |-> id, at |-> "sent"]}
       /\ worker' = [Rest EXCEPT !.at = "flush", !.wait = id, !.item = i]
       /\ mixed' = IF i.kind = "positions" /\ \E r \in net : r.kind = "positions" /\ r.acc = i.acc
                   THEN mixed \cup {i.acc} ELSE mixed
  /\ UNCHANGED <<truth, backend, store, terminal, round, buffer, tasks, faults, acts, resting>>

-----------------------------------------------------------------------------
(* The backend, and its answers.                                           *)

\* What the worker goes on with.
After == CASE worker.at = "metrics"   -> [worker EXCEPT !.wait = 0, !.at = "positions"]
           [] worker.at = "positions" -> [worker EXCEPT !.wait = 0, !.at = "trades"]
           [] OTHER -> Rest

\* The answer reaches the worker, if it still waits for it.
Answered(r, found) ==
  IF worker.wait # r.id THEN UNCHANGED <<worker, store, buffer>>
  ELSE /\ worker' = IF worker.at = "metrics" /\ ~found THEN Rest ELSE After
       /\ IF worker.at = "metrics" /\ ~found THEN Removed(r.acc) ELSE UNCHANGED store
       /\ buffer' = IF worker.at # "flush" THEN buffer
                    ELSE IF found THEN buffer \ {worker.item} ELSE Purge(r.acc) \ {worker.item}

\* mark_failed: too many failures make a dead letter of an item.
Again(i) == IF i.tries + 1 >= MaxTries THEN {} ELSE {[i EXCEPT !.tries = @ + 1]}

\* No answer, or an error: what was sent goes into the buffer, or stays there.
Unanswered ==
  /\ worker' = After
  /\ LET r == CHOOSE q \in net : q.id = worker.wait
         i == worker.item
     IN  buffer' = IF worker.at # "flush"
                   THEN buffer \cup {[acc |-> r.acc, kind |-> r.kind, v |-> r.v, tries |-> 0]}
                   ELSE IF i \notin buffer THEN buffer
                   ELSE (buffer \ {i}) \cup Again(i)

\* The worker waits ten seconds; the request may be processed yet.
GiveUp ==
  /\ worker.wait # 0 /\ Cardinality(net) < 2 /\ Fault
  /\ Unanswered
  /\ UNCHANGED <<truth, backend, net, store, terminal, round, batch, tasks, acts, resting, mixed>>

\* A request is lost, or fails at the backend: of positions, perhaps after the deletion.
Fails(r) ==
  /\ r \in net /\ Fault
  /\ net' = net \ {r}
  /\ IF worker.wait = r.id THEN Unanswered ELSE UNCHANGED <<worker, buffer>>
  /\ UNCHANGED <<truth, backend, store, terminal, round, batch, tasks, acts, resting, mixed>>

\* syncAccountMetrics
SaveMetrics(r) ==
  /\ r \in net /\ r.kind = "metrics"
  /\ net' = net \ {r}
  /\ shown' = IF r.acc \in known THEN [shown EXCEPT ![r.acc] = r.v] ELSE shown
  /\ Answered(r, r.acc \in known)
  /\ UNCHANGED <<truth, known, positions, terminal, round, batch, tasks, faults, acts, resting, mixed>>

\* Mutant: the rows that are there stay, to be saved over.
WipedNot(a) == positions

Wiped(a) == [positions EXCEPT ![a] = {}]

\* syncPositions: delete, then save.
DeletePositions(r) ==
  /\ r \in net /\ r.kind = "positions" /\ r.at = "sent"
  /\ positions' = IF r.acc \in known THEN Wiped(r.acc) ELSE positions
  /\ IF r.acc \in known /\ r.v # None
     THEN net' = (net \ {r}) \cup {[r EXCEPT !.at = "deleted"]} /\ UNCHANGED <<worker, store, buffer>>
     ELSE net' = net \ {r} /\ Answered(r, r.acc \in known)
  /\ UNCHANGED <<truth, known, shown, terminal, round, batch, tasks, faults, acts, resting, mixed>>

SavePositions(r) ==
  /\ r \in net /\ r.at = "deleted"
  /\ positions' = [positions EXCEPT ![r.acc] = @ \cup {<<r.v, r.id>>}]
  /\ net' = net \ {r}
  /\ Answered(r, TRUE)
  /\ UNCHANGED <<truth, known, shown, terminal, round, batch, tasks, faults, acts, resting, mixed>>

-----------------------------------------------------------------------------
(* Around them.                                                            *)

Change(a) ==
  /\ truth[a] < MaxVersion
  /\ truth' = [truth EXCEPT ![a] = @ + 1]
  /\ UNCHANGED <<backend, net, store, terminal, worker, round, buffer, batch, tasks, faults, acts, resting, mixed>>

\* createAccountTask: one of a kind is left, and a stop replaces all.
Ask(t) ==
  /\ t \notin tasks /\ t.acc \in known /\ Act
  /\ tasks' = {u \in tasks : u.acc # t.acc \/ t.kind # "STOP"} \cup {t}
  /\ UNCHANGED <<truth, backend, net, store, terminal, worker, round, buffer, batch, faults, resting, mixed>>

Delete(a) ==
  /\ a \in known /\ Act
  /\ known' = known \ {a} /\ positions' = [positions EXCEPT ![a] = {}]
  /\ UNCHANGED <<truth, shown, net, store, terminal, worker, round, buffer, batch, tasks, faults, resting, mixed>>

TerminalDrops ==
  /\ terminal # None /\ Fault
  /\ terminal' = None
  /\ UNCHANGED <<truth, backend, net, store, worker, round, buffer, batch, tasks, acts, resting, mixed>>

\* The pool and the buffer are on disk; requests may be at the backend still.
Restart ==
  /\ Fault
  /\ Loaded
  /\ worker' = Rest /\ round' = <<>> /\ batch' = {}
  /\ resting' = {}
  /\ UNCHANGED <<truth, backend, net, errors, terminal, buffer, tasks, acts, mixed>>

-----------------------------------------------------------------------------
Tasking  == \E t \in tasks : TakeTask(t)
Syncing  == StartRound \/ NextOfRound \/ Connect \/ SendMetrics \/ SendPositions \/ SendTrades
Flushing == \/ \E S \in SUBSET buffer : StartFlush(S)
            \/ \E i \in batch : FlushNext(i)
Serving  == \E r \in net : SaveMetrics(r) \/ DeletePositions(r) \/ SavePositions(r)
Failing  == GiveUp \/ TerminalDrops \/ Restart \/ \E r \in net : Fails(r)
Around   == \/ \E a \in Accounts : Change(a) \/ Delete(a)
            \/ \E a \in Accounts, kind \in Kinds : Ask([acc |-> a, kind |-> kind])

Next == Tasking \/ Syncing \/ Flushing \/ Serving \/ Failing \/ Around

Spec == Init /\ [][Next]_vars

\* The loop goes on and comes by its timers to a round and to the buffer, whose
\* items are all due in the end; the backend works off what it was sent.
Fairness ==
  /\ SF_vars(Tasking) /\ SF_vars(StartRound) /\ SF_vars(NextOfRound)
  /\ WF_vars(Connect) /\ WF_vars(SendMetrics) /\ WF_vars(SendPositions) /\ WF_vars(SendTrades)
  /\ SF_vars(StartFlush(buffer)) /\ WF_vars(\E i \in batch : FlushNext(i))
  /\ WF_vars(Serving)

FairSpec == Spec /\ Fairness

-----------------------------------------------------------------------------
TypeOK ==
  /\ truth \in [Accounts -> Version] /\ known \subseteq Accounts
  /\ shown \in [Accounts -> Version] /\ positions \in [Accounts -> SUBSET (Version \X (1..2))]
  /\ net \subseteq Request
  /\ pool \in [Accounts -> {"out", "ONLINE", "OFFLINE", "FAILED"}] /\ errors \in [Accounts -> 0..2]
  /\ Cardinality(Pooled) <= Capacity
  /\ terminal \in Accounts \cup {None} /\ worker \in Loop
  /\ round \in Seq(Accounts) /\ buffer \subseteq Item /\ batch \subseteq Item
  /\ tasks \subseteq [acc : Accounts, kind : Kinds]
  /\ faults \in 0..MaxFaults /\ acts \in 0..MaxActs
  /\ resting \subseteq Accounts /\ mixed \subseteq Accounts

\* A quarantined account comes back by a task for it, or by the round during
\* which it was quarantined, and never by a later round or a restart.
QuarantineHolds ==
  [][\A a \in Accounts : pool[a] = "FAILED" /\ pool'[a] \in {"ONLINE", "OFFLINE"} =>
       \/ \E t \in tasks \ tasks' : t.acc = a /\ t.kind = "START"
       \/ worker.acc = a /\ (worker.task # "none" \/ a \notin resting)]_vars

\* The balance goes back to an older version only by an item of the offline
\* buffer or by a request the worker has given up.
BackOnlyByBuffer ==
  [][\A a \in Accounts : shown'[a] < shown[a] =>
       \E r \in net \ net' : r.acc = a /\ (worker.at = "flush" \/ r.id # worker.wait)]_vars

\* An item of an account the backend knows leaves the buffer undelivered only
\* as a dead letter, or together with those of an account that is gone and
\* whose digits are in it.
PurgeSpares ==
  [][\A i \in buffer \ buffer' : i.acc \in known =>
       \/ worker.at = "flush" /\ worker.item = i
       \/ \E a \in Accounts \ known : <<a, i.acc>> \in Holds]_vars

\* The rows of positions are of one snapshot, unless two were sent at once.
OneSnapshot == \A a \in Accounts : Cardinality(positions[a]) > 1 => a \in mixed

\* In the end the balance and the positions shown are the broker's for good
\* (whatever was lost, late, doubled or out of order before), and the positions
\* come back after each replacement, for every account that stays at the
\* backend and in the pool.
CatchesUp ==
  \A a \in Accounts :
    <>[](a \in known /\ a \in Active)
    => /\ <>[](/\ shown[a] = truth[a] /\ Cardinality(positions[a]) <= 1
               /\ \A p \in positions[a] : p[1] = truth[a])
       /\ []<>(positions[a] # {})
=============================================================================
