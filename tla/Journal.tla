------------------------------ MODULE Journal ------------------------------
(***************************************************************************)
(* The journal of one account: the table `trades` of PostgreSQL, its copy  *)
(* in ClickHouse, the history of imports, and the balance of the account.  *)
(* Imports, reverts, movements, notes and dashboard views interleave at    *)
(* their awaits.                                                           *)
(*                                                                         *)
(* A row is told by the import that created it (`id`) and by the import it *)
(* names (`log`): an import that finds the row there at its upsert keeps   *)
(* the id and takes the log over.  The balance is abstracted to the set of *)
(* imports and movements whose amounts it is made of.                      *)
(***************************************************************************)
EXTENDS Naturals, FiniteSets

CONSTANTS
  Deals,     \* contracts of the account
  Manual,    \* those of them the user types in by hand
  Recent,    \* those in the period a filtered dashboard shows
  Imports,   \* calls of processTradeImport; each is its own log
  Batch,     \* the deals of each import
  ByWorker,  \* imports of the worker (AUTO_SYNC), which leave the balance alone
  Moves,     \* calls of createTransaction
  Reverts,   \* calls of revertImport
  Notes,     \* calls that edit the notes of a trade
  Views,     \* dashboards that may be open at once
  MaxFaults, \* bound on failures and crashes
  None,      \* no row
  Hand       \* stands for "no import" in the row of a manual trade

ASSUME JournalAssumption ==
  /\ IsFiniteSet(Deals) /\ IsFiniteSet(Imports)
  /\ Manual \subseteq Deals /\ Recent \subseteq Deals
  /\ Batch \in [Imports -> SUBSET (Deals \ Manual)]
  /\ ByWorker \subseteq Imports
  /\ Imports \cap Moves = {}
  /\ MaxFaults \in Nat
  /\ Hand \notin Imports /\ None \notin [id : Imports \cup {Hand}, log : Imports \cup {Hand}]

VARIABLES
  trades,  \* the table: deal -> row
  logs,    \* import_logs
  balance, \* account.balance, as the writers it is made of
  copy,    \* ClickHouse: how often each version of a row is there
  import, move, revert, note, view, \* the calls in hand
  faults,
  overlap, \* history: <<w, v>> when w settled while v was in hand
  changed, \* history: deals whose row a note wrote back after it had changed
  removed  \* history: deals a revert has deleted

history == <<overlap, changed, removed>>
vars == <<trades, logs, balance, copy, import, move, revert, note, view, faults, history>>

Sources == Imports \cup {Hand}
Row(d)  == LET from == IF d \in Manual THEN {Hand} ELSE Imports IN [id : from, log : from]
Version == UNION {{d} \X Row(d) : d \in Deals}
Writers == (Imports \ ByWorker) \cup Moves

RowsOf(log)  == {d \in Deals : trades[d] # None /\ trades[d].log = log}
Stored(S)    == {d \in S : trades[d] # None}
Versions(S)  == {<<d, trades[d]>> : d \in Stored(S)}
Copies(S)    == {x \in Version \X {1, 2} : x[2] <= copy[x[1]] /\ x[1][1] \in S}

\* An insert into ClickHouse adds a copy of each version; a third copy is not
\* told from a second.
Inserted(c, V) == [v \in Version |-> IF v \in V /\ c[v] < 2 THEN c[v] + 1 ELSE c[v]]
Deleted(c, V)  == [v \in Version |-> IF v \in V THEN 0 ELSE c[v]]

NewImport == [at |-> "new", fresh |-> {}, saw |-> {}]
NewMove   == [at |-> "new", saw |-> {}]
NewRevert == [at |-> "new", log |-> Hand, ids |-> {}]
NewNote   == [at |-> "new", seen |-> {}]
Closed    == [at |-> "new", scope |-> {}, found |-> {}, rows |-> {}]

\* A call is still to come, or is never made.
Calls(P, call) == [P -> {call, [call EXCEPT !.at = "never"]}]

Init ==
  /\ trades = [d \in Deals |-> None]
  /\ logs = {}
  /\ balance = {}
  /\ copy = [v \in Version |-> 0]
  /\ import \in Calls(Imports, NewImport)
  /\ move \in Calls(Moves, NewMove)
  /\ revert \in Calls(Reverts, NewRevert)
  /\ note \in Calls(Notes, NewNote)
  /\ view \in Calls(Views, Closed)
  /\ faults = 0
  /\ overlap = {} /\ changed = {} /\ removed = {}

Fault == faults < MaxFaults /\ faults' = faults + 1

-----------------------------------------------------------------------------
(* Writers of the balance: each reads it, awaits, and saves what it read   *)
(* with its own amount added.                                              *)

Settled == {i \in Imports \ ByWorker : import[i].at = "done" /\ import[i].fresh # {}}
             \cup {m \in Moves : move[m].at = "done"}
InHand  == {i \in Imports \ ByWorker : import[i].at \in {"read", "priced", "written"}}
             \cup {m \in Moves : move[m].at = "read"}

\* w saves the balance it saw, and its amount.
Settle(w, saw) ==
  /\ balance' = saw \cup {w}
  /\ overlap' = overlap \cup ({w} \X (InHand \ {w}))

\* The account row is locked from the save of an import to its commit.
Locked(w) == \E i \in Imports \ (ByWorker \cup {w}) : import[i].at = "written"

MoveRead(m) ==
  /\ move[m].at = "new"
  /\ move' = [move EXCEPT ![m] = [at |-> "read", saw |-> balance]]
  /\ UNCHANGED <<trades, logs, balance, copy, import, revert, note, view, faults, history>>

MoveSave(m) ==
  /\ move[m].at = "read" /\ ~Locked(m)
  /\ Settle(m, move[m].saw)
  /\ move' = [move EXCEPT ![m] = [at |-> "done", saw |-> {}]]
  /\ UNCHANGED <<trades, logs, copy, import, revert, note, view, faults, changed, removed>>

MoveFail(m) ==
  /\ move[m].at = "read" /\ Fault
  /\ move' = [move EXCEPT ![m] = [at |-> "failed", saw |-> {}]]
  /\ UNCHANGED <<trades, logs, balance, copy, import, revert, note, view, history>>

-----------------------------------------------------------------------------
(* processTradeImport, in a transaction that reads what is committed.      *)

\* Mutant: the import does not look for deals it already has.
ImportReadAll(i) ==
  /\ import[i].at = "new"
  /\ import' = [import EXCEPT ![i].at = IF Batch[i] = {} THEN "done" ELSE "read", ![i].fresh = Batch[i]]
  /\ UNCHANGED <<trades, logs, balance, copy, move, revert, note, view, faults, history>>

\* Deals the table holds are left out; with nothing left there is nothing to do.
ImportRead(i) ==
  /\ import[i].at = "new"
  /\ LET fresh == Batch[i] \ Stored(Deals)
     IN  import' = [import EXCEPT ![i].at = IF fresh = {} THEN "done" ELSE "read", ![i].fresh = fresh]
  /\ UNCHANGED <<trades, logs, balance, copy, move, revert, note, view, faults, history>>

ImportPrice(i) ==
  /\ import[i].at = "read" /\ i \notin ByWorker
  /\ import' = [import EXCEPT ![i].at = "priced", ![i].saw = balance]
  /\ UNCHANGED <<trades, logs, balance, copy, move, revert, note, view, faults, history>>

\* The row an import leaves of a deal, and those it holds locked.
Upserted(i, d) == [id |-> IF trades[d] = None THEN i ELSE trades[d].id, log |-> i]
Held(d) == \E i \in Imports : import[i].at = "written" /\ d \in import[i].fresh

\* Balance, log and upsert, uncommitted; then ClickHouse, which does not wait
\* for the commit and may fail unnoticed.
ImportWrite(i) ==
  /\ import[i].at = IF i \in ByWorker THEN "read" ELSE "priced"
  /\ i \in ByWorker \/ ~Locked(i)
  /\ \A d \in import[i].fresh : ~Held(d)
  /\ \/ /\ copy' = Inserted(copy, {<<d, Upserted(i, d)>> : d \in import[i].fresh})
        /\ UNCHANGED faults
     \/ UNCHANGED copy /\ Fault
  /\ import' = [import EXCEPT ![i].at = "written"]
  /\ UNCHANGED <<trades, logs, balance, move, revert, note, view, history>>

ImportCommit(i) ==
  /\ import[i].at = "written"
  /\ trades' = [d \in Deals |-> IF d \in import[i].fresh THEN Upserted(i, d) ELSE trades[d]]
  /\ logs' = logs \cup {i}
  /\ IF i \in ByWorker THEN UNCHANGED <<balance, overlap>> ELSE Settle(i, import[i].saw)
  /\ import' = [import EXCEPT ![i].at = "done", ![i].saw = {}]
  /\ UNCHANGED <<copy, move, revert, note, view, faults, changed, removed>>

\* Mutant: the account is saved outside the transaction.
ImportFailKeeping(i) ==
  /\ import[i].at \in {"read", "priced", "written"} /\ Fault
  /\ balance' = IF import[i].at = "written" /\ i \notin ByWorker THEN import[i].saw \cup {i} ELSE balance
  /\ import' = [import EXCEPT ![i] = [at |-> "failed", fresh |-> {}, saw |-> {}]]
  /\ UNCHANGED <<trades, logs, copy, move, revert, note, view, history>>

\* Any error before the commit, or a crash: the transaction is rolled back.
ImportFail(i) ==
  /\ import[i].at \in {"read", "priced", "written"} /\ Fault
  /\ import' = [import EXCEPT ![i] = [at |-> "failed", fresh |-> {}, saw |-> {}]]
  /\ UNCHANGED <<trades, logs, balance, copy, move, revert, note, view, history>>

-----------------------------------------------------------------------------
(* revertImport: five statements, no transaction.                          *)

RevertFind(r, log) ==
  /\ revert[r].at = "new" /\ log \in logs
  /\ revert' = [revert EXCEPT ![r] =
                 [at |-> "found", log |-> log, ids |-> {<<d, trades[d].id>> : d \in RowsOf(log)}]]
  /\ UNCHANGED <<trades, logs, balance, copy, import, move, note, view, faults, history>>

\* A deletion in ClickHouse that fails is logged and forgotten.
Purge(r, from, to, V) ==
  /\ revert[r].at = from
  /\ \/ copy' = Deleted(copy, V) /\ UNCHANGED faults
     \/ UNCHANGED copy /\ Fault
  /\ revert' = [revert EXCEPT ![r].at = to]
  /\ UNCHANGED <<trades, logs, balance, import, move, note, view, history>>

RevertPurge(r) ==
  \/ Purge(r, "found", "purged", {v \in Version : v[2].log = revert[r].log})
  \/ Purge(r, "purged", "cleared", {v \in Version : <<v[1], v[2].id>> \in revert[r].ids})

\* A row an import has locked makes the deletion wait.
Delete(r, from, to, S) ==
  /\ revert[r].at = from
  /\ \A d \in S : ~Held(d)
  /\ trades' = [d \in Deals |-> IF d \in S THEN None ELSE trades[d]]
  /\ removed' = removed \cup S
  /\ revert' = [revert EXCEPT ![r].at = to]
  /\ UNCHANGED <<logs, balance, copy, import, move, note, view, faults, overlap, changed>>

RevertDelete(r) ==
  \/ Delete(r, "cleared", "deleted", RowsOf(revert[r].log))
  \/ Delete(r, "deleted", "emptied", {d \in Stored(Deals) : <<d, trades[d].id>> \in revert[r].ids})

\* Mutant: the log goes between the two deletions of its trades.
RevertUnlogEarly(r) ==
  /\ revert[r].at \in {"cleared", "emptied"}
  /\ logs' = logs \ {revert[r].log}
  /\ revert' = [revert EXCEPT ![r].at = "done"]
  /\ UNCHANGED <<trades, balance, copy, import, move, note, view, faults, history>>

RevertUnlog(r) ==
  /\ revert[r].at = "emptied"
  /\ logs' = logs \ {revert[r].log}
  /\ revert' = [revert EXCEPT ![r].at = "done"]
  /\ UNCHANGED <<trades, balance, copy, import, move, note, view, faults, history>>

RevertFail(r) ==
  /\ revert[r].at \in {"found", "purged", "cleared", "deleted", "emptied"} /\ Fault
  /\ revert' = [revert EXCEPT ![r].at = "failed"]
  /\ UNCHANGED <<trades, logs, balance, copy, import, move, note, view, history>>

-----------------------------------------------------------------------------
(* Manual trades and notes.                                                *)

\* createManualTrade: no log, no amount; the copy may be lost.
ManualTrade(d) ==
  /\ trades[d] = None
  /\ trades' = [trades EXCEPT ![d] = [id |-> Hand, log |-> Hand]]
  /\ \/ copy' = Inserted(copy, {<<d, [id |-> Hand, log |-> Hand]>>}) /\ UNCHANGED faults
     \/ UNCHANGED copy /\ Fault
  /\ UNCHANGED <<logs, balance, import, move, revert, note, view, history>>

NoteRead(n, d) ==
  /\ note[n].at = "new" /\ trades[d] # None
  /\ note' = [note EXCEPT ![n] = [at |-> "read", seen |-> {<<d, trades[d]>>}]]
  /\ UNCHANGED <<trades, logs, balance, copy, import, move, revert, view, faults, history>>

\* The save writes the columns that differ from the row of that id, and the
\* whole row when it is gone; another row of the deal makes it fail.
\* updateJournal inserts a copy as well, updateTradeMetadata changes it in place.
NoteSave(n) ==
  /\ note[n].at = "read"
  /\ \E p \in note[n].seen :
       LET d == p[1] IN
       /\ ~Held(d)
       /\ trades[d] # None => trades[d].id = p[2].id
       /\ trades' = [trades EXCEPT ![d] = p[2]]
       /\ changed' = IF trades[d] = p[2] THEN changed ELSE changed \cup {d}
       /\ copy' \in {copy, Inserted(copy, {p})}
  /\ note' = [note EXCEPT ![n] = [at |-> "done", seen |-> {}]]
  /\ UNCHANGED <<logs, balance, import, move, revert, view, faults, overlap, removed>>

NoteFail(n) ==
  /\ note[n].at = "read"
  /\ \E p \in note[n].seen : trades[p[1]] # None /\ trades[p[1]].id # p[2].id
  /\ note' = [note EXCEPT ![n] = [at |-> "done", seen |-> {}]]
  /\ UNCHANGED <<trades, logs, balance, copy, import, move, revert, view, faults, history>>

-----------------------------------------------------------------------------
(* The dashboard: the copy is read, its size is compared with the table,   *)
(* and a difference is repaired behind the answer.                         *)

Look(v, scope) ==
  /\ view[v].at = "new"
  /\ view' = [view EXCEPT ![v] = [at |-> "looked", scope |-> scope, found |-> Copies(scope), rows |-> {}]]
  /\ UNCHANGED <<trades, logs, balance, copy, import, move, revert, note, faults, history>>

\* Mutant: only ghosts are repaired.
CompareGhosts(v) ==
  /\ view[v].at = "looked"
  /\ LET rows == Versions(view[v].scope)
     IN  view' = [view EXCEPT ![v] =
                   IF Cardinality(view[v].found) <= Cardinality(rows) THEN Closed
                   ELSE [Closed EXCEPT !.at = "ghosts", !.rows = rows]]
  /\ UNCHANGED <<trades, logs, balance, copy, import, move, revert, note, faults, history>>

Compare(v) ==
  /\ view[v].at = "looked"
  /\ LET rows == Versions(view[v].scope)
         m    == Cardinality(view[v].found)
         n    == Cardinality(rows)
     IN  view' = [view EXCEPT ![v] =
                   IF m = n THEN Closed
                   ELSE [Closed EXCEPT !.at = IF m > n THEN "ghosts" ELSE "missing",
                                       !.rows = rows]]
  /\ UNCHANGED <<trades, logs, balance, copy, import, move, revert, note, faults, history>>

\* syncAccountTrades: everything of the account goes, whatever the period.
Wipe(v) ==
  /\ view[v].at = "ghosts"
  /\ \/ copy' = Deleted(copy, Version) /\ view' = [view EXCEPT ![v].at = "missing"] /\ UNCHANGED faults
     \/ UNCHANGED copy /\ view' = [view EXCEPT ![v] = Closed] /\ Fault
  /\ UNCHANGED <<trades, logs, balance, import, move, revert, note, history>>

Refill(v) ==
  /\ view[v].at = "missing"
  /\ \/ copy' = Inserted(copy, view[v].rows) /\ UNCHANGED faults
     \/ UNCHANGED copy /\ Fault
  /\ view' = [view EXCEPT ![v] = Closed]
  /\ UNCHANGED <<trades, logs, balance, import, move, revert, note, history>>

\* ClickHouse merges the versions of a row in its own time and keeps one.
Merge(x) ==
  /\ copy[x] > 0
  /\ LET same == {v \in Version : v[1] = x[1] /\ v[2].id = x[2].id}
     IN  /\ copy[x] > 1 \/ \E v \in same \ {x} : copy[v] > 0
         /\ copy' = [v \in Version |-> IF v = x THEN 1 ELSE IF v \in same THEN 0 ELSE copy[v]]
  /\ UNCHANGED <<trades, logs, balance, import, move, revert, note, view, faults, history>>

-----------------------------------------------------------------------------
Begin ==
  \/ \E i \in Imports : ImportRead(i)
  \/ \E m \in Moves : MoveRead(m)
  \/ \E r \in Reverts, log \in Imports : RevertFind(r, log)
  \/ \E d \in Manual : ManualTrade(d)
  \/ \E n \in Notes, d \in Deals : NoteRead(n, d)
  \/ \E v \in Views, scope \in {Deals, Recent} : Look(v, scope)

GoOn ==
  \/ \E i \in Imports : ImportPrice(i) \/ ImportWrite(i) \/ ImportCommit(i)
  \/ \E m \in Moves : MoveSave(m)
  \/ \E r \in Reverts : RevertPurge(r) \/ RevertDelete(r) \/ RevertUnlog(r)
  \/ \E n \in Notes : NoteSave(n) \/ NoteFail(n)
  \/ \E v \in Views : Compare(v) \/ Wipe(v) \/ Refill(v)

Fail ==
  \/ \E i \in Imports : ImportFail(i)
  \/ \E m \in Moves : MoveFail(m)
  \/ \E r \in Reverts : RevertFail(r)

Next == Begin \/ GoOn \/ Fail \/ \E x \in Version : Merge(x)

Spec == Init /\ [][Next]_vars

\* What has begun goes on unless it fails; the full dashboard is opened again
\* and again; ClickHouse merges.
Fairness ==
  /\ \A i \in Imports : WF_vars(ImportPrice(i) \/ ImportWrite(i) \/ ImportCommit(i))
  /\ \A m \in Moves : WF_vars(MoveSave(m))
  /\ \A r \in Reverts : WF_vars(RevertPurge(r) \/ RevertDelete(r) \/ RevertUnlog(r))
  /\ \A n \in Notes : WF_vars(NoteSave(n) \/ NoteFail(n))
  /\ \A v \in Views : WF_vars(Compare(v) \/ Wipe(v) \/ Refill(v)) /\ SF_vars(Look(v, Deals))
  /\ WF_vars(\E x \in Version : Merge(x))

FairSpec == Spec /\ Fairness

-----------------------------------------------------------------------------
ImportCall == [at : {"new", "never", "read", "priced", "written", "done", "failed"},
               fresh : SUBSET (Deals \ Manual), saw : SUBSET Writers]
MoveCall   == [at : {"new", "never", "read", "done", "failed"}, saw : SUBSET Writers]
RevertCall == [at : {"new", "never", "found", "purged", "cleared", "deleted", "emptied", "done", "failed"},
               log : Sources, ids : SUBSET (Deals \X Sources)]
NoteCall   == [at : {"new", "never", "read", "done"}, seen : SUBSET Version]
ViewCall   == [at : {"new", "never", "looked", "ghosts", "missing"}, scope : SUBSET Deals,
               found : SUBSET (Version \X {1, 2}), rows : SUBSET Version]
TradesOK   == DOMAIN trades = Deals /\ \A d \in Deals : trades[d] \in Row(d) \cup {None}

TypeOK ==
  /\ TradesOK
  /\ logs \subseteq Imports
  /\ balance \subseteq Writers
  /\ copy \in [Version -> 0..2]
  /\ import \in [Imports -> ImportCall]
  /\ move \in [Moves -> MoveCall]
  /\ revert \in [Reverts -> RevertCall]
  /\ note \in [Notes -> NoteCall]
  /\ view \in [Views -> ViewCall]
  /\ faults \in 0..MaxFaults
  /\ overlap \subseteq Writers \X Writers
  /\ changed \subseteq Deals /\ removed \subseteq Deals

\* The balance is made of amounts that were committed, and an amount that is
\* missing from it was overwritten by a writer in hand at the time it settled:
\* nothing else, neither a failure nor a retry nor a revert, takes an amount
\* away or adds one.
BalanceExplained ==
  /\ balance \subseteq Settled
  /\ \A w \in Settled \ balance : \E v \in Settled : <<w, v>> \in overlap

\* The profit of a deal is added twice only by imports that overlapped, or
\* after a revert has deleted the deal: a retry of a finished import adds nothing.
ProfitOnce ==
  \A i, j \in Settled \cap Imports : \A d \in import[i].fresh \cap import[j].fresh :
    i = j \/ d \in removed \/ <<i, j>> \in overlap \/ <<j, i>> \in overlap

\* A trade names an import the history still lists, so that it can be
\* reverted, however far a revert has come and wherever it failed; except a
\* row that a note brought back.
LogBacked ==
  \A d \in Stored(Deals) : trades[d].log \in logs \cup {Hand} \/ d \in changed

\* Whatever failed, the copy comes to hold as many rows as the table and keeps
\* to it, once dashboards are opened without a period.  (The repair of a filtered
\* one drops the rows outside its period; the next full one brings them back.)
CopyHeals ==
  /\ \E v \in Views : view[v].at # "never"
  /\ <>[](\A v \in Views : view[v].scope # Recent)
  => <>[](Cardinality(Copies(Deals)) = Cardinality(Stored(Deals)))
=============================================================================
