---------------------------- MODULE JournalProofs ----------------------------
(***************************************************************************)
(* What a journal is for: the balance and the history of imports, the      *)
(* diary and the views, for any deals, calls, failures and bounds.         *)
(*                                                                         *)
(* Of the balance the invariant follows an amount from its commit on:      *)
(* whoever read the balance before holds a value without it, and is        *)
(* recorded in `overlap'; and it follows a revert through its statements:  *)
(* after the deletions only a note can have brought a row of its log back. *)
(***************************************************************************)
EXTENDS Journal, Diary, Dashboard, TLAPS

Open  == {i \in Imports \ ByWorker : import[i].at \in {"priced", "written"}}
Reads == {m \in Moves : move[m].at = "read"}

\* Imports in hand have something to save, and only those that move money read the balance.
ImportsOK ==
  \A i \in Imports :
    /\ import[i].at \in {"read", "priced", "written"} => import[i].fresh # {}
    /\ import[i].at = "priced" => i \notin ByWorker

\* saw was explained when it was read, and what has settled since is recorded for v.
Explained(v, saw) ==
  /\ saw \subseteq Settled
  /\ \A w \in Settled \ saw : <<w, v>> \in overlap \/ \E u \in Settled : <<w, u>> \in overlap

MoneyOK ==
  /\ BalanceExplained
  /\ \A i \in Open : Explained(i, import[i].saw)
  /\ \A m \in Reads : Explained(m, move[m].saw)

\* The deals of a finished import are in the table or were reverted; an import
\* in hand that would add one of them again was in hand when it finished.
FreshOK ==
  \A i \in Imports : import[i].at = "done" =>
    \A d \in import[i].fresh :
      /\ trades[d] # None \/ d \in removed
      /\ \A j \in Imports \ ByWorker :
           i \notin ByWorker /\ import[j].at \in {"read", "priced", "written"} /\ d \in import[j].fresh
             => d \in removed \/ <<i, j>> \in overlap

RevertsOK ==
  /\ \A l \in logs : import[l].at = "done"
  /\ \A r \in Reverts : revert[r].at \notin {"new", "never"} =>
       /\ revert[r].log \in Imports /\ import[revert[r].log].at = "done"
       /\ revert[r].at \in {"deleted", "emptied"} => RowsOf(revert[r].log) \subseteq changed

IInv ==
  /\ TypeOK /\ ImportsOK
  /\ MoneyOK
  /\ FreshOK /\ ProfitOnce
  /\ RevertsOK /\ LogBacked

-----------------------------------------------------------------------------
(* The copy keeps its type whatever is inserted or deleted.                *)

LEMMA CopyTyped ==
  ASSUME copy \in [Version -> 0..2], NEW V
  PROVE  Inserted(copy, V) \in [Version -> 0..2] /\ Deleted(copy, V) \in [Version -> 0..2]
  BY DEF Inserted, Deleted

\* What the table holds of S are versions.
LEMMA VersionsTyped ==
  ASSUME TradesOK, NEW S \in SUBSET Deals
  PROVE  Versions(S) \subseteq Version
  BY DEF TradesOK, Versions, Stored, Version

LEMMA FaultTyped == ASSUME faults \in 0..MaxFaults, Fault PROVE faults' \in 0..MaxFaults
  BY JournalAssumption DEF Fault

LEMMA SettleTyped ==
  ASSUME balance \subseteq Writers, overlap \subseteq Writers \X Writers,
         NEW w \in Writers, NEW saw \in SUBSET Writers, Settle(w, saw)
  PROVE  balance' \subseteq Writers /\ overlap' \subseteq Writers \X Writers
  <1>1. InHand \subseteq Writers
    BY DEF InHand, Writers
  <1> QED
    BY <1>1 DEF Settle

THEOREM InitOK == Init => IInv
  <1> SUFFICES ASSUME Init PROVE IInv
    OBVIOUS
  <1>1. import \in [Imports -> ImportCall] /\ \A i \in Imports : import[i].at \in {"new", "never"} /\ import[i].fresh = {}
    BY DEF Init, Calls, NewImport, ImportCall
  <1>2. move \in [Moves -> MoveCall] /\ \A m \in Moves : move[m].at \in {"new", "never"}
    BY DEF Init, Calls, NewMove, MoveCall
  <1>3. revert \in [Reverts -> RevertCall] /\ \A r \in Reverts : revert[r].at \in {"new", "never"}
    BY DEF Init, Calls, NewRevert, RevertCall, Sources
  <1>4. note \in [Notes -> NoteCall] /\ view \in [Views -> ViewCall]
    BY DEF Init, Calls, NewNote, NoteCall, Closed, ViewCall
  <1>5. TypeOK
    BY <1>1, <1>2, <1>3, <1>4, JournalAssumption DEF Init, TypeOK, TradesOK
  <1>6. Settled = {}
    BY <1>1, <1>2 DEF Settled
  <1>7. Open = {} /\ Reads = {}
    BY <1>1, <1>2 DEF Open, Reads
  <1>8. BalanceExplained /\ MoneyOK /\ ProfitOnce
    BY <1>6, <1>7 DEF Init, BalanceExplained, MoneyOK, ProfitOnce
  <1>9. ImportsOK /\ FreshOK
    BY <1>1 DEF ImportsOK, FreshOK
  <1>10. RevertsOK /\ LogBacked
    BY <1>3 DEF Init, RevertsOK, LogBacked, Stored
  <1> QED
    BY <1>5, <1>8, <1>9, <1>10 DEF IInv

-----------------------------------------------------------------------------
(* Every step keeps the types.                                             *)

LEMMA ReadOne == ASSUME import \in [Imports -> ImportCall], NEW i \in Imports, ImportRead(i)
  PROVE  /\ import' \in [Imports -> ImportCall]
         /\ \A k \in Imports \ {i} : import'[k] = import[k]
         /\ import'[i].at \in {"read", "done"}
         /\ import'[i].at = "read" => import'[i].fresh # {}
  <1>1. PICK fresh \in SUBSET (Deals \ Manual) : fresh = Batch[i] \ Stored(Deals)
    BY JournalAssumption
  <1>2. PICK at \in {"done", "read"} : at = IF fresh = {} THEN "done" ELSE "read"
    OBVIOUS
  <1>3. import' = [import EXCEPT ![i] = [[import[i] EXCEPT !.at = at] EXCEPT !.fresh = fresh]]
    BY <1>1, <1>2 DEF ImportRead
  <1>4. PICK call : call = [[import[i] EXCEPT !.at = at] EXCEPT !.fresh = fresh]
    OBVIOUS
  <1>5. call \in ImportCall /\ call.at = at /\ call.fresh = fresh
    BY <1>4 DEF ImportCall
  <1>6. import' = [import EXCEPT ![i] = call]
    BY <1>3, <1>4
  <1> QED
    BY <1>2, <1>5, <1>6

LEMMA ImportTyped == ASSUME TypeOK, NEW i \in Imports,
    ImportRead(i) \/ ImportPrice(i) \/ ImportWrite(i) \/ ImportCommit(i) \/ ImportFail(i)
  PROVE TypeOK'
  <1>0. import \in [Imports -> ImportCall] /\ balance \subseteq Writers
    BY DEF TypeOK
  <1>1. CASE ImportRead(i)
    <2>0. Batch[i] \ Stored(Deals) \in SUBSET (Deals \ Manual)
      BY JournalAssumption
    <2>1. import' \in [Imports -> ImportCall]
      BY <1>0, <1>1, ReadOne DEF ImportCall
    <2> QED
      BY <1>1, <2>1 DEF ImportRead, history, TypeOK, TradesOK
  <1>2. CASE ImportPrice(i)
    <2>1. import' \in [Imports -> ImportCall]
      BY <1>0, <1>2 DEF ImportPrice, ImportCall
    <2> QED
      BY <1>2, <2>1 DEF ImportPrice, history, TypeOK, TradesOK
  <1>3. CASE ImportWrite(i)
    <2>1. import' \in [Imports -> ImportCall]
      BY <1>0, <1>3 DEF ImportWrite, ImportCall
    <2> QED
      BY <1>3, <2>1, CopyTyped, FaultTyped DEF ImportWrite, history, TypeOK, TradesOK
  <1>4. CASE ImportCommit(i)
    <2>1. import' \in [Imports -> ImportCall]
      BY <1>0, <1>4 DEF ImportCommit, ImportCall
    <2>2. import[i].fresh \subseteq Deals \ Manual /\ import[i].saw \subseteq Writers
      BY <1>0 DEF ImportCall
    <2>3. TradesOK'
      BY <1>4, <2>2 DEF ImportCommit, Upserted, Row, TypeOK, TradesOK
    <2>4. balance' \subseteq Writers /\ overlap' \subseteq Writers \X Writers
      BY <1>4, <2>2, SettleTyped DEF ImportCommit, TypeOK, Writers
    <2> QED
      BY <1>4, <2>1, <2>3, <2>4 DEF ImportCommit, TypeOK
  <1>5. CASE ImportFail(i)
    <2>1. import' \in [Imports -> ImportCall]
      BY <1>0, <1>5 DEF ImportFail, ImportCall
    <2> QED
      BY <1>5, <2>1, FaultTyped DEF ImportFail, history, TypeOK, TradesOK
  <1> QED
    BY <1>1, <1>2, <1>3, <1>4, <1>5

LEMMA MoveTyped ==
  ASSUME TypeOK, NEW m \in Moves, MoveRead(m) \/ MoveSave(m) \/ MoveFail(m)
  PROVE TypeOK'
  <1>1. move' \in [Moves -> MoveCall]
    BY DEF MoveRead, MoveSave, MoveFail, MoveCall, TypeOK
  <1>2. CASE MoveRead(m)
    BY <1>1, <1>2 DEF MoveRead, history, TypeOK, TradesOK
  <1>3. CASE MoveSave(m)
    <2>1. m \in Writers /\ move[m].saw \in SUBSET Writers
      BY DEF TypeOK, MoveCall, Writers
    <2>2. balance' \subseteq Writers /\ overlap' \subseteq Writers \X Writers
      BY <1>3, <2>1, SettleTyped DEF MoveSave, TypeOK
    <2> QED
      BY <1>1, <1>3, <2>2 DEF MoveSave, TypeOK, TradesOK
  <1>4. CASE MoveFail(m)
    BY <1>1, <1>4, FaultTyped DEF MoveFail, history, TypeOK, TradesOK
  <1> QED
    BY <1>2, <1>3, <1>4

LEMMA RevertTyped ==
  ASSUME TypeOK, NEW r \in Reverts,
         (\E log \in Imports : RevertFind(r, log)) \/ RevertPurge(r) \/ RevertDelete(r)
           \/ RevertUnlog(r) \/ RevertFail(r)
  PROVE TypeOK'
  <1>1. ASSUME NEW log \in Imports, RevertFind(r, log) PROVE TypeOK'
    <2>1. {<<d, trades[d].id>> : d \in RowsOf(log)} \in SUBSET (Deals \X Sources)
      BY DEF RowsOf, Row, Sources, TypeOK, TradesOK
    <2>2. revert' \in [Reverts -> RevertCall]
      BY <1>1, <2>1 DEF RevertFind, RevertCall, Sources, TypeOK
    <2> QED
      BY <1>1, <2>2 DEF RevertFind, history, TypeOK, TradesOK
  <1>2. CASE RevertPurge(r)
    <2>1. PICK from \in {"found", "purged"}, to \in {"purged", "cleared"}, V \in SUBSET Version : Purge(r, from, to, V)
      <3> DEFINE V1 == {v \in Version : v[2].log = revert[r].log}
                 V2 == {v \in Version : <<v[1], v[2].id>> \in revert[r].ids}
      <3>1. Purge(r, "found", "purged", V1) \/ Purge(r, "purged", "cleared", V2)
        BY <1>2 DEF RevertPurge
      <3>2. V1 \in SUBSET Version /\ V2 \in SUBSET Version
        OBVIOUS
      <3> HIDE DEF V1, V2
      <3> QED
        BY <3>1, <3>2
    <2>2. revert' \in [Reverts -> RevertCall]
      BY <2>1 DEF Purge, RevertCall, TypeOK
    <2> QED
      BY <2>1, <2>2, CopyTyped, FaultTyped DEF Purge, history, TypeOK, TradesOK
  <1>3. CASE RevertDelete(r)
    <2>1. PICK from \in {"cleared", "deleted"}, to \in {"deleted", "emptied"}, S \in SUBSET Deals : Delete(r, from, to, S)
      <3> DEFINE S1 == RowsOf(revert[r].log)
                 S2 == {d \in Stored(Deals) : <<d, trades[d].id>> \in revert[r].ids}
      <3>1. Delete(r, "cleared", "deleted", S1) \/ Delete(r, "deleted", "emptied", S2)
        BY <1>3 DEF RevertDelete
      <3>2. S1 \in SUBSET Deals /\ S2 \in SUBSET Deals
        BY DEF RowsOf, Stored
      <3> HIDE DEF S1, S2
      <3> QED
        BY <3>1, <3>2
    <2>2. revert' \in [Reverts -> RevertCall]
      BY <2>1 DEF Delete, RevertCall, TypeOK
    <2>3. TradesOK'
      BY <2>1 DEF Delete, TypeOK, TradesOK
    <2> QED
      BY <2>1, <2>2, <2>3 DEF Delete, TypeOK
  <1>4. CASE RevertUnlog(r) \/ RevertFail(r)
    <2>1. revert' \in [Reverts -> RevertCall]
      BY <1>4 DEF RevertUnlog, RevertFail, RevertCall, TypeOK
    <2> QED
      BY <1>4, <2>1, FaultTyped DEF RevertUnlog, RevertFail, history, TypeOK, TradesOK
  <1> QED
    BY <1>1, <1>2, <1>3, <1>4

LEMMA NoteTyped ==
  ASSUME TypeOK, NEW n \in Notes, (\E d \in Deals : NoteRead(n, d)) \/ NoteSave(n) \/ NoteFail(n)
  PROVE TypeOK'
  <1>1. ASSUME NEW d \in Deals, NoteRead(n, d) PROVE TypeOK'
    <2>1. note' \in [Notes -> NoteCall]
      BY <1>1 DEF NoteRead, NoteCall, Version, TypeOK, TradesOK
    <2> QED
      BY <1>1, <2>1 DEF NoteRead, history, TypeOK, TradesOK
  <1>2. CASE NoteSave(n)
    <2>1. PICK p \in note[n].seen : NoteSave(n)!2!(p)
      BY <1>2 DEF NoteSave
    <2>2. p[1] \in Deals /\ p[2] \in Row(p[1])
      BY <2>1 DEF Version, NoteCall, TypeOK
    <2>3. note' \in [Notes -> NoteCall]
      BY <1>2 DEF NoteSave, NoteCall, TypeOK
    <2>4. TradesOK' /\ changed' \subseteq Deals
      BY <2>1, <2>2 DEF TypeOK, TradesOK
    <2>5. copy' \in [Version -> 0..2]
      BY <2>1, CopyTyped DEF TypeOK
    <2> QED
      BY <1>2, <2>3, <2>4, <2>5 DEF NoteSave, TypeOK
  <1>3. CASE NoteFail(n)
    <2>1. note' \in [Notes -> NoteCall]
      BY <1>3 DEF NoteFail, NoteCall, TypeOK
    <2> QED
      BY <1>3, <2>1 DEF NoteFail, history, TypeOK, TradesOK
  <1> QED
    BY <1>1, <1>2, <1>3

LEMMA ViewTyped ==
  ASSUME TypeOK, NEW v \in Views,
         Look(v, Deals) \/ Look(v, Recent) \/ Compare(v) \/ Wipe(v) \/ Refill(v)
  PROVE TypeOK'
  <1>1. view' \in [Views -> ViewCall]
    <2>1. CASE Look(v, Deals) \/ Look(v, Recent)
      BY <2>1, JournalAssumption DEF Look, Copies, ViewCall, TypeOK
    <2>2. CASE Compare(v)
      <3>1. Versions(view[v].scope) \subseteq Version
        BY VersionsTyped DEF TypeOK, ViewCall
      <3> QED
        BY <2>2, <3>1 DEF Compare, Closed, ViewCall, TypeOK
    <2>3. CASE Wipe(v) \/ Refill(v)
      <3>1. Closed \in ViewCall
        BY DEF Closed, ViewCall
      <3>2. [view[v] EXCEPT !.at = "missing"] \in ViewCall
        BY DEF ViewCall, TypeOK
      <3>3. view' = [view EXCEPT ![v] = Closed] \/ view' = [view EXCEPT ![v] = [view[v] EXCEPT !.at = "missing"]]
        BY <2>3 DEF Wipe, Refill
      <3> QED
        BY <3>1, <3>2, <3>3 DEF TypeOK
    <2> QED
      BY <2>1, <2>2, <2>3
  <1>2. copy' \in [Version -> 0..2] /\ faults' \in 0..MaxFaults
    BY CopyTyped, FaultTyped DEF Look, Compare, Wipe, Refill, TypeOK
  <1> QED
    BY <1>1, <1>2 DEF Look, Compare, Wipe, Refill, history, TypeOK, TradesOK

LEMMA ManualTyped == ASSUME TypeOK, NEW d \in Manual, ManualTrade(d) PROVE TypeOK'
  <1>1. TradesOK'
    BY JournalAssumption DEF ManualTrade, Row, TypeOK, TradesOK
  <1>2. copy' \in [Version -> 0..2] /\ faults' \in 0..MaxFaults
    BY CopyTyped, FaultTyped DEF ManualTrade, TypeOK
  <1> QED
    BY <1>1, <1>2 DEF TypeOK, ManualTrade, history

LEMMA MergeTyped == ASSUME TypeOK, NEW x \in Version, Merge(x) PROVE TypeOK'
  <1>1. copy' \in [Version -> 0..2]
    BY DEF TypeOK, Merge
  <1> QED
    BY <1>1 DEF TypeOK, TradesOK, Merge, history

LEMMA TypeStep == TypeOK /\ [Next]_vars => TypeOK'
  <1> SUFFICES ASSUME TypeOK, [Next]_vars PROVE TypeOK'
    OBVIOUS
  <1>1. CASE Begin
    BY <1>1, ImportTyped, MoveTyped, RevertTyped, ManualTyped, NoteTyped, ViewTyped DEF Begin
  <1>2. CASE GoOn
    BY <1>2, ImportTyped, MoveTyped, RevertTyped, NoteTyped, ViewTyped DEF GoOn
  <1>3. CASE Fail
    BY <1>3, ImportTyped, MoveTyped, RevertTyped DEF Fail
  <1>4. CASE \E x \in Version : Merge(x)
    BY <1>4, MergeTyped
  <1>5. CASE UNCHANGED vars
    BY <1>5 DEF vars, history, TypeOK, TradesOK
  <1> QED
    BY <1>1, <1>2, <1>3, <1>4, <1>5 DEF Next

-----------------------------------------------------------------------------
(* The balance.                                                            *)

InWork == {"read", "priced", "written"}

\* Nothing settles: it is enough that whoever is newly in hand saw the balance.
LEMMA MoneyKept ==
  ASSUME MoneyOK, Settled' = Settled, balance' = balance, overlap' = overlap,
         \A i \in Open' : import'[i].saw = balance \/ (i \in Open /\ import'[i].saw = import[i].saw),
         \A m \in Reads' : move'[m].saw = balance \/ (m \in Reads /\ move'[m].saw = move[m].saw)
  PROVE  MoneyOK'
  BY DEF MoneyOK, BalanceExplained, Explained

\* One writer settles with a balance that was explained: the others are recorded.
LEMMA MoneyAdded ==
  ASSUME MoneyOK, NEW w, NEW saw, Explained(w, saw), Settle(w, saw), Settled' = Settled \cup {w},
         Open' \subseteq Open \ {w}, Reads' \subseteq Reads \ {w}, Open \cup Reads \subseteq InHand,
         \A i \in Open' : import'[i].saw = import[i].saw,
         \A m \in Reads' : move'[m].saw = move[m].saw
  PROVE  MoneyOK'
  <1>1. overlap \subseteq overlap' /\ \A v \in InHand \ {w} : <<w, v>> \in overlap'
    BY DEF Settle
  <1>2. BalanceExplained'
    BY <1>1 DEF BalanceExplained, Explained, Settle
  <1>3. ASSUME NEW v \in InHand \ {w}, NEW s, Explained(v, s) PROVE Explained(v, s)'
    BY <1>1, <1>3 DEF Explained
  <1>4. \A i \in Open' : Explained(i, import[i].saw)'
    BY <1>3 DEF MoneyOK
  <1>5. \A m \in Reads' : Explained(m, move[m].saw)'
    BY <1>3 DEF MoneyOK
  <1> QED
    BY <1>2, <1>4, <1>5 DEF MoneyOK

LEMMA InHandHas == Open \cup Reads \subseteq InHand
  <1>1. \A i \in Open : i \in InHand
    BY DEF Open, InHand
  <1>2. \A m \in Reads : m \in InHand
    BY DEF Reads, InHand
  <1> QED
    BY <1>1, <1>2

LEMMA MoneyByImport == ASSUME TypeOK, ImportsOK, MoneyOK, NEW i \in Imports,
    ImportRead(i) \/ ImportPrice(i) \/ ImportWrite(i) \/ ImportCommit(i) \/ ImportFail(i)
  PROVE MoneyOK'
  <1>0. import \in [Imports -> ImportCall] /\ i \notin Moves
    BY JournalAssumption DEF TypeOK
  <1>1. CASE ImportRead(i)
    <2>1. Settled' = Settled /\ Open' = Open
      BY <1>0, <1>1 DEF ImportRead, Settled, Open, ImportCall
    <2> QED
      BY <1>0, <1>1, <2>1, MoneyKept DEF ImportRead, Reads, Open, history
  <1>2. CASE ImportPrice(i)
    <2>1. Settled' = Settled
      BY <1>0, <1>2 DEF ImportPrice, Settled, ImportCall
    <2>2. \A k \in Open' : import'[k].saw = balance \/ (k \in Open /\ import'[k].saw = import[k].saw)
      BY <1>0, <1>2 DEF ImportPrice, Open, ImportCall
    <2> QED
      BY <1>2, <2>1, <2>2, MoneyKept DEF ImportPrice, Reads, history
  <1>3. CASE ImportWrite(i)
    <2>0. /\ import[i].at \in {"read", "priced"} /\ import'[i].at = "written" /\ import'[i].saw = import[i].saw
          /\ i \notin ByWorker => import[i].at = "priced"
          /\ \A k \in Imports \ {i} : import'[k] = import[k]
      BY <1>0, <1>3 DEF ImportWrite, ImportCall
    <2>1. Settled' = Settled
      BY <1>3, <2>0 DEF ImportWrite, Settled
    <2>2. \A k \in Open' : k \in Open /\ import'[k].saw = import[k].saw
      BY <2>0 DEF Open
    <2> QED
      BY <1>3, <2>1, <2>2, MoneyKept DEF ImportWrite, Reads, history
  <1>4. CASE ImportCommit(i)
    <2>0. /\ import[i].at = "written" /\ import'[i].at = "done" /\ import'[i].fresh = import[i].fresh
          /\ \A k \in Imports \ {i} : import'[k] = import[k]
          /\ move' = move /\ import[i].fresh # {}
      BY <1>0, <1>4 DEF ImportCommit, ImportCall, ImportsOK
    <2>1. CASE i \in ByWorker
      <3>1. Settled' = Settled
        BY <2>0, <2>1 DEF Settled
      <3>2. balance' = balance /\ overlap' = overlap /\ Reads' = Reads
        BY <1>4, <2>0, <2>1 DEF ImportCommit, Reads
      <3>3. \A k \in Open' : k \in Open /\ import'[k].saw = import[k].saw
        BY <2>0 DEF Open
      <3> QED
        BY <2>0, <3>1, <3>2, <3>3, MoneyKept
    <2>2. CASE i \notin ByWorker
      <3>1. Settled' = Settled \cup {i}
        BY <2>0, <2>2 DEF Settled
      <3>2. Open' \subseteq Open \ {i} /\ Reads' \subseteq Reads \ {i}
        BY <1>0, <1>4 DEF ImportCommit, Open, Reads, ImportCall
      <3>3. Explained(i, import[i].saw)
        BY <1>4, <2>2 DEF ImportCommit, Open, MoneyOK
      <3>4. Settle(i, import[i].saw)
        BY <1>4, <2>2, Zenon DEF ImportCommit
      <3>5. \A k \in Open' : import'[k].saw = import[k].saw
        BY <1>0, <1>4, <3>2 DEF ImportCommit, ImportCall, Open
      <3>6. \A m \in Reads' : move'[m].saw = move[m].saw
        BY <1>4 DEF ImportCommit
      <3> QED
        BY <3>1, <3>2, <3>3, <3>4, <3>5, <3>6, InHandHas, MoneyAdded
    <2> QED
      BY <2>1, <2>2
  <1>5. CASE ImportFail(i)
    <2>1. Settled' = Settled /\ Open' \subseteq Open \ {i}
      BY <1>0, <1>5 DEF ImportFail, Settled, Open, ImportCall
    <2> QED
      BY <1>0, <1>5, <2>1, MoneyKept DEF ImportFail, Reads, Open, history, ImportCall
  <1> QED
    BY <1>1, <1>2, <1>3, <1>4, <1>5

LEMMA MoneyByMove ==
  ASSUME TypeOK, MoneyOK, NEW m \in Moves, MoveRead(m) \/ MoveSave(m) \/ MoveFail(m)
  PROVE MoneyOK'
  <1>0. move \in [Moves -> MoveCall] /\ m \notin Imports
    BY JournalAssumption DEF TypeOK
  <1>1. CASE MoveRead(m)
    <2>1. Settled' = Settled /\ Open' = Open
      BY <1>0, <1>1 DEF MoveRead, Settled, Open, MoveCall
    <2>2. \A k \in Reads' : move'[k].saw = balance \/ (k \in Reads /\ move'[k].saw = move[k].saw)
      BY <1>0, <1>1 DEF MoveRead, Reads, MoveCall
    <2> QED
      BY <1>1, <2>1, <2>2, MoneyKept DEF MoveRead, history
  <1>2. CASE MoveSave(m)
    <2>1. Settled' = Settled \cup {m}
      BY <1>0, <1>2 DEF MoveSave, Settled, MoveCall
    <2>2. Open' \subseteq Open \ {m} /\ Reads' \subseteq Reads \ {m}
      BY <1>0, <1>2 DEF MoveSave, Open, Reads, MoveCall
    <2>3. Explained(m, move[m].saw)
      BY <1>2 DEF MoveSave, Reads, MoneyOK
    <2>4. Settle(m, move[m].saw)
      BY <1>2 DEF MoveSave
    <2>5. \A k \in Reads' : move'[k].saw = move[k].saw
      BY <1>0, <1>2, <2>2 DEF MoveSave, MoveCall, Reads
    <2>6. \A i \in Open' : import'[i].saw = import[i].saw
      BY <1>2 DEF MoveSave
    <2> QED
      BY <2>1, <2>2, <2>3, <2>4, <2>5, <2>6, InHandHas, MoneyAdded
  <1>3. CASE MoveFail(m)
    <2>1. Settled' = Settled /\ Open' = Open
      BY <1>0, <1>3 DEF MoveFail, Settled, Open, MoveCall
    <2> QED
      BY <1>0, <1>3, <2>1, MoneyKept DEF MoveFail, Reads, history, MoveCall
  <1> QED
    BY <1>1, <1>2, <1>3

-----------------------------------------------------------------------------
(* The imports, and what they add.                                         *)

LEMMA ImportsByImport == ASSUME TypeOK, ImportsOK, NEW i \in Imports,
    ImportRead(i) \/ ImportPrice(i) \/ ImportWrite(i) \/ ImportCommit(i) \/ ImportFail(i)
  PROVE ImportsOK'
  <1>0. import \in [Imports -> ImportCall]
    BY DEF TypeOK
  <1>1. \A k \in Imports \ {i} : import'[k] = import[k]
    BY <1>0 DEF ImportRead, ImportPrice, ImportWrite, ImportCommit, ImportFail
  <1>2. CASE ImportRead(i)
    BY <1>0, <1>1, <1>2, ReadOne DEF ImportsOK
  <1>3. CASE ImportPrice(i) \/ ImportWrite(i)
    BY <1>0, <1>1, <1>3 DEF ImportPrice, ImportWrite, ImportCall, ImportsOK
  <1>4. CASE ImportCommit(i) \/ ImportFail(i)
    BY <1>0, <1>1, <1>4 DEF ImportCommit, ImportFail, ImportCall, ImportsOK
  <1> QED
    BY <1>2, <1>3, <1>4

\* Where nothing is finished and nothing enters, rows and records only grow.
LEMMA FreshKept ==
  ASSUME FreshOK, ProfitOnce, removed \subseteq removed', overlap' = overlap,
         Settled' \cap Imports \subseteq Settled \cap Imports,
         \A d \in Deals : trades[d] # None => trades'[d] # None \/ d \in removed',
         \A k \in Imports : \A d \in import'[k].fresh : d \in Deals,
         \A k \in Imports : import'[k].at = "done" /\ import'[k].fresh # {} =>
           import[k].at = "done" /\ import'[k].fresh = import[k].fresh,
         \A k \in Imports : import'[k].at \in InWork =>
           import[k].at \in InWork /\ import'[k].fresh = import[k].fresh
  PROVE  FreshOK' /\ ProfitOnce'
  <1>1. FreshOK'
    BY DEF FreshOK, InWork
  <1>2. \A k \in Settled' \cap Imports : import'[k].fresh = import[k].fresh
    <2> SUFFICES ASSUME NEW k \in Settled' \cap Imports PROVE import'[k].fresh = import[k].fresh
      OBVIOUS
    <2>1. import'[k].at = "done" /\ import'[k].fresh # {}
      BY JournalAssumption DEF Settled
    <2> QED
      BY <2>1
  <1> QED
    BY <1>1, <1>2 DEF ProfitOnce

LEMMA FreshByImport == ASSUME IInv, NEW i \in Imports,
    ImportRead(i) \/ ImportPrice(i) \/ ImportWrite(i) \/ ImportCommit(i) \/ ImportFail(i)
  PROVE FreshOK' /\ ProfitOnce'
  <1>0. /\ import \in [Imports -> ImportCall] /\ import' \in [Imports -> ImportCall]
        /\ ImportsOK /\ FreshOK /\ ProfitOnce /\ TradesOK /\ Imports \cap Moves = {}
    BY ImportTyped, JournalAssumption DEF IInv, TypeOK
  <1>1. CASE ImportRead(i)
    <2>1. Settled' = Settled
      BY <1>0, <1>1 DEF ImportRead, Settled, ImportCall
    <2>2. ProfitOnce'
      BY <1>0, <1>1, <2>1 DEF ImportRead, ProfitOnce, history, Settled
    <2>3. \A d \in import'[i].fresh : d \in Deals /\ trades[d] = None
      <3>1. import'[i].fresh = Batch[i] \ Stored(Deals)
        BY <1>0, <1>1 DEF ImportRead, ImportCall
      <3> QED
        BY <3>1, JournalAssumption DEF Stored
    <2>4. ASSUME NEW k \in Imports, import'[k].at = "done", NEW d \in import'[k].fresh
          PROVE import[k].at = "done" /\ d \in import[k].fresh /\ k # i
      BY <1>0, <1>1, <2>4 DEF ImportRead, ImportCall
    <2>5. FreshOK'
      BY <1>0, <1>1, <2>3, <2>4 DEF ImportRead, FreshOK, history
    <2> QED
      BY <2>2, <2>5
  <1>2. CASE ImportPrice(i) \/ ImportWrite(i) \/ ImportFail(i)
    <2>1. \A k \in Imports : import'[k].at = "done" =>
             import[k].at = "done" /\ import'[k].fresh = import[k].fresh
      BY <1>0, <1>2 DEF ImportPrice, ImportWrite, ImportFail, ImportCall
    <2>2. \A k \in Imports : import'[k].at \in InWork =>
             import[k].at \in InWork /\ import'[k].fresh = import[k].fresh
      BY <1>0, <1>2 DEF ImportPrice, ImportWrite, ImportFail, InWork, ImportCall
    <2>3. Settled' \cap Imports \subseteq Settled \cap Imports
      BY <1>0, <2>1 DEF Settled
    <2>4. trades' = trades /\ removed' = removed /\ overlap' = overlap
      BY <1>2 DEF ImportPrice, ImportWrite, ImportFail, history
    <2>5. \A k \in Imports : \A d \in import'[k].fresh : d \in Deals
      BY <1>0 DEF ImportCall
    <2> QED
      BY <1>0, <2>1, <2>2, <2>3, <2>4, <2>5, FreshKept
  <1>3. CASE ImportCommit(i)
    <2>1. /\ import[i].at = "written" /\ import'[i].at = "done" /\ import'[i].fresh = import[i].fresh
          /\ \A k \in Imports \ {i} : import'[k] = import[k]
          /\ removed' = removed /\ overlap \subseteq overlap'
      BY <1>0, <1>3 DEF ImportCommit, Settle, ImportCall
    <2>2. \A d \in Deals : trades'[d] # None \/ (trades'[d] = trades[d] /\ d \notin import[i].fresh)
      <3>1. \A d \in import[i].fresh : Upserted(i, d) # None
        <4>1. \A d \in import[i].fresh : d \in Deals /\ d \notin Manual
          BY <1>0 DEF ImportCall
        <4>2. \A d \in import[i].fresh : Upserted(i, d) \in [id : Sources, log : Sources]
          BY <1>0, <4>1 DEF Upserted, TradesOK, Row, Sources
        <4> QED
          BY <4>2, JournalAssumption DEF Sources
      <3>2. trades' = [d \in Deals |-> IF d \in import[i].fresh THEN Upserted(i, d) ELSE trades[d]]
        BY <1>3 DEF ImportCommit
      <3> QED
        BY <3>1, <3>2
    <2>3. \A d \in Deals : trades[d] # None => trades'[d] # None
      BY <2>2
    <2>4. i \notin ByWorker => \A j \in Imports \ (ByWorker \cup {i}) : import[j].at \in InWork => <<i, j>> \in overlap'
      <3> SUFFICES ASSUME i \notin ByWorker, NEW j \in Imports \ (ByWorker \cup {i}), import[j].at \in InWork
                   PROVE <<i, j>> \in overlap'
        OBVIOUS
      <3>1. Settle(i, import[i].saw)
        BY <1>3, Zenon DEF ImportCommit
      <3>2. j \in InHand \ {i}
        BY DEF InHand, InWork
      <3> QED
        BY <3>1, <3>2 DEF Settle
    <2>5. FreshOK'
      <3>1. \A k \in Imports : \A d \in import[k].fresh : d \in Deals
        BY <1>0 DEF ImportCall
      <3> QED
        BY <1>0, <2>1, <2>2, <2>3, <2>4, <3>1 DEF FreshOK, InWork
    <2>6. Settled' \cap Imports \subseteq (Settled \cap Imports) \cup {i}
      BY <1>0, <2>1 DEF Settled
    <2>7. ASSUME NEW j \in Settled \cap Imports, j # i, i \notin ByWorker, NEW d \in import[i].fresh \cap import[j].fresh
          PROVE d \in removed \/ <<j, i>> \in overlap
      <3>1. import[j].at = "done" /\ j \notin ByWorker
        BY <1>0 DEF Settled
      <3>2. import[i].at \in {"read", "priced", "written"}
        BY <2>1
      <3> QED
        BY <1>0, <2>7, <3>1, <3>2 DEF FreshOK
    <2>8. i \in Settled' => i \notin ByWorker
      <3>1. i \notin Moves
        BY <1>0
      <3> QED
        BY <3>1 DEF Settled
    <2>9. ProfitOnce'
      BY <1>0, <2>1, <2>6, <2>7, <2>8 DEF ProfitOnce
    <2> QED
      BY <2>5, <2>9
  <1> QED
    BY <1>1, <1>2, <1>3

-----------------------------------------------------------------------------
(* The history of imports, and the rows that name them.                    *)

\* Rows only go, or name what they named; finished imports stay finished.
LEMMA LogsKept ==
  ASSUME RevertsOK, LogBacked, TradesOK, logs' = logs, revert' = revert, changed \subseteq changed',
         \A d \in Deals : trades'[d] \in {trades[d], None} \/ d \in changed' \/ trades'[d].log = Hand,
         \A k \in Imports : import[k].at = "done" => import'[k].at = "done",
         DOMAIN trades' = Deals, logs \subseteq Imports
  PROVE  RevertsOK' /\ LogBacked'
  <1>1. \A l \in Imports : RowsOf(l)' \subseteq RowsOf(l) \cup changed'
    BY JournalAssumption DEF RowsOf
  <1>2. RevertsOK'
    BY <1>1 DEF RevertsOK
  <1>3. LogBacked'
    BY DEF LogBacked, Stored
  <1> QED
    BY <1>2, <1>3

LEMMA LogsByImport == ASSUME IInv, NEW i \in Imports,
    ImportRead(i) \/ ImportPrice(i) \/ ImportWrite(i) \/ ImportCommit(i) \/ ImportFail(i)
  PROVE RevertsOK' /\ LogBacked'
  <1>0. import \in [Imports -> ImportCall] /\ RevertsOK /\ LogBacked /\ TradesOK /\ logs \subseteq Imports
    BY DEF IInv, TypeOK
  <1>1. CASE ImportRead(i) \/ ImportPrice(i) \/ ImportWrite(i) \/ ImportFail(i)
    <2>1. \A k \in Imports : import[k].at = "done" => import'[k].at = "done"
      BY <1>0, <1>1 DEF ImportRead, ImportPrice, ImportWrite, ImportFail, ImportCall
    <2>2. trades' = trades /\ logs' = logs /\ revert' = revert /\ changed' = changed
      BY <1>1 DEF ImportRead, ImportPrice, ImportWrite, ImportFail, history
    <2> QED
      BY <1>0, <2>1, <2>2, LogsKept DEF TradesOK
  <1>2. CASE ImportCommit(i)
    <2>1. /\ import[i].at = "written" /\ import'[i].at = "done"
          /\ \A k \in Imports \ {i} : import'[k] = import[k]
          /\ logs' = logs \cup {i} /\ revert' = revert /\ changed' = changed
      BY <1>0, <1>2 DEF ImportCommit, ImportCall
    <2>2. \A d \in Deals : trades'[d] = trades[d] \/ trades'[d].log = i
      BY <1>2 DEF ImportCommit, Upserted
    <2>3. \A l \in Imports \ {i} : RowsOf(l)' \subseteq RowsOf(l)
      BY <2>2 DEF RowsOf
    <2>4. RevertsOK'
      BY <1>0, <2>1, <2>3 DEF RevertsOK
    <2>5. LogBacked'
      BY <1>0, <2>1, <2>2 DEF LogBacked, Stored
    <2> QED
      BY <2>4, <2>5
  <1> QED
    BY <1>1, <1>2

\* What leaves imports, movements and the balance alone.
LEMMA SameMoney ==
  ASSUME ImportsOK, MoneyOK, import' = import, move' = move, balance' = balance, overlap' = overlap
  PROVE  ImportsOK' /\ MoneyOK'
  <1>1. Settled' = Settled /\ Open' = Open /\ Reads' = Reads
    BY DEF Settled, Open, Reads
  <1>2. ImportsOK'
    BY DEF ImportsOK
  <1>3. BalanceExplained'
    BY <1>1 DEF MoneyOK, BalanceExplained
  <1> QED
    BY <1>1, <1>2, <1>3 DEF MoneyOK, Explained

LEMMA ByRevert ==
  ASSUME IInv, NEW r \in Reverts,
         (\E log \in Imports : RevertFind(r, log)) \/ RevertPurge(r) \/ RevertDelete(r)
           \/ RevertUnlog(r) \/ RevertFail(r)
  PROVE ImportsOK' /\ MoneyOK' /\ FreshOK' /\ ProfitOnce' /\ RevertsOK' /\ LogBacked'
  <1>0. /\ revert \in [Reverts -> RevertCall] /\ import \in [Imports -> ImportCall] /\ TradesOK
        /\ ImportsOK /\ MoneyOK /\ FreshOK /\ ProfitOnce /\ RevertsOK /\ LogBacked
        /\ logs \subseteq Imports
    BY DEF IInv, TypeOK
  <1>1. import' = import /\ move' = move /\ balance' = balance /\ overlap' = overlap /\ changed' = changed
    BY DEF RevertFind, RevertPurge, Purge, RevertDelete, Delete, RevertUnlog, RevertFail, history
  <1>2. ImportsOK' /\ MoneyOK'
    BY <1>0, <1>1, SameMoney
  <1>3. ASSUME trades' = trades, removed' = removed PROVE FreshOK' /\ ProfitOnce'
    BY <1>0, <1>1, <1>3 DEF FreshOK, ProfitOnce, Settled
  <1>4. ASSUME NEW log \in Imports, RevertFind(r, log) PROVE RevertsOK' /\ LogBacked' /\ trades' = trades /\ removed' = removed
    <2>1. trades' = trades /\ removed' = removed /\ logs' = logs
      BY <1>4 DEF RevertFind, history
    <2>2. LogBacked'
      BY <1>0, <1>1, <2>1 DEF LogBacked, Stored
    <2>3. revert'[r].at = "found" /\ revert'[r].log = log /\ \A q \in Reverts \ {r} : revert'[q] = revert[q]
      BY <1>0, <1>4 DEF RevertFind
    <2>4. RevertsOK'
      BY <1>0, <1>1, <1>4, <2>1, <2>3 DEF RevertsOK, RevertFind, RowsOf
    <2> QED
      BY <2>1, <2>2, <2>4
  <1>5. CASE RevertPurge(r) \/ RevertFail(r)
    <2>1. trades' = trades /\ removed' = removed /\ logs' = logs
      BY <1>5 DEF RevertPurge, Purge, RevertFail, history
    <2>2. LogBacked'
      BY <1>0, <1>1, <2>1 DEF LogBacked, Stored
    <2>3. /\ revert[r].at \notin {"new", "never"} /\ revert'[r].at \notin {"new", "never", "deleted", "emptied"}
          /\ revert'[r].log = revert[r].log /\ \A q \in Reverts \ {r} : revert'[q] = revert[q]
      BY <1>0, <1>5 DEF RevertPurge, Purge, RevertFail, RevertCall
    <2>4. RevertsOK'
      BY <1>0, <1>1, <2>1, <2>3 DEF RevertsOK, RowsOf
    <2> QED
      BY <1>2, <1>3, <2>1, <2>2, <2>4
  <1>6. CASE RevertDelete(r)
    <2>1. logs' = logs
      BY <1>6 DEF RevertDelete, Delete
    <2>2. /\ revert[r].at \in {"cleared", "deleted"} /\ revert'[r].log = revert[r].log
          /\ \A q \in Reverts \ {r} : revert'[q] = revert[q]
      BY <1>0, <1>6 DEF RevertDelete, Delete, RevertCall
    <2>10. PICK S \in SUBSET Deals :
             /\ trades' = [d \in Deals |-> IF d \in S THEN None ELSE trades[d]]
             /\ removed' = removed \cup S
             /\ revert[r].at = "cleared" => S = RowsOf(revert[r].log)
      BY <1>6 DEF RevertDelete, Delete, RowsOf, Stored
    <2>3. \A d \in Deals : trades'[d] = trades[d] \/ (trades'[d] = None /\ d \in removed')
      BY <2>10
    <2>4. removed \subseteq removed'
      BY <1>6 DEF RevertDelete, Delete
    <2>5. \A l : RowsOf(l)' \subseteq RowsOf(l)
      BY <2>3 DEF RowsOf
    <2>6. revert[r].at = "cleared" => RowsOf(revert[r].log)' = {}
      BY <1>0, <2>10, <2>2 DEF RowsOf
    <2>7. RevertsOK'
      BY <1>0, <1>1, <2>1, <2>2, <2>5, <2>6 DEF RevertsOK
    <2>8. LogBacked'
      BY <1>0, <1>1, <2>1, <2>3 DEF LogBacked, Stored
    <2>9. FreshOK' /\ ProfitOnce'
      <3>1. \A k \in Imports : \A d \in import[k].fresh : d \in Deals
        BY <1>0 DEF ImportCall
      <3>2. Settled' = Settled
        BY <1>1 DEF Settled
      <3> QED
        BY <1>0, <1>1, <2>3, <2>4, <3>1, <3>2 DEF FreshOK, ProfitOnce
    <2> QED
      BY <1>2, <2>7, <2>8, <2>9
  <1>7. CASE RevertUnlog(r)
    <2>1. /\ trades' = trades /\ removed' = removed /\ logs' = logs \ {revert[r].log}
          /\ revert[r].at = "emptied" /\ revert'[r].at = "done" /\ revert'[r].log = revert[r].log
          /\ \A q \in Reverts \ {r} : revert'[q] = revert[q]
      BY <1>0, <1>7 DEF RevertUnlog, RevertCall, history
    <2>2. RowsOf(revert[r].log) \subseteq changed
      BY <1>0, <2>1 DEF RevertsOK
    <2>3. LogBacked'
      BY <1>0, <1>1, <2>1, <2>2 DEF LogBacked, Stored, RowsOf
    <2>4. RevertsOK'
      BY <1>0, <1>1, <2>1 DEF RevertsOK, RowsOf
    <2> QED
      BY <1>2, <1>3, <2>1, <2>3, <2>4
  <1> QED
    BY <1>2, <1>3, <1>4, <1>5, <1>6, <1>7

-----------------------------------------------------------------------------
(* Manual trades and notes add rows that no revert waits for.              *)

\* What leaves the calls that settle, the logs and the reverts alone.
LEMMA Aside ==
  ASSUME IInv, import' = import, move' = move, balance' = balance, overlap' = overlap,
         removed' = removed, logs' = logs, revert' = revert, changed \subseteq changed',
         DOMAIN trades' = Deals,
         \A d \in Deals : trades[d] # None => trades'[d] # None,
         \A d \in Deals : trades'[d] = trades[d] \/ d \in changed' \/ trades'[d].log = Hand
  PROVE  ImportsOK' /\ MoneyOK' /\ FreshOK' /\ ProfitOnce' /\ RevertsOK' /\ LogBacked'
  <1>0. /\ import \in [Imports -> ImportCall] /\ TradesOK /\ logs \subseteq Imports
        /\ ImportsOK /\ MoneyOK /\ FreshOK /\ ProfitOnce /\ RevertsOK /\ LogBacked
    BY DEF IInv, TypeOK
  <1>1. ImportsOK' /\ MoneyOK'
    BY <1>0, SameMoney
  <1>2. FreshOK' /\ ProfitOnce'
    <2>1. \A k \in Imports : \A d \in import[k].fresh : d \in Deals
      BY <1>0 DEF ImportCall
    <2>2. Settled' = Settled
      BY DEF Settled
    <2> QED
      BY <1>0, <2>1, <2>2 DEF FreshOK, ProfitOnce
  <1>3. RevertsOK' /\ LogBacked'
    BY <1>0, LogsKept
  <1> QED
    BY <1>1, <1>2, <1>3

LEMMA ByManual == ASSUME IInv, NEW d \in Manual, ManualTrade(d)
  PROVE ImportsOK' /\ MoneyOK' /\ FreshOK' /\ ProfitOnce' /\ RevertsOK' /\ LogBacked'
  <1>1. d \in Deals /\ TradesOK
    BY JournalAssumption DEF IInv, TypeOK
  <1>2. trades' = [trades EXCEPT ![d] = [id |-> Hand, log |-> Hand]] /\ trades[d] = None
    BY DEF ManualTrade
  <1>3. \A e \in Deals : (trades[e] # None => trades'[e] # None) /\ (trades'[e] = trades[e] \/ trades'[e].log = Hand)
    BY <1>1, <1>2 DEF TradesOK
  <1>4. DOMAIN trades' = Deals
    BY <1>1, <1>2 DEF TradesOK
  <1> QED
    BY <1>3, <1>4, Aside DEF ManualTrade, history

LEMMA ByNote == ASSUME IInv, NEW n \in Notes, NoteSave(n)
  PROVE ImportsOK' /\ MoneyOK' /\ FreshOK' /\ ProfitOnce' /\ RevertsOK' /\ LogBacked'
  <1>1. PICK p \in note[n].seen : NoteSave(n)!2!(p)
    BY DEF NoteSave
  <1>2. p[1] \in Deals /\ p[2] \in Row(p[1]) /\ TradesOK
    BY <1>1 DEF Version, NoteCall, IInv, TypeOK
  <1>3. p[2] # None
    <2>1. p[2] \in [id : Sources, log : Sources]
      BY <1>2 DEF Row, Sources
    <2> QED
      BY <2>1, JournalAssumption DEF Sources
  <1>4. trades' = [trades EXCEPT ![p[1]] = p[2]] /\ changed' = IF trades[p[1]] = p[2] THEN changed ELSE changed \cup {p[1]}
    BY <1>1
  <1>5. DOMAIN trades' = Deals /\ changed \subseteq changed'
    BY <1>2, <1>4 DEF TradesOK
  <1>6. \A e \in Deals : (trades[e] # None => trades'[e] # None) /\ (trades'[e] = trades[e] \/ e \in changed')
    BY <1>2, <1>3, <1>4 DEF TradesOK
  <1> QED
    BY <1>5, <1>6, Aside DEF NoteSave

\* Reading a row and the whole life of the copy change nothing of this.
LEMMA ByReader ==
  ASSUME IInv,
         \/ \E n \in Notes, d \in Deals : NoteRead(n, d) \/ NoteFail(n)
         \/ \E v \in Views : (\E scope \in {Deals, Recent} : Look(v, scope)) \/ Compare(v) \/ Wipe(v) \/ Refill(v)
         \/ \E x \in Version : Merge(x)
         \/ UNCHANGED vars
  PROVE  ImportsOK' /\ MoneyOK' /\ FreshOK' /\ ProfitOnce' /\ RevertsOK' /\ LogBacked'
  <1>1. UNCHANGED <<trades, logs, balance, import, move, revert, history>>
    BY DEF NoteRead, NoteFail, Look, Compare, Wipe, Refill, Merge, vars
  <1>2. DOMAIN trades = Deals
    BY DEF IInv, TypeOK, TradesOK
  <1> QED
    BY <1>1, <1>2, Aside DEF history

LEMMA ByMove ==
  ASSUME IInv, NEW m \in Moves, MoveRead(m) \/ MoveSave(m) \/ MoveFail(m)
  PROVE  ImportsOK' /\ MoneyOK' /\ FreshOK' /\ ProfitOnce' /\ RevertsOK' /\ LogBacked'
  <1>0. /\ import \in [Imports -> ImportCall] /\ TypeOK /\ TradesOK /\ Imports \cap Moves = {}
        /\ ImportsOK /\ MoneyOK /\ FreshOK /\ ProfitOnce /\ RevertsOK /\ LogBacked
    BY JournalAssumption DEF IInv, TypeOK
  <1>1. /\ trades' = trades /\ logs' = logs /\ revert' = revert /\ import' = import
        /\ changed' = changed /\ removed' = removed /\ overlap \subseteq overlap'
    BY DEF MoveRead, MoveSave, MoveFail, Settle, history
  <1>2. MoneyOK'
    BY <1>0, MoneyByMove
  <1>3. Settled' \cap Imports = Settled \cap Imports
    BY <1>0, <1>1 DEF Settled
  <1>4. FreshOK' /\ ProfitOnce'
    BY <1>0, <1>1, <1>3 DEF FreshOK, ProfitOnce
  <1>5. ImportsOK' /\ RevertsOK' /\ LogBacked'
    BY <1>0, <1>1 DEF ImportsOK, RevertsOK, RowsOf, LogBacked, Stored
  <1> QED
    BY <1>2, <1>4, <1>5

LEMMA NextOK == IInv /\ [Next]_vars => IInv'
  <1> SUFFICES ASSUME IInv, [Next]_vars PROVE IInv'
    OBVIOUS
  <1> DEFINE Goal == ImportsOK' /\ MoneyOK' /\ FreshOK' /\ ProfitOnce' /\ RevertsOK' /\ LogBacked'
  <1>1. TypeOK'
    BY TypeStep DEF IInv
  <1>2. ASSUME NEW i \in Imports,
               ImportRead(i) \/ ImportPrice(i) \/ ImportWrite(i) \/ ImportCommit(i) \/ ImportFail(i)
        PROVE Goal
    BY <1>2, ImportsByImport, MoneyByImport, FreshByImport, LogsByImport DEF IInv
  <1>3. Goal
    <2> HIDE DEF Goal
    <2>1. CASE Begin
      <3>1. (\E m \in Moves : MoveRead(m)) => Goal
        BY ByMove DEF Goal
      <3>2. (\E r \in Reverts, log \in Imports : RevertFind(r, log)) => Goal
        BY ByRevert DEF Goal
      <3>3. (\E d \in Manual : ManualTrade(d)) => Goal
        BY ByManual DEF Goal
      <3>4. (\E n \in Notes, d \in Deals : NoteRead(n, d)) \/ (\E v \in Views, scope \in {Deals, Recent} : Look(v, scope)) => Goal
        BY ByReader DEF Goal
      <3> QED
        BY <1>2, <2>1, <3>1, <3>2, <3>3, <3>4 DEF Begin
    <2>2. CASE GoOn
      <3>1. (\E m \in Moves : MoveSave(m)) => Goal
        BY ByMove DEF Goal
      <3>2. (\E r \in Reverts : RevertPurge(r) \/ RevertDelete(r) \/ RevertUnlog(r)) => Goal
        BY ByRevert DEF Goal
      <3>3. (\E n \in Notes : NoteSave(n)) => Goal
        BY ByNote DEF Goal
      <3>4. (\E n \in Notes : NoteFail(n)) => Goal
        <4>1. (\E n \in Notes : NoteFail(n)) => \E n \in Notes, d \in Deals : NoteRead(n, d) \/ NoteFail(n)
          <5> SUFFICES ASSUME NEW n \in Notes, NoteFail(n) PROVE Deals # {}
            OBVIOUS
          <5> QED
            BY DEF NoteFail, IInv, TypeOK, NoteCall, Version
        <4> QED
          BY <4>1, ByReader DEF Goal
      <3>5. (\E v \in Views : Compare(v) \/ Wipe(v) \/ Refill(v)) => Goal
        BY ByReader DEF Goal
      <3> QED
        BY <1>2, <2>2, <3>1, <3>2, <3>3, <3>4, <3>5 DEF GoOn
    <2>3. CASE Fail
      <3>1. (\E m \in Moves : MoveFail(m)) => Goal
        BY ByMove DEF Goal
      <3>2. (\E r \in Reverts : RevertFail(r)) => Goal
        BY ByRevert DEF Goal
      <3> QED
        BY <1>2, <2>3, <3>1, <3>2 DEF Fail
    <2>4. CASE (\E x \in Version : Merge(x)) \/ UNCHANGED vars
      BY <2>4, ByReader DEF Goal
    <2> QED
      BY <2>1, <2>2, <2>3, <2>4 DEF Next
  <1> QED
    BY <1>1, <1>3 DEF IInv

-----------------------------------------------------------------------------
\* The invariant holds in every state of every behaviour.
THEOREM Invariant == Spec => []IInv
  <1> QED
    BY InitOK, NextOK, PTL DEF Spec

\* The variables keep their types.
THEOREM TypeCorrect == Spec => []TypeOK
  <1>1. IInv => TypeOK
    BY DEF IInv
  <1> QED
    BY <1>1, Invariant, PTL

\* Neither failures nor reverts take an amount out of the balance or add one:
\* what is missing was overwritten by a writer in hand at the time.
THEOREM BalanceIsExplained == Spec => []BalanceExplained
  <1>1. IInv => BalanceExplained
    BY DEF IInv, MoneyOK
  <1> QED
    BY <1>1, Invariant, PTL

\* A profit is added twice only by overlapping imports or after a revert.
THEOREM ProfitIsAddedOnce == Spec => []ProfitOnce
  <1>1. IInv => ProfitOnce
    BY DEF IInv
  <1> QED
    BY <1>1, Invariant, PTL

\* Trades name imports that the history lists, wherever a revert has stopped.
THEOREM TradesCanBeReverted == Spec => []LogBacked
  <1>1. IInv => LogBacked
    BY DEF IInv
  <1> QED
    BY <1>1, Invariant, PTL

-----------------------------------------------------------------------------
(***************************************************************************)
(* The diary, for any pages, fields, texts and requests.                   *)
(*                                                                         *)
(* As long as no two saves have a page in hand at once, the one save of it *)
(* knows what was saved last in every field, and whether there is a row.   *)
(* Rows only join: what a save has found is there when it writes.          *)
(***************************************************************************)

SavesOK ==
  \A r \in Savers : save[r] # Unset =>
    /\ save[r].row \in 0 .. Len(diary)
    /\ save[r].row > 0 => diary[save[r].row].page = save[r].page
    /\ save[r].row = 0 => save[r].seen = Blank

\* No two saves have the page in hand.
Alone(p) ==
  \A r, q \in Savers :
    save[r] # Unset /\ save[q] # Unset /\ save[r].page = p /\ save[q].page = p => r = q

PageKept(p) ==
  /\ \A i, j \in Found(p) : i = j
  /\ \A i \in Found(p) : diary[i].has = latest[p]
  /\ Found(p) = {} => latest[p] = Blank
  /\ Alone(p)
  /\ \A r \in Savers : save[r] # Unset /\ save[r].page = p =>
       /\ save[r].seen = latest[p]
       /\ save[r].row = 0 => Found(p) = {}

DiaryInv == DiaryTypeOK /\ SavesOK /\ \A p \in Pages \ crossed : PageKept(p)

LEMMA BlankTyped == Blank \in Content
  BY DEF Blank, Content

\* What a save fills in is the content of a page.
LEMMA FilledTyped ==
  ASSUME NEW s \in Save, NEW has \in Content PROVE Filled(s, has) \in Content
  BY DEF Filled, Content, Save

\* A save in hand is a record.
LEMMA SaveParts ==
  ASSUME DiaryTypeOK, NEW r \in Savers, save[r] # Unset
  PROVE  /\ save[r] \in Save
         /\ save[r].page \in Pages /\ save[r].row \in Nat /\ save[r].seen \in Content
  BY DEF DiaryTypeOK, Save

\* A row more, and a row replaced.
LEMMA Appended ==
  ASSUME NEW S, NEW seq \in Seq(S), NEW e \in S
  PROVE  /\ Append(seq, e) \in Seq(S) /\ Len(Append(seq, e)) = Len(seq) + 1
         /\ DOMAIN Append(seq, e) = DOMAIN seq \cup {Len(seq) + 1}
         /\ \A i \in DOMAIN seq : Append(seq, e)[i] = seq[i]
         /\ Append(seq, e)[Len(seq) + 1] = e
  OBVIOUS

LEMMA Replaced ==
  ASSUME NEW S, NEW seq \in Seq(S), NEW e \in S, NEW n \in DOMAIN seq
  PROVE  /\ [seq EXCEPT ![n] = e] \in Seq(S) /\ Len([seq EXCEPT ![n] = e]) = Len(seq)
         /\ DOMAIN [seq EXCEPT ![n] = e] = DOMAIN seq
  OBVIOUS

\* The rows of the diary, part by part.
LEMMA RowParts ==
  ASSUME DiaryTypeOK
  PROVE  /\ Len(diary) \in Nat /\ DOMAIN diary = 1 .. Len(diary)
         /\ \A i \in DOMAIN diary : /\ diary[i] \in [page : Pages, has : Content]
                                   /\ diary[i].page \in Pages /\ diary[i].has \in Content
  <1> DEFINE Lines == [page : Pages, has : Content]
  <1>1. diary \in Seq(Lines)
    BY DEF DiaryTypeOK
  <1>2. \A row \in Lines : row.page \in Pages /\ row.has \in Content
    OBVIOUS
  <1> HIDE DEF Lines
  <1>3. /\ Len(diary) \in Nat /\ DOMAIN diary = 1 .. Len(diary)
        /\ \A i \in DOMAIN diary : diary[i] \in Lines
    BY <1>1
  <1> QED
    BY <1>2, <1>3 DEF Lines

LEMMA DiaryFirst == DiaryInit => DiaryInv
  <1> SUFFICES ASSUME DiaryInit PROVE DiaryInv
    OBVIOUS
  <1>1. DiaryTypeOK
    BY BlankTyped, DiaryAssumption DEF DiaryInit, DiaryTypeOK
  <1>2. SavesOK
    BY DEF DiaryInit, SavesOK
  <1>3. ASSUME NEW p \in Pages PROVE PageKept(p)
    <2>1. Found(p) = {}
      BY DEF DiaryInit, Found
    <2> QED
      BY <2>1 DEF DiaryInit, PageKept, Alone
  <1> QED
    BY <1>1, <1>2, <1>3 DEF DiaryInv

\* A page is found: the save has what was written last, unless there are two.
LEMMA FindStep ==
  ASSUME DiaryInv, NEW r \in Savers, NEW p \in Pages, NEW F \in SUBSET Fields, NEW text \in Texts,
         Find(r, p, F, text)
  PROVE  DiaryInv'
  <1> USE DEF DiaryInv
  <1>1. PICK i \in Found(p) \cup {0} : Find(r, p, F, text)!2!(i)
    BY DEF Find
  <1> DEFINE s == [page |-> p, fields |-> F, text |-> text, row |-> i,
                   seen |-> IF i = 0 THEN Blank ELSE diary[i].has]
  <1>2. /\ diary' = diary /\ latest' = latest /\ save[r] = Unset
        /\ save' = [save EXCEPT ![r] = s] /\ (i = 0 => Found(p) = {})
        /\ crossed' = IF Saving(p) THEN crossed \cup {p} ELSE crossed
    BY <1>1 DEF Find
  <1>3. i \in 0 .. Len(diary) /\ (i # 0 => i \in Found(p) /\ diary[i].page = p /\ diary[i].has \in Content)
    BY RowParts DEF Found
  <1>4. /\ s \in Save /\ s.page = p /\ s.row = i
        /\ s.seen = IF i = 0 THEN Blank ELSE diary[i].has
    BY <1>3, BlankTyped DEF Save
  <1>5. s # Unset
    BY <1>4, DiaryAssumption
  <1> HIDE DEF s
  <1>6. DiaryTypeOK'
    <2>1. saves' \in 0 .. MaxSaves
      BY DiaryAssumption DEF Find, DiaryTypeOK
    <2>2. save' \in [Savers -> Save \cup {Unset}] /\ crossed' \subseteq Pages
      BY <1>2, <1>4 DEF DiaryTypeOK
    <2> QED
      BY <1>2, <2>1, <2>2 DEF DiaryTypeOK
  <1>7. save'[r] = s /\ \A q \in Savers : q # r => save'[q] = save[q]
    BY <1>2 DEF DiaryTypeOK
  <1>8. SavesOK'
    BY <1>2, <1>3, <1>4, <1>7 DEF SavesOK, Blank
  <1>9. ASSUME NEW o \in Pages \ crossed' PROVE PageKept(o)'
    <2>1. o \notin crossed /\ PageKept(o)
      BY <1>2, <1>9
    <2>2. Found(o)' = Found(o) /\ Blank' = Blank
      BY <1>2 DEF Found, Blank
    <2>3. CASE o # p
      <3>1. \A q \in Savers : save'[q] # Unset /\ save'[q].page = o => save'[q] = save[q]
        BY <1>4, <1>7, <2>3
      <3> QED
        BY <1>2, <2>1, <2>2, <3>1 DEF PageKept, Alone
    <2>4. CASE o = p
      <3>1. ~Saving(p)
        BY <1>2, <1>9, <2>4
      <3>2. \A q \in Savers : q # r => ~(save'[q] # Unset /\ save'[q].page = p)
        BY <1>7, <3>1 DEF Saving
      <3>3. s.seen = latest[p]
        BY <1>2, <1>3, <1>4, <2>1, <2>4 DEF PageKept
      <3>4. \A q \in Savers : save'[q] # Unset /\ save'[q].page = p =>
              save'[q].seen = latest[p] /\ (save'[q].row = 0 => Found(p) = {})
        BY <1>2, <1>4, <1>7, <3>2, <3>3
      <3> QED
        BY <1>2, <2>1, <2>2, <2>4, <3>2, <3>4 DEF PageKept, Alone
    <2> QED
      BY <2>3, <2>4
  <1> QED
    BY <1>6, <1>8, <1>9

\* A save leaves; the diary is what it was.
LEMMA LoseStep == ASSUME DiaryInv, NEW r \in Savers, Lose(r) PROVE DiaryInv'
  <1> USE DEF DiaryInv
  <1>1. UNCHANGED <<diary, latest, crossed, saves>> /\ save' = [save EXCEPT ![r] = Unset]
    BY DEF Lose
  <1>2. DiaryTypeOK'
    BY <1>1 DEF DiaryTypeOK
  <1>3. \A q \in Savers : save'[q] # Unset => save'[q] = save[q] /\ save[q] # Unset
    BY <1>1 DEF DiaryTypeOK
  <1>4. SavesOK'
    BY <1>1, <1>3 DEF SavesOK, Blank
  <1>5. ASSUME NEW p \in Pages \ crossed' PROVE PageKept(p)'
    <2>1. PageKept(p) /\ Found(p)' = Found(p) /\ Blank' = Blank
      BY <1>1 DEF Found, Blank
    <2> QED
      BY <1>1, <1>3, <2>1 DEF PageKept, Alone
  <1> QED
    BY <1>2, <1>4, <1>5

\* A save writes: the fields of its form, and what it has seen in the others.
LEMMA WriteStep == ASSUME DiaryInv, NEW r \in Savers, Write(r) PROVE DiaryInv'
  <1> USE DEF DiaryInv
  <1>1. PICK s \in Save : /\ s = save[r] /\ s # Unset
                          /\ s.page \in Pages /\ s.row \in Nat /\ s.seen \in Content
    BY SaveParts DEF Write
  <1> DEFINE p == s.page
             has == IF s.row = 0 THEN Filled(s, Blank) ELSE Filled(s, s.seen)
  <1>2. has \in Content
    BY <1>1, BlankTyped, FilledTyped
  <1>3. diary \in Seq([page : Pages, has : Content])
    BY DEF DiaryTypeOK
  <1>4. /\ s.row \in 0 .. Len(diary)
        /\ s.row > 0 => diary[s.row].page = p
        /\ s.row = 0 => s.seen = Blank
    BY <1>1 DEF SavesOK
  <1>5. diary' = IF s.row = 0 THEN Append(diary, [page |-> p, has |-> has])
                 ELSE [diary EXCEPT ![s.row] = [page |-> p, has |-> has]]
    <2>1. CASE s.row = 0
      BY <1>1, <2>1 DEF Write, Kept
    <2>2. CASE s.row # 0
      <3>1. diary[s.row] \in [page : Pages, has : Content] /\ diary[s.row].page = p
        BY <1>1, <1>4, <2>2, RowParts
      <3>2. [diary[s.row] EXCEPT !.has = has] = [page |-> p, has |-> has]
        BY <3>1
      <3>3. diary' = [diary EXCEPT ![s.row] = [diary[s.row] EXCEPT !.has = has]]
        BY <1>1, <2>2 DEF Write, Kept
      <3> QED
        BY <2>2, <3>2, <3>3
    <2> QED
      BY <2>1, <2>2
  <1>6. UNCHANGED <<crossed, saves>> /\ save' = [save EXCEPT ![r] = Unset]
    BY DEF Write
  <1>7. latest' = [latest EXCEPT ![p] = Filled(s, latest[p])]
    BY <1>1 DEF Write
  <1>8. [page |-> p, has |-> has] \in [page : Pages, has : Content]
    BY <1>1, <1>2
  <1>9. /\ diary' \in Seq([page : Pages, has : Content])
        /\ Len(diary) <= Len(diary')
        /\ \A i \in DOMAIN diary : i # s.row => diary'[i] = diary[i]
        /\ \A i \in DOMAIN diary : diary'[i].page = diary[i].page
        /\ \E n \in DOMAIN diary' : /\ diary'[n] = [page |-> p, has |-> has]
                                    /\ n = IF s.row = 0 THEN Len(diary) + 1 ELSE s.row
                                    /\ DOMAIN diary' = DOMAIN diary \cup {n}
    <2>1. CASE s.row = 0
      BY <1>3, <1>5, <1>8, <2>1, Appended
    <2>2. CASE s.row # 0
      <3>1. s.row \in DOMAIN diary /\ diary[s.row].page = p
        BY <1>1, <1>3, <1>4, <2>2
      <3>2. diary' = [diary EXCEPT ![s.row] = [page |-> p, has |-> has]]
        BY <1>5, <2>2
      <3>3. /\ diary' \in Seq([page : Pages, has : Content]) /\ Len(diary') = Len(diary)
            /\ DOMAIN diary' = DOMAIN diary
        BY <1>3, <1>8, <3>1, <3>2, Replaced
      <3>4. /\ diary'[s.row] = [page |-> p, has |-> has]
            /\ \A i \in DOMAIN diary : i # s.row => diary'[i] = diary[i]
        BY <3>1, <3>2
      <3>5. \A i \in DOMAIN diary : diary'[i].page = diary[i].page
        BY <3>1, <3>4
      <3>6. Len(diary) <= Len(diary')
        BY <1>3, <3>3
      <3> QED
        BY <2>2, <3>1, <3>3, <3>4, <3>5, <3>6
    <2> QED
      BY <2>1, <2>2
  <1>10. PICK n : /\ n \in DOMAIN diary' /\ diary'[n] = [page |-> p, has |-> has]
                  /\ n = IF s.row = 0 THEN Len(diary) + 1 ELSE s.row
                  /\ DOMAIN diary' = DOMAIN diary \cup {n}
    BY <1>9
  <1>11. DiaryTypeOK'
    <2>1. Filled(s, latest[p]) \in Content
      BY <1>1, FilledTyped DEF DiaryTypeOK
    <2> QED
      BY <1>6, <1>7, <1>9, <2>1 DEF DiaryTypeOK
  <1>12. \A q \in Savers : save'[q] # Unset => q # r /\ save'[q] = save[q] /\ save[q] # Unset
    BY <1>6 DEF DiaryTypeOK
  <1>13. SavesOK'
    <2> SUFFICES ASSUME NEW q \in Savers, save'[q] # Unset
                 PROVE  /\ save'[q].row \in 0 .. Len(diary')
                        /\ save'[q].row > 0 => diary'[save'[q].row].page = save'[q].page
                        /\ save'[q].row = 0 => save'[q].seen = Blank'
      BY DEF SavesOK
    <2>1. /\ save'[q] = save[q] /\ save[q] # Unset /\ save[q].row \in 0 .. Len(diary)
          /\ save[q].row > 0 => diary[save[q].row].page = save[q].page
          /\ save[q].row = 0 => save[q].seen = Blank
      BY <1>12 DEF SavesOK
    <2>2. Len(diary) \in Nat /\ Len(diary') \in Nat /\ DOMAIN diary = 1 .. Len(diary)
      BY <1>3, <1>9
    <2>3. save[q].row > 0 => save[q].row \in DOMAIN diary
      BY <2>1, <2>2
    <2>4. save[q].row \in 0 .. Len(diary')
      BY <1>9, <2>1, <2>2
    <2>5. Blank' = Blank
      BY DEF Blank
    <2> QED
      BY <1>9, <2>1, <2>3, <2>4, <2>5
  <1>14. ASSUME NEW o \in Pages \ crossed', o # p PROVE PageKept(o)'
    <2>1. PageKept(o) /\ Blank' = Blank
      BY <1>6 DEF Blank
    <2>2. Found(o)' = Found(o)
      <3>1. \A i \in DOMAIN diary' : diary'[i].page = o <=> i \in DOMAIN diary /\ diary[i].page = o
        BY <1>9, <1>10, <1>14
      <3> QED
        BY <1>10, <3>1 DEF Found
    <2>3. \A i \in Found(o) : diary'[i] = diary[i]
      <3>1. \A i \in Found(o) : i \in DOMAIN diary /\ i # s.row
        BY <1>1, <1>4, <1>14 DEF Found
      <3> QED
        BY <1>9, <3>1
    <2>4. latest'[o] = latest[o]
      BY <1>7, <1>14 DEF DiaryTypeOK
    <2> QED
      BY <1>12, <2>1, <2>2, <2>3, <2>4 DEF PageKept, Alone
  <1>15. ASSUME p \notin crossed PROVE PageKept(p)'
    <2>1. PageKept(p) /\ s.seen = latest[p] /\ (s.row = 0 => Found(p) = {})
      BY <1>1, <1>15 DEF PageKept
    <2>2. Found(p)' = {n}
      <3>1. \A i \in Found(p) : i = s.row
        BY <1>1, <1>3, <1>4, <2>1 DEF PageKept, Found
      <3>2. \A i \in DOMAIN diary' : diary'[i].page = p => i = n
        BY <1>9, <1>10, <3>1 DEF Found
      <3> QED
        BY <1>10, <3>2 DEF Found
    <2>3. latest'[p] = has
      <3>1. latest'[p] = Filled(s, latest[p])
        BY <1>1, <1>7 DEF DiaryTypeOK
      <3> QED
        BY <1>4, <2>1, <3>1
    <2>4. \A q \in Savers : ~(save'[q] # Unset /\ save'[q].page = p)
      BY <1>1, <1>12, <2>1 DEF PageKept, Alone
    <2>5. diary'[n].has = latest'[p]
      BY <1>10, <2>3
    <2>6. (\A i \in Found(p)' : diary'[i].has = latest'[p]) /\ Found(p)' # {}
      BY <2>2, <2>5
    <2>7. \A i, j \in Found(p)' : i = j
      BY <2>2
    <2> QED
      BY <2>4, <2>6, <2>7 DEF PageKept, Alone
  <1> QED
    BY <1>6, <1>11, <1>13, <1>14, <1>15

\* saveMentalLog, saveMentalLogImage and saveTechnicalJournal keep the diary
\* well typed, and their saves about rows that are there.
THEOREM DiaryInvariant == DiarySpec => []DiaryInv
  <1>1. DiaryInv /\ [DiaryNext]_diaryVars => DiaryInv'
    <2> SUFFICES ASSUME DiaryInv, [DiaryNext]_diaryVars PROVE DiaryInv'
      OBVIOUS
    <2>1. CASE DiaryNext
      BY <2>1, FindStep, WriteStep, LoseStep DEF DiaryNext
    <2>2. CASE UNCHANGED diaryVars
      BY <2>2 DEF diaryVars, DiaryInv, DiaryTypeOK, SavesOK, PageKept, Alone, Found, Blank
    <2> QED
      BY <2>1, <2>2
  <1> QED
    BY DiaryFirst, <1>1, PTL DEF DiarySpec

\* A page of the diary that no two saves had in hand at once has one row, with
\* what was saved last in each of its fields.
THEOREM NothingLost == DiarySpec => []DiaryKept
  <1>1. DiaryInv => DiaryKept
    <2> SUFFICES ASSUME DiaryInv, NEW p \in Pages \ crossed, NEW f \in Fields, latest[p][f] # Unset
                 PROVE  \E i \in Found(p) : diary[i].has[f] = latest[p][f]
      BY DEF DiaryInv, DiaryKept, PageKept
    <2>1. PageKept(p)
      BY DEF DiaryInv
    <2>2. Found(p) # {}
      BY <2>1 DEF PageKept, Blank
    <2> QED
      BY <2>1, <2>2 DEF PageKept
  <1> QED
    BY DiaryInvariant, <1>1, PTL

-----------------------------------------------------------------------------
(***************************************************************************)
(* The views, for any trades, accounts, lives of entries and requests.     *)
(*                                                                         *)
(* The invariant dates every value under way: a request reads its accounts *)
(* when it starts and its trades not before that, and an entry holds what  *)
(* a request has read within the tick before it was stored.  Rows of the   *)
(* copy are computed of only when the table had as many after that.        *)
(***************************************************************************)

\* The accounts a filter meant at a moment.
Meant(filter, p) == IF filter = All THEN Accounts \ p[3] ELSE {filter}

Late(M, t) == {m \in M : m[1] >= t}

\* What the code computes from trades and accounts of moments of M not before t.
Got(M, kind, filter, value, t) ==
  \E p, q \in Late(M, t) :
    \E S \in Shown(kind, Meant(filter, p), q, Late(M, t)) :
      \E order \in Sorted(S) : value = Value(kind, filter, Meant(filter, p), order)

PastOK ==
  /\ now \in Nat
  /\ <<now, closed, archived, mirror>> \in past
  /\ \A m \in past : m[1] \in Nat

EntriesOK ==
  /\ entry = [k \in Kinds \X Filter |-> entry[k]]
  /\ \A kind \in Kinds, filter \in Filter :
       LET e == entry[<<kind, filter>>] IN
       e # NoEntry => e.since \in Nat /\ Got(past, kind, filter, e.value, e.since - 1)

\* What a request for the performance has found, in the copy or in the table.
Seen(M, x) == \E q \in Late(M, x.since) : x.rows \in {Table(q, x.accts), Rows(q[4], x.accts)}

\* A request under way, what it has read and when.
UnderWay(x, M, t) ==
  /\ x = [at |-> x.at, kind |-> x.kind, filter |-> x.filter, accts |-> x.accts, rows |-> x.rows,
          value |-> x.value, since |-> x.since, repair |-> x.repair]
  /\ x.at # "idle" =>
       /\ x.kind \in Kinds /\ x.filter \in Filter
       /\ x.since \in Nat /\ t - 1 <= x.since /\ x.since <= t
       /\ x.at # "store" => \E p \in Late(M, x.since) : x.accts = Meant(x.filter, p)
       /\ x.at = "looked" => x.kind = "performance" /\ Seen(M, x)
       /\ x.at = "store" => Got(M, x.kind, x.filter, x.value, x.since)

RequestsOK ==
  /\ req = [r \in Requests |-> req[r]]
  /\ \A r \in Requests : UnderWay(req[r], past, now)

AnswerOK ==
  (answer # NoAnswer /\ answer.what = "view") =>
    /\ answer.kind \in Kinds /\ answer.filter \in Filter
    /\ Got(past, answer.kind, answer.filter, answer.value, now - Lag(answer.kind))

ViewInv == PastOK /\ EntriesOK /\ RequestsOK /\ AnswerOK

\* What was read of late is so still when more is known or less is asked.
LEMMA ShownMore ==
  ASSUME NEW M, NEW N, M \subseteq N, NEW kind, NEW accts, NEW q
  PROVE  Shown(kind, accts, q, M) \subseteq Shown(kind, accts, q, N)
  BY DEF Shown

LEMMA GotMore ==
  ASSUME NEW M, NEW N, M \subseteq N, \A m \in M : m[1] \in Nat,
         NEW t \in Int, NEW u \in Int, t <= u,
         NEW kind, NEW filter, NEW value, Got(M, kind, filter, value, u)
  PROVE  Got(N, kind, filter, value, t)
  <1>1. Late(M, u) \subseteq Late(N, t)
    BY DEF Late
  <1>2. PICK p, q \in Late(M, u) :
          \E S \in Shown(kind, Meant(filter, p), q, Late(M, u)) :
            \E order \in Sorted(S) : value = Value(kind, filter, Meant(filter, p), order)
    BY DEF Got
  <1>3. Shown(kind, Meant(filter, p), q, Late(M, u)) \subseteq Shown(kind, Meant(filter, p), q, Late(N, t))
    BY <1>1, ShownMore
  <1>4. p \in Late(N, t) /\ q \in Late(N, t)
    BY <1>1, <1>2
  <1> QED
    BY <1>2, <1>3, <1>4 DEF Got

LEMMA LateMore ==
  ASSUME NEW M, NEW N, M \subseteq N, NEW t
  PROVE  Late(M, t) \subseteq Late(N, t)
  BY DEF Late

LEMMA LifeNat == \A kind : Life(kind) \in Nat
  BY DashboardAssumption DEF Life

LEMMA LagLeast == \A kind : Lag(kind) \in Nat /\ Lag(kind) >= 1
  BY LifeNat DEF Lag

LEMMA LagCached == \A kind \in Cached : Lag(kind) = 1 + Life(kind)
  BY DEF Lag

\* A request goes on under way while the past grows and no tick ends.
LEMMA UnderWayMore ==
  ASSUME NEW M, NEW N, M \subseteq N, \A m \in M : m[1] \in Nat, NEW t \in Nat,
         NEW x, UnderWay(x, M, t)
  PROVE  UnderWay(x, N, t) /\ (x.at = "idle" \/ x.since = t => UnderWay(x, N, t + 1))
  <1>1. CASE x.at = "idle"
    BY <1>1 DEF UnderWay
  <1>2. CASE x.at # "idle"
    <2>1. x.kind \in Kinds /\ x.filter \in Filter /\ x.since \in Nat /\ t - 1 <= x.since /\ x.since <= t
      BY <1>2 DEF UnderWay
    <2>2. Late(M, x.since) \subseteq Late(N, x.since)
      BY LateMore
    <2>3. x.at # "store" => \E p \in Late(N, x.since) : x.accts = Meant(x.filter, p)
      BY <1>2, <2>2 DEF UnderWay
    <2>4. x.at = "looked" => x.kind = "performance" /\ Seen(N, x)
      BY <1>2, <2>2 DEF UnderWay, Seen
    <2>5. x.at = "store" => Got(N, x.kind, x.filter, x.value, x.since)
      <3> HAVE x.at = "store"
      <3>1. x.since \in Int /\ Got(M, x.kind, x.filter, x.value, x.since)
        BY <1>2 DEF UnderWay
      <3> QED
        BY <3>1, GotMore
    <2>6. x = [at |-> x.at, kind |-> x.kind, filter |-> x.filter, accts |-> x.accts, rows |-> x.rows,
               value |-> x.value, since |-> x.since, repair |-> x.repair]
      BY DEF UnderWay
    <2> QED
      BY <1>2, <2>1, <2>3, <2>4, <2>5, <2>6 DEF UnderWay
  <1> QED
    BY <1>1, <1>2

\* A request that is over, with a repair behind it or without.
LEMMA IdleUnderWay ==
  ASSUME NEW M, NEW t
  PROVE  UnderWay(Idle, M, t) /\ \A x : UnderWay(Left(x), M, t)
  <1>1. UnderWay(Idle, M, t)
    BY DEF UnderWay, Idle
  <1>2. ASSUME NEW x PROVE UnderWay(Left(x), M, t)
    <2> DEFINE y == [at |-> "idle", kind |-> "list", filter |-> All, accts |-> x.accts, rows |-> x.rows,
                     value |-> << >>, since |-> 0, repair |-> x.repair]
    <2>1. Left(x) = IF x.repair = "none" THEN Idle ELSE y
      BY DEF Left
    <2>2. UnderWay(y, M, t)
      BY DEF UnderWay
    <2> HIDE DEF y
    <2> QED
      BY <1>1, <2>1, <2>2
  <1> QED
    BY <1>1, <1>2

LEMMA ViewInitially == ViewInit => ViewInv
  <1> SUFFICES ASSUME ViewInit PROVE ViewInv
    OBVIOUS
  <1>1. PastOK
    BY DEF ViewInit, PastOK
  <1>2. EntriesOK
    BY DEF ViewInit, EntriesOK
  <1>3. RequestsOK
    BY IdleUnderWay DEF ViewInit, RequestsOK
  <1>4. AnswerOK
    BY DEF ViewInit, AnswerOK
  <1> QED
    BY <1>1, <1>2, <1>3, <1>4 DEF ViewInv

\* Only a tick moves the clock, and only it and a change add to the past.
LEMMA EntriesLater ==
  ASSUME ViewInv, past \subseteq past', UNCHANGED entry PROVE EntriesOK'
  <1>1. \A m \in past : m[1] \in Nat
    BY DEF ViewInv, PastOK
  <1>2. ASSUME NEW kind \in Kinds, NEW filter \in Filter, entry[<<kind, filter>>] # NoEntry
        PROVE  Got(past', kind, filter, entry[<<kind, filter>>].value, entry[<<kind, filter>>].since - 1)
    <2>1. /\ entry[<<kind, filter>>].since - 1 \in Int
          /\ Got(past, kind, filter, entry[<<kind, filter>>].value, entry[<<kind, filter>>].since - 1)
      BY <1>2 DEF ViewInv, EntriesOK
    <2> QED
      BY <2>1, <1>1, GotMore
  <1> QED
    BY <1>2 DEF ViewInv, EntriesOK

LEMMA RequestsLater ==
  ASSUME ViewInv, past \subseteq past', UNCHANGED <<now, req>> PROVE RequestsOK'
  <1>1. now \in Nat /\ \A m \in past : m[1] \in Nat
    BY DEF ViewInv, PastOK
  <1>2. \A r \in Requests : UnderWay(req[r], past, now)
    BY DEF ViewInv, RequestsOK
  <1>3. \A r \in Requests : UnderWay(req[r], past', now)
    BY <1>1, <1>2, UnderWayMore
  <1> QED
    BY <1>3 DEF ViewInv, RequestsOK

\* A request that is at work leaves the table, the copy and the past alone.
Looking == UNCHANGED <<now, closed, mirror, archived, past>>

LEMMA PastStays ==
  ASSUME ViewInv, Looking PROVE PastOK'
  BY DEF ViewInv, PastOK, Looking

LEMMA AnswerStays ==
  ASSUME ViewInv, Looking, UNCHANGED answer PROVE AnswerOK'
  BY DEF ViewInv, AnswerOK, Looking

\* Another request, or none, is under way.
LEMMA RequestTurns ==
  ASSUME ViewInv, past \subseteq past', UNCHANGED now, NEW r \in Requests, NEW x,
         req' = [req EXCEPT ![r] = x], UnderWay(x, past, now)
  PROVE  RequestsOK'
  <1>1. now \in Nat /\ \A m \in past : m[1] \in Nat
    BY DEF ViewInv, PastOK
  <1>2. \A q \in Requests : UnderWay(req'[q], past, now)
    BY DEF ViewInv, RequestsOK
  <1>3. \A q \in Requests : UnderWay(req'[q], past', now)
    BY <1>1, <1>2, UnderWayMore
  <1>4. req' = [q \in Requests |-> req'[q]]
    BY DEF ViewInv, RequestsOK
  <1> QED
    BY <1>3, <1>4 DEF RequestsOK

\* An answer that is a view is one of late.
LEMMA Answered ==
  ASSUME ViewInv, Looking, NEW kind \in Kinds, NEW filter \in Filter, NEW value,
         Reply(kind, filter, value, "view"), Got(past, kind, filter, value, now - Lag(kind))
  PROVE  AnswerOK'
  BY DEF AnswerOK, Reply, Looking

LEMMA NotAView ==
  ASSUME NEW kind, NEW filter, NEW value, NEW what, what # "view", Reply(kind, filter, value, what)
  PROVE  AnswerOK'
  BY DEF AnswerOK, Reply

LEMMA AskKeeps ==
  ASSUME ViewInv, NEW r \in Requests, NEW kind \in Kinds, NEW filter \in Filter, Ask(r, kind, filter)
  PROVE  ViewInv'
  <1>1. Looking /\ UNCHANGED entry
    BY DEF Ask, Looking
  <1>2. past \subseteq past'
    BY <1>1 DEF Looking
  <1>3. now \in Nat /\ <<now, closed, archived, mirror>> \in past /\ \A m \in past : m[1] \in Nat
    BY DEF ViewInv, PastOK
  <1>4. PastOK' /\ EntriesOK'
    BY <1>1, <1>2, PastStays, EntriesLater
  <1>5. CASE Hit(r, kind, filter)
    <2> DEFINE e == entry[<<kind, filter>>]
    <2>1. /\ kind \in Cached /\ e # NoEntry /\ now <= e.since + Life(kind)
          /\ Reply(kind, filter, e.value, "view") /\ UNCHANGED req
      BY <1>5 DEF Hit
    <2>2. e.since \in Nat /\ Got(past, kind, filter, e.value, e.since - 1)
      BY <2>1 DEF ViewInv, EntriesOK
    <2>3. now - Lag(kind) \in Int /\ now - Lag(kind) <= e.since - 1 /\ e.since - 1 \in Int
      BY <2>1, <2>2, <1>3, LagCached, LifeNat
    <2>4. Got(past, kind, filter, e.value, now - Lag(kind))
      BY <2>2, <2>3, <1>3, GotMore
    <2>5. AnswerOK'
      BY <2>1, <2>4, <1>1, Answered
    <2>6. RequestsOK'
      BY <2>1, <1>1, <1>2, RequestsLater DEF Looking
    <2> QED
      BY <2>5, <2>6, <1>4 DEF ViewInv
  <1>6. CASE Miss(r, kind, filter)
    <2>1. CASE Chosen(filter) = {}
      <3>1. Reply(kind, filter, << >>, "empty") /\ UNCHANGED req
        BY <1>6, <2>1 DEF Miss
      <3>2. AnswerOK'
        BY <3>1, NotAView
      <3>3. RequestsOK'
        BY <3>1, <1>1, <1>2, RequestsLater DEF Looking
      <3> QED
        BY <3>2, <3>3, <1>4 DEF ViewInv
    <2>2. CASE Chosen(filter) # {}
      <3> DEFINE x == [at |-> "read", kind |-> kind, filter |-> filter, accts |-> Chosen(filter), rows |-> {},
                       value |-> << >>, since |-> now, repair |-> "none"]
                 here == <<now, closed, archived, mirror>>
      <3>1. req' = [req EXCEPT ![r] = x] /\ UNCHANGED answer
        BY <1>6, <2>2 DEF Miss
      <3>2. x = [at |-> "read", kind |-> kind, filter |-> filter, accts |-> Chosen(filter), rows |-> {},
                 value |-> << >>, since |-> now, repair |-> "none"]
        OBVIOUS
      <3>3. here \in Late(past, now) /\ Chosen(filter) = Meant(filter, here)
        BY <1>3 DEF Late, Chosen, Meant
      <3> HIDE DEF x
      <3>4. \E p \in Late(past, x.since) : x.accts = Meant(x.filter, p)
        BY <3>2, <3>3
      <3>5. UnderWay(x, past, now)
        BY <3>2, <3>4, <1>3 DEF UnderWay
      <3>6. RequestsOK'
        BY <3>1, <3>5, <1>1, <1>2, RequestTurns DEF Looking
      <3>7. AnswerOK'
        BY <3>1, <1>1, AnswerStays
      <3> QED
        BY <3>6, <3>7, <1>4 DEF ViewInv
    <2> QED
      BY <2>1, <2>2
  <1> QED
    BY <1>5, <1>6 DEF Ask

\* A request with some of its fields changed.
LEMMA Refound ==
  ASSUME NEW x, NEW at, NEW rows,
         x = [at |-> x.at, kind |-> x.kind, filter |-> x.filter, accts |-> x.accts, rows |-> x.rows,
              value |-> x.value, since |-> x.since, repair |-> x.repair]
  PROVE  [x EXCEPT !.at = at, !.rows = rows] =
           [at |-> at, kind |-> x.kind, filter |-> x.filter, accts |-> x.accts, rows |-> rows,
            value |-> x.value, since |-> x.since, repair |-> x.repair]
  <1> DEFINE z == [x EXCEPT !.at = at]
  <1>1. z = [at |-> at, kind |-> x.kind, filter |-> x.filter, accts |-> x.accts, rows |-> x.rows,
             value |-> x.value, since |-> x.since, repair |-> x.repair]
    OBVIOUS
  <1>2. [x EXCEPT !.at = at, !.rows = rows] = [z EXCEPT !.rows = rows]
    OBVIOUS
  <1> HIDE DEF z
  <1> QED
    BY <1>1, <1>2

LEMMA Emptied ==
  ASSUME NEW x,
         x = [at |-> x.at, kind |-> x.kind, filter |-> x.filter, accts |-> x.accts, rows |-> x.rows,
              value |-> x.value, since |-> x.since, repair |-> x.repair]
  PROVE  [x EXCEPT !.rows = {}] =
           [at |-> x.at, kind |-> x.kind, filter |-> x.filter, accts |-> x.accts, rows |-> {},
            value |-> x.value, since |-> x.since, repair |-> x.repair]
  OBVIOUS

LEMMA Computed ==
  ASSUME NEW x, NEW value,
         x = [at |-> x.at, kind |-> x.kind, filter |-> x.filter, accts |-> x.accts, rows |-> x.rows,
              value |-> x.value, since |-> x.since, repair |-> x.repair]
  PROVE  [x EXCEPT !.at = "store", !.value = value] =
           [at |-> "store", kind |-> x.kind, filter |-> x.filter, accts |-> x.accts, rows |-> x.rows,
            value |-> value, since |-> x.since, repair |-> x.repair]
  <1> DEFINE z == [x EXCEPT !.at = "store"]
  <1>1. z = [at |-> "store", kind |-> x.kind, filter |-> x.filter, accts |-> x.accts, rows |-> x.rows,
             value |-> x.value, since |-> x.since, repair |-> x.repair]
    OBVIOUS
  <1>2. [x EXCEPT !.at = "store", !.value = value] = [z EXCEPT !.value = value]
    OBVIOUS
  <1> HIDE DEF z
  <1> QED
    BY <1>1, <1>2

LEMMA Repairing ==
  ASSUME NEW x, NEW rows, NEW repair,
         x = [at |-> x.at, kind |-> x.kind, filter |-> x.filter, accts |-> x.accts, rows |-> x.rows,
              value |-> x.value, since |-> x.since, repair |-> x.repair]
  PROVE  [x EXCEPT !.rows = rows, !.repair = repair] =
           [at |-> x.at, kind |-> x.kind, filter |-> x.filter, accts |-> x.accts, rows |-> rows,
            value |-> x.value, since |-> x.since, repair |-> repair]
  <1> DEFINE z == [x EXCEPT !.rows = rows]
  <1>1. z = [at |-> x.at, kind |-> x.kind, filter |-> x.filter, accts |-> x.accts, rows |-> rows,
             value |-> x.value, since |-> x.since, repair |-> x.repair]
    OBVIOUS
  <1>2. [x EXCEPT !.rows = rows, !.repair = repair] = [z EXCEPT !.repair = repair]
    OBVIOUS
  <1> HIDE DEF z
  <1> QED
    BY <1>1, <1>2

\* What a request computes of trades it may have been computed of.
LEMMA ComputeKeeps ==
  ASSUME ViewInv, Looking, UNCHANGED entry, NEW r \in Requests, NEW at, NEW kind \in Kinds, NEW filter \in Filter,
         NEW accts, NEW rows, NEW was, NEW since \in Nat, NEW repair, now - 1 <= since, since <= now,
         NEW S,
         Compute(r, [at |-> at, kind |-> kind, filter |-> filter, accts |-> accts, rows |-> rows,
                     value |-> was, since |-> since, repair |-> repair], S),
         \E p, q \in Late(past, since) : accts = Meant(filter, p) /\ S \in Shown(kind, accts, q, Late(past, since))
  PROVE  ViewInv'
  <1> DEFINE x == [at |-> at, kind |-> kind, filter |-> filter, accts |-> accts, rows |-> rows,
                   value |-> was, since |-> since, repair |-> repair]
  <1>1. past \subseteq past' /\ UNCHANGED now
    BY DEF Looking
  <1>2. now \in Nat /\ \A m \in past : m[1] \in Nat
    BY DEF ViewInv, PastOK
  <1>3. PastOK' /\ EntriesOK'
    BY <1>1, PastStays, EntriesLater
  <1>4. PICK order \in Sorted(S) :
          LET value == Value(kind, filter, accts, order) IN
          IF kind = "list" \/ (kind = "performance" /\ order # << >>)
          THEN req' = [req EXCEPT ![r] = [x EXCEPT !.at = "store", !.value = value]] /\ UNCHANGED answer
          ELSE req' = [req EXCEPT ![r] = Left(x)] /\ Reply(kind, filter, value, "view")
    BY DEF Compute
  <1> DEFINE value == Value(kind, filter, accts, order)
  <1>5. Got(past, kind, filter, value, since)
    BY <1>4 DEF Got
  <1>6. CASE kind = "list" \/ (kind = "performance" /\ order # << >>)
    <2> DEFINE y == [x EXCEPT !.at = "store", !.value = value]
    <2>1. req' = [req EXCEPT ![r] = y] /\ UNCHANGED answer
      BY <1>4, <1>6
    <2>2. y = [at |-> "store", kind |-> kind, filter |-> filter, accts |-> accts, rows |-> rows,
               value |-> value, since |-> since, repair |-> repair]
      <3>1. /\ x = [at |-> x.at, kind |-> x.kind, filter |-> x.filter, accts |-> x.accts, rows |-> x.rows,
                    value |-> x.value, since |-> x.since, repair |-> x.repair]
            /\ x.kind = kind /\ x.filter = filter /\ x.accts = accts /\ x.rows = rows
            /\ x.since = since /\ x.repair = repair
        OBVIOUS
      <3> HIDE DEF x, value
      <3> QED
        BY <3>1, Computed
    <2> HIDE DEF y, value
    <2>3. UnderWay(y, past, now)
      BY <2>2, <1>5 DEF UnderWay
    <2>4. RequestsOK'
      BY <2>1, <2>3, <1>1, RequestTurns
    <2>5. AnswerOK'
      BY <2>1, AnswerStays
    <2> QED
      BY <2>4, <2>5, <1>3 DEF ViewInv
  <1>7. CASE ~ (kind = "list" \/ (kind = "performance" /\ order # << >>))
    <2>1. req' = [req EXCEPT ![r] = Left(x)] /\ Reply(kind, filter, value, "view")
      BY <1>4, <1>7
    <2> HIDE DEF x, value
    <2>2. now - Lag(kind) \in Int /\ now - Lag(kind) <= since
      BY <1>2, LagLeast
    <2>3. Got(past, kind, filter, value, now - Lag(kind))
      BY <2>2, <1>2, <1>5, GotMore
    <2>4. AnswerOK'
      BY <2>1, <2>3, Answered
    <2>5. UnderWay(Left(x), past, now)
      BY IdleUnderWay
    <2>6. RequestsOK'
      BY <2>1, <2>5, <1>1, RequestTurns
    <2> QED
      BY <2>4, <2>6, <1>3 DEF ViewInv
  <1> QED
    BY <1>6, <1>7

\* A request that reads, and the moment it reads at.
LEMMA Reading ==
  ASSUME ViewInv, NEW r \in Requests, req[r].at \notin {"idle", "store"}
  PROVE  LET x == req[r]
             here == <<now, closed, archived, mirror>>
         IN  /\ x = [at |-> x.at, kind |-> x.kind, filter |-> x.filter, accts |-> x.accts, rows |-> x.rows,
                     value |-> x.value, since |-> x.since, repair |-> x.repair]
             /\ x.kind \in Kinds /\ x.filter \in Filter /\ x.since \in Nat /\ now - 1 <= x.since /\ x.since <= now
             /\ \E p \in Late(past, x.since) : x.accts = Meant(x.filter, p)
             /\ here \in Late(past, x.since)
             /\ Of(x.accts) = Table(here, x.accts) /\ Rows(mirror, x.accts) = Rows(here[4], x.accts)
  <1> DEFINE x == req[r]
             here == <<now, closed, archived, mirror>>
  <1>1. UnderWay(x, past, now)
    BY DEF ViewInv, RequestsOK
  <1>2. now \in Nat /\ here \in past /\ here[1] = now /\ here[2] = closed /\ here[4] = mirror
    BY DEF ViewInv, PastOK
  <1>3. /\ x = [at |-> x.at, kind |-> x.kind, filter |-> x.filter, accts |-> x.accts, rows |-> x.rows,
                value |-> x.value, since |-> x.since, repair |-> x.repair]
        /\ x.kind \in Kinds /\ x.filter \in Filter /\ x.since \in Nat /\ now - 1 <= x.since /\ x.since <= now
        /\ \E p \in Late(past, x.since) : x.accts = Meant(x.filter, p)
    BY <1>1 DEF UnderWay
  <1> HIDE DEF here, x
  <1>4. here \in Late(past, x.since)
    BY <1>2, <1>3 DEF Late
  <1>5. Of(x.accts) = Table(here, x.accts) /\ Rows(mirror, x.accts) = Rows(here[4], x.accts)
    BY <1>2 DEF Of, Table
  <1> QED
    BY <1>3, <1>4, <1>5 DEF here, x

LEMMA ReadKeeps ==
  ASSUME ViewInv, NEW r \in Requests, Read(r) PROVE ViewInv'
  <1> DEFINE x == req[r]
             here == <<now, closed, archived, mirror>>
  <1>1. Looking /\ UNCHANGED entry /\ x.at = "read" /\ Compute(r, x, Of(x.accts))
    BY DEF Read, Looking
  <1>2. /\ x = [at |-> x.at, kind |-> x.kind, filter |-> x.filter, accts |-> x.accts, rows |-> x.rows,
                value |-> x.value, since |-> x.since, repair |-> x.repair]
        /\ x.kind \in Kinds /\ x.filter \in Filter /\ x.since \in Nat /\ now - 1 <= x.since /\ x.since <= now
        /\ \E p \in Late(past, x.since) : x.accts = Meant(x.filter, p)
        /\ here \in Late(past, x.since) /\ Of(x.accts) = Table(here, x.accts)
    BY <1>1, Reading
  <1> HIDE DEF x, here
  <1>3. Of(x.accts) \in Shown(x.kind, x.accts, here, Late(past, x.since))
    BY <1>2 DEF Shown
  <1> QED
    BY <1>1, <1>2, <1>3, ComputeKeeps

LEMMA AskCopyKeeps ==
  ASSUME ViewInv, NEW r \in Requests, AskCopy(r) PROVE ViewInv'
  <1> DEFINE x == req[r]
             here == <<now, closed, archived, mirror>>
  <1>1. Looking /\ UNCHANGED <<entry, answer>> /\ x.at = "read" /\ x.kind = "performance"
    BY DEF AskCopy, Looking
  <1>2. past \subseteq past' /\ UNCHANGED now
    BY <1>1 DEF Looking
  <1>3. /\ x = [at |-> x.at, kind |-> x.kind, filter |-> x.filter, accts |-> x.accts, rows |-> x.rows,
                value |-> x.value, since |-> x.since, repair |-> x.repair]
        /\ x.kind \in Kinds /\ x.filter \in Filter /\ x.since \in Nat /\ now - 1 <= x.since /\ x.since <= now
        /\ \E p \in Late(past, x.since) : x.accts = Meant(x.filter, p)
        /\ here \in Late(past, x.since)
        /\ Of(x.accts) = Table(here, x.accts) /\ Rows(mirror, x.accts) = Rows(here[4], x.accts)
    BY <1>1, Reading
  <1>4. PICK rows \in {Of(x.accts), Rows(mirror, x.accts)} :
          req' = [req EXCEPT ![r] = [x EXCEPT !.at = "looked", !.rows = rows]]
    BY DEF AskCopy
  <1> DEFINE y == [at |-> "looked", kind |-> x.kind, filter |-> x.filter, accts |-> x.accts, rows |-> rows,
                   value |-> x.value, since |-> x.since, repair |-> x.repair]
  <1> HIDE DEF x, here
  <1>5. req' = [req EXCEPT ![r] = y]
    BY <1>3, <1>4, Refound
  <1>6. Seen(past, y)
    BY <1>3, <1>4 DEF Seen
  <1>7. UnderWay(y, past, now)
    <2>1. y = [at |-> "looked", kind |-> x.kind, filter |-> x.filter, accts |-> x.accts, rows |-> rows,
               value |-> x.value, since |-> x.since, repair |-> x.repair]
      OBVIOUS
    <2> HIDE DEF y
    <2> QED
      BY <2>1, <1>1, <1>3, <1>6 DEF UnderWay
  <1> HIDE DEF y
  <1>8. RequestsOK'
    BY <1>2, <1>5, <1>7, RequestTurns
  <1>9. PastOK' /\ EntriesOK' /\ AnswerOK'
    BY <1>1, <1>2, PastStays, EntriesLater, AnswerStays
  <1> QED
    BY <1>8, <1>9 DEF ViewInv

LEMMA CountKeeps ==
  ASSUME ViewInv, NEW r \in Requests, Count(r) PROVE ViewInv'
  <1> DEFINE x == req[r]
             here == <<now, closed, archived, mirror>>
  <1>1. Looking /\ UNCHANGED entry /\ x.at = "looked"
    BY DEF Count, Looking
  <1>2. past \subseteq past' /\ UNCHANGED now
    BY <1>1 DEF Looking
  <1>3. /\ x = [at |-> x.at, kind |-> x.kind, filter |-> x.filter, accts |-> x.accts, rows |-> x.rows,
                value |-> x.value, since |-> x.since, repair |-> x.repair]
        /\ x.kind \in Kinds /\ x.filter \in Filter /\ x.since \in Nat /\ now - 1 <= x.since /\ x.since <= now
        /\ \E p \in Late(past, x.since) : x.accts = Meant(x.filter, p)
        /\ here \in Late(past, x.since) /\ Of(x.accts) = Table(here, x.accts)
    BY <1>1, Reading
  <1>4. x.kind = "performance" /\ Seen(past, x)
    BY <1>1 DEF ViewInv, RequestsOK, UnderWay
  <1>5. CASE Cardinality(x.rows) = Cardinality(Of(x.accts))
    <2>1. Compute(r, [x EXCEPT !.rows = {}], x.rows)
      BY <1>5 DEF Count
    <2> HIDE DEF x, here
    <2>2. [x EXCEPT !.rows = {}] = [at |-> x.at, kind |-> x.kind, filter |-> x.filter, accts |-> x.accts, rows |-> {},
                                    value |-> x.value, since |-> x.since, repair |-> x.repair]
      BY <1>3, Emptied
    <2>3. PICK q \in Late(past, x.since) : x.rows \in {Table(q, x.accts), Rows(q[4], x.accts)}
      BY <1>4 DEF Seen
    <2>4. x.rows \in Shown(x.kind, x.accts, q, Late(past, x.since))
      BY <1>3, <1>4, <1>5, <2>3 DEF Shown
    <2>5. Compute(r, [at |-> x.at, kind |-> x.kind, filter |-> x.filter, accts |-> x.accts, rows |-> {},
                      value |-> x.value, since |-> x.since, repair |-> x.repair], x.rows)
      BY <2>1, <2>2
    <2> QED
      BY <1>1, <1>3, <2>3, <2>4, <2>5, ComputeKeeps
  <1>6. CASE Cardinality(x.rows) # Cardinality(Of(x.accts))
    <2>1. PICK at \in {"ghosts", "missing"} : req' = [req EXCEPT ![r] = [x EXCEPT !.at = at, !.rows = {}]]
      BY <1>6 DEF Count
    <2>2. UNCHANGED answer
      BY <1>6 DEF Count
    <2> DEFINE y == [at |-> at, kind |-> x.kind, filter |-> x.filter, accts |-> x.accts, rows |-> {},
                     value |-> x.value, since |-> x.since, repair |-> x.repair]
    <2> HIDE DEF x, here
    <2>3. req' = [req EXCEPT ![r] = y]
      BY <1>3, <2>1, Refound
    <2>4. UnderWay(y, past, now)
      <3>1. y = [at |-> at, kind |-> x.kind, filter |-> x.filter, accts |-> x.accts, rows |-> {},
                 value |-> x.value, since |-> x.since, repair |-> x.repair]
        OBVIOUS
      <3> HIDE DEF y
      <3>2. at # "idle" /\ at # "looked" /\ at # "store"
        BY <2>1
      <3> QED
        BY <3>1, <3>2, <1>3 DEF UnderWay
    <2> HIDE DEF y
    <2>5. RequestsOK'
      BY <1>2, <2>3, <2>4, RequestTurns
    <2>6. PastOK' /\ EntriesOK' /\ AnswerOK'
      BY <1>1, <1>2, <2>2, PastStays, EntriesLater, AnswerStays
    <2> QED
      BY <2>5, <2>6 DEF ViewInv
  <1> QED
    BY <1>5, <1>6

LEMMA RereadKeeps ==
  ASSUME ViewInv, NEW r \in Requests, Reread(r) PROVE ViewInv'
  <1> DEFINE x == req[r]
             here == <<now, closed, archived, mirror>>
             repair == IF x.at = "ghosts" THEN "wipe" ELSE "fill"
             y == [at |-> x.at, kind |-> x.kind, filter |-> x.filter, accts |-> x.accts, rows |-> Of(x.accts),
                   value |-> x.value, since |-> x.since, repair |-> repair]
  <1>1. /\ Looking /\ UNCHANGED entry /\ x.at \in {"ghosts", "missing"}
        /\ Compute(r, [x EXCEPT !.rows = Of(x.accts), !.repair = repair], Of(x.accts))
    BY DEF Reread, Looking
  <1>2. /\ x = [at |-> x.at, kind |-> x.kind, filter |-> x.filter, accts |-> x.accts, rows |-> x.rows,
                value |-> x.value, since |-> x.since, repair |-> x.repair]
        /\ x.kind \in Kinds /\ x.filter \in Filter /\ x.since \in Nat /\ now - 1 <= x.since /\ x.since <= now
        /\ \E p \in Late(past, x.since) : x.accts = Meant(x.filter, p)
        /\ here \in Late(past, x.since) /\ Of(x.accts) = Table(here, x.accts)
    BY <1>1, Reading
  <1> HIDE DEF x, here, repair
  <1>3. [x EXCEPT !.rows = Of(x.accts), !.repair = repair] = y
    BY <1>2, Repairing
  <1>4. Compute(r, y, Of(x.accts))
    BY <1>1, <1>3
  <1>5. Of(x.accts) \in Shown(x.kind, x.accts, here, Late(past, x.since))
    BY <1>2 DEF Shown
  <1> QED
    BY <1>1, <1>2, <1>4, <1>5, ComputeKeeps

LEMMA StoreKeeps ==
  ASSUME ViewInv, NEW r \in Requests, Store(r) PROVE ViewInv'
  <1> DEFINE x == req[r]
             e == [value |-> x.value, since |-> now]
  <1>1. Looking /\ x.at = "store"
    BY DEF Store, Looking
  <1>2. now \in Nat /\ \A m \in past : m[1] \in Nat
    BY DEF ViewInv, PastOK
  <1>3. /\ x.kind \in Kinds /\ x.filter \in Filter /\ x.since \in Nat /\ now - 1 <= x.since
        /\ Got(past, x.kind, x.filter, x.value, x.since)
    BY <1>1 DEF ViewInv, RequestsOK, UnderWay
  <1>4. Got(past, x.kind, x.filter, x.value, now - 1)
    BY <1>2, <1>3, GotMore
  <1>5. EntriesOK'
    <2>1. entry' = [entry EXCEPT ![<<x.kind, x.filter>>] = e]
      BY DEF Store
    <2>2. entry' = [k \in Kinds \X Filter |-> entry'[k]]
      BY <2>1 DEF ViewInv, EntriesOK
    <2>3. ASSUME NEW kind \in Kinds, NEW filter \in Filter, entry'[<<kind, filter>>] # NoEntry
          PROVE  entry'[<<kind, filter>>].since \in Nat
                 /\ Got(past', kind, filter, entry'[<<kind, filter>>].value, entry'[<<kind, filter>>].since - 1)
      <3>1. CASE kind = x.kind /\ filter = x.filter
        <4>1. entry'[<<kind, filter>>] = e
          BY <3>1, <2>1 DEF ViewInv, EntriesOK
        <4> QED
          BY <4>1, <3>1, <1>1, <1>2, <1>4 DEF Looking
      <3>2. CASE ~ (kind = x.kind /\ filter = x.filter)
        <4>1. entry'[<<kind, filter>>] = entry[<<kind, filter>>]
          BY <3>2, <2>1 DEF ViewInv, EntriesOK
        <4> QED
          BY <4>1, <2>3, <1>1 DEF ViewInv, EntriesOK, Looking
      <3> QED
        BY <3>1, <3>2
    <2> QED
      BY <2>2, <2>3 DEF EntriesOK
  <1>6. RequestsOK'
    <2>1. req' = [req EXCEPT ![r] = Left(x)] /\ past \subseteq past' /\ UNCHANGED now
      BY <1>1 DEF Store, Looking
    <2>2. UnderWay(Left(x), past, now)
      BY IdleUnderWay
    <2> QED
      BY <2>1, <2>2, RequestTurns
  <1>7. AnswerOK'
    <2>1. Reply(x.kind, x.filter, x.value, "view")
      BY DEF Store
    <2>2. now - Lag(x.kind) \in Int /\ now - Lag(x.kind) <= x.since
      BY <1>2, <1>3, LagLeast
    <2>3. Got(past, x.kind, x.filter, x.value, now - Lag(x.kind))
      BY <2>2, <1>2, <1>3, GotMore
    <2> QED
      BY <2>1, <2>3, <1>1, <1>3, Answered
  <1>8. PastOK'
    BY <1>1, PastStays
  <1> QED
    BY <1>5, <1>6, <1>7, <1>8 DEF ViewInv

LEMMA QueryFailsKeeps ==
  ASSUME ViewInv, NEW r \in Requests, QueryFails(r) PROVE ViewInv'
  <1>1. Looking /\ UNCHANGED entry /\ req' = [req EXCEPT ![r] = Idle]
    BY DEF QueryFails, Looking
  <1>2. PastOK' /\ EntriesOK'
    BY <1>1, PastStays, EntriesLater DEF Looking
  <1>3. RequestsOK'
    <2>1. UnderWay(Idle, past, now) /\ past \subseteq past' /\ UNCHANGED now
      BY <1>1, IdleUnderWay DEF Looking
    <2> QED
      BY <1>1, <2>1, RequestTurns
  <1>4. PICK what \in {"zeros", "error"} : Reply(req[r].kind, req[r].filter, << >>, what)
    BY DEF QueryFails
  <1>5. AnswerOK'
    BY <1>4, NotAView
  <1> QED
    BY <1>2, <1>3, <1>5 DEF ViewInv

LEMMA RestartKeeps ==
  ASSUME ViewInv, Restart PROVE ViewInv'
  <1>1. PastOK'
    BY PastStays DEF Restart, Looking
  <1>2. EntriesOK'
    BY DEF Restart, EntriesOK
  <1>3. RequestsOK'
    BY IdleUnderWay DEF Restart, RequestsOK
  <1>4. AnswerOK'
    BY DEF Restart, AnswerOK
  <1> QED
    BY <1>1, <1>2, <1>3, <1>4 DEF ViewInv

\* The clock moves on when every request under way is of this tick.
LEMMA TickKeeps ==
  ASSUME ViewInv, Tick PROVE ViewInv'
  <1>1. /\ now' = now + 1 /\ past' = past \cup {<<now + 1, closed, archived, mirror>>}
        /\ answer' = NoAnswer /\ UNCHANGED <<closed, mirror, archived, entry, req>>
        /\ \A r \in Requests : req[r].at = "idle" \/ req[r].since = now
    BY DEF Tick
  <1>2. now \in Nat /\ \A m \in past : m[1] \in Nat
    BY DEF ViewInv, PastOK
  <1>3. PastOK'
    BY <1>1 DEF ViewInv, PastOK
  <1>4. EntriesOK'
    BY <1>1, EntriesLater
  <1>5. RequestsOK'
    <2>1. \A r \in Requests : UnderWay(req[r], past, now)
      BY DEF ViewInv, RequestsOK
    <2>2. \A r \in Requests : UnderWay(req[r], past', now + 1)
      BY <2>1, <1>1, <1>2, UnderWayMore
    <2> QED
      BY <2>2, <1>1 DEF ViewInv, RequestsOK
  <1>6. AnswerOK'
    BY <1>1 DEF AnswerOK
  <1> QED
    BY <1>3, <1>4, <1>5, <1>6 DEF ViewInv

\* What changes the world adds to the past and answers nothing.
LEMMA WorldKeeps ==
  ASSUME ViewInv, NEW T, NEW A, NEW C, World(T, A, C), UNCHANGED <<now, entry>>, RequestsOK'
  PROVE  ViewInv'
  <1>1. /\ closed' = T /\ archived' = A /\ mirror' = C /\ past' = past \cup {<<now, T, A, C>>}
        /\ answer' = NoAnswer
    BY DEF World
  <1>2. PastOK'
    BY <1>1 DEF ViewInv, PastOK
  <1>3. EntriesOK'
    BY <1>1, EntriesLater
  <1>4. AnswerOK'
    BY <1>1 DEF AnswerOK
  <1> QED
    BY <1>2, <1>3, <1>4 DEF ViewInv

LEMMA ChangedKeeps ==
  ASSUME ViewInv, NEW T, NEW A, NEW C, Changed(T, A, C) PROVE ViewInv'
  <1>1. World(T, A, C) /\ UNCHANGED <<now, entry, req>>
    BY DEF Changed
  <1>2. past \subseteq past'
    BY <1>1 DEF World
  <1>3. RequestsOK'
    BY <1>1, <1>2, RequestsLater
  <1> QED
    BY <1>1, <1>3, WorldKeeps

\* A repair goes on, or ends, and what is asked does not change.
LEMMA StageKeeps ==
  ASSUME ViewInv, NEW r \in Requests, NEW stage, Stage(r, stage), past \subseteq past', UNCHANGED now
  PROVE  RequestsOK'
  <1> DEFINE x == req[r]
             z == [x EXCEPT !.repair = stage]
             y == IF x.at = "idle" THEN Left(z) ELSE z
  <1>1. req' = [req EXCEPT ![r] = y]
    BY DEF Stage
  <1>2. UnderWay(x, past, now)
    BY DEF ViewInv, RequestsOK
  <1>3. UnderWay(y, past, now)
    <2>1. CASE x.at = "idle"
      BY <2>1, IdleUnderWay
    <2>2. CASE x.at # "idle"
      <3>1. x = [at |-> x.at, kind |-> x.kind, filter |-> x.filter, accts |-> x.accts, rows |-> x.rows,
                 value |-> x.value, since |-> x.since, repair |-> x.repair]
        BY <1>2 DEF UnderWay
      <3>2. z = [at |-> x.at, kind |-> x.kind, filter |-> x.filter, accts |-> x.accts, rows |-> x.rows,
                 value |-> x.value, since |-> x.since, repair |-> stage]
        <4> HIDE DEF x
        <4> QED
          BY <3>1
      <3>3. y = z
        BY <2>2
      <3> HIDE DEF x, y, z
      <3>4. Seen(past, x) => Seen(past, z)
        BY <3>2 DEF Seen
      <3>5. UnderWay(z, past, now)
        BY <1>2, <2>2, <3>2, <3>4 DEF UnderWay
      <3> QED
        BY <3>3, <3>5
    <2> QED
      BY <2>1, <2>2
  <1> HIDE DEF y
  <1> QED
    BY <1>1, <1>3, RequestTurns

LEMMA RepairKeeps ==
  ASSUME ViewInv, NEW r \in Requests, RepairWipe(r) \/ RepairFill(r) \/ RepairFails(r) PROVE ViewInv'
  <1>1. CASE RepairFails(r)
    <2>1. Looking /\ UNCHANGED <<entry, answer>> /\ Stage(r, "none")
      BY <1>1 DEF RepairFails, Looking
    <2>2. past \subseteq past' /\ UNCHANGED now
      BY <2>1 DEF Looking
    <2>3. PastOK' /\ EntriesOK' /\ AnswerOK'
      BY <2>1, <2>2, PastStays, EntriesLater, AnswerStays
    <2>4. RequestsOK'
      BY <2>1, <2>2, StageKeeps
    <2> QED
      BY <2>3, <2>4 DEF ViewInv
  <1>2. CASE RepairWipe(r) \/ RepairFill(r)
    <2>1. PICK C, stage : World(closed, archived, C) /\ Stage(r, stage) /\ UNCHANGED <<now, entry>>
      BY <1>2 DEF RepairWipe, RepairFill
    <2>2. past \subseteq past'
      BY <2>1 DEF World
    <2>3. RequestsOK'
      BY <2>1, <2>2, StageKeeps
    <2> QED
      BY <2>1, <2>3, WorldKeeps
  <1> QED
    BY <1>1, <1>2

LEMMA ViewStep == ViewInv /\ [ViewNext]_viewVars => ViewInv'
  <1> SUFFICES ASSUME ViewInv, [ViewNext]_viewVars PROVE ViewInv'
    OBVIOUS
  <1>1. ASSUME NEW r \in Requests, NEW kind \in Kinds, NEW filter \in Filter, Ask(r, kind, filter)
        PROVE  ViewInv'
    BY <1>1, AskKeeps
  <1>2. ASSUME NEW r \in Requests, Read(r) \/ AskCopy(r) \/ Count(r) \/ Reread(r) PROVE ViewInv'
    BY <1>2, ReadKeeps, AskCopyKeeps, CountKeeps, RereadKeeps
  <1>3. ASSUME NEW r \in Requests, Store(r) \/ QueryFails(r) PROVE ViewInv'
    BY <1>3, StoreKeeps, QueryFailsKeeps
  <1>4. ASSUME NEW r \in Requests, RepairWipe(r) \/ RepairFill(r) \/ RepairFails(r) PROVE ViewInv'
    BY <1>4, RepairKeeps
  <1>5. ASSUME NEW d \in AllTrades, Import(d) \/ Revert(d) \/ CopyIn(d) \/ CopyOut(d) \/ CopyMerge(d) PROVE ViewInv'
    <2>1. PICK T, C : Changed(T, archived, C)
      BY <1>5 DEF Import, Revert, CopyIn, CopyOut, CopyMerge
    <2> QED
      BY <2>1, ChangedKeeps
  <1>6. ASSUME NEW a \in Accounts, Archive(a) PROVE ViewInv'
    BY <1>6, ChangedKeeps DEF Archive
  <1>7. CASE Restart
    BY <1>7, RestartKeeps
  <1>8. CASE Tick
    BY <1>8, TickKeeps
  <1>9. CASE UNCHANGED viewVars
    <2>1. Looking /\ UNCHANGED <<entry, req, answer>>
      BY <1>9 DEF viewVars, Looking
    <2>2. PastOK' /\ EntriesOK' /\ RequestsOK' /\ AnswerOK'
      BY <2>1, PastStays, EntriesLater, RequestsLater, AnswerStays DEF Looking
    <2> QED
      BY <2>2 DEF ViewInv
  <1> QED
    BY <1>1, <1>2, <1>3, <1>4, <1>5, <1>6, <1>7, <1>8, <1>9 DEF ViewNext

\* Every answer was computed from accounts and trades of moments no longer ago
\* than an entry of the cache lives and a request takes; a performance perhaps
\* from rows the copy had then, if the table had as many then.
THEOREM AnswersAreOfLate == ViewSpec => []AnswerOK
  <1>1. ViewInv => AnswerOK
    BY DEF ViewInv
  <1> QED
    BY <1>1, ViewInitially, ViewStep, PTL DEF ViewSpec
=============================================================================
