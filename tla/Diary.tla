------------------------------- MODULE Diary -------------------------------
(***************************************************************************)
(* The diary beside the trades (DashboardService).                         *)
(*                                                                         *)
(* A page of it (a mental log of an account, a day and a session, a        *)
(* technical journal of an account and a day) is found, changed in some of *)
(* its fields and saved, and the ORM writes all columns that differ from   *)
(* the row in the table, as they were read.  Between the two the request   *)
(* awaits; no column is unique, and no row is ever deleted.                *)
(***************************************************************************)
EXTENDS Naturals, Sequences

CONSTANTS
  Pages, Fields, Texts, \* what is written where
  Unset,                \* no text, no save
  Savers, MaxSaves      \* bounds: requests at once, saves

VARIABLES
  diary,                \* rows of mental_logs and technical_journals, by their ids
  save,                 \* saves of a page under way
  latest,               \* (history) what was saved last in each field
  crossed,              \* (history) pages two saves had in hand at once
  saves

diaryVars == <<diary, save, latest, crossed, saves>>

Content == [Fields -> Texts \cup {Unset}]
Save == [page : Pages, fields : SUBSET Fields, text : Texts, row : Nat, seen : Content]

ASSUME DiaryAssumption == Unset \notin Texts \cup Save /\ MaxSaves \in Nat

DiaryTypeOK ==
  /\ diary \in Seq([page : Pages, has : Content])
  /\ save \in [Savers -> Save \cup {Unset}]
  /\ latest \in [Pages -> Content]
  /\ crossed \subseteq Pages
  /\ saves \in 0 .. MaxSaves

-----------------------------------------------------------------------------

\* The fields of a new row hold defaults until they are saved.
Blank == [f \in Fields |-> Unset]

Found(p) == {i \in DOMAIN diary : diary[i].page = p}
Saving(p) == \E r \in Savers : save[r] # Unset /\ save[r].page = p

\* A row of the page, whichever, is found with all its fields, or none.
Find(r, p, F, text) ==
  /\ save[r] = Unset /\ saves < MaxSaves
  /\ \E i \in Found(p) \cup {0} :
       /\ i = 0 => Found(p) = {}
       /\ save' = [save EXCEPT ![r] = [page |-> p, fields |-> F, text |-> text, row |-> i,
                                       seen |-> IF i = 0 THEN Blank ELSE diary[i].has]]
  /\ saves' = saves + 1
  /\ crossed' = IF Saving(p) THEN crossed \cup {p} ELSE crossed
  /\ UNCHANGED <<diary, latest>>

\* The text in the fields of the form, over what the others hold.
Filled(s, has) == [f \in Fields |-> IF f \in s.fields THEN s.text ELSE has[f]]

\* Mutant: a page that is there is not looked for.
KeptNever(s) == Append(diary, [page |-> s.page, has |-> Filled(s, Blank)])

\* The row is written with the new fields, and with the others as they were read.
Kept(s) ==
  IF s.row = 0
  THEN Append(diary, [page |-> s.page, has |-> Filled(s, Blank)])
  ELSE [diary EXCEPT ![s.row].has = Filled(s, s.seen)]

Write(r) ==
  /\ save[r] # Unset
  /\ diary' = Kept(save[r])
  /\ latest' = [latest EXCEPT ![save[r].page] = Filled(save[r], @)]
  /\ save' = [save EXCEPT ![r] = Unset]
  /\ UNCHANGED <<crossed, saves>>

\* The database fails a save, or the process ends before it.
Lose(r) ==
  /\ save[r] # Unset
  /\ save' = [save EXCEPT ![r] = Unset]
  /\ UNCHANGED <<diary, latest, crossed, saves>>

-----------------------------------------------------------------------------

DiaryInit ==
  /\ diary = << >>
  /\ save = [r \in Savers |-> Unset]
  /\ latest = [p \in Pages |-> Blank]
  /\ crossed = {}
  /\ saves = 0

DiaryNext ==
  \E r \in Savers :
    \/ \E p \in Pages, F \in SUBSET Fields, text \in Texts : Find(r, p, F, text)
    \/ Write(r) \/ Lose(r)

DiarySpec == DiaryInit /\ [][DiaryNext]_diaryVars

-----------------------------------------------------------------------------
(* Properties                                                                *)

\* A page no two saves had in hand at once has one row at most, and each of its
\* fields holds what was saved last in it (saveMentalLog and its image, and
\* saveTechnicalJournal with some of its fields), whatever saves are lost.
DiaryKept ==
  \A p \in Pages \ crossed :
    /\ \A i, j \in Found(p) : i = j
    /\ \A f \in Fields : latest[p][f] # Unset => \E i \in Found(p) : diary[i].has[f] = latest[p][f]
=============================================================================
