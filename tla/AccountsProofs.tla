--------------------------- MODULE AccountsProofs ---------------------------
(***************************************************************************)
(* Proofs about Accounts, for any logins, requests in hand, accounts and   *)
(* calls.                                                                  *)
(*                                                                         *)
(* What makes them go through is what the writes a request has in hand     *)
(* still fit (Fits): they are about rows that are there, of logins nobody  *)
(* else has, and trades that were counted; a write of another request      *)
(* disturbs that only about an object both have in hand, and such objects  *)
(* are recorded in `crossed' (Apart).                                      *)
(***************************************************************************)
EXTENDS Accounts, FiniteSetTheorems, SequenceTheorems, TLAPS

ReqType == [op : Ops \cup {"none"}, at : {"idle", "write", "discover", "find"},
            login : Login \cup {None}, writes : Seq(Write), todo : SUBSET Login,
            manual : BOOLEAN]

\* Two rows, or a row and a write, may have one login only for a reason.
Excused(l, a, b) == l = None \/ l \in crossed \/ a \in crossed \/ b \in crossed

Unique ==
  \A a, b \in Rows : a # b /\ acc[a].login = acc[b].login => Excused(acc[a].login, a, b)

\* What a write that is still to come finds.
FitsOne(w) ==
  /\ w.row # None <=> w.kind \in {"save", "make"}
  /\ w.kind = "make" => w.id = New
  /\ w.id = New => w.kind \in {"make", "book"}
  /\ w.id \in {New} \cup 1..made
  /\ w.kind \in {"save", "book"} => w.id \in {New} \cup Rows \cup crossed
  /\ w.kind = "drop" => w.id \notin trades \/ w.id \in crossed
  /\ w.row # None =>
       \A b \in Rows : b # w.id /\ acc[b].login = w.row.login => Excused(w.row.login, w.id, b)

\* A request has one write, or saves a successor before the account itself goes,
\* or makes the account it then books trades on.
FitsTwo(v, w) ==
  \/ v.kind = "make" /\ w.kind = "book" /\ w.id = New
  \/ /\ v.kind = "save" /\ w.kind \in {"save", "drop", "dropAll"} /\ v.id # w.id
     /\ w.row # None /\ v.row.login = w.row.login => Excused(w.row.login, v.id, w.id)

Fits(V) ==
  /\ Len(V) <= 2
  /\ \A i \in 1..Len(V) : FitsOne(V[i])
  /\ Len(V) = 1 => V[1].id # New \/ V[1].kind = "make"
  /\ Len(V) = 2 => FitsTwo(V[1], V[2])

AllFit == \A r \in Request : Fits(req[r].writes)

Apart ==
  \A r, s \in Request : r # s => Objects(req[r].writes) \cap Objects(req[s].writes) \subseteq crossed

IInv == TypeOK /\ NoOrphans /\ Unique /\ AllFit /\ Apart

-----------------------------------------------------------------------------
(***************************************************************************)
(* Writes and what they are about.                                         *)
(***************************************************************************)

LEMMA Consts ==
  /\ New \notin Login /\ New \notin Id /\ New # None /\ None \notin Login /\ None \notin Id
  /\ Login \cap Id = {} /\ MaxAccounts \in Nat /\ None \notin Row
BY AccountsAssumption, NoneAssumption DEF New, Id

LEMMA InObjects ==
  ASSUME NEW V \in Seq(Write)
  PROVE  /\ Objects(V) \subseteq Id \cup Login
         /\ \A x : x \in Objects(V) <=>
              /\ x \notin {New, None}
              /\ \E i \in 1..Len(V) : x = V[i].id \/ (V[i].row # None /\ x = V[i].row.login)
<1>1. \A i \in 1..Len(V) : /\ V[i].id \in Id \cup {New}
                           /\ V[i].row # None => V[i].row.login \in Login \cup {None}
  <2>1. \A i \in 1..Len(V) : V[i] \in Write
    OBVIOUS
  <2> QED BY <2>1 DEF Write, Row
<1>2. \A x : x \in Objects(V) <=>
              /\ x \notin {New, None}
              /\ \E i \in 1..Len(V) : x = V[i].id \/ (V[i].row # None /\ x = V[i].row.login)
  BY DEF Objects
<1>3. ASSUME NEW x \in Objects(V) PROVE x \in Id \cup Login
  <2>1. PICK i \in 1..Len(V) : x = V[i].id \/ (V[i].row # None /\ x = V[i].row.login)
    BY <1>2
  <2>2. x \notin {New, None}
    BY <1>2
  <2> QED BY <1>1, <2>1, <2>2
<1> QED BY <1>2, <1>3

LEMMA NoObjects == Objects(<<>>) = {}
BY DEF Objects

LEMMA ObjectsOne ==
  ASSUME NEW w \in Write
  PROVE  Objects(<<w>>) = {w.id, IF w.row = None THEN None ELSE w.row.login} \ {New, None}
<1>1. {i \in 1..Len(<<w>>) : TRUE} = {1}
  OBVIOUS
<1>2. Len(<<w>>) = 1 /\ <<w>>[1] = w
  OBVIOUS
<1> QED BY <1>1, <1>2 DEF Objects

LEMMA InHandOthers ==
  ASSUME NEW r \in Request, NEW s \in Request \ {r} PROVE Objects(req[s].writes) \subseteq InHand(r)
BY DEF InHand

LEMMA RestType == Rest \in ReqType /\ Rest.writes = <<>> /\ Rest.at = "idle" /\ Rest.op = "none"
BY DEF Rest, ReqType

LEMMA ReqTyped == TypeOK => req \in [Request -> ReqType]
BY DEF TypeOK, ReqType

-----------------------------------------------------------------------------
(***************************************************************************)
(* A step of one request: what it touches, and what that leaves of the     *)
(* writes of the others.                                                   *)
(***************************************************************************)

\* The rows that go, the accounts that get trades and the logins that rows get
\* are among the objects.
Touches(objects) ==
  /\ made \in Nat /\ made' \in Nat /\ made <= made' /\ crossed \subseteq crossed'
  /\ \A a \in Rows \ Rows' : a \in objects
  /\ \A a \in trades' \ trades : a \in objects
  /\ \A b \in Rows' : \/ b \in Rows /\ acc'[b].login = acc[b].login
                      \/ acc'[b].login \in objects \cup {None}

LEMMA StillFit ==
  ASSUME IInv, NEW V \in Seq(Write), Fits(V), NEW objects, Touches(objects),
         Objects(V) \cap objects \subseteq crossed'
  PROVE  Fits(V)'
<1>1. ASSUME NEW i \in 1..Len(V) PROVE FitsOne(V[i])'
  <2> DEFINE w == V[i]
  <2>1. w \in Write /\ FitsOne(w)
    BY DEF Fits
  <2>2. w.id \in Objects(V) \cup {New}
    BY <2>1, InObjects, Consts DEF Write
  <2>3. w.row # None => w.row.login \in Objects(V) \cup {None}
    BY <2>1, InObjects, Consts DEF Write, Row
  <2> HIDE DEF w
  <2>4. w.kind \in {"save", "book"} => w.id \in {New} \cup Rows' \cup crossed'
    BY <2>1, <2>2 DEF FitsOne, Touches
  <2>5. w.kind = "drop" => w.id \notin trades' \/ w.id \in crossed'
    BY <2>1, <2>2 DEF FitsOne, Touches
  <2>6. ASSUME w.row # None, NEW b \in Rows', b # w.id, acc'[b].login = w.row.login
        PROVE  Excused(w.row.login, w.id, b)'
    BY <2>1, <2>3, <2>6 DEF FitsOne, Touches, Excused
  <2>7. w.id \in {New} \cup 1..made'
    BY <2>1 DEF FitsOne, Touches
  <2>8. FitsOne(w)'
    BY <2>1, <2>4, <2>5, <2>6, <2>7 DEF FitsOne
  <2> QED BY <2>8 DEF w
<1>2. Len(V) = 2 => FitsTwo(V[1], V[2])'
  BY DEF Fits, FitsTwo, Excused, Touches
<1> QED BY <1>1, <1>2 DEF Fits

LEMMA StepKeeps ==
  ASSUME IInv, NEW r \in Request, NEW q \in ReqType, req' = [req EXCEPT ![r] = q],
         TypeOK', NoOrphans', Unique', Fits(q.writes)',
         NEW objects, Touches(objects), objects \cap InHand(r) \subseteq crossed',
         Objects(q.writes) \cap InHand(r) \subseteq crossed'
  PROVE  IInv'
<1>1. req \in [Request -> ReqType]
  BY ReqTyped DEF IInv
<1>2. \A s \in Request \ {r} : Objects(req[s].writes) \subseteq InHand(r) /\ req'[s] = req[s]
  BY <1>1, InHandOthers
<1>3. ASSUME NEW s \in Request \ {r} PROVE Fits(req[s].writes)'
  <2>1. req[s].writes \in Seq(Write) /\ Fits(req[s].writes)
    BY <1>1 DEF ReqType, IInv, AllFit
  <2> DEFINE V == req[s].writes
  <2>2. Objects(V) \cap objects \subseteq crossed'
    BY <1>2
  <2> HIDE DEF V
  <2>3. PICK U : U = V
    OBVIOUS
  <2>4. Fits(U)'
    BY <2>1, <2>2, <2>3, StillFit DEF V
  <2>5. U = req'[s].writes
    BY <1>2, <2>3 DEF V
  <2> QED BY <2>4, <2>5
<1>4. AllFit'
  BY <1>1, <1>3 DEF AllFit
<1>5. Apart'
  <2>1. crossed \subseteq crossed'
    BY DEF Touches
  <2> QED BY <1>1, <1>2, <2>1 DEF IInv, Apart
<1> QED BY <1>4, <1>5 DEF IInv

-----------------------------------------------------------------------------
(***************************************************************************)
(* What a request takes in hand.                                           *)
(***************************************************************************)

RestTyped ==
  /\ known' \subseteq Mt5 /\ running' \subseteq Mt5 \cup Typo
  /\ left' \in [Ops -> Nat] /\ overlapped' \in BOOLEAN /\ odd' \in BOOLEAN
  /\ last' \in [op : Ops \cup {"none"}, id : Id \cup {New}, was : SUBSET (1..made),
                chosen : BOOLEAN, known : SUBSET Mt5]

\* A request has writes while it writes, and connects a login of MT5.
Proper(q) ==
  /\ (q.writes = <<>>) = (q.at # "write")
  /\ q.op = "connect" => q.login \in Mt5 \cup Typo

LEMMA TakeKeeps ==
  ASSUME IInv, NEW r \in Request, NEW q \in ReqType, NEW objects, Takes(r, q, objects),
         UNCHANGED db, RestTyped, Proper(q), Fits(q.writes),
         Objects(q.writes) \subseteq objects, objects \subseteq Login \cup 1..made
  PROVE  IInv'
<1>1. req \in [Request -> ReqType] /\ req' = [req EXCEPT ![r] = q]
  BY ReqTyped DEF IInv, Takes
<1>2. crossed' = crossed \cup (objects \cap InHand(r)) /\ crossed' \subseteq Login \cup 1..made
  BY DEF Takes, IInv, TypeOK
<1>3. req' \in [Request -> ReqType]
  BY <1>1
<1>4. TypeOK'
  BY <1>1, <1>2, <1>3 DEF IInv, TypeOK, RestTyped, db, ReqType, Rows, Proper
<1>5. Touches({})
  BY <1>2 DEF Touches, db, IInv, TypeOK, Rows
<1>6. NoOrphans' /\ Unique'
  BY <1>2 DEF IInv, NoOrphans, Unique, Excused, db, Rows
<1>7. Fits(q.writes)'
  <2>1. q.writes \in Seq(Write)
    BY DEF ReqType
  <2> QED BY <1>5, <2>1, StillFit
<1> QED BY <1>1, <1>2, <1>4, <1>5, <1>6, <1>7, StepKeeps

\* What was the default account when a request began.
LEMMA DefaultTyped == TypeOK => Default \subseteq 1..made
BY DEF TypeOK, Default, Primaries, Oldest, Visible

LEMMA BeginTyped ==
  ASSUME IInv, NEW r \in Request, NEW op \in Ops, NEW a \in Id \cup {New}, NEW state, NEW objects,
         Begin(r, op, a, state, objects), known' = known, running' \subseteq running
  PROVE  RestTyped
<1>1. left' \in [Ops -> Nat]
  BY DEF Begin, IInv, TypeOK
<1>2. /\ last' = [op |-> op, id |-> a, was |-> Default, chosen |-> Primaries # {}, known |-> known]
      /\ overlapped' \in BOOLEAN /\ odd' \in BOOLEAN
  BY DEF Begin, IInv, TypeOK
<1>3. Default \in SUBSET (1..made) /\ known \in SUBSET Mt5 /\ (Primaries # {}) \in BOOLEAN
  BY DefaultTyped DEF IInv, TypeOK
<1> QED BY <1>1, <1>2, <1>3 DEF RestTyped, IInv, TypeOK

LEMMA AskKeeps ==
  ASSUME IInv, NEW r \in Request, NEW op \in Ops, NEW a \in Id \cup {New},
         NEW l \in Login \cup {None}, op = "connect" => l \in Mt5 \cup Typo, NEW W \in Seq(Write), W # <<>>, Fits(W),
         Ask(r, op, a, l, W)
  PROVE  IInv'
<1> DEFINE q == [Rest EXCEPT !.at = "write", !.login = l, !.writes = W, !.op = op]
<1>1. q \in ReqType /\ q.writes = W /\ q.at = "write" /\ Proper(q)
  BY DEF Rest, ReqType, Proper
<1>2. Takes(r, q, Objects(W)) /\ UNCHANGED <<db, known, running>> /\ RestTyped
  <2>1. [[Rest EXCEPT !.at = "write", !.login = l, !.writes = W] EXCEPT !.op = op] = q
    BY DEF Rest
  <2> QED BY <2>1, BeginTyped DEF Ask, Begin
<1> HIDE DEF q
<1>3. Objects(W) \subseteq Login \cup 1..made
  <2>1. \A i \in 1..Len(W) : /\ W[i].id \in {New} \cup 1..made
                             /\ W[i].row # None => W[i].row.login \in Login \cup {None}
    <3>1. \A i \in 1..Len(W) : W[i] \in Write /\ FitsOne(W[i])
      BY DEF Fits
    <3> QED BY <3>1 DEF FitsOne, Write, Row
  <2> QED BY <2>1, InObjects
<1> QED BY <1>1, <1>2, <1>3, TakeKeeps

-----------------------------------------------------------------------------
(***************************************************************************)
(* The writes requests begin with.                                         *)
(***************************************************************************)

LEMMA OneFits ==
  ASSUME NEW w \in Write, FitsOne(w), w.id # New \/ w.kind = "make"
  PROVE  <<w>> \in Seq(Write) /\ <<w>> # <<>> /\ Fits(<<w>>) /\ Objects(<<w>>) \subseteq Id \cup Login
<1> DEFINE V == <<w>>
<1>1. V \in Seq(Write) /\ Len(V) = 1 /\ V[1] = w /\ V # <<>>
  OBVIOUS
<1> HIDE DEF V
<1>2. \A i \in 1..Len(V) : FitsOne(V[i])
  BY <1>1
<1>3. Fits(V) /\ Objects(V) \subseteq Id \cup Login
  BY <1>1, <1>2, InObjects DEF Fits
<1> QED BY <1>1, <1>3 DEF V

LEMMA TwoFit ==
  ASSUME NEW v \in Write, NEW w \in Write, FitsOne(v), FitsOne(w), FitsTwo(v, w)
  PROVE  <<v, w>> \in Seq(Write) /\ <<v, w>> # <<>> /\ Fits(<<v, w>>)
<1> DEFINE V == <<v, w>>
<1>1. V \in Seq(Write) /\ Len(V) = 2 /\ V[1] = v /\ V[2] = w /\ V # <<>>
  OBVIOUS
<1> HIDE DEF V
<1>2. \A i \in 1..Len(V) : FitsOne(V[i])
  BY <1>1
<1>3. Fits(V)
  BY <1>1, <1>2 DEF Fits
<1> QED BY <1>1, <1>3 DEF V

\* A row is saved with its login or without one.
LEMMA SaveFits ==
  ASSUME IInv, NEW a \in Rows, NEW row \in Row, row.login \in {acc[a].login, None}
  PROVE  /\ Save(a, row) \in Write /\ FitsOne(Save(a, row))
         /\ Save(a, row).kind = "save" /\ Save(a, row).id = a /\ Save(a, row).row = row /\ a # New
<1>1. Save(a, row) \in Write /\ a \in Id /\ a \in 1..made /\ a # New /\ row # None
  BY Consts DEF Save, Write, Rows, IInv, TypeOK
<1>2. \A b \in Rows : b # a /\ acc[b].login = row.login => Excused(row.login, a, b)
  BY DEF IInv, Unique, Excused
<1> QED BY <1>1, <1>2 DEF Save, FitsOne

\* A row is made for a login that has none.
LEMMA MakeFits ==
  ASSUME IInv, NEW l \in Login \cup {None}, l # None => Of(l) = {}, NEW primary \in BOOLEAN
  PROVE  /\ Make(l, primary) \in Write /\ FitsOne(Make(l, primary))
         /\ Make(l, primary).kind = "make"
         /\ Make(l, primary).row = [login |-> l, primary |-> primary, archived |-> FALSE]
<1> DEFINE row == [login |-> l, primary |-> primary, archived |-> FALSE]
<1>0. row \in Row /\ row # None /\ row.login = l
  <2>1. row \in Row
    <3>1. CASE primary = TRUE
      BY <3>1 DEF Row
    <3>2. CASE primary = FALSE
      BY <3>2 DEF Row
    <3> QED BY <3>1, <3>2
  <2> QED BY <2>1, Consts
<1>1. Make(l, primary) = [kind |-> "make", id |-> New, row |-> row] /\ Make(l, primary) \in Write
  BY <1>0 DEF Make, Write
<1> HIDE DEF row
<1>2. l # None => \A b \in Rows : acc[b].login # l
  BY DEF Of
<1>3. FitsOne(Make(l, primary))
  BY <1>0, <1>1, <1>2 DEF FitsOne, Excused
<1> QED BY <1>1, <1>3 DEF row

LEMMA DoFits ==
  ASSUME IInv, NEW a \in Rows, NEW kind \in {"drop", "dropAll", "choose", "book"},
         kind = "drop" => a \notin trades
  PROVE  /\ Do(kind, a) \in Write /\ FitsOne(Do(kind, a))
         /\ Do(kind, a).kind = kind /\ Do(kind, a).id = a /\ Do(kind, a).row = None /\ a # New
<1>1. Do(kind, a) \in Write /\ a \in 1..made /\ a # New
  BY Consts DEF Do, Write, Rows, IInv, TypeOK
<1> QED BY <1>1 DEF Do, FitsOne

LEMMA RowTyped == TypeOK => \A a \in Rows : a \in Id /\ acc[a] \in Row
BY DEF TypeOK, Rows

\* The oldest account is one.
LEMMA OldestOne == ASSUME TypeOK, NEW S \in SUBSET Rows PROVE \A a, b \in Oldest(S) : a = b
BY DEF Oldest, Rows, Id

LEMMA Joined ==
  ASSUME NEW v \in Write, NEW w \in Write
  PROVE  <<>> \o <<w>> = <<w>> /\ <<v>> \o <<w>> = <<v, w>>
<1>1. <<>> \in Seq(Write) /\ <<v>> \in Seq(Write) /\ <<w>> \in Seq(Write)
  OBVIOUS
<1>2. <<>> \o <<w>> = <<w>>
  BY <1>1, ConcatEmptySeq
<1>3. <<v>> \o <<w>> = <<v, w>>
  <2>1. <<v>> \o <<w>> \in Seq(Write) /\ <<v, w>> \in Seq(Write) /\ Len(<<v, w>>) = 2
    BY <1>1, ConcatProperties
  <2>2. Len(<<v>> \o <<w>>) = 2 /\ \A i \in 1..2 : (<<v>> \o <<w>>)[i] = <<v, w>>[i]
    BY <1>1
  <2> QED BY <2>1, <2>2, SeqEqual
<1> QED BY <1>2, <1>3

LEMMA MadePrimary ==
  ASSUME TypeOK, NEW b \in Rows
  PROVE  /\ [acc[b] EXCEPT !.primary = TRUE] \in Row
         /\ [acc[b] EXCEPT !.primary = TRUE].login = acc[b].login
<1>1. acc[b] \in Row
  BY RowTyped
<1>2. [acc[b] EXCEPT !.primary = TRUE].login = acc[b].login
  BY <1>1 DEF Row
<1>3. [acc[b] EXCEPT !.primary = TRUE] \in Row
  BY <1>1 DEF Row
<1> QED BY <1>2, <1>3

\* With a successor or without.
LEMMA SuccessorFits ==
  ASSUME IInv, NEW a \in Rows, NEW w \in Write, FitsOne(w), w.id = a,
         w.kind \in {"save", "drop", "dropAll"}, w.row # None => w.row.login = acc[a].login
  PROVE  /\ Successor(a) \o <<w>> \in Seq(Write) /\ Successor(a) \o <<w>> # <<>>
         /\ Fits(Successor(a) \o <<w>>)
<1>0. w.id # New
  BY Consts DEF Rows
<1>1. CASE ~acc[a].primary \/ Oldest(Visible) \subseteq {a}
  <2>1. Successor(a) \o <<w>> = <<w>>
    BY <1>1, Joined DEF Successor
  <2> QED BY <1>0, <2>1, OneFits
<1>2. CASE ~(~acc[a].primary \/ Oldest(Visible) \subseteq {a})
  <2> DEFINE b == CHOOSE b \in Oldest(Visible) : TRUE
             v == Save(b, [acc[b] EXCEPT !.primary = TRUE])
  <2>1. b \in Oldest(Visible) /\ b # a /\ b \in Rows
    BY <1>2, OldestOne DEF Oldest, Visible, IInv
  <2>2. PICK row \in Row : row = [acc[b] EXCEPT !.primary = TRUE] /\ row.login = acc[b].login
    BY <2>1, MadePrimary DEF IInv
  <2>4. Successor(a) = <<v>>
    BY <1>2 DEF Successor
  <2> HIDE DEF b
  <2>3. v \in Write /\ FitsOne(v) /\ v.kind = "save" /\ v.id = b /\ v.row.login = acc[b].login
    <3>1. PICK d : d = b
      OBVIOUS
    <3>2. Save(d, row) \in Write /\ FitsOne(Save(d, row)) /\ Save(d, row).kind = "save"
          /\ Save(d, row).id = d /\ Save(d, row).row = row
      <4>1. d \in Rows /\ row.login \in {acc[d].login, None}
        BY <2>1, <2>2, <3>1
      <4> QED BY <4>1, SaveFits
    <3>3. v = Save(d, row)
      BY <2>2, <3>1
    <3> QED BY <2>2, <3>1, <3>2, <3>3
  <2> HIDE DEF v
  <2>5. FitsTwo(v, w)
    BY <2>1, <2>3 DEF FitsTwo, IInv, Unique, Excused
  <2>6. Successor(a) \o <<w>> = <<v, w>>
    BY <2>3, <2>4, Joined
  <2> QED BY <2>3, <2>5, <2>6, TwoFit
<1> QED BY <1>1, <1>2

-----------------------------------------------------------------------------
(***************************************************************************)
(* Requests.                                                               *)
(***************************************************************************)

LEMMA OpsAre ==
  {"list", "default", "signin", "create", "connect", "disconnect", "report", "deriv", "import",
   "primary", "archive", "restore", "edit", "reset", "delete"} \subseteq Ops
BY DEF Ops

\* A request to make a row, and one to write one row that is there.
LEMMA AskMake ==
  ASSUME IInv, NEW r \in Request, NEW op \in Ops, NEW l \in Login \cup {None},
         op = "connect" => l \in Mt5 \cup Typo, NEW m \in Login \cup {None}, m # None => Of(m) = {}, NEW primary \in BOOLEAN,
         Ask(r, op, New, l, <<Make(m, primary)>>)
  PROVE  IInv'
<1> DEFINE w == Make(m, primary)
<1>1. w \in Write /\ FitsOne(w) /\ w.kind = "make"
  BY MakeFits
<1> HIDE DEF w
<1>2. <<w>> \in Seq(Write) /\ <<w>> # <<>> /\ Fits(<<w>>)
  BY <1>1, OneFits
<1> QED BY <1>2, AskKeeps DEF w

LEMMA AskOne ==
  ASSUME IInv, NEW r \in Request, NEW op \in Ops, NEW a \in Rows, NEW l \in Login \cup {None},
         op = "connect" => l \in Mt5 \cup Typo, NEW w \in Write, FitsOne(w), w.id # New, Ask(r, op, a, l, <<w>>)
  PROVE  IInv'
<1>1. <<w>> \in Seq(Write) /\ <<w>> # <<>> /\ Fits(<<w>>)
  BY OneFits
<1>2. a \in Id
  BY DEF Rows
<1> QED BY <1>1, <1>2, AskKeeps

LEMMA AskSave ==
  ASSUME IInv, NEW r \in Request, NEW op \in Ops, NEW a \in Rows, NEW l \in Login \cup {None},
         op = "connect" => l \in Mt5 \cup Typo, NEW row \in Row, row.login \in {acc[a].login, None}, Ask(r, op, a, l, <<Save(a, row)>>)
  PROVE  IInv'
<1> DEFINE w == Save(a, row)
<1>1. w \in Write /\ FitsOne(w) /\ w.id # New
  BY SaveFits
<1> HIDE DEF w
<1> QED BY <1>1, AskOne DEF w

\* What may be changed of a row.
LEMMA Changed ==
  ASSUME TypeOK, NEW a \in Rows
  PROVE  /\ acc[a] \in Row
         /\ [acc[a] EXCEPT !.archived = FALSE] \in Row
         /\ [acc[a] EXCEPT !.archived = FALSE].login = acc[a].login
         /\ [acc[a] EXCEPT !.archived = TRUE, !.primary = FALSE] \in Row
         /\ [acc[a] EXCEPT !.archived = TRUE, !.primary = FALSE].login = acc[a].login
         /\ [acc[a] EXCEPT !.login = None] \in Row
         /\ [acc[a] EXCEPT !.login = None].login = None
BY RowTyped DEF Row

LEMMA MakersKeep ==
  ASSUME IInv, NEW r \in Request, Create(r) \/ SignIn(r) \/ FindDefault(r) PROVE IInv'
<1>1. CASE Create(r)
  <2>1. PICK primary \in BOOLEAN : primary = (Visible = {})
    OBVIOUS
  <2> QED BY <1>1, <2>1, AskMake, OpsAre DEF Create
<1>2. CASE SignIn(r) \/ FindDefault(r)
  BY <1>2, AskMake, OpsAre DEF SignIn, FindDefault
<1> QED BY <1>1, <1>2

LEMMA ImportKeeps == ASSUME IInv, NEW r \in Request, ImportAny(r) PROVE IInv'
<1>1. PICK a \in IF Visible = {} THEN {New} ELSE Visible : Import(r, a)
  BY DEF ImportAny
<1>2. CASE a \in Visible
  <2> DEFINE w == Do("book", a)
  <2>1. a \in Rows
    BY <1>2 DEF Visible
  <2>2. w \in Write /\ FitsOne(w) /\ w.id # New
    BY <2>1, DoFits
  <2>3. Ask(r, "import", a, None, <<w>>)
    BY <1>1, <1>2 DEF Import
  <2> HIDE DEF w
  <2> QED BY <2>1, <2>2, <2>3, AskOne, OpsAre
<1>3. CASE a \notin Visible
  <2> DEFINE v == Make(None, TRUE)
             w == Do("book", New)
  <2>1. v \in Write /\ FitsOne(v) /\ v.kind = "make"
    BY MakeFits
  <2>2. w \in Write /\ FitsOne(w) /\ w.kind = "book" /\ w.id = New
    BY DEF Do, Write, FitsOne
  <2>3. Ask(r, "import", New, None, <<v, w>>)
    BY <1>1, <1>3 DEF Import
  <2> HIDE DEF v, w
  <2>4. FitsTwo(v, w)
    BY <2>1, <2>2 DEF FitsTwo
  <2>5. <<v, w>> \in Seq(Write) /\ <<v, w>> # <<>> /\ Fits(<<v, w>>)
    BY <2>1, <2>2, <2>4, TwoFit
  <2> QED BY <2>3, <2>5, AskKeeps, OpsAre
<1> QED BY <1>2, <1>3

LEMMA RowRequestsKeep ==
  ASSUME IInv, NEW r \in Request, NEW a \in Id,
         \/ SetPrimary(r, a) \/ Restore(r, a) \/ Edit(r, a) \/ Reset(r, a)
  PROVE  IInv'
<1>1. a \in Rows /\ TypeOK
  BY DEF SetPrimary, Restore, Edit, Reset, IInv
<1>2. CASE SetPrimary(r, a)
  <2> DEFINE w == Do("choose", a)
  <2>1. w \in Write /\ FitsOne(w) /\ w.id # New
    BY <1>1, DoFits
  <2>2. Ask(r, "primary", a, None, <<w>>)
    BY <1>2 DEF SetPrimary
  <2> HIDE DEF w
  <2> QED BY <1>1, <2>1, <2>2, AskOne, OpsAre
<1>3. CASE Restore(r, a) \/ Edit(r, a) \/ Reset(r, a)
  BY <1>1, <1>3, Changed, AskSave, OpsAre DEF Restore, Edit, Reset
<1> QED BY <1>2, <1>3

LEMMA LeaversKeep ==
  ASSUME IInv, NEW r \in Request, NEW a \in Id, Archive(r, a) \/ Delete(r, a) PROVE IInv'
<1>1. a \in Rows /\ TypeOK
  BY DEF Archive, Delete, IInv
<1>2. ASSUME NEW w \in Write, FitsOne(w), w.id = a, w.kind \in {"save", "drop", "dropAll"},
             w.row # None => w.row.login = acc[a].login,
             NEW op \in Ops \ {"connect"}, Ask(r, op, a, None, Successor(a) \o <<w>>)
      PROVE  IInv'
  <2> DEFINE V == Successor(a) \o <<w>>
  <2>1. V \in Seq(Write) /\ V # <<>> /\ Fits(V)
    BY <1>1, <1>2, SuccessorFits
  <2> HIDE DEF V
  <2> QED BY <1>2, <2>1, AskKeeps DEF V
<1>3. CASE Archive(r, a)
  <2> DEFINE row == [acc[a] EXCEPT !.archived = TRUE, !.primary = FALSE]
             w == Save(a, row)
  <2>1. row \in Row /\ row.login = acc[a].login
    BY <1>1, Changed
  <2>2. Ask(r, "archive", a, None, Successor(a) \o <<w>>)
    BY <1>3 DEF Archive
  <2> HIDE DEF row
  <2>3. w \in Write /\ FitsOne(w) /\ w.id = a /\ w.kind = "save" /\ w.row.login = acc[a].login
    BY <1>1, <2>1, SaveFits
  <2> HIDE DEF w
  <2> QED BY <1>2, <2>2, <2>3, OpsAre
<1>4. CASE Delete(r, a)
  <2> DEFINE kind == IF a \in trades THEN "dropAll" ELSE "drop"
             w == Do(kind, a)
  <2>1. Ask(r, "delete", a, None, Successor(a) \o <<w>>)
    BY <1>4 DEF Delete
  <2>2. kind \in {"drop", "dropAll"} /\ (kind = "drop" => a \notin trades)
    OBVIOUS
  <2> HIDE DEF kind
  <2>3. w \in Write /\ FitsOne(w) /\ w.id = a /\ w.kind = kind /\ w.row = None
    BY <1>1, <2>2, DoFits
  <2> HIDE DEF w
  <2> QED BY <1>2, <2>1, <2>2, <2>3, OpsAre
<1> QED BY <1>3, <1>4

LEMMA LoginRequestsKeep ==
  ASSUME IInv, NEW r \in Request, NEW l \in Login,
         (l \in Mt5 \cup Typo /\ Connect(r, l)) \/ DerivSignIn(r, l) \/ Report(r, l)
  PROVE  IInv'
<1>1. TypeOK /\ \A a \in Of(l) : a \in Rows
  BY DEF IInv, Of
<1>2. CASE Of(l) = {}
  <2>1. PICK primary \in BOOLEAN : primary = (Visible = {})
    OBVIOUS
  <2> QED BY <1>2, <2>1, AskMake, OpsAre DEF Connect, DerivSignIn, Report
<1>3. CASE Of(l) # {}
  BY <1>1, <1>3, Changed, AskSave, OpsAre DEF Connect, DerivSignIn, Report
<1> QED BY <1>2, <1>3

LEMMA DisconnectKeeps ==
  ASSUME IInv, NEW r \in Request, NEW l \in Login, Disconnect(r, l) PROVE IInv'
<1>1. PICK a \in Of(l) :
        Begin(r, "disconnect", a, [Rest EXCEPT !.at = "write", !.writes = <<Save(a, acc[a])>>], {a, l})
  BY DEF Disconnect
<1> DEFINE w == Save(a, acc[a])
           q == [Rest EXCEPT !.at = "write", !.writes = <<w>>, !.op = "disconnect"]
<1>2. a \in Rows /\ a \in Id /\ acc[a] \in Row /\ acc[a].login = l /\ a \in 1..made
  BY RowTyped DEF Of, IInv, TypeOK
<1>3. w \in Write /\ FitsOne(w) /\ w.id = a /\ w.row = acc[a]
  BY <1>2, SaveFits
<1>4. Takes(r, q, {a, l})
  BY <1>1 DEF Begin, Rest
<1>5. RestTyped /\ UNCHANGED db
  BY <1>1, <1>2, BeginTyped, OpsAre DEF Disconnect
<1> HIDE DEF w
<1>6. q \in ReqType /\ q.writes = <<w>> /\ Proper(q)
  BY <1>3, OneFits, <1>2, Consts, OpsAre DEF Rest, ReqType, Proper
<1>7. <<w>> \in Seq(Write) /\ <<w>> # <<>> /\ Fits(<<w>>)
  BY <1>2, <1>3, OneFits, Consts
<1>8. Objects(<<w>>) \subseteq {a, l}
  BY <1>2, <1>3, ObjectsOne, Consts
<1> HIDE DEF q
<1> QED BY <1>2, <1>4, <1>5, <1>6, <1>7, <1>8, TakeKeeps

-----------------------------------------------------------------------------
(***************************************************************************)
(* The list.                                                               *)
(***************************************************************************)

\* A request that takes nothing new in hand.
LEMMA QuietKeeps ==
  ASSUME IInv, NEW r \in Request, NEW q \in ReqType, req' = [req EXCEPT ![r] = q],
         UNCHANGED <<db, crossed>>, RestTyped, Proper(q), Fits(q.writes),
         Objects(q.writes) = {}
  PROVE  IInv'
<1>1. Takes(r, q, {})
  BY DEF Takes
<1> QED BY <1>1, TakeKeeps

LEMMA NothingFits == Fits(<<>>)
BY DEF Fits

\* The default account a list or another request ends with.
LEMMA MakeNothing ==
  ASSUME IInv, NEW primary \in BOOLEAN
  PROVE  /\ <<Make(None, primary)>> \in Seq(Write) /\ <<Make(None, primary)>> # <<>>
         /\ Fits(<<Make(None, primary)>>) /\ Objects(<<Make(None, primary)>>) = {}
<1> DEFINE w == Make(None, primary)
<1>1. w \in Write /\ FitsOne(w) /\ w.kind = "make" /\ w.id = New /\ w.row.login = None
  BY MakeFits DEF Make
<1> HIDE DEF w
<1>2. Objects(<<w>>) = {}
  BY <1>1, ObjectsOne
<1>3. <<w>> \in Seq(Write) /\ <<w>> # <<>> /\ Fits(<<w>>)
  BY <1>1, OneFits
<1> QED BY <1>2, <1>3 DEF w

LEMMA SameTyped ==
  ASSUME IInv, UNCHANGED <<known, running, left, overlapped, odd, last>>, made' = made PROVE RestTyped
BY DEF IInv, TypeOK, RestTyped

LEMMA ListKeeps == ASSUME IInv, NEW r \in Request, List(r) PROVE IInv'
<1> DEFINE todo == {acc[a].login : a \in Rows \ Rubbish} \ {None}
<1>2. todo \subseteq Login
  BY RowTyped DEF IInv, Row
<1>3. PICK manual \in BOOLEAN : manual = NoManual
  BY DEF NoManual
<1>4. PICK q \in ReqType : q.writes = <<>> /\ Proper(q) /\ Takes(r, q, Rubbish)
  <2> DEFINE p == [Rest EXCEPT !.at = "discover", !.manual = manual, !.todo = todo, !.op = "list"]
  <2>1. Takes(r, p, Rubbish)
    BY <1>3 DEF List, Begin, Rest
  <2> HIDE DEF todo
  <2>3. p \in ReqType /\ p.writes = <<>> /\ Proper(p)
    <3>1. CASE manual = TRUE
      BY <1>2, <3>1, OpsAre, RestType DEF ReqType, Proper
    <3>2. CASE manual = FALSE
      BY <1>2, <3>2, OpsAre, RestType DEF ReqType, Proper
    <3> QED BY <3>1, <3>2
  <2> QED BY <2>1, <2>3
<1>5. RestTyped
  BY BeginTyped, OpsAre DEF List
<1>6. /\ acc' = [a \in Id |-> IF a \in Rubbish THEN None ELSE acc[a]] /\ UNCHANGED <<made, trades>>
      /\ Rubbish \subseteq Rows \ trades /\ Rows \subseteq 1..made
  BY DEF List, Rubbish, IInv, TypeOK
<1>7. crossed' = crossed \cup (Rubbish \cap InHand(r)) /\ crossed' \subseteq Login \cup 1..made
  BY <1>4, <1>6 DEF Takes, IInv, TypeOK
<1>8. acc' \in [Id -> Row \cup {None}] /\ Rows' = Rows \ Rubbish
  BY <1>6 DEF IInv, TypeOK, Rows
<1>9. req \in [Request -> ReqType] /\ req' = [req EXCEPT ![r] = q]
  BY <1>4, ReqTyped DEF Takes, IInv
<1>10. TypeOK'
  BY <1>4, <1>5, <1>6, <1>7, <1>8, <1>9 DEF IInv, TypeOK, RestTyped, ReqType, Proper
<1>11. \A a \in Rows' : a \in Rows /\ acc'[a] = acc[a]
  BY <1>6, <1>8 DEF Rows
<1>12. NoOrphans' /\ Unique'
  BY <1>6, <1>7, <1>8, <1>11 DEF IInv, NoOrphans, Unique, Excused
<1>13. Touches(Rubbish) /\ Rubbish \cap InHand(r) \subseteq crossed'
  <2>1. made \in Nat /\ made' \in Nat /\ made <= made' /\ crossed \subseteq crossed'
    BY <1>6, <1>7 DEF IInv, TypeOK
  <2>2. Rows \ Rows' \subseteq Rubbish /\ trades' = trades
    BY <1>6, <1>8
  <2> QED BY <1>7, <1>11, <2>1, <2>2 DEF Touches
<1>14. Fits(q.writes)' /\ Objects(q.writes) \cap InHand(r) \subseteq crossed'
  <2>1. Fits(<<>>)' /\ Objects(<<>>) = {}
    BY NoObjects DEF Fits
  <2> QED BY <1>4, <2>1
<1> QED BY <1>4, <1>7, <1>9, <1>10, <1>12, <1>13, <1>14, StepKeeps

LEMMA DiscoverKeeps == ASSUME IInv, NEW r \in Request, Discover(r) PROVE IInv'
<1>1. /\ req \in [Request -> ReqType] /\ req[r] \in ReqType /\ req[r].writes = <<>> /\ known \subseteq Login
      /\ Proper(req[r])
  BY ReqTyped DEF Discover, IInv, TypeOK, Login, Proper
<1>2. PICK manual \in BOOLEAN : manual = Lacking(r)
  BY DEF Lacking
<1> DEFINE q == [req[r] EXCEPT !.at = "find", !.todo = known \ req[r].todo, !.manual = manual]
<1>3. req' = [req EXCEPT ![r] = q]
  BY <1>2 DEF Discover
<1>4. q \in ReqType /\ q.writes = <<>> /\ Proper(q)
  <2>1. CASE manual = TRUE
    BY <1>1, <2>1 DEF ReqType, Proper
  <2>2. CASE manual = FALSE
    BY <1>1, <2>2 DEF ReqType, Proper
  <2> QED BY <2>1, <2>2
<1> HIDE DEF q
<1>5. RestTyped /\ UNCHANGED <<db, crossed>>
  BY SameTyped DEF Discover, ghost, db
<1> QED BY <1>3, <1>4, <1>5, NothingFits, NoObjects, QuietKeeps

LEMMA AdoptKeeps == ASSUME IInv, NEW r \in Request, Adopt(r) PROVE IInv'
<1>1. PICK l \in req[r].todo :
        \E W \in IF Of(l) = {} THEN {<<Make(l, FALSE)>>}
                  ELSE {<<Save(a, [acc[a] EXCEPT !.archived = FALSE])>> : a \in Of(l)} :
          Takes(r, [req[r] EXCEPT !.at = "write", !.writes = W, !.todo = @ \ {l}], Objects(W))
  BY DEF Adopt
<1>2. req[r] \in ReqType /\ Proper(req[r]) /\ l \in Login
  BY ReqTyped DEF IInv, ReqType, TypeOK, Proper
<1>3. PICK w \in Write : /\ FitsOne(w) /\ (w.id # New \/ w.kind = "make")
                         /\ Takes(r, [req[r] EXCEPT !.at = "write", !.writes = <<w>>, !.todo = @ \ {l}],
                                   Objects(<<w>>))
  <2>1. CASE Of(l) = {}
    BY <1>1, <1>2, <2>1, MakeFits
  <2>2. CASE Of(l) # {}
    <3>1. PICK a \in Of(l) : Takes(r, [req[r] EXCEPT !.at = "write",
              !.writes = <<Save(a, [acc[a] EXCEPT !.archived = FALSE])>>, !.todo = @ \ {l}],
              Objects(<<Save(a, [acc[a] EXCEPT !.archived = FALSE])>>))
      BY <1>1, <2>2
    <3>2. a \in Rows /\ TypeOK
      BY DEF Of, IInv
    <3> DEFINE w == Save(a, [acc[a] EXCEPT !.archived = FALSE])
    <3>3. w \in Write /\ FitsOne(w) /\ w.id # New
      <4> DEFINE row == [acc[a] EXCEPT !.archived = FALSE]
      <4>1. row \in Row /\ row.login = acc[a].login
        BY <3>2, Changed
      <4> HIDE DEF row
      <4>2. Save(a, row) \in Write /\ FitsOne(Save(a, row)) /\ Save(a, row).id # New
        BY <3>2, <4>1, SaveFits
      <4> QED BY <4>2 DEF row
    <3> HIDE DEF w
    <3>4. Takes(r, [req[r] EXCEPT !.at = "write", !.writes = <<w>>, !.todo = @ \ {l}], Objects(<<w>>))
      BY <3>1 DEF w
    <3> QED BY <3>3, <3>4
  <2> QED BY <2>1, <2>2
<1> DEFINE q == [req[r] EXCEPT !.at = "write", !.writes = <<w>>, !.todo = @ \ {l}]
<1>4. <<w>> \in Seq(Write) /\ <<w>> # <<>> /\ Fits(<<w>>)
  BY <1>3, OneFits
<1>5. q \in ReqType /\ q.writes = <<w>> /\ Proper(q)
  BY <1>2, <1>4 DEF ReqType, Proper
<1>6. Objects(<<w>>) \subseteq Login \cup 1..made
  BY <1>3, ObjectsOne DEF FitsOne, Write, Row
<1>7. RestTyped /\ UNCHANGED db
  BY SameTyped DEF Adopt, db
<1>8. Takes(r, q, Objects(<<w>>))
  BY <1>3
<1> HIDE DEF q
<1> QED BY <1>4, <1>5, <1>6, <1>7, <1>8, TakeKeeps

LEMMA ManualKeeps == ASSUME IInv, NEW r \in Request, Manual(r) PROVE IInv'
<1> DEFINE W == <<Make(None, FALSE)>>
           q == [req[r] EXCEPT !.at = "write", !.writes = W, !.manual = FALSE]
<1>1. W \in Seq(Write) /\ W # <<>> /\ Fits(W) /\ Objects(W) = {}
  BY MakeNothing
<1>2. Takes(r, q, {}) /\ req[r] \in ReqType /\ Proper(req[r])
  BY ReqTyped DEF Manual, IInv, TypeOK, Proper
<1> HIDE DEF W
<1>3. q \in ReqType /\ q.writes = W /\ Proper(q)
  BY <1>1, <1>2 DEF ReqType, Proper
<1>4. RestTyped /\ UNCHANGED db
  BY SameTyped DEF Manual, db
<1> HIDE DEF q
<1> QED BY <1>1, <1>2, <1>3, <1>4, TakeKeeps

LEMMA ShowKeeps == ASSUME IInv, NEW r \in Request, Show(r) PROVE IInv'
<1>1. RestTyped /\ UNCHANGED <<db, crossed>>
  BY SameTyped DEF Show, ghost, db
<1>2. CASE Visible # {}
  <2>1. Rest \in ReqType /\ Proper(Rest) /\ Rest.writes = <<>>
    BY RestType DEF Proper
  <2> QED BY <1>1, <1>2, <2>1, NothingFits, NoObjects, QuietKeeps DEF Show
<1>3. CASE Visible = {}
  <2> DEFINE W == <<Make(None, TRUE)>>
             q == [Rest EXCEPT !.op = "default", !.at = "write", !.writes = W]
  <2>1. W \in Seq(Write) /\ W # <<>> /\ Fits(W) /\ Objects(W) = {}
    BY MakeNothing
  <2>2. req' = [req EXCEPT ![r] = q]
    BY <1>3 DEF Show
  <2> HIDE DEF W
  <2>3. q \in ReqType /\ q.writes = W /\ Proper(q)
    BY <2>1 DEF Rest, ReqType, Ops, Proper
  <2> HIDE DEF q
  <2> QED BY <1>1, <2>1, <2>2, <2>3, QuietKeeps
<1> QED BY <1>2, <1>3

-----------------------------------------------------------------------------
(***************************************************************************)
(* The writes.                                                             *)
(***************************************************************************)

\* The request that holds a write, and what is left of it after the write.
LEMMA WritingFits ==
  ASSUME IInv, NEW r \in Request, req[r].at = "write"
  PROVE  /\ req[r] \in ReqType /\ Proper(req[r]) /\ Fits(req[r].writes)
         /\ Len(req[r].writes) \in {1, 2}
         /\ \A i \in 1..Len(req[r].writes) : req[r].writes[i] \in Write /\ FitsOne(req[r].writes[i])
         /\ Next1(r) \in Write /\ FitsOne(Next1(r)) /\ Objects(<<Next1(r)>>) \subseteq Objects(req[r].writes)
<1> DEFINE W == req[r].writes
<1>1. req[r] \in ReqType /\ Proper(req[r]) /\ Fits(W) /\ W # <<>>
  BY ReqTyped DEF IInv, AllFit, Proper, TypeOK
<1>2. W \in Seq(Write)
  BY <1>1 DEF ReqType
<1>3. Len(W) \in {1, 2}
  <2>1. Len(W) <= 2
    BY <1>1 DEF Fits
  <2> HIDE DEF W
  <2>2. PICK n \in Nat : n = Len(W) /\ n # 0
    BY <1>1, <1>2, EmptySeq
  <2>3. n <= 2
    BY <2>1, <2>2
  <2>4. n = 1 \/ n = 2
    BY <2>2, <2>3
  <2> QED BY <2>2, <2>4
<1>4. \A i \in 1..Len(W) : W[i] \in Write /\ FitsOne(W[i])
  BY <1>1, <1>2 DEF Fits
<1> HIDE DEF W
<1>5. W[1] \in Write /\ FitsOne(W[1])
  BY <1>3, <1>4
<1>6. Objects(<<W[1]>>) \subseteq Objects(W)
  BY <1>2, <1>3, <1>5, InObjects, ObjectsOne
<1> QED BY <1>1, <1>2, <1>3, <1>4, <1>5, <1>6 DEF W, Next1

Rest1(r) ==
  IF Len(req[r].writes) = 1 THEN <<>>
  ELSE LET w == req[r].writes[2]
       IN  <<IF w.kind = "book" /\ w.id = New THEN [w EXCEPT !.id = made'] ELSE w>>

LEMMA FoundNext ==
  ASSUME NEW p \in ReqType
  PROVE  /\ [p EXCEPT !.at = "find", !.writes = <<>>] \in ReqType
         /\ [p EXCEPT !.at = "find", !.writes = <<>>].writes = <<>>
         /\ [p EXCEPT !.at = "find", !.writes = <<>>].op = p.op
         /\ [p EXCEPT !.at = "find", !.writes = <<>>].at = "find"
         /\ [p EXCEPT !.at = "find", !.writes = <<>>].login = p.login
         /\ [p EXCEPT !.at = "find", !.writes = <<>>].todo = p.todo
         /\ [p EXCEPT !.at = "find", !.writes = <<>>].manual = p.manual
<1>1. PICK V \in Seq(Write) : V = <<>>
  BY EmptySeq
<1>2. /\ [p EXCEPT !.at = "find", !.writes = V] \in ReqType
      /\ [p EXCEPT !.at = "find", !.writes = V].writes = V
      /\ [p EXCEPT !.at = "find", !.writes = V].op = p.op
      /\ [p EXCEPT !.at = "find", !.writes = V].at = "find"
      /\ [p EXCEPT !.at = "find", !.writes = V].login = p.login
      /\ [p EXCEPT !.at = "find", !.writes = V].todo = p.todo
      /\ [p EXCEPT !.at = "find", !.writes = V].manual = p.manual
  BY DEF ReqType
<1> QED BY <1>1, <1>2

LEMMA WroteForm ==
  ASSUME IInv, NEW r \in Request, req[r].at = "write", Wrote(r), made' \in Id \cup {New}
  PROVE  /\ \E q \in ReqType : /\ req' = [req EXCEPT ![r] = q] /\ Proper(q) /\ q.writes = Rest1(r)
                               /\ q.op \in {req[r].op, "none"}
         /\ UNCHANGED <<known, left, overlapped, crossed, last>> /\ running' \subseteq Mt5 \cup Typo
<1> DEFINE W == req[r].writes
           rest == [i \in 1..(Len(W) - 1) |->
                      LET w == W[i + 1]
                      IN  IF w.kind = "book" /\ w.id = New THEN [w EXCEPT !.id = made'] ELSE w]
<1>1. req[r] \in ReqType /\ Proper(req[r]) /\ Len(W) \in {1, 2} /\ \A i \in 1..Len(W) : W[i] \in Write
  BY WritingFits
<1>2. /\ req' = [req EXCEPT ![r] =
                   IF rest # <<>> THEN [req[r] EXCEPT !.writes = rest]
                   ELSE IF req[r].op = "list" THEN [req[r] EXCEPT !.at = "find", !.writes = <<>>] ELSE Rest]
      /\ running' = IF req[r].op = "connect" THEN running \cup {req[r].login} ELSE running
      /\ UNCHANGED <<known, left, overlapped, crossed, last>>
  BY DEF Wrote
<1>3. running' \subseteq Mt5 \cup Typo
  BY <1>1, <1>2 DEF Proper, IInv, TypeOK
<1>4. CASE Len(W) = 1
  <2>1. rest = <<>> /\ Rest1(r) = <<>>
    BY <1>4 DEF Rest1
  <2> HIDE DEF rest
  <2>2. CASE req[r].op = "list"
    <3> DEFINE q == [req[r] EXCEPT !.at = "find", !.writes = <<>>]
    <3>1. q \in ReqType /\ q.writes = <<>> /\ q.op = req[r].op /\ q.at = "find" /\ q.login = req[r].login
      BY <1>1, FoundNext
    <3>2. Proper(q)
      BY <2>2, <3>1 DEF Proper
    <3>3. req' = [req EXCEPT ![r] = q]
      BY <1>2, <2>1, <2>2
    <3> HIDE DEF q
    <3> QED BY <1>2, <1>3, <2>1, <3>1, <3>2, <3>3
  <2>3. CASE req[r].op # "list"
    <3>1. Rest \in ReqType /\ Proper(Rest) /\ Rest.writes = <<>> /\ Rest.op = "none"
      BY RestType DEF Proper
    <3> QED BY <1>2, <1>3, <2>1, <2>3, <3>1
  <2> QED BY <2>2, <2>3
<1>5. CASE Len(W) = 2
  <2> DEFINE w == IF W[2].kind = "book" /\ W[2].id = New THEN [W[2] EXCEPT !.id = made'] ELSE W[2]
             q == [req[r] EXCEPT !.writes = <<w>>]
  <2>1. w \in Write
    BY <1>1, <1>5 DEF Write
  <2>2. rest = <<w>> /\ Rest1(r) = <<w>>
    BY <1>5 DEF Rest1
  <2> HIDE DEF rest, w
  <2>3. <<w>> \in Seq(Write) /\ <<w>> # <<>>
    BY <2>1
  <2>4. q \in ReqType /\ Proper(q) /\ q.writes = <<w>> /\ q.op = req[r].op
    BY <1>1, <2>3 DEF ReqType, Proper
  <2> QED BY <1>2, <1>3, <2>2, <2>3, <2>4
<1> QED BY <1>1, <1>4, <1>5

\* What a write must respect: the types, the trades that keep their accounts and
\* the logins that are written once.
LEMMA WriteKeeps ==
  ASSUME IInv, NEW r \in Request, req[r].at = "write", Wrote(r),
         acc' \in [Id -> Row \cup {None}], made' \in 0..MaxAccounts, made <= made', Rows' \subseteq 1..made',
         trades' \subseteq 1..made', odd' \in BOOLEAN, NoOrphans', Unique',
         NEW objects, objects \subseteq Objects(req[r].writes), Touches(objects),
         NEW V, V = Rest1(r), Fits(V)', Objects(V) \cap InHand(r) \subseteq crossed'
  PROVE  IInv'
<1>1. made' \in Id \cup {New} /\ req \in [Request -> ReqType]
  BY ReqTyped DEF Id, New, IInv
<1>2. /\ UNCHANGED <<known, left, overlapped, crossed, last>> /\ running' \subseteq Mt5 \cup Typo
      /\ \E q \in ReqType : /\ req' = [req EXCEPT ![r] = q] /\ Proper(q) /\ q.writes = Rest1(r)
                            /\ q.op \in {req[r].op, "none"}
  BY <1>1, WroteForm
<1>3. PICK q \in ReqType : req' = [req EXCEPT ![r] = q] /\ Proper(q) /\ q.writes = Rest1(r)
  BY <1>2
<1>4. crossed' \subseteq Login \cup 1..made' /\ last' \in [op : Ops \cup {"none"}, id : Id \cup {New}, was : SUBSET (1..made'),
               chosen : BOOLEAN, known : SUBSET Mt5]
  <2>1. 1..made \subseteq 1..made'
    BY DEF IInv, TypeOK
  <2> QED BY <1>2, <2>1 DEF IInv, TypeOK
<1>5. TypeOK'
  <2>1. req' \in [Request -> ReqType] /\ \A s \in Request : Proper(req'[s])
    <3>1. \A s \in Request : Proper(req[s])
      BY DEF IInv, TypeOK, Proper
    <3> QED BY <1>1, <1>3, <3>1
  <2> QED BY <1>2, <1>4, <2>1 DEF IInv, TypeOK, ReqType, Proper
<1>6. objects \cap InHand(r) \subseteq crossed'
  BY <1>2 DEF IInv, Apart, InHand
<1>7. Fits(q.writes)' /\ Objects(q.writes) \cap InHand(r) \subseteq crossed'
  <2>1. q.writes = V
    BY <1>3
  <2> QED BY <2>1
<1> QED BY <1>3, <1>5, <1>6, <1>7, StepKeeps


LEMMA EmptyFits == ASSUME IInv, NEW r \in Request PROVE Fits(<<>>)' /\ Objects(<<>>) \cap InHand(r) \subseteq crossed'
BY NoObjects DEF Fits

\* What is neither saved nor made is the last write.
LEMMA LastWrite ==
  ASSUME IInv, NEW r \in Request, req[r].at = "write", Next1(r).kind \notin {"make", "save"}
  PROVE  Rest1(r) = <<>> /\ Next1(r).id \in 1..made /\ Next1(r).id \in Objects(<<Next1(r)>>)
<1>1. Fits(req[r].writes) /\ Len(req[r].writes) \in {1, 2} /\ Next1(r) \in Write /\ FitsOne(Next1(r))
  BY WritingFits
<1>2. Len(req[r].writes) = 1
  BY <1>1 DEF Fits, FitsTwo, Next1
<1>3. Next1(r).id # New
  BY <1>1, <1>2 DEF Fits, Next1
<1>4. Next1(r).id \in 1..made
  BY <1>1, <1>3 DEF FitsOne
<1>5. Next1(r).id # None
  BY <1>1, Consts DEF Write
<1> QED BY <1>1, <1>2, <1>3, <1>4, <1>5, ObjectsOne DEF Rest1

LEMMA ChooseKeeps == ASSUME IInv, NEW r \in Request, Choose(r) PROVE IInv'
<1> DEFINE a == Next1(r).id
<1>1. req[r].at = "write" /\ Next1(r).kind = "choose" /\ Wrote(r) /\ UNCHANGED <<made, trades, crossed>>
  BY DEF Choose, Goes, Wrote
<1>2. acc' = [b \in Id |-> IF acc[b] = None THEN None ELSE [acc[b] EXCEPT !.primary = (b = a)]]
  BY DEF Choose
<1>3. Rest1(r) = <<>>
  BY <1>1, LastWrite
<1> HIDE DEF a
<1>4. ASSUME NEW b \in Id, acc[b] # None
      PROVE  acc'[b] \in Row /\ acc'[b] # None /\ acc'[b].login = acc[b].login
  <2>1. acc[b] \in Row
    BY <1>4 DEF IInv, TypeOK
  <2>2. PICK primary \in BOOLEAN : primary = (b = a)
    OBVIOUS
  <2>3. acc'[b] = [acc[b] EXCEPT !.primary = primary]
    BY <1>2, <1>4, <2>2
  <2> QED BY <2>1, <2>3, Consts DEF Row
<1>5. acc' \in [Id -> Row \cup {None}] /\ Rows' = Rows
  <2>1. \A b \in Id : acc[b] = None => acc'[b] = None
    BY <1>2
  <2> QED BY <1>2, <1>4, <2>1 DEF Rows
<1>6. NoOrphans' /\ Unique'
  BY <1>1, <1>4, <1>5 DEF IInv, NoOrphans, Unique, Excused, Rows
<1>7. Touches({})
  BY <1>1, <1>4, <1>5 DEF Touches, IInv, TypeOK, Rows
<1>8. odd' \in BOOLEAN
  BY DEF Choose, IInv, TypeOK
<1>9. made \in 0..MaxAccounts /\ made <= made' /\ Rows' \subseteq 1..made' /\ trades' \subseteq 1..made' /\ made' \in 0..MaxAccounts
  BY <1>1, <1>5 DEF IInv, TypeOK
<1> QED BY <1>1, <1>3, <1>5, <1>6, <1>7, <1>8, <1>9, EmptyFits, WriteKeeps

LEMMA DropKeeps == ASSUME IInv, NEW r \in Request, Drop(r) PROVE IInv'
<1> DEFINE a == Next1(r).id
<1>1. /\ req[r].at = "write" /\ Next1(r).kind \in {"drop", "dropAll"} /\ Wrote(r)
      /\ UNCHANGED <<made, odd, crossed>>
  BY DEF Drop, Goes, Wrote
<1>2. /\ acc' = [acc EXCEPT ![a] = None]
      /\ trades' = IF Next1(r).kind = "dropAll" THEN trades \ {a} ELSE trades
  BY DEF Drop, Goes
<1>3. Rest1(r) = <<>> /\ a \in 1..made /\ a \in Objects(req[r].writes)
  BY <1>1, LastWrite, WritingFits
<1>4. Next1(r).kind = "drop" => a \notin trades \/ a \in crossed
  BY <1>1, WritingFits DEF FitsOne
<1> HIDE DEF a
<1>5. /\ acc' \in [Id -> Row \cup {None}] /\ Rows' = Rows \ {a}
      /\ \A b \in Rows' : b \in Rows /\ acc'[b] = acc[b]
  BY <1>2 DEF IInv, TypeOK, Rows
<1>6. NoOrphans' /\ Unique'
  BY <1>1, <1>2, <1>4, <1>5 DEF IInv, NoOrphans, Unique, Excused
<1>7. Touches({a})
  BY <1>1, <1>2, <1>5 DEF Touches, IInv, TypeOK
<1>9. made <= made' /\ Rows' \subseteq 1..made' /\ trades' \subseteq 1..made' /\ made' \in 0..MaxAccounts
      /\ odd' \in BOOLEAN
  <2>1. trades' \subseteq trades /\ Rows' \subseteq Rows /\ made' = made /\ odd' = odd
    BY <1>1, <1>2, <1>5
  <2> QED BY <2>1 DEF IInv, TypeOK
<1> QED BY <1>1, <1>3, <1>5, <1>6, <1>7, <1>9, EmptyFits, WriteKeeps

LEMMA BookKeeps == ASSUME IInv, NEW r \in Request, Book(r) PROVE IInv'
<1> DEFINE a == Next1(r).id
<1>1. /\ req[r].at = "write" /\ Next1(r).kind = "book" /\ Wrote(r) /\ UNCHANGED <<acc, made, odd, crossed>>
      /\ trades' = trades \cup {a}
  BY DEF Book, Goes, Wrote
<1>2. Rest1(r) = <<>> /\ a \in 1..made /\ a \in Objects(req[r].writes)
  BY <1>1, LastWrite, WritingFits
<1>3. a \in Rows \cup crossed
  <2>1. FitsOne(Next1(r))
    BY <1>1, WritingFits
  <2>2. a # New
    BY <1>2 DEF New, IInv, TypeOK
  <2> QED BY <1>1, <2>1, <2>2 DEF FitsOne
<1> HIDE DEF a
<1>4. Rows' = Rows
  BY <1>1 DEF Rows
<1>5. NoOrphans' /\ Unique'
  BY <1>1, <1>3, <1>4 DEF IInv, NoOrphans, Unique, Excused
<1>6. Touches({a})
  BY <1>1, <1>4 DEF Touches, IInv, TypeOK
<1>7. made <= made' /\ Rows' \subseteq 1..made' /\ trades' \subseteq 1..made' /\ made' \in 0..MaxAccounts
      /\ odd' \in BOOLEAN /\ acc' \in [Id -> Row \cup {None}]
  BY <1>1, <1>2, <1>4 DEF IInv, TypeOK
<1> QED BY <1>1, <1>2, <1>5, <1>6, <1>7, EmptyFits, WriteKeeps

\* What remains when a row was saved: the write of another row.
LEMMA SecondFits ==
  ASSUME IInv, NEW v \in Write, NEW w \in Write, FitsOne(w), v.kind = "save", FitsTwo(v, w), v.row # None,
         acc' = [acc EXCEPT ![v.id] = v.row], v.id \in Id, UNCHANGED <<made, trades, crossed>>
  PROVE  Fits(<<w>>)'
<1>1. Rows' = Rows \cup {v.id} /\ \A b \in Rows' \ {v.id} : b \in Rows /\ acc'[b] = acc[b]
  BY DEF IInv, TypeOK, Rows
<1>2. acc'[v.id] = v.row
  BY DEF IInv, TypeOK
<1>3. w.kind \in {"save", "drop", "dropAll"} /\ w.id # New /\ (w.row # None <=> w.kind = "save")
  BY DEF FitsTwo, FitsOne
<1>4. ASSUME w.row # None, NEW b \in Rows', b # w.id, acc'[b].login = w.row.login
      PROVE  Excused(w.row.login, w.id, b)'
  <2>1. CASE b = v.id
    BY <1>2, <1>4, <2>1 DEF FitsTwo, Excused
  <2>2. CASE b # v.id
    BY <1>1, <1>4, <2>2 DEF FitsOne, Excused
  <2> QED BY <2>1, <2>2
<1>5. FitsOne(w)'
  BY <1>1, <1>3, <1>4 DEF FitsOne
<1>6. PICK V : V = <<w>> /\ Len(V) = 1 /\ V[1] = w
  <2>1. Len(<<w>>) = 1 /\ <<w>>[1] = w
    OBVIOUS
  <2> QED BY <2>1
<1>7. \A i \in 1..Len(V) : FitsOne(V[i])'
  BY <1>5, <1>6
<1>8. Fits(V)'
  BY <1>3, <1>6, <1>7 DEF Fits
<1> QED BY <1>6, <1>8

LEMMA SaveKeeps == ASSUME IInv, NEW r \in Request, SaveRow(r) PROVE IInv'
<1> DEFINE W == req[r].writes
<1>1. PICK v \in Write : v = Next1(r) /\ v.kind = "save" /\ FitsOne(v)
  BY WritingFits DEF SaveRow, Goes
<1>2. /\ req[r].at = "write" /\ Wrote(r) /\ UNCHANGED <<made, trades, odd, crossed>>
      /\ acc' = [acc EXCEPT ![v.id] = v.row]
  BY <1>1 DEF SaveRow, Goes, Wrote
<1>3. /\ v.row # None /\ v.id # New /\ v.id \in 1..made /\ v.id \in Id /\ v.row \in Row
      /\ v.id \in Objects(W) /\ v.row.login \in Objects(W) \cup {None}
  <2>1. v.row # None /\ v.id # New /\ v.id \in 1..made
    BY <1>1 DEF FitsOne
  <2>2. v.id \in Id /\ v.row \in Row
    BY <1>1, <2>1 DEF Write
  <2>3. Objects(<<v>>) \subseteq Objects(W)
    BY <1>1, <1>2, WritingFits
  <2>4. v.id # None /\ v.row.login # New
    BY <2>2, Consts DEF Row
  <2> QED BY <2>1, <2>2, <2>3, <2>4, ObjectsOne
<1>4. /\ Rows' = Rows \cup {v.id} /\ acc'[v.id] = v.row /\ acc' \in [Id -> Row \cup {None}]
      /\ \A b \in Rows' \ {v.id} : b \in Rows /\ acc'[b] = acc[b]
  BY <1>2, <1>3 DEF IInv, TypeOK, Rows
<1>5. NoOrphans'
  BY <1>2, <1>4 DEF IInv, NoOrphans
<1>6. Unique'
  <2>1. ASSUME NEW b \in Rows', b # v.id, acc'[b].login = v.row.login
        PROVE  Excused(v.row.login, v.id, b)'
    BY <1>1, <1>2, <1>3, <1>4, <2>1 DEF FitsOne, Excused
  <2> QED BY <1>2, <1>4, <2>1 DEF IInv, Unique, Excused
<1>7. PICK objects : objects = Objects(W)
  OBVIOUS
<1>8. Touches(objects)
  <2>1. /\ made \in Nat /\ made' \in Nat /\ made <= made' /\ crossed \subseteq crossed' /\ trades' = trades
        /\ Rows \subseteq Rows'
    BY <1>2, <1>4 DEF IInv, TypeOK
  <2> QED BY <1>3, <1>4, <1>7, <2>1 DEF Touches
<1>9. made <= made' /\ Rows' \subseteq 1..made' /\ trades' \subseteq 1..made' /\ made' \in 0..MaxAccounts
      /\ odd' \in BOOLEAN
  <2>1. Rows' \subseteq 1..made /\ made' = made /\ trades' = trades /\ odd' = odd
    BY <1>2, <1>3, <1>4 DEF IInv, TypeOK
  <2> QED BY <2>1 DEF IInv, TypeOK
<1>10. PICK V : V = Rest1(r)
  OBVIOUS
<1>11. Fits(V)' /\ Objects(V) \cap InHand(r) \subseteq crossed'
  <2>0. /\ Fits(W) /\ Len(W) \in {1, 2} /\ W \in Seq(Write)
        /\ \A i \in 1..Len(W) : W[i] \in Write /\ FitsOne(W[i])
    BY <1>2, WritingFits DEF ReqType
  <2>1. CASE Len(W) = 1
    BY <1>10, <2>1, EmptyFits DEF Rest1
  <2>2. CASE Len(W) = 2
    <3>1. PICK w \in Write : w = W[2] /\ FitsOne(w) /\ FitsTwo(v, w)
      BY <1>1, <2>0, <2>2 DEF Fits, Next1
    <3>2. V = <<w>>
      BY <1>1, <1>10, <2>2, <3>1 DEF Rest1, FitsTwo
    <3>3. Fits(<<w>>)'
      BY <1>1, <1>2, <1>3, <3>1, SecondFits
    <3>4. Objects(<<w>>) \subseteq Objects(W)
      BY <2>0, <2>2, <3>1, InObjects, ObjectsOne
    <3>5. Objects(W) \cap InHand(r) \subseteq crossed'
      BY <1>2 DEF IInv, Apart, InHand
    <3> QED BY <3>2, <3>3, <3>4, <3>5
  <2> QED BY <2>0, <2>1, <2>2
<1> QED BY <1>2, <1>4, <1>5, <1>6, <1>7, <1>8, <1>9, <1>10, <1>11, WriteKeeps

LEMMA MakeKeeps == ASSUME IInv, NEW r \in Request, MakeRow(r) PROVE IInv'
<1> DEFINE W == req[r].writes
<1>0. PICK n : n = made + 1
  OBVIOUS
<1>1. PICK v \in Write : v = Next1(r) /\ v.kind = "make" /\ FitsOne(v)
  BY WritingFits DEF MakeRow, Goes
<1>2. /\ req[r].at = "write" /\ Wrote(r) /\ UNCHANGED <<trades, crossed>> /\ made' = n /\ made < MaxAccounts
      /\ acc' = [acc EXCEPT ![n] = v.row] /\ odd' \in BOOLEAN
  BY <1>0, <1>1 DEF MakeRow, Goes, Wrote, IInv, TypeOK
<1>3. /\ v.row # None /\ v.id = New /\ v.row \in Row /\ v.row.login \in Objects(W) \cup {None}
  <2>1. v.row # None /\ v.id = New
    BY <1>1 DEF FitsOne
  <2>2. v.row \in Row
    BY <2>1 DEF Write
  <2>3. Objects(<<v>>) \subseteq Objects(W)
    BY <1>1, <1>2, WritingFits
  <2>4. v.row.login # New
    BY <2>2, Consts DEF Row
  <2> QED BY <2>1, <2>2, <2>3, <2>4, ObjectsOne
<1>4. n \in Id /\ n \notin Rows /\ n \in 1..n /\ n \in Nat /\ made \in Nat /\ 1..made \subseteq 1..n /\ made <= n /\ n \in 0..MaxAccounts
  BY <1>0, <1>2, Consts DEF IInv, TypeOK, Id
<1>5. /\ Rows' = Rows \cup {n} /\ acc'[n] = v.row /\ acc' \in [Id -> Row \cup {None}]
      /\ \A b \in Rows : acc'[b] = acc[b]
  BY <1>2, <1>3, <1>4 DEF IInv, TypeOK, Rows
<1>6. NoOrphans'
  BY <1>2, <1>5 DEF IInv, NoOrphans
<1>7. New \notin crossed
  BY Consts DEF IInv, TypeOK, New
<1>8. Unique'
  <2>1. ASSUME NEW b \in Rows, acc[b].login = v.row.login
        PROVE  Excused(v.row.login, n, b)'
    <3>1. b # v.id
      BY <1>3, Consts DEF Rows
    <3> QED BY <1>1, <1>2, <1>3, <1>7, <2>1, <3>1 DEF FitsOne, Excused
  <2>2. \A b \in Rows' : b = n \/ b \in Rows
    BY <1>5
  <2> QED BY <1>2, <1>5, <2>1, <2>2 DEF IInv, Unique, Excused
<1>9. PICK objects : objects = Objects(W)
  OBVIOUS
<1>10. Touches(objects)
  BY <1>2, <1>3, <1>4, <1>5, <1>9 DEF Touches
<1>11. made <= made' /\ Rows' \subseteq 1..made' /\ trades' \subseteq 1..made' /\ made' \in 0..MaxAccounts
  BY <1>2, <1>4, <1>5 DEF IInv, TypeOK
<1>12. PICK V : V = Rest1(r)
  OBVIOUS
<1>13. Fits(V)' /\ Objects(V) \cap InHand(r) \subseteq crossed'
  <2>0. /\ Fits(W) /\ Len(W) \in {1, 2} /\ W \in Seq(Write)
        /\ \A i \in 1..Len(W) : W[i] \in Write /\ FitsOne(W[i])
    BY <1>2, WritingFits DEF ReqType
  <2>1. CASE Len(W) = 1
    BY <1>12, <2>1, EmptyFits DEF Rest1
  <2>2. CASE Len(W) = 2
    <3>1. W[2] \in Write /\ FitsOne(W[2]) /\ W[2].kind = "book" /\ W[2].id = New /\ W[2].row = None
      <4>1. FitsTwo(W[1], W[2]) /\ W[2] \in Write /\ FitsOne(W[2])
        BY <2>0, <2>2 DEF Fits
      <4>2. W[1].kind # "save"
        BY <1>1 DEF Next1
      <4>3. W[2].kind = "book" /\ W[2].id = New
        BY <4>1, <4>2 DEF FitsTwo
      <4> QED BY <4>1, <4>3 DEF FitsOne
    <3> DEFINE w == [W[2] EXCEPT !.id = n]
    <3>2. w \in Write /\ w.kind = "book" /\ w.id = n /\ w.row = None
      BY <1>4, <3>1 DEF Write
    <3>3. V = <<w>>
      BY <1>2, <1>12, <2>2, <3>1 DEF Rest1
    <3> HIDE DEF w
    <3>4. PICK u \in Write : u.kind = "book" /\ u.id = n /\ u.row = None /\ V = <<u>>
      BY <3>2, <3>3
    <3>5. n # New /\ n \in 1..made' /\ n \in Rows'
      BY <1>2, <1>4, <1>5, Consts
    <3>6. Fits(V)'
      <4>1. FitsOne(u)'
        BY <3>4, <3>5 DEF FitsOne
      <4>2. Len(V) = 1 /\ V[1] = u
        BY <3>4
      <4>3. \A i \in 1..Len(V) : FitsOne(V[i])'
        BY <4>1, <4>2
      <4> QED BY <3>4, <3>5, <4>2, <4>3 DEF Fits
    <3>7. Objects(V) \subseteq {n}
      BY <3>4, ObjectsOne
    <3>8. n \notin InHand(r)
      <4>1. ASSUME NEW s \in Request PROVE n \notin Objects(req[s].writes)
        <5>1. /\ req[s].writes \in Seq(Write)
              /\ \A i \in 1..Len(req[s].writes) : req[s].writes[i] \in Write /\ FitsOne(req[s].writes[i])
          BY ReqTyped DEF IInv, AllFit, Fits, ReqType
        <5>2. \A i \in 1..Len(req[s].writes) :
                 /\ req[s].writes[i].id \in {New} \cup 1..made
                 /\ req[s].writes[i].row # None => req[s].writes[i].row.login \in Login \cup {None}
          BY <5>1 DEF FitsOne, Write, Row
        <5>3. n \notin {New} \cup 1..made /\ n \notin Login \cup {None}
          BY <1>0, <1>4, Consts DEF New
        <5> QED BY <5>1, <5>2, <5>3, InObjects
      <4> QED BY <4>1 DEF InHand
    <3> QED BY <3>6, <3>7, <3>8
  <2> QED BY <2>0, <2>1, <2>2
<1> QED BY <1>2, <1>5, <1>6, <1>8, <1>9, <1>10, <1>11, <1>12, <1>13, WriteKeeps

-----------------------------------------------------------------------------
(***************************************************************************)
(* The inductive invariant.                                                *)
(***************************************************************************)

LEMMA Starts == Init => IInv
<1> SUFFICES ASSUME Init PROVE IInv
  OBVIOUS
<1>1. Rows = {} /\ trades = {} /\ made = 0
  BY DEF Init, Rows
<1>2. \A r \in Request : req[r] = Rest /\ req[r].writes = <<>> /\ Proper(req[r])
  BY RestType DEF Init, Proper
<1>3. req \in [Request -> ReqType]
  BY RestType DEF Init
<1>4. TypeOK
  <2>1. left \in [Ops -> Nat]
    BY AccountsAssumption DEF Init
  <2>2. 0 \in 0..MaxAccounts
    BY Consts
  <2> QED BY <1>1, <1>2, <1>3, <2>1, <2>2 DEF Init, TypeOK, ReqType, Proper
<1>5. NoOrphans /\ Unique
  BY <1>1 DEF NoOrphans, Unique
<1>6. AllFit /\ Apart
  BY <1>2, NothingFits, NoObjects DEF AllFit, Apart
<1> QED BY <1>4, <1>5, <1>6 DEF IInv

\* The sync that leaves an import log, and a step of somebody else, leave what
\* the invariant is about.
LEMMA SameRest == ASSUME IInv, TypeOK', UNCHANGED <<acc, made, trades, req, crossed>> PROVE IInv'
<1>1. UNCHANGED Rows
  BY DEF Rows
<1>2. NoOrphans' /\ Unique'
  BY <1>1 DEF IInv, NoOrphans, Unique, Excused
<1>3. ASSUME NEW r \in Request PROVE Fits(req[r].writes)'
  <2>1. Fits(req[r].writes)
    BY DEF IInv, AllFit
  <2>2. PICK V : V = req[r].writes
    OBVIOUS
  <2>3. req'[r].writes = V
    BY <2>2
  <2> QED BY <1>1, <2>1, <2>2, <2>3 DEF Fits, FitsOne, FitsTwo, Excused
<1>4. Apart'
  BY DEF IInv, Apart, Objects
<1> QED BY <1>2, <1>3, <1>4 DEF IInv, AllFit

LEMMA LoggedKeeps == ASSUME IInv, NEW l \in running, Logged(l) PROVE IInv'
<1>1. UNCHANGED <<db, running, req, left, ghost>> /\ known' \subseteq Mt5
  BY DEF Logged, IInv, TypeOK
<1>2. TypeOK'
  BY <1>1 DEF IInv, TypeOK, db, ghost, Rows
<1>3. UNCHANGED <<acc, made, trades, req, crossed>>
  BY <1>1 DEF db, ghost
<1> QED BY <1>2, <1>3, SameRest

LEMMA StandingKeeps == ASSUME IInv, UNCHANGED vars PROVE IInv'
<1>1. UNCHANGED <<acc, made, trades, known, running, req, left, overlapped, odd, crossed, last>>
  BY DEF vars, db, ghost
<1>2. TypeOK'
  BY <1>1 DEF IInv, TypeOK, Rows
<1> QED BY <1>1, <1>2, SameRest

LEMMA StepStays == IInv /\ [Next]_vars => IInv'
<1> SUFFICES ASSUME IInv, [Next]_vars PROVE IInv'
  OBVIOUS
<1>1. CASE UNCHANGED vars
  BY <1>1, StandingKeeps
<1>2. ASSUME NEW r \in Request, Asks(r) PROVE IInv'
  <2>1. CASE List(r) \/ Create(r) \/ SignIn(r) \/ FindDefault(r) \/ ImportAny(r)
    BY <2>1, ListKeeps, MakersKeep, ImportKeeps
  <2>2. ASSUME NEW a \in Id, \/ SetPrimary(r, a) \/ Archive(r, a) \/ Restore(r, a)
                             \/ Edit(r, a) \/ Reset(r, a) \/ Delete(r, a)
        PROVE  IInv'
    BY <2>2, RowRequestsKeep, LeaversKeep
  <2>3. ASSUME NEW l \in Mt5 \cup Typo, Connect(r, l) \/ Disconnect(r, l) PROVE IInv'
    BY <2>3, LoginRequestsKeep, DisconnectKeeps DEF Login
  <2>4. ASSUME NEW l \in Deriv, DerivSignIn(r, l) PROVE IInv'
    BY <2>4, LoginRequestsKeep DEF Login
  <2> QED BY <1>2, <2>1, <2>2, <2>3, <2>4 DEF Asks
<1>3. ASSUME NEW r \in Request, Step(r) PROVE IInv'
  BY <1>3, SaveKeeps, MakeKeeps, ChooseKeeps, DropKeeps, BookKeeps, DiscoverKeeps, AdoptKeeps,
     ManualKeeps, ShowKeeps DEF Step
<1>4. ASSUME NEW r \in Request, NEW l \in Mt5, Report(r, l) PROVE IInv'
  BY <1>4, LoginRequestsKeep DEF Login
<1>5. ASSUME NEW l \in running, Logged(l) PROVE IInv'
  BY <1>5, LoggedKeeps
<1> QED BY <1>1, <1>2, <1>3, <1>4, <1>5 DEF Next

\* The invariant: types, trades that have accounts, logins written once, writes
\* that fit what they will find, and requests that know whom they cross.
THEOREM Invariant == Spec => []IInv
<1> QED BY Starts, StepStays, PTL DEF Spec

\* Rows, requests, logins and budgets are of their types, whatever the requests
\* do and in whatever order they write.
THEOREM TypeCorrect == Spec => []TypeOK
<1>1. IInv => TypeOK
  BY DEF IInv
<1> QED BY <1>1, Invariant, PTL

\* Trades whose account is gone were imported while it was deleted: a deletion
\* takes the trades it counted along, and an import that found the account is
\* in hand until its trades are booked.
THEOREM TradesKeepAccounts == Spec => []NoOrphans
<1>1. IInv => NoOrphans
  BY DEF IInv
<1> QED BY <1>1, Invariant, PTL

\* Two accounts have one login only where two requests wrote that login, or one
\* of these accounts, at once: requests that do not cross never make a second
\* account of a login, or give one back that another has taken.
THEOREM LoginsAreApart == Spec => []Unique
<1>1. IInv => Unique
  BY DEF IInv
<1> QED BY <1>1, Invariant, PTL

-----------------------------------------------------------------------------
(***************************************************************************)
(* Deleted accounts.                                                       *)
(***************************************************************************)

LEMMA ReturnsOnlyCrossed ==
  ASSUME IInv, [Next]_vars, NEW a \in 1..made, acc[a] = None, acc'[a] # None PROVE a \in crossed
<1>1. a \in Id /\ a \notin Rows /\ made \in Nat
  BY Consts DEF IInv, TypeOK, Id, Rows
<1>2. PICK r \in Request : List(r) \/ SaveRow(r) \/ MakeRow(r) \/ Choose(r) \/ Drop(r)
  <2>1. acc' # acc
    OBVIOUS
  <2>2. ASSUME NEW r \in Request, Asks(r) PROVE List(r)
    <3>1. \A op, b, l, W : ~Ask(r, op, b, l, W)
      BY <2>1 DEF Ask, db
    <3>2. \A l \in Mt5 \cup Typo : ~Connect(r, l) /\ ~Disconnect(r, l)
      BY <2>1, <3>1 DEF Connect, Disconnect, db
    <3>3. \A b \in Id : ~SetPrimary(r, b) /\ ~Archive(r, b) /\ ~Restore(r, b) /\ ~Edit(r, b) /\ ~Reset(r, b) /\ ~Delete(r, b)
      BY <3>1 DEF SetPrimary, Archive, Restore, Edit, Reset, Delete
    <3>4. ~Create(r) /\ ~SignIn(r) /\ ~FindDefault(r) /\ ~ImportAny(r) /\ \A l \in Deriv : ~DerivSignIn(r, l)
      BY <3>1 DEF Create, SignIn, FindDefault, ImportAny, Import, DerivSignIn
    <3> QED BY <2>2, <3>2, <3>3, <3>4 DEF Asks
  <2>3. ASSUME NEW r \in Request, NEW l \in Mt5 PROVE ~Report(r, l)
    BY <2>1 DEF Report, Ask, db
  <2>4. ASSUME NEW l \in running PROVE ~Logged(l)
    BY <2>1 DEF Logged, db
  <2>5. ASSUME NEW r \in Request, Step(r) PROVE SaveRow(r) \/ MakeRow(r) \/ Choose(r) \/ Drop(r)
    BY <2>1, <2>5 DEF Step, Book, Discover, Adopt, Manual, Show, db
  <2>6. Next
    BY <2>1 DEF vars, db
  <2> QED BY <2>2, <2>3, <2>4, <2>5, <2>6 DEF Next
<1>3. CASE List(r)
  BY <1>1, <1>3 DEF List
<1>4. CASE SaveRow(r)
  <2>1. acc' = [acc EXCEPT ![Next1(r).id] = Next1(r).row] /\ Next1(r).kind = "save" /\ FitsOne(Next1(r))
    BY <1>4, WritingFits DEF SaveRow, Goes
  <2>2. a = Next1(r).id /\ a # New
    BY <1>1, <2>1, Consts DEF IInv, TypeOK
  <2> QED BY <1>1, <2>1, <2>2 DEF FitsOne
<1>5. CASE MakeRow(r)
  BY <1>1, <1>5 DEF MakeRow, IInv, TypeOK
<1>6. CASE Choose(r)
  BY <1>1, <1>6 DEF Choose
<1>7. CASE Drop(r)
  BY <1>1, <1>7 DEF Drop, IInv, TypeOK
<1> QED BY <1>2, <1>3, <1>4, <1>5, <1>6, <1>7

\* An account that was deleted comes back only by a request that had it in hand
\* when it was deleted, and none gets the number of one that is gone.
THEOREM DeletedComesBackOnlyInHand == Spec => DeletedStays
<1>1. IInv /\ [Next]_vars => [\A a \in 1..made : acc[a] = None /\ acc'[a] # None => a \in crossed]_vars
  BY ReturnsOnlyCrossed
<1> QED BY <1>1, Invariant, PTL DEF Spec, DeletedStays

-----------------------------------------------------------------------------
(***************************************************************************)
(* Requests that come one after the other: nothing is crossed.             *)
(***************************************************************************)

Solo == ~overlapped => /\ crossed = {}
                       /\ \A r, s \in Request : req[r].at # "idle" /\ req[s].at # "idle" => r = s

\* What an undisturbed list leaves, and what it has in hand until then.
HasManual == \E a \in Visible : acc[a].login = None

Listed ==
  /\ \A l \in last.known : Of(l) # {}
  /\ last.known # {} => HasManual

ListWrites(q) ==
  LET w == q.writes[1]
  IN  /\ Len(q.writes) = 1 /\ w.kind \in {"make", "save"} /\ ~w.row.archived
      /\ w.kind = "save" => w.row.login # None /\ w.row.login = acc[w.id].login
      /\ \A l \in last.known \ q.todo : Of(l) # {} \/ l = w.row.login
      /\ last.known # {} => q.manual \/ HasManual \/ w.row.login = None
      /\ q.op = "default" => q.todo = {} /\ ~q.manual

Listing(q) ==
  /\ q.op = "list" \/ (q.op = "default" /\ q.at = "write")
  /\ q.at = "discover" => (\A l \in q.todo : Of(l) # {}) /\ (q.manual \/ HasManual)
  /\ q.at = "find" => /\ \A l \in last.known \ q.todo : Of(l) # {}
                      /\ last.known # {} => q.manual \/ HasManual
  /\ q.at = "write" => ListWrites(q)

ListInv ==
  ~overlapped /\ last.op = "list" =>
    /\ last.known \subseteq known
    /\ Quiet => Listed /\ Visible # {}
    /\ \A r \in Request : req[r].at # "idle" => Listing(req[r])

\* What keeps the default account the one that was chosen.
OneIn(S) == \A a, b \in S : a = b

Stays ==
  \/ ~last.chosen
  \/ last.op = "primary"
  \/ last.op \in {"archive", "delete"} /\ last.id \in last.was
  \/ last.op = "list" /\ last.was \cap Rows = {}
  \/ Primaries = last.was /\ Primaries # {}

Plain(w)  == w.kind = "save" /\ w.row.primary = acc[w.id].primary /\ (w.row.primary => ~w.row.archived)
NewOne(w) == w.kind = "make" /\ ~w.row.archived /\ (w.row.primary => Visible = {})
Leaves(w) ==
  /\ w.kind \in {"drop", "dropAll"} \/ (w.kind = "save" /\ w.row.archived /\ ~w.row.primary)
  /\ w.id \in Primaries => last.op \in {"archive", "delete"} /\ last.id = w.id /\ w.id \in last.was
HandsOver(v, w) ==
  /\ v.kind = "save" /\ v.row.primary /\ ~v.row.archived /\ v.id # w.id
  /\ Leaves(w) /\ w.id \in Primaries

\* The writes of an only request, the primary account among them.
Steady(V) ==
  \/ V = <<>> /\ OneIn(Primaries)
  \/ Len(V) = 1 /\ OneIn(Primaries) /\ (Plain(V[1]) \/ NewOne(V[1]) \/ V[1].kind = "book")
  \/ Len(V) = 1 /\ V[1].kind = "choose" /\ last.op = "primary"
  \/ Len(V) = 1 /\ Leaves(V[1]) /\ OneIn(Primaries \ {V[1].id})
  \/ Len(V) = 2 /\ OneIn(Primaries) /\ NewOne(V[1]) /\ V[2].kind = "book"
  \/ Len(V) = 2 /\ OneIn(Primaries) /\ HandsOver(V[1], V[2])

DefInv ==
  ~overlapped /\ ~odd =>
    /\ Stays
    /\ \A a \in Rows : acc[a].archived => ~acc[a].primary
    /\ Quiet => OneIn(Primaries)
    /\ \A r \in Request : req[r].at # "idle" =>
         \/ Steady(req[r].writes)
         \/ req[r].op = "deriv" /\ Len(req[r].writes) = 1 /\ Next1(r).kind = "make"

-----------------------------------------------------------------------------
(***************************************************************************)
(* An only request.                                                        *)
(***************************************************************************)

LEMMA NothingInHand ==
  ASSUME IInv, NEW r \in Request, \A s \in Request \ {r} : req[s].at = "idle" PROVE InHand(r) = {}
<1>1. \A s \in Request \ {r} : req[s].writes = <<>>
  BY DEF IInv, TypeOK
<1> QED BY <1>1, NoObjects DEF InHand

\* A request that begins alone.
LEMMA BeginAlone ==
  ASSUME IInv, Solo, NEW r \in Request, NEW op, NEW a, NEW state, NEW objects,
         Begin(r, op, a, state, objects), ~overlapped'
  PROVE  /\ ~overlapped /\ Quiet /\ crossed' = {} /\ odd' = odd
         /\ req' = [req EXCEPT ![r] = [state EXCEPT !.op = op]]
         /\ last' = [op |-> op, id |-> a, was |-> Default, chosen |-> Primaries # {}, known |-> known]
<1>1. ~overlapped /\ \A s \in Request : req[s].at = "idle"
  BY DEF Begin
<1>2. crossed = {} /\ InHand(r) = {}
  BY <1>1, NothingInHand DEF Solo
<1> QED BY <1>1, <1>2 DEF Begin, Takes, Quiet

\* A step of a request that is alone.
LEMMA StepAlone ==
  ASSUME IInv, Solo, NEW r \in Request, Step(r), ~overlapped'
  PROVE  /\ ~overlapped /\ req[r].at # "idle" /\ last' = last /\ crossed = {} /\ crossed' = {} /\ known' = known
         /\ \A s \in Request \ {r} : req'[s] = req[s] /\ req[s].at = "idle"
<1>1. overlapped' = overlapped /\ last' = last /\ known' = known /\ req[r].at # "idle"
  BY DEF Step, SaveRow, MakeRow, Choose, Drop, Book, Goes, Wrote, Discover, Adopt, Manual, Show, ghost
<1>2. crossed = {} /\ \A s \in Request \ {r} : req[s].at = "idle"
  BY <1>1 DEF Solo
<1>3. InHand(r) = {}
  BY <1>2, NothingInHand
<1>4. crossed' = {} /\ \A s \in Request \ {r} : req'[s] = req[s]
  <2>1. req \in [Request -> ReqType]
    BY ReqTyped DEF IInv
  <2>2. CASE SaveRow(r) \/ MakeRow(r) \/ Choose(r) \/ Drop(r) \/ Book(r)
    <3>1. Wrote(r)
      BY <2>2 DEF SaveRow, MakeRow, Choose, Drop, Book
    <3> QED BY <1>2, <2>1, <3>1 DEF Wrote
  <2>3. CASE Discover(r) \/ Show(r)
    BY <1>2, <2>1, <2>3 DEF Discover, Show, ghost
  <2>4. CASE Adopt(r) \/ Manual(r)
    BY <1>2, <1>3, <2>1, <2>4 DEF Adopt, Manual, Takes
  <2> QED BY <2>2, <2>3, <2>4 DEF Step
<1> QED BY <1>1, <1>2, <1>4

\* A request begins.
Begun(r, op) == \E a, state, objects : Begin(r, op, a, state, objects)

LEMMA Kinds ==
  ASSUME [Next]_vars
  PROVE  \/ UNCHANGED vars
         \/ \E l \in running : Logged(l)
         \/ \E r \in Request : Step(r) \/ List(r) \/ \E op \in Ops \ {"list"} : Begun(r, op)
<1>1. ASSUME NEW r \in Request, NEW op \in Ops \ {"list"}, NEW a, NEW l, NEW W, Ask(r, op, a, l, W)
      PROVE  Begun(r, op)
  BY <1>1 DEF Ask, Begun
<1>2. ASSUME NEW r \in Request, Create(r) \/ SignIn(r) \/ FindDefault(r) \/ ImportAny(r)
      PROVE  \E op \in Ops \ {"list"} : Begun(r, op)
  BY <1>1, <1>2, OpsAre DEF Create, SignIn, FindDefault, ImportAny, Import
<1>3. ASSUME NEW r \in Request, NEW a \in Id, \/ SetPrimary(r, a) \/ Archive(r, a) \/ Restore(r, a)
                                              \/ Edit(r, a) \/ Reset(r, a) \/ Delete(r, a)
      PROVE  \E op \in Ops \ {"list"} : Begun(r, op)
  BY <1>1, <1>3, OpsAre DEF SetPrimary, Archive, Restore, Edit, Reset, Delete
<1>4. ASSUME NEW r \in Request, NEW l, Connect(r, l) \/ DerivSignIn(r, l) \/ Report(r, l)
      PROVE  \E op \in Ops \ {"list"} : Begun(r, op)
  BY <1>1, <1>4, OpsAre DEF Connect, DerivSignIn, Report
<1>5. ASSUME NEW r \in Request, NEW l, Disconnect(r, l)
      PROVE  \E op \in Ops \ {"list"} : Begun(r, op)
  BY <1>5, OpsAre DEF Disconnect, Begun
<1> QED BY <1>2, <1>3, <1>4, <1>5 DEF Next, Asks

LEMMA SoloStays == IInv /\ Solo /\ [Next]_vars => Solo'
<1> SUFFICES ASSUME IInv, Solo, [Next]_vars, ~overlapped' PROVE Solo'
  BY DEF Solo
<1>1. CASE UNCHANGED vars
  BY <1>1 DEF vars, ghost, Solo
<1>2. ASSUME NEW l \in running, Logged(l) PROVE Solo'
  BY <1>2 DEF Logged, ghost, Solo
<1>3. ASSUME NEW r \in Request, Step(r) PROVE Solo'
  BY <1>3, StepAlone DEF Solo
<1>4. ASSUME NEW r \in Request, NEW op, NEW a, NEW state, NEW objects, Begin(r, op, a, state, objects)
      PROVE  Solo'
  <2>1. req \in [Request -> ReqType]
    BY ReqTyped DEF IInv
  <2>2. Quiet /\ crossed' = {} /\ req' = [req EXCEPT ![r] = [state EXCEPT !.op = op]]
    BY <1>4, BeginAlone
  <2> QED BY <2>1, <2>2 DEF Solo, Quiet
<1>5. ASSUME NEW r \in Request, List(r) PROVE Solo'
  BY <1>4, <1>5 DEF List
<1> QED BY <1>1, <1>2, <1>3, <1>4, <1>5, Kinds DEF Begun

-----------------------------------------------------------------------------
(***************************************************************************)
(* Lists that are not disturbed.                                           *)
(***************************************************************************)

\* A step of an only request, to what it makes of the request.
LEMMA ListStep ==
  ASSUME IInv, Solo, NEW r \in Request, Step(r), ~overlapped', last.known \subseteq known,
         req'[r].at = "idle" => Listed' /\ Visible' # {},
         NEW q, q = req'[r], q.at # "idle" => Listing(q)'
  PROVE  ListInv'
<1>1. last' = last /\ known' = known /\ \A s \in Request \ {r} : req'[s] = req[s] /\ req[s].at = "idle"
  BY StepAlone
<1>2. \A s \in Request : req'[s].at # "idle" => s = r
  BY <1>1
<1>3. ASSUME NEW s \in Request, req'[s].at # "idle" PROVE Listing(req[s])'
  <2>1. s = r /\ q = req'[s] /\ q.at # "idle"
    BY <1>2, <1>3
  <2> QED BY <2>1
<1>4. Quiet' => Listed' /\ Visible' # {}
  BY DEF Quiet
<1> QED BY <1>1, <1>3, <1>4 DEF ListInv

LEMMA ListAlone ==
  ASSUME IInv, Solo, ListInv, NEW r \in Request, Step(r), ~overlapped', last'.op = "list"
  PROVE  /\ Listing(req[r]) /\ last.op = "list" /\ last.known \subseteq known /\ last' = last /\ crossed = {}
         /\ req \in [Request -> ReqType] /\ req[r] \in ReqType
BY StepAlone, ReqTyped DEF ListInv, IInv

LEMMA DiscoverLists ==
  ASSUME IInv, Solo, ListInv, NEW r \in Request, Discover(r), ~overlapped', last'.op = "list" PROVE ListInv'
<1>0. Step(r)
  BY DEF Step
<1>1. /\ Listing(req[r]) /\ last.known \subseteq known /\ last' = last /\ req \in [Request -> ReqType]
      /\ req[r] \in ReqType
  BY <1>0, ListAlone
<1>2. PICK manual \in BOOLEAN : manual = Lacking(r)
  BY DEF Lacking
<1>3. PICK q : q = [req[r] EXCEPT !.at = "find", !.todo = known \ req[r].todo, !.manual = manual]
  OBVIOUS
<1>4. req'[r] = q
  BY <1>1, <1>2, <1>3 DEF Discover
<1>5. q.at = "find" /\ q.op = req[r].op /\ q.todo = known \ req[r].todo /\ q.manual = manual
  BY <1>1, <1>3 DEF ReqType
<1>6. UNCHANGED <<acc, last>> /\ req[r].at = "discover"
  BY DEF Discover, db, ghost
<1>7. (\A l \in req[r].todo : Of(l) # {}) /\ (req[r].manual \/ HasManual) /\ req[r].op = "list"
  BY <1>1, <1>6 DEF Listing
<1>8. \A l \in last.known \ q.todo : Of(l) # {}
  BY <1>1, <1>5, <1>7
<1>9. last.known # {} => q.manual \/ HasManual
  BY <1>1, <1>2, <1>5, <1>7 DEF Lacking
<1>10. Listing(q)'
  BY <1>5, <1>6, <1>7, <1>8, <1>9 DEF Listing, HasManual, Visible, Of, Rows
<1> QED BY <1>0, <1>1, <1>4, <1>5, <1>10, ListStep

LEMMA AdoptLists ==
  ASSUME IInv, Solo, ListInv, NEW r \in Request, Adopt(r), ~overlapped', last'.op = "list" PROVE ListInv'
<1>0. Step(r)
  BY DEF Step
<1>1. /\ Listing(req[r]) /\ last.known \subseteq known /\ last' = last /\ req \in [Request -> ReqType]
      /\ req[r] \in ReqType
  BY <1>0, ListAlone
<1>2. PICK l \in req[r].todo :
        \E W \in IF Of(l) = {} THEN {<<Make(l, FALSE)>>}
                  ELSE {<<Save(a, [acc[a] EXCEPT !.archived = FALSE])>> : a \in Of(l)} :
          Takes(r, [req[r] EXCEPT !.at = "write", !.writes = W, !.todo = @ \ {l}], Objects(W))
  BY DEF Adopt
<1>3. l \in Login /\ l # None
  BY <1>1, Consts DEF ReqType
<1>4. PICK w \in Write :
        /\ Takes(r, [req[r] EXCEPT !.at = "write", !.writes = <<w>>, !.todo = @ \ {l}], Objects(<<w>>))
        /\ w.kind \in {"make", "save"} /\ w.row \in Row /\ ~w.row.archived /\ w.row.login = l
        /\ w.kind = "save" => w.row.login = acc[w.id].login
  <2>1. CASE Of(l) = {}
    <3> DEFINE w == Make(l, FALSE)
    <3>1. /\ w \in Write /\ w.kind = "make" /\ w.row = [login |-> l, primary |-> FALSE, archived |-> FALSE]
      BY <1>3, <2>1, MakeFits
    <3>2. Takes(r, [req[r] EXCEPT !.at = "write", !.writes = <<w>>, !.todo = @ \ {l}], Objects(<<w>>))
      BY <1>2, <2>1
    <3> DEFINE row == [login |-> l, primary |-> FALSE, archived |-> FALSE]
    <3>3. row \in Row /\ row.login = l /\ ~row.archived
      BY <1>3 DEF Row
    <3> HIDE DEF w
    <3>4. w.row = row
      BY <3>1
    <3> HIDE DEF row
    <3> QED BY <3>1, <3>2, <3>3, <3>4
  <2>2. CASE Of(l) # {}
    <3>1. PICK a \in Of(l) : Takes(r, [req[r] EXCEPT !.at = "write",
              !.writes = <<Save(a, [acc[a] EXCEPT !.archived = FALSE])>>, !.todo = @ \ {l}],
              Objects(<<Save(a, [acc[a] EXCEPT !.archived = FALSE])>>))
      BY <1>2, <2>2
    <3>2. a \in Rows /\ TypeOK /\ acc[a].login = l
      BY DEF Of, IInv
    <3> DEFINE row == [acc[a] EXCEPT !.archived = FALSE]
               w == Save(a, row)
    <3>3. row \in Row /\ row.login = acc[a].login /\ ~row.archived
      BY <3>2, RowTyped DEF Row
    <3>4. Takes(r, [req[r] EXCEPT !.at = "write", !.writes = <<w>>, !.todo = @ \ {l}], Objects(<<w>>))
      BY <3>1
    <3> HIDE DEF row
    <3>5. w \in Write /\ w.kind = "save" /\ w.id = a /\ w.row = row
      BY <3>2, <3>3, SaveFits
    <3> HIDE DEF w
    <3> QED BY <3>2, <3>3, <3>4, <3>5
  <2> QED BY <2>1, <2>2
<1>5. PICK q : q = [req[r] EXCEPT !.at = "write", !.writes = <<w>>, !.todo = @ \ {l}]
  OBVIOUS
<1>6. req'[r] = q
  BY <1>1, <1>4, <1>5 DEF Takes
<1>7. q.at = "write" /\ q.op = req[r].op /\ q.todo = req[r].todo \ {l} /\ q.manual = req[r].manual /\ q.writes = <<w>>
  BY <1>1, <1>5 DEF ReqType
<1>8. UNCHANGED <<acc, last>> /\ req[r].at = "find"
  BY DEF Adopt, db
<1>9. /\ \A m \in last.known \ req[r].todo : Of(m) # {}
      /\ last.known # {} => req[r].manual \/ HasManual
      /\ req[r].op = "list"
  BY <1>1, <1>8 DEF Listing
<1>10. PICK W : W = <<w>> /\ Len(W) = 1 /\ W[1] = w
  <2>1. Len(<<w>>) = 1 /\ <<w>>[1] = w
    OBVIOUS
  <2> QED BY <2>1
<1>11. /\ \A m \in last.known \ q.todo : Of(m) # {} \/ m = w.row.login
       /\ last.known # {} => q.manual \/ HasManual
  BY <1>4, <1>7, <1>9
<1>12. ListWrites(q)'
  BY <1>3, <1>4, <1>7, <1>8, <1>9, <1>10, <1>11 DEF ListWrites, HasManual, Visible, Of, Rows
<1>13. Listing(q)'
  BY <1>7, <1>9, <1>12 DEF Listing
<1> QED BY <1>0, <1>1, <1>6, <1>7, <1>13, ListStep

LEMMA MakesManual ==
  ASSUME IInv, NEW primary \in BOOLEAN
  PROVE  \E w \in Write : /\ w = Make(None, primary) /\ w.kind = "make" /\ w.row \in Row /\ ~w.row.archived
                          /\ w.row.login = None
<1> DEFINE w == Make(None, primary)
           row == [login |-> None, primary |-> primary, archived |-> FALSE]
<1>1. w \in Write /\ w.kind = "make" /\ w.row = row
  BY MakeFits
<1>2. row \in Row /\ row.login = None /\ ~row.archived
  <2>1. CASE primary = TRUE
    BY <2>1 DEF Row
  <2>2. CASE primary = FALSE
    BY <2>2 DEF Row
  <2> QED BY <2>1, <2>2
<1> HIDE DEF w, row
<1>3. w.row \in Row /\ w.row.login = None /\ ~w.row.archived
  BY <1>1, <1>2
<1> QED BY <1>1, <1>3 DEF w

LEMMA ManualLists ==
  ASSUME IInv, Solo, ListInv, NEW r \in Request, Manual(r), ~overlapped', last'.op = "list" PROVE ListInv'
<1>0. Step(r)
  BY DEF Step
<1>1. /\ Listing(req[r]) /\ last.known \subseteq known /\ last' = last /\ req \in [Request -> ReqType]
      /\ req[r] \in ReqType
  BY <1>0, ListAlone
<1>2. PICK w \in Write : /\ w = Make(None, FALSE) /\ w.kind = "make" /\ w.row \in Row /\ ~w.row.archived
                         /\ w.row.login = None
  BY MakesManual
<1>3. PICK q : q = [req[r] EXCEPT !.at = "write", !.writes = <<w>>, !.manual = FALSE]
  OBVIOUS
<1>4. req'[r] = q
  BY <1>1, <1>2, <1>3 DEF Manual, Takes
<1>5. q.at = "write" /\ q.op = req[r].op /\ q.todo = req[r].todo /\ q.writes = <<w>>
  BY <1>1, <1>3 DEF ReqType
<1>6. UNCHANGED <<acc, last>> /\ req[r].at = "find" /\ req[r].todo = {}
  BY DEF Manual, db
<1>7. (\A m \in last.known \ req[r].todo : Of(m) # {}) /\ req[r].op = "list"
  BY <1>1, <1>6 DEF Listing
<1>8. PICK W : W = <<w>> /\ Len(W) = 1 /\ W[1] = w
  <2>1. Len(<<w>>) = 1 /\ <<w>>[1] = w
    OBVIOUS
  <2> QED BY <2>1
<1>9. ListWrites(q)'
  <2>1. q.writes = W /\ q.writes[1] = w /\ q.todo = {} /\ q.op = "list"
    BY <1>5, <1>6, <1>7, <1>8
  <2>2. last' = last /\ (\A m \in last.known : Of(m) # {})
    BY <1>6, <1>7
  <2>3. \A m : Of(m)' = Of(m)
    BY <1>6 DEF Of, Rows
  <2> QED BY <1>2, <1>8, <2>1, <2>2, <2>3 DEF ListWrites
<1>10. Listing(q)'
  BY <1>5, <1>7, <1>9 DEF Listing
<1> QED BY <1>0, <1>1, <1>4, <1>5, <1>10, ListStep

LEMMA ShowLists ==
  ASSUME IInv, Solo, ListInv, NEW r \in Request, Show(r), ~overlapped', last'.op = "list" PROVE ListInv'
<1>0. Step(r)
  BY DEF Step
<1>1. /\ Listing(req[r]) /\ last.known \subseteq known /\ last' = last /\ req \in [Request -> ReqType]
      /\ req[r] \in ReqType
  BY <1>0, ListAlone
<1>2. UNCHANGED <<acc, last>> /\ req[r].at = "find" /\ req[r].todo = {} /\ ~req[r].manual
  BY DEF Show, db, ghost
<1>3. (\A m \in last.known : Of(m) # {}) /\ (last.known # {} => HasManual)
  BY <1>1, <1>2 DEF Listing
<1>4. CASE Visible # {}
  <2>1. req'[r] = Rest
    BY <1>1, <1>4 DEF Show
  <2>2. Listed' /\ Visible' # {}
    BY <1>2, <1>3, <1>4 DEF Listed, HasManual, Visible, Of, Rows
  <2> QED BY <1>0, <1>1, <2>1, <2>2, RestType, ListStep
<1>5. CASE Visible = {}
  <2>1. PICK w \in Write : /\ w = Make(None, TRUE) /\ w.kind = "make" /\ w.row \in Row /\ ~w.row.archived
                           /\ w.row.login = None
    BY MakesManual
  <2>2. PICK q : q = [Rest EXCEPT !.op = "default", !.at = "write", !.writes = <<w>>]
    OBVIOUS
  <2>3. req'[r] = q
    BY <1>1, <1>5, <2>1, <2>2 DEF Show
  <2>4. q.at = "write" /\ q.op = "default" /\ q.todo = {} /\ q.manual = FALSE /\ q.writes = <<w>>
    BY <2>2 DEF Rest
  <2>5. PICK W : W = <<w>> /\ Len(W) = 1 /\ W[1] = w
    <3>1. Len(<<w>>) = 1 /\ <<w>>[1] = w
      OBVIOUS
    <3> QED BY <3>1
  <2>6. ListWrites(q)'
    BY <1>2, <1>3, <2>1, <2>4, <2>5 DEF ListWrites, Of, Rows
  <2>7. Listing(q)'
    BY <2>4, <2>6 DEF Listing
  <2> QED BY <1>0, <1>1, <2>3, <2>4, <2>7, ListStep
<1> QED BY <1>4, <1>5

\* A row that is written, visible, to a list or to what it ends with.
LEMMA WrittenLists ==
  ASSUME IInv, Solo, ListInv, NEW r \in Request, Step(r), ~overlapped', last'.op = "list",
         req[r].at = "write", Wrote(r), NEW w, w = Next1(r), NEW n \in Rows', acc'[n] = w.row,
         \A b \in Rows : b \in Rows' /\ (b # n => acc'[b] = acc[b]),
         n \in Rows => w.row.login # None /\ w.row.login = acc[n].login
  PROVE  ListInv'
<1>1. /\ Listing(req[r]) /\ last.op = "list" /\ last.known \subseteq known /\ last' = last
      /\ req \in [Request -> ReqType] /\ req[r] \in ReqType
  BY ListAlone
<1>2. ListWrites(req[r]) /\ (req[r].op \in {"list", "default"})
  BY <1>1 DEF Listing
<1>3. /\ Len(req[r].writes) = 1 /\ ~w.row.archived
      /\ \A l \in last.known \ req[r].todo : Of(l) # {} \/ l = w.row.login
      /\ last.known # {} => req[r].manual \/ HasManual \/ w.row.login = None
      /\ req[r].op = "default" => req[r].todo = {} /\ ~req[r].manual
  BY <1>2 DEF ListWrites, Next1
<1>4. n \in Visible'
  BY <1>3 DEF Visible
<1>5. \A l : Of(l) # {} \/ l = w.row.login => Of(l)' # {}
  <2>1. ASSUME NEW l, NEW b \in Of(l) PROVE Of(l)' # {}
    <3>1. b \in Rows /\ acc[b].login = l
      BY DEF Of
    <3>2. b \in Rows' /\ acc'[b].login = l
      BY <3>1
    <3> QED BY <3>2 DEF Of
  <2>2. n \in Of(w.row.login)'
    BY DEF Of
  <2> QED BY <2>1, <2>2
<1>6. HasManual \/ w.row.login = None => HasManual'
  <2>1. ASSUME NEW b \in Visible, acc[b].login = None PROVE HasManual'
    <3>1. b \in Rows /\ ~acc[b].archived /\ b # n
      BY <2>1 DEF Visible
    <3>2. b \in Rows' /\ acc'[b] = acc[b]
      BY <3>1
    <3> QED BY <2>1, <3>1, <3>2 DEF HasManual, Visible
  <2> QED BY <1>4, <2>1 DEF HasManual
<1>7. /\ \A l \in last.known \ req[r].todo : Of(l)' # {}
      /\ last.known # {} => req[r].manual \/ HasManual'
  BY <1>3, <1>5, <1>6
<1>8. req' = [req EXCEPT ![r] = IF req[r].op = "list" THEN [req[r] EXCEPT !.at = "find", !.writes = <<>>] ELSE Rest]
  <2> DEFINE rest == [i \in 1..(Len(req[r].writes) - 1) |->
                        LET v == req[r].writes[i + 1]
                        IN  IF v.kind = "book" /\ v.id = New THEN [v EXCEPT !.id = made'] ELSE v]
  <2>1. req' = [req EXCEPT ![r] =
                   IF rest # <<>> THEN [req[r] EXCEPT !.writes = rest]
                   ELSE IF req[r].op = "list" THEN [req[r] EXCEPT !.at = "find", !.writes = <<>>] ELSE Rest]
    BY DEF Wrote
  <2>2. rest = <<>>
    BY <1>3
  <2> HIDE DEF rest
  <2> QED BY <2>1, <2>2
<1>9. CASE req[r].op = "list"
  <2>1. PICK q : q = [req[r] EXCEPT !.at = "find", !.writes = <<>>]
    OBVIOUS
  <2>2. q.at = "find" /\ q.op = "list" /\ q.todo = req[r].todo /\ q.manual = req[r].manual
    BY <1>1, <1>9, <2>1, FoundNext
  <2>3. req'[r] = q
    BY <1>1, <1>8, <1>9, <2>1
  <2>4. \A l \in last.known \ q.todo : Of(l)' # {}
    BY <1>7, <2>2
  <2>5. Listing(q)'
    BY <1>1, <1>7, <2>2, <2>4 DEF Listing
  <2> QED BY <1>1, <2>2, <2>3, <2>5, ListStep
<1>10. CASE req[r].op # "list"
  <2>1. req'[r] = Rest
    BY <1>1, <1>8, <1>10
  <2>2. Listed' /\ Visible' # {}
    BY <1>1, <1>2, <1>3, <1>4, <1>7, <1>10 DEF Listed
  <2> QED BY <1>1, <2>1, <2>2, RestType, ListStep
<1> QED BY <1>9, <1>10

LEMMA WritesList ==
  ASSUME IInv, Solo, ListInv, NEW r \in Request, ~overlapped', last'.op = "list",
         SaveRow(r) \/ MakeRow(r) \/ Choose(r) \/ Drop(r) \/ Book(r)
  PROVE  ListInv'
<1>0. Step(r) /\ req[r].at = "write" /\ Wrote(r)
  BY DEF Step, SaveRow, MakeRow, Choose, Drop, Book, Goes
<1>1. Listing(req[r]) /\ crossed = {}
  BY <1>0, ListAlone
<1>2. PICK w \in Write : w = Next1(r) /\ FitsOne(w)
  BY <1>0, WritingFits
<1>3. w.kind \in {"make", "save"} /\ (w.kind = "save" => w.row.login # None /\ w.row.login = acc[w.id].login)
  BY <1>0, <1>1, <1>2 DEF Listing, ListWrites, Next1
<1>4. acc \in [Id -> Row \cup {None}] /\ Rows \subseteq 1..made /\ made \in Nat
  BY DEF IInv, TypeOK
<1>5. CASE SaveRow(r)
  <2>1. w.kind = "save" /\ acc' = [acc EXCEPT ![w.id] = w.row]
    BY <1>2, <1>5 DEF SaveRow, Goes
  <2>2. w.id \in Rows /\ w.row # None
    BY <1>1, <1>2, <2>1 DEF FitsOne
  <2>3. w.id \in Id /\ acc'[w.id] = w.row
    BY <1>4, <2>1, <2>2 DEF Rows
  <2>4. w.id \in Rows' /\ \A b \in Rows : b \in Rows' /\ (b # w.id => acc'[b] = acc[b])
    BY <1>4, <2>1, <2>2, <2>3 DEF Rows
  <2> QED BY <1>0, <1>2, <1>3, <2>1, <2>3, <2>4, WrittenLists
<1>6. CASE MakeRow(r)
  <2>1. PICK n : n = made + 1
    OBVIOUS
  <2>2. w.kind = "make" /\ acc' = [acc EXCEPT ![n] = w.row] /\ made < MaxAccounts
    BY <1>2, <1>6, <2>1 DEF MakeRow, Goes
  <2>3. w.row # None /\ n \in Id /\ n \notin Rows
    BY <1>2, <1>4, <2>1, <2>2, Consts DEF FitsOne, Id
  <2>4. acc'[n] = w.row
    BY <1>4, <2>2, <2>3
  <2>5. n \in Rows' /\ \A b \in Rows : b \in Rows' /\ (b # n => acc'[b] = acc[b])
    BY <1>4, <2>2, <2>3, <2>4 DEF Rows
  <2> QED BY <1>0, <1>2, <2>3, <2>4, <2>5, WrittenLists
<1>7. CASE Choose(r) \/ Drop(r) \/ Book(r)
  BY <1>2, <1>3, <1>7 DEF Choose, Drop, Book, Goes
<1> QED BY <1>5, <1>6, <1>7

LEMMA BeginsList ==
  ASSUME IInv, Solo, NEW r \in Request, List(r), ~overlapped' PROVE ListInv'
<1> DEFINE todo == {acc[a].login : a \in Rows \ Rubbish} \ {None}
<1>1. PICK manual \in BOOLEAN : manual = NoManual
  BY DEF NoManual
<1>2. PICK state : /\ state = [Rest EXCEPT !.at = "discover", !.manual = manual, !.todo = todo]
                   /\ Begin(r, "list", New, state, Rubbish)
  BY <1>1 DEF List
<1>3. PICK q : q = [state EXCEPT !.op = "list"]
  OBVIOUS
<1>4. /\ Quiet /\ req' = [req EXCEPT ![r] = q]
      /\ last'.known = known
  <2>1. Quiet /\ req' = [req EXCEPT ![r] = [state EXCEPT !.op = "list"]]
    <3>1. PICK op, a : op = "list" /\ a = New
      OBVIOUS
    <3>2. Begin(r, op, a, state, Rubbish)
      BY <1>2, <3>1
    <3>3. Quiet /\ req' = [req EXCEPT ![r] = [state EXCEPT !.op = op]]
      BY <3>2, BeginAlone
    <3> QED BY <3>1, <3>3
  <2>2. last'.known = known
    BY <1>2 DEF Begin
  <2> QED BY <1>3, <2>1, <2>2
<1>5. q.at = "discover" /\ q.op = "list" /\ q.todo = todo /\ q.manual = manual
  BY <1>2, <1>3 DEF Rest
<1>6. acc' = [a \in Id |-> IF a \in Rubbish THEN None ELSE acc[a]] /\ known' = known
  BY DEF List
<1>7. Rows' = Rows \ Rubbish /\ \A a \in Rows' : acc'[a] = acc[a]
  BY <1>6 DEF Rows
<1>8. \A l \in todo : Of(l)' # {}
  <2>1. ASSUME NEW l \in todo PROVE Of(l)' # {}
    <3>1. PICK a \in Rows \ Rubbish : l = acc[a].login
      OBVIOUS
    <3>2. a \in Rows' /\ acc'[a].login = l
      BY <1>7, <3>1
    <3> QED BY <3>2 DEF Of
  <2> QED BY <2>1
<1>9. manual \/ HasManual'
  <2>1. ASSUME NEW a \in Visible, acc[a].login = None PROVE HasManual'
    <3>1. a \in Rows /\ a \notin Rubbish /\ ~acc[a].archived
      BY <2>1, Consts DEF Visible, Rubbish, Login
    <3>2. a \in Rows' /\ acc'[a] = acc[a]
      BY <1>7, <3>1
    <3> QED BY <2>1, <3>1, <3>2 DEF HasManual, Visible
  <2> QED BY <1>1, <2>1 DEF NoManual
<1> HIDE DEF todo
<1>10. Listing(q)'
  BY <1>5, <1>8, <1>9 DEF Listing
<1>11. req \in [Request -> ReqType]
  BY ReqTyped DEF IInv
<1>12. req'[r] = q /\ \A s \in Request \ {r} : req'[s].at = "idle"
  BY <1>4, <1>11 DEF Quiet
<1>13. ASSUME NEW s \in Request, req'[s].at # "idle" PROVE Listing(req[s])'
  <2>1. s = r /\ q = req'[s]
    BY <1>12, <1>13
  <2> QED BY <1>10, <2>1
<1>14. ~Quiet' /\ last'.known \subseteq known'
  BY <1>4, <1>5, <1>6, <1>12 DEF Quiet
<1> QED BY <1>13, <1>14 DEF ListInv

LEMMA SameLists ==
  ASSUME ListInv, UNCHANGED <<acc, req, overlapped, last>>, known \subseteq known', ~overlapped', last'.op = "list"
  PROVE  ListInv'
<1>1. Rows' = Rows /\ Visible' = Visible /\ (Quiet <=> Quiet') /\ \A l : Of(l)' = Of(l)
  BY DEF Rows, Visible, Quiet, Of
<1>2. HasManual' <=> HasManual
  BY <1>1 DEF HasManual
<1>3. Listed' <=> Listed
  BY <1>1, <1>2 DEF Listed
<1>4. ASSUME NEW r \in Request, Listing(req[r]) PROVE Listing(req[r])'
  <2>1. ListWrites(req[r]) => ListWrites(req[r])'
    BY <1>1, <1>2 DEF ListWrites
  <2> QED BY <1>1, <1>2, <1>4, <2>1 DEF Listing
<1> QED BY <1>1, <1>3, <1>4 DEF ListInv

LEMMA ListStays == IInv /\ Solo /\ ListInv /\ [Next]_vars => ListInv'
<1> SUFFICES ASSUME IInv, Solo, ListInv, [Next]_vars, ~overlapped', last'.op = "list" PROVE ListInv'
  BY DEF ListInv
<1>1. CASE UNCHANGED vars
  BY <1>1, SameLists DEF vars, db, ghost
<1>2. ASSUME NEW l \in running, Logged(l) PROVE ListInv'
  <2>1. UNCHANGED <<acc, req, overlapped, last>> /\ known \subseteq known'
    BY <1>2 DEF Logged, db, ghost
  <2> QED BY <2>1, SameLists
<1>3. ASSUME NEW r \in Request, Step(r) PROVE ListInv'
  BY <1>3, WritesList, DiscoverLists, AdoptLists, ManualLists, ShowLists DEF Step
<1>4. ASSUME NEW r \in Request, List(r) PROVE ListInv'
  BY <1>4, BeginsList
<1>5. ASSUME NEW r \in Request, NEW op \in Ops \ {"list"}, Begun(r, op) PROVE ListInv'
  <2>1. last'.op = op
    BY <1>5, BeginAlone DEF Begun
  <2> QED BY <2>1
<1> QED BY <1>1, <1>2, <1>3, <1>4, <1>5, Kinds

-----------------------------------------------------------------------------
(***************************************************************************)
(* The default account.                                                    *)
(***************************************************************************)

Orderly == \A a \in Rows : acc[a].archived => ~acc[a].primary

\* What the writes of an only request may be.
Shaped(q) ==
  \/ Steady(q.writes)
  \/ q.op = "deriv" /\ Len(q.writes) = 1 /\ q.writes[1].kind = "make"

LEMMA DefParts ==
  DefInv <=> (~overlapped /\ ~odd => /\ Stays /\ Orderly /\ (Quiet => OneIn(Primaries))
                                     /\ \A r \in Request : req[r].at # "idle" => Shaped(req[r]))
BY DEF DefInv, Orderly, Shaped, Next1

LEMMA Lengths ==
  ASSUME NEW v, NEW w
  PROVE  Len(<<>>) = 0 /\ Len(<<v>>) = 1 /\ <<v>>[1] = v /\ Len(<<v, w>>) = 2 /\ <<v, w>>[1] = v /\ <<v, w>>[2] = w
OBVIOUS

\* The state an only request begins in.
LEMMA Calm ==
  ASSUME IInv, Solo, DefInv, NEW r \in Request, NEW op, NEW a, NEW state, NEW objects,
         Begin(r, op, a, state, objects), ~overlapped', ~odd'
  PROVE  /\ OneIn(Primaries) /\ Orderly /\ crossed = {}
         /\ last'.op = op /\ last'.id = a /\ last'.was = Default /\ last'.chosen = (Primaries # {})
BY BeginAlone, DefParts DEF Solo, Begin

\* It has in hand what it began with.
LEMMA BegunSteady ==
  ASSUME IInv, Solo, DefInv, NEW r \in Request, NEW op, NEW a, NEW state, NEW objects,
         Begin(r, op, a, state, objects), ~overlapped', ~odd', acc' = acc,
         NEW q, q = [state EXCEPT !.op = op], q.at # "idle", Shaped(q)'
  PROVE  DefInv'
<1>1. OneIn(Primaries) /\ Orderly /\ last'.op = op /\ last'.was = Default /\ last'.chosen = (Primaries # {})
  BY Calm
<1>2. Quiet /\ req' = [req EXCEPT ![r] = q] /\ req \in [Request -> ReqType]
  BY BeginAlone, ReqTyped DEF IInv
<1>3. \A s \in Request : req'[s].at # "idle" => s = r
  BY <1>2 DEF Quiet
<1>4. ASSUME NEW s \in Request, req'[s].at # "idle" PROVE Shaped(req[s])'
  <2>1. req'[s] = q
    BY <1>2, <1>3, <1>4
  <2> QED BY <2>1
<1>5. ~Quiet'
  BY <1>2 DEF Quiet
<1>6. Rows' = Rows /\ Primaries' = Primaries
  BY DEF Rows, Primaries, Visible
<1>7. Orderly'
  BY <1>1, <1>6 DEF Orderly
<1>8. Stays'
  BY <1>1, <1>6 DEF Stays, Default
<1> QED BY <1>4, <1>5, <1>7, <1>8, DefParts DEF DefInv, Orderly, Shaped, Next1

LEMMA AskedSteady ==
  ASSUME IInv, Solo, DefInv, NEW r \in Request, NEW op, NEW a, NEW l, NEW V, Ask(r, op, a, l, V),
         ~overlapped', ~odd',
         Steady(V)' \/ (op = "deriv" /\ Len(V) = 1 /\ V[1].kind = "make")
  PROVE  DefInv'
<1>1. PICK state : state = [Rest EXCEPT !.at = "write", !.login = l, !.writes = V]
  OBVIOUS
<1>2. Begin(r, op, a, state, Objects(V)) /\ acc' = acc
  BY <1>1 DEF Ask, db
<1>3. PICK q : q = [state EXCEPT !.op = op]
  OBVIOUS
<1>4. q.at = "write" /\ q.writes = V /\ q.op = op
  BY <1>1, <1>3 DEF Rest
<1>5. Shaped(q)'
  BY <1>4 DEF Shaped
<1>6. PICK objects : objects = Objects(V)
  OBVIOUS
<1> QED BY <1>2, <1>3, <1>4, <1>5, <1>6, BegunSteady

\* What an asked request finds.
LEMMA AskedCalm ==
  ASSUME IInv, Solo, DefInv, NEW r \in Request, NEW op, NEW a, NEW l, NEW V, Ask(r, op, a, l, V),
         ~overlapped', ~odd'
  PROVE  /\ OneIn(Primaries) /\ Orderly /\ crossed = {} /\ UNCHANGED <<acc, made>>
         /\ last'.op = op /\ last'.id = a /\ last'.was = Default
<1>1. PICK state, objects : Begin(r, op, a, state, objects)
  BY DEF Ask
<1>2. UNCHANGED <<acc, made>>
  BY DEF Ask, db
<1> QED BY <1>1, <1>2, Calm

LEMMA AskedNew ==
  ASSUME IInv, Solo, DefInv, NEW r \in Request, NEW op, NEW l, NEW m, NEW primary \in BOOLEAN,
         primary => Visible = {}, Ask(r, op, New, l, <<Make(m, primary)>>), ~overlapped', ~odd'
  PROVE  DefInv'
<1>0. PICK a, w : a = New /\ w = Make(m, primary)
  OBVIOUS
<1>1. Ask(r, op, a, l, <<w>>)
  BY <1>0
<1>2. OneIn(Primaries) /\ acc' = acc
  BY <1>1, AskedCalm
<1>3. w.kind = "make" /\ w.row.primary = primary /\ w.row.archived = FALSE
  BY <1>0 DEF Make
<1>4. OneIn(Primaries)' /\ NewOne(w)'
  BY <1>2, <1>3 DEF NewOne, OneIn, Primaries, Visible, Rows
<1>5. Steady(<<w>>)'
  BY <1>4, Lengths DEF Steady
<1> QED BY <1>1, <1>5, AskedSteady

LEMMA AskedPlain ==
  ASSUME IInv, Solo, DefInv, NEW r \in Request, NEW op, NEW a \in Rows, NEW l, NEW row \in Row,
         row.primary = acc[a].primary, row.primary => ~row.archived,
         Ask(r, op, a, l, <<Save(a, row)>>), ~overlapped', ~odd'
  PROVE  DefInv'
<1>0. PICK w : w = Save(a, row)
  OBVIOUS
<1>1. Ask(r, op, a, l, <<w>>)
  BY <1>0
<1>2. OneIn(Primaries) /\ acc' = acc
  BY <1>1, AskedCalm
<1>3. w.kind = "save" /\ w.row = row /\ w.id = a
  BY <1>0 DEF Save
<1>4. OneIn(Primaries)' /\ Plain(w)'
  BY <1>2, <1>3 DEF Plain, OneIn, Primaries, Visible, Rows
<1>5. Steady(<<w>>)'
  BY <1>4, Lengths DEF Steady
<1> QED BY <1>1, <1>5, AskedSteady

LEMMA DoParts == ASSUME NEW kind, NEW a PROVE Do(kind, a).kind = kind /\ Do(kind, a).id = a
BY DEF Do

LEMMA MakeParts ==
  ASSUME NEW l, NEW primary PROVE Make(l, primary).kind = "make" /\ Make(l, primary).row.archived = FALSE
BY DEF Make

LEMMA SaveParts ==
  ASSUME NEW a, NEW row PROVE Save(a, row).kind = "save" /\ Save(a, row).id = a /\ Save(a, row).row = row
BY DEF Save

\* What a change leaves of a row.
LEMMA Kept ==
  ASSUME TypeOK, NEW a \in Rows
  PROVE  /\ [acc[a] EXCEPT !.archived = FALSE].primary = acc[a].primary
         /\ ~[acc[a] EXCEPT !.archived = FALSE].archived
         /\ [acc[a] EXCEPT !.login = None].primary = acc[a].primary
         /\ [acc[a] EXCEPT !.login = None].archived = acc[a].archived
         /\ ~[acc[a] EXCEPT !.archived = TRUE, !.primary = FALSE].primary
         /\ [acc[a] EXCEPT !.archived = TRUE, !.primary = FALSE].archived
         /\ [acc[a] EXCEPT !.primary = TRUE] \in Row
         /\ [acc[a] EXCEPT !.primary = TRUE].primary
         /\ [acc[a] EXCEPT !.primary = TRUE].archived = acc[a].archived
BY RowTyped DEF Row

LEMMA MakersSteady ==
  ASSUME IInv, Solo, DefInv, NEW r \in Request, Create(r) \/ SignIn(r) \/ FindDefault(r) \/ ImportAny(r),
         ~overlapped', ~odd'
  PROVE  DefInv'
<1>1. CASE Create(r)
  <2>1. PICK primary \in BOOLEAN : primary = (Visible = {})
    OBVIOUS
  <2>2. Ask(r, "create", New, None, <<Make(None, primary)>>)
    BY <1>1, <2>1 DEF Create
  <2> QED BY <2>1, <2>2, AskedNew
<1>2. CASE SignIn(r) \/ FindDefault(r)
  <2>1. Visible = {}
    BY <1>2 DEF SignIn, FindDefault, Visible
  <2> QED BY <1>2, <2>1, AskedNew DEF SignIn, FindDefault
<1>3. CASE ImportAny(r)
  <2>1. PICK a \in IF Visible = {} THEN {New} ELSE Visible : Import(r, a)
    BY <1>3 DEF ImportAny
  <2>2. PICK op, l : op = "import" /\ l = None
    OBVIOUS
  <2>3. CASE a \in Visible
    <3>0. PICK w : w = Do("book", a)
      OBVIOUS
    <3>1. w = Do("book", a) /\ w.kind = "book"
      BY <3>0, DoParts
    <3>2. Ask(r, op, a, l, <<w>>)
      BY <2>1, <2>2, <2>3, <3>1 DEF Import
    <3>3. OneIn(Primaries) /\ acc' = acc
      BY <3>2, AskedCalm
    <3>4. OneIn(Primaries)'
      BY <3>3 DEF OneIn, Primaries, Visible, Rows
    <3>5. Steady(<<w>>)'
      BY <3>1, <3>4, Lengths DEF Steady
    <3> QED BY <3>2, <3>5, AskedSteady
  <2>4. CASE a \notin Visible
    <3>0. PICK v, w : v = Make(None, TRUE) /\ w = Do("book", New)
      OBVIOUS
    <3>1. /\ v = Make(None, TRUE) /\ v.kind = "make" /\ ~v.row.archived
          /\ w = Do("book", New) /\ w.kind = "book"
      BY <3>0, DoParts, MakeParts
    <3>2. Ask(r, op, a, l, <<v, w>>)
      BY <2>1, <2>2, <2>4, <3>1 DEF Import
    <3>3. OneIn(Primaries) /\ acc' = acc
      BY <3>2, AskedCalm
    <3>4. Visible = {}
      BY <2>1, <2>4
    <3>5. OneIn(Primaries)' /\ Visible' = {}
      BY <3>3, <3>4 DEF OneIn, Primaries, Visible, Rows
    <3>6. NewOne(v)'
      BY <3>1, <3>5 DEF NewOne
    <3>7. Steady(<<v, w>>)'
      BY <3>1, <3>5, <3>6, Lengths DEF Steady
    <3> QED BY <3>2, <3>7, AskedSteady
  <2> QED BY <2>3, <2>4
<1> QED BY <1>1, <1>2, <1>3

LEMMA RowRequestsSteady ==
  ASSUME IInv, Solo, DefInv, NEW r \in Request, NEW a \in Id,
         \/ SetPrimary(r, a) \/ Restore(r, a) \/ Edit(r, a) \/ Reset(r, a),
         ~overlapped', ~odd'
  PROVE  DefInv'
<1>1. a \in Rows /\ acc[a] \in Row
  BY RowTyped DEF SetPrimary, Restore, Edit, Reset, IInv
<1>2. CASE SetPrimary(r, a)
  <2>0. PICK op, l, w : op = "primary" /\ l = None /\ w = Do("choose", a)
    OBVIOUS
  <2>1. op = "primary" /\ l = None /\ w = Do("choose", a) /\ w.kind = "choose"
    BY <2>0, DoParts
  <2>2. Ask(r, op, a, l, <<w>>)
    BY <1>2, <2>1 DEF SetPrimary
  <2>3. last'.op = "primary"
    BY <2>1, <2>2, AskedCalm
  <2>4. Steady(<<w>>)'
    BY <2>1, <2>3, Lengths DEF Steady
  <2> QED BY <2>2, <2>4, AskedSteady
<1>3. CASE Restore(r, a)
  <2>1. PICK row \in Row : row = [acc[a] EXCEPT !.archived = FALSE] /\ row.primary = acc[a].primary /\ ~row.archived
    BY <1>1, Changed, Kept DEF IInv
  <2>2. Ask(r, "restore", a, None, <<Save(a, row)>>)
    BY <1>3, <2>1 DEF Restore
  <2> QED BY <1>1, <2>1, <2>2, AskedPlain
<1>4. CASE Edit(r, a)
  <2>1. PICK row \in Row : row = acc[a]
    BY <1>1
  <2>2. Ask(r, "edit", a, None, <<Save(a, row)>>)
    BY <1>4, <2>1 DEF Edit
  <2>3. Orderly
    <3>1. PICK op, l, V : op = "edit" /\ l = None /\ V = <<Save(a, row)>>
      OBVIOUS
    <3> QED BY <2>2, <3>1, AskedCalm
  <2>4. row.primary => ~row.archived
    BY <1>1, <2>1, <2>3 DEF Orderly
  <2> QED BY <1>1, <2>1, <2>2, <2>4, AskedPlain
<1>5. CASE Reset(r, a)
  <2>1. PICK row \in Row : /\ row = [acc[a] EXCEPT !.login = None] /\ row.primary = acc[a].primary
                           /\ row.archived = acc[a].archived
    BY <1>1, Changed, Kept DEF IInv
  <2>2. Ask(r, "reset", a, None, <<Save(a, row)>>)
    BY <1>5, <2>1 DEF Reset
  <2>3. Orderly
    <3>1. PICK op, l, V : op = "reset" /\ l = None /\ V = <<Save(a, row)>>
      OBVIOUS
    <3> QED BY <2>2, <3>1, AskedCalm
  <2>4. row.primary => ~row.archived
    BY <1>1, <2>1, <2>3 DEF Orderly
  <2> QED BY <1>1, <2>1, <2>2, <2>4, AskedPlain
<1> QED BY <1>2, <1>3, <1>4, <1>5

\* An archived or deleted account: a primary one hands over to the oldest.
LEMMA LeaverSteady ==
  ASSUME IInv, Solo, DefInv, NEW r \in Request, NEW op \in {"archive", "delete"}, NEW a \in Rows, NEW l, NEW w \in Write,
         w.id = a, w.kind \in {"drop", "dropAll"} \/ (w.kind = "save" /\ w.row.archived /\ ~w.row.primary),
         Ask(r, op, a, l, Successor(a) \o <<w>>), ~overlapped', ~odd'
  PROVE  DefInv'
<1>1. PICK V : V = Successor(a) \o <<w>>
  OBVIOUS
<1>2. Ask(r, op, a, l, V)
  BY <1>1
<1>3. /\ OneIn(Primaries) /\ Orderly /\ acc' = acc
      /\ last'.op = op /\ last'.id = a /\ last'.was = Default
  BY <1>2, AskedCalm
<1>4. Primaries' = Primaries /\ Visible' = Visible /\ Rows' = Rows
  BY <1>3 DEF Primaries, Visible, Rows
<1>5. Leaves(w)'
  <2>1. a \in Primaries => a \in Default
    BY DEF Default
  <2> QED BY <1>3, <1>4, <2>1 DEF Leaves
<1>6. CASE ~acc[a].primary \/ Oldest(Visible) \subseteq {a}
  <2>1. V = <<w>>
    BY <1>1, <1>6, Joined DEF Successor
  <2>2. OneIn(Primaries' \ {a})
    BY <1>3, <1>4 DEF OneIn
  <2>3. Steady(V)'
    BY <1>5, <2>1, <2>2, Lengths DEF Steady
  <2> QED BY <1>2, <2>3, AskedSteady
<1>7. CASE acc[a].primary /\ ~(Oldest(Visible) \subseteq {a})
  <2>1. PICK b : b = CHOOSE c \in Oldest(Visible) : TRUE
    OBVIOUS
  <2>2. b \in Oldest(Visible) /\ b # a /\ b \in Rows /\ ~acc[b].archived
    BY <1>7, <2>1, OldestOne DEF Oldest, Visible, IInv
  <2>3. PICK row \in Row : row = [acc[b] EXCEPT !.primary = TRUE] /\ row.primary /\ ~row.archived
    BY <2>2, Kept DEF IInv
  <2>4. PICK v : v = Save(b, row)
    OBVIOUS
  <2>5. v.kind = "save" /\ v.id = b /\ v.row = row /\ v \in Write
    <3>1. b \in Id
      BY <2>2 DEF Rows
    <3> QED BY <2>3, <2>4, <3>1, SaveParts DEF Save, Write
  <2>6. V = <<v, w>>
    <3>1. Successor(a) = <<v>>
      BY <1>7, <2>1, <2>3, <2>4 DEF Successor
    <3> QED BY <1>1, <2>5, <3>1, Joined
  <2>7. a \in Primaries
    BY <1>3, <1>7 DEF Orderly, Primaries, Visible
  <2>8. HandsOver(v, w)'
    BY <1>4, <1>5, <2>2, <2>3, <2>5, <2>7 DEF HandsOver
  <2>9. OneIn(Primaries)'
    BY <1>3, <1>4 DEF OneIn
  <2>10. Steady(V)'
    BY <2>6, <2>8, <2>9, Lengths DEF Steady
  <2> QED BY <1>2, <2>10, AskedSteady
<1> QED BY <1>6, <1>7

LEMMA LeaversSteady ==
  ASSUME IInv, Solo, DefInv, NEW r \in Request, NEW a \in Id, Archive(r, a) \/ Delete(r, a),
         ~overlapped', ~odd'
  PROVE  DefInv'
<1>1. a \in Rows /\ TypeOK
  BY DEF Archive, Delete, IInv
<1>2. CASE Archive(r, a)
  <2>1. PICK row \in Row : /\ row = [acc[a] EXCEPT !.archived = TRUE, !.primary = FALSE]
                           /\ row.archived /\ ~row.primary /\ row.login = acc[a].login
    BY <1>1, Changed, Kept
  <2>2. PICK w : w = Save(a, row)
    OBVIOUS
  <2>3. w \in Write /\ w.kind = "save" /\ w.id = a /\ w.row = row
    <3>1. Save(a, row) \in Write /\ Save(a, row).kind = "save" /\ Save(a, row).id = a /\ Save(a, row).row = row
      <4>1. a \in Rows /\ row \in Row /\ row.login \in {acc[a].login, None}
        BY <1>1, <2>1
      <4> QED BY <4>1, SaveFits
    <3> QED BY <2>2, <3>1
  <2>4. PICK op : op = "archive"
    OBVIOUS
  <2>5. Ask(r, op, a, None, Successor(a) \o <<w>>)
    BY <1>2, <2>1, <2>2, <2>4 DEF Archive
  <2> QED BY <1>1, <2>1, <2>3, <2>4, <2>5, LeaverSteady
<1>3. CASE Delete(r, a)
  <2>1. PICK w, op : w = Do(IF a \in trades THEN "dropAll" ELSE "drop", a) /\ op = "delete"
    OBVIOUS
  <2>2. w.kind \in {"drop", "dropAll"} /\ w.id = a
    BY <2>1, DoParts
  <2>3. w \in Write
    BY <2>1 DEF Do, Write
  <2>4. Ask(r, op, a, None, Successor(a) \o <<w>>)
    BY <1>3, <2>1 DEF Delete
  <2> QED BY <1>1, <2>1, <2>2, <2>3, <2>4, LeaverSteady
<1> QED BY <1>2, <1>3

LEMMA LoginRequestsSteady ==
  ASSUME IInv, Solo, DefInv, NEW r \in Request, NEW l, Connect(r, l) \/ DerivSignIn(r, l) \/ Report(r, l),
         ~overlapped', ~odd'
  PROVE  DefInv'
<1>1. ASSUME NEW op, NEW a \in Of(l), Ask(r, op, a, l, <<Save(a, [acc[a] EXCEPT !.archived = FALSE])>>)
      PROVE  DefInv'
  <2>1. a \in Rows
    BY DEF Of
  <2>2. PICK row \in Row : row = [acc[a] EXCEPT !.archived = FALSE] /\ row.primary = acc[a].primary /\ ~row.archived
    BY <2>1, Changed, Kept DEF IInv
  <2> QED BY <1>1, <2>1, <2>2, AskedPlain
<1>2. CASE Connect(r, l)
  <2>1. CASE Of(l) = {}
    <3>1. PICK primary \in BOOLEAN : primary = (Visible = {})
      OBVIOUS
    <3>2. Ask(r, "connect", New, l, <<Make(l, primary)>>)
      BY <1>2, <2>1, <3>1 DEF Connect
    <3> QED BY <3>1, <3>2, AskedNew
  <2>2. CASE Of(l) # {}
    BY <1>1, <1>2, <2>2 DEF Connect
  <2> QED BY <2>1, <2>2
<1>3. CASE DerivSignIn(r, l)
  <2>1. CASE Of(l) = {}
    <3>1. PICK op, a, w : op = "deriv" /\ a = New /\ w = Make(l, TRUE)
      OBVIOUS
    <3>2. Ask(r, op, a, l, <<w>>)
      BY <1>3, <2>1, <3>1 DEF DerivSignIn
    <3>3. w.kind = "make"
      BY <3>1, MakeParts
    <3>4. Len(<<w>>) = 1 /\ <<w>>[1].kind = "make"
      BY <3>3
    <3> QED BY <3>1, <3>2, <3>4, AskedSteady
  <2>2. CASE Of(l) # {}
    <3>1. PICK a \in Of(l) : Ask(r, "deriv", a, l, <<Save(a, acc[a])>>)
      BY <1>3, <2>2 DEF DerivSignIn
    <3>2. a \in Rows /\ acc[a] \in Row
      BY RowTyped DEF Of, IInv
    <3>3. PICK row \in Row : row = acc[a]
      BY <3>2
    <3>4. Orderly
      <4>1. PICK op, V : op = "deriv" /\ V = <<Save(a, acc[a])>>
        OBVIOUS
      <4> QED BY <3>1, <4>1, AskedCalm
    <3>5. row.primary => ~row.archived
      BY <3>2, <3>3, <3>4 DEF Orderly
    <3> QED BY <3>1, <3>2, <3>3, <3>5, AskedPlain
  <2> QED BY <2>1, <2>2
<1>4. CASE Report(r, l)
  <2>1. CASE Of(l) = {}
    BY <1>4, <2>1, AskedNew DEF Report
  <2>2. CASE Of(l) # {}
    BY <1>1, <1>4, <2>2 DEF Report
  <2> QED BY <2>1, <2>2
<1> QED BY <1>2, <1>3, <1>4

LEMMA DisconnectSteady ==
  ASSUME IInv, Solo, DefInv, NEW r \in Request, NEW l, Disconnect(r, l), ~overlapped', ~odd' PROVE DefInv'
<1>1. PICK a \in Of(l) :
        Begin(r, "disconnect", a, [Rest EXCEPT !.at = "write", !.writes = <<Save(a, acc[a])>>], {a, l})
  BY DEF Disconnect
<1>2. a \in Rows /\ acc[a] \in Row
  BY RowTyped DEF Of, IInv
<1>3. PICK row \in Row : row = acc[a]
  BY <1>2
<1>4. PICK w : w = Save(a, row) /\ w.kind = "save" /\ w.id = a /\ w.row = row
  <2>1. PICK w : w = Save(a, row)
    OBVIOUS
  <2> QED BY <2>1, SaveParts
<1>5. PICK op, state, objects : /\ op = "disconnect" /\ state = [Rest EXCEPT !.at = "write", !.writes = <<w>>]
                                /\ objects = {a, l}
  OBVIOUS
<1>6. Begin(r, op, a, state, objects) /\ acc' = acc
  BY <1>1, <1>3, <1>4, <1>5 DEF Disconnect, db
<1>7. OneIn(Primaries) /\ Orderly
  BY <1>6, Calm
<1>8. OneIn(Primaries)' /\ Plain(w)'
  BY <1>2, <1>3, <1>4, <1>6, <1>7 DEF Plain, Orderly, OneIn, Primaries, Visible, Rows
<1>9. PICK q : q = [state EXCEPT !.op = op]
  OBVIOUS
<1>10. q.at = "write" /\ q.writes = <<w>>
  BY <1>5, <1>9 DEF Rest
<1>11. Shaped(q)'
  BY <1>8, <1>10, Lengths DEF Shaped, Steady
<1> QED BY <1>6, <1>9, <1>10, <1>11, BegunSteady

\* The list that begins may take the default account for a mistyped login.
LEMMA ListSteady ==
  ASSUME IInv, Solo, DefInv, NEW r \in Request, List(r), ~overlapped', ~odd' PROVE DefInv'
<1>1. PICK op, a, state, objects :
        /\ op = "list" /\ a = New /\ objects = Rubbish
        /\ state = [Rest EXCEPT !.at = "discover", !.manual = NoManual,
                                !.todo = {acc[b].login : b \in Rows \ Rubbish} \ {None}]
  OBVIOUS
<1>2. Begin(r, op, a, state, objects)
  BY <1>1 DEF List
<1>3. /\ OneIn(Primaries) /\ Orderly
      /\ last'.op = "list" /\ last'.was = Default /\ last'.chosen = (Primaries # {})
  BY <1>1, <1>2, Calm
<1>4. PICK q : q = [state EXCEPT !.op = op]
  OBVIOUS
<1>5. Quiet /\ req' = [req EXCEPT ![r] = q] /\ req \in [Request -> ReqType]
  BY <1>2, <1>4, BeginAlone, ReqTyped DEF IInv
<1>6. q.at = "discover" /\ q.writes = <<>>
  <2>1. state.writes = <<>> /\ state.at = "discover"
    BY <1>1 DEF Rest
  <2>2. DOMAIN state = DOMAIN Rest
    BY <1>1
  <2> QED BY <1>1, <1>4, <2>1, <2>2 DEF Rest
<1>7. acc' = [b \in Id |-> IF b \in Rubbish THEN None ELSE acc[b]]
  BY DEF List
<1>8. Rows' = Rows \ Rubbish /\ \A b \in Rows' : acc'[b] = acc[b]
  BY <1>7 DEF Rows
<1>9. Primaries' = Primaries \ Rubbish
  BY <1>8 DEF Primaries, Visible
<1>10. OneIn(Primaries)' /\ Orderly'
  BY <1>3, <1>8, <1>9 DEF OneIn, Orderly
<1>11. Stays'
  <2>1. CASE Primaries = {}
    BY <1>3, <2>1 DEF Stays
  <2>2. CASE Primaries # {}
    <3>1. PICK p : Primaries = {p}
      BY <1>3, <2>2 DEF OneIn
    <3>2. last'.was = Primaries
      BY <1>3, <2>2 DEF Default
    <3>3. CASE p \in Rubbish
      <4>1. last'.was \cap Rows' = {}
        BY <1>8, <3>1, <3>2, <3>3
      <4> QED BY <1>3, <4>1 DEF Stays
    <3>4. CASE p \notin Rubbish
      <4>1. Primaries' = last'.was /\ Primaries' # {}
        BY <1>9, <3>1, <3>2, <3>4
      <4> QED BY <4>1 DEF Stays
    <3> QED BY <3>3, <3>4
  <2> QED BY <2>1, <2>2
<1>12. Shaped(q)'
  <2>1. PICK V : V = <<>> /\ q.writes = V
    BY <1>6
  <2>2. Steady(V)'
    BY <1>10, <2>1 DEF Steady
  <2> QED BY <2>1, <2>2 DEF Shaped
<1>13. \A s \in Request : req'[s].at # "idle" => s = r
  BY <1>5 DEF Quiet
<1>14. ASSUME NEW s \in Request, req'[s].at # "idle" PROVE Shaped(req[s])'
  <2>1. req'[s] = q
    BY <1>5, <1>13, <1>14
  <2> QED BY <1>12, <2>1
<1> QED BY <1>10, <1>11, <1>14 DEF DefInv, Orderly, Shaped, Next1

\* What a step of an only request finds, and what it must leave.
LEMMA StepCalm ==
  ASSUME IInv, Solo, DefInv, NEW r \in Request, Step(r), ~overlapped', ~odd'
  PROVE  Stays /\ Orderly /\ Shaped(req[r]) /\ last' = last /\ crossed = {}
<1>1. ~overlapped /\ req[r].at # "idle" /\ last' = last /\ crossed = {}
  BY StepAlone
<1>2. ~odd
  BY DEF Step, SaveRow, MakeRow, Choose, Drop, Book, Discover, Adopt, Manual, Show, ghost
<1> QED BY <1>1, <1>2, DefParts

LEMMA StepSteady ==
  ASSUME IInv, Solo, DefInv, NEW r \in Request, Step(r), ~overlapped', ~odd', IInv',
         Stays', Orderly', NEW V, V = req'[r].writes, Steady(V)'
  PROVE  DefInv'
<1>1. \A s \in Request \ {r} : req'[s] = req[s] /\ req[s].at = "idle"
  BY StepAlone
<1>2. ASSUME Quiet' PROVE OneIn(Primaries)'
  <2>1. V = <<>>
    BY <1>2 DEF Quiet, IInv, TypeOK
  <2>2. Len(V) = 0
    BY <2>1
  <2> QED BY <2>2 DEF Steady
<1>3. ASSUME NEW s \in Request, req'[s].at # "idle" PROVE Shaped(req[s])'
  <2>1. s = r
    BY <1>1, <1>3
  <2> QED BY <2>1 DEF Shaped
<1> QED BY <1>2, <1>3 DEF DefInv, Orderly, Shaped, Next1

\* While a request has nothing to write, there is one primary account at most.
LEMMA IdleOne ==
  ASSUME NEW q, Shaped(q), q.writes = <<>> PROVE OneIn(Primaries)
<1>1. Len(q.writes) = 0
  OBVIOUS
<1> QED BY <1>1 DEF Shaped, Steady

LEMMA ReadersSteady ==
  ASSUME IInv, Solo, DefInv, NEW r \in Request, Discover(r) \/ Adopt(r) \/ Manual(r) \/ Show(r),
         ~overlapped', ~odd', IInv'
  PROVE  DefInv'
<1>0. Step(r)
  BY DEF Step
<1>1. Stays /\ Orderly /\ Shaped(req[r]) /\ last' = last /\ acc' = acc
  BY <1>0, StepCalm DEF Discover, Adopt, Manual, Show, db
<1>2. req \in [Request -> ReqType] /\ req[r] \in ReqType
  BY ReqTyped DEF IInv
<1>3. OneIn(Primaries)
  <2>1. req[r].writes = <<>>
    BY DEF IInv, TypeOK, Discover, Adopt, Manual, Show
  <2> QED BY <1>1, <2>1, IdleOne
<1>4. Rows' = Rows /\ Visible' = Visible /\ Primaries' = Primaries
  BY <1>1 DEF Rows, Visible, Primaries
<1>5. Stays' /\ Orderly' /\ OneIn(Primaries)'
  BY <1>1, <1>3, <1>4 DEF Stays, Orderly, OneIn
<1>6. ASSUME NEW w, req'[r].writes = <<w>>, Plain(w)' \/ NewOne(w)' PROVE DefInv'
  <2>1. Steady(<<w>>)'
    BY <1>5, <1>6, Lengths DEF Steady
  <2> QED BY <1>0, <1>5, <1>6, <2>1, StepSteady
<1>7. ASSUME req'[r].writes = <<>> PROVE DefInv'
  <2>1. PICK V : V = <<>>
    OBVIOUS
  <2>2. Steady(V)'
    BY <1>5, <2>1 DEF Steady
  <2> QED BY <1>0, <1>5, <1>7, <2>1, <2>2, StepSteady
<1>8. CASE Discover(r)
  <2>1. req'[r].writes = <<>>
    <3>1. req'[r] = [req[r] EXCEPT !.at = "find", !.todo = known \ req[r].todo, !.manual = Lacking(r)]
      BY <1>2, <1>8 DEF Discover
    <3>2. req[r].writes = <<>>
      BY <1>8 DEF IInv, TypeOK, Discover
    <3> QED BY <1>2, <3>1, <3>2 DEF ReqType
  <2> QED BY <1>7, <2>1
<1>9. CASE Adopt(r)
  <2>1. PICK l \in req[r].todo :
          \E W \in IF Of(l) = {} THEN {<<Make(l, FALSE)>>}
                    ELSE {<<Save(a, [acc[a] EXCEPT !.archived = FALSE])>> : a \in Of(l)} :
            Takes(r, [req[r] EXCEPT !.at = "write", !.writes = W, !.todo = @ \ {l}], Objects(W))
    BY <1>9 DEF Adopt
  <2>2. ASSUME NEW W, Takes(r, [req[r] EXCEPT !.at = "write", !.writes = W, !.todo = @ \ {l}], Objects(W))
        PROVE  req'[r].writes = W
    BY <1>2, <2>2 DEF Takes, ReqType
  <2>3. CASE Of(l) = {}
    <3>1. PICK w : w = Make(l, FALSE)
      OBVIOUS
    <3>2. req'[r].writes = <<w>>
      BY <2>1, <2>2, <2>3, <3>1
    <3>3. NewOne(w)'
      BY <3>1 DEF Make, NewOne
    <3> QED BY <1>6, <3>2, <3>3
  <2>4. CASE Of(l) # {}
    <3>1. PICK a \in Of(l) : req'[r].writes = <<Save(a, [acc[a] EXCEPT !.archived = FALSE])>>
      BY <2>1, <2>2, <2>4
    <3>2. a \in Rows
      BY DEF Of
    <3>3. PICK row : row = [acc[a] EXCEPT !.archived = FALSE] /\ row.primary = acc[a].primary /\ ~row.archived
      BY <3>2, Kept DEF IInv
    <3>4. PICK w : w = Save(a, row)
      OBVIOUS
    <3>5. w.kind = "save" /\ w.id = a /\ w.row = row
      BY <3>4, SaveParts
    <3>6. Plain(w)'
      BY <1>1, <3>3, <3>5 DEF Plain
    <3> QED BY <1>6, <3>1, <3>3, <3>4, <3>6
  <2> QED BY <2>3, <2>4
<1>10. CASE Manual(r)
  <2>1. PICK w : w = Make(None, FALSE)
    OBVIOUS
  <2>2. req'[r].writes = <<w>>
    BY <1>2, <1>10, <2>1 DEF Manual, Takes, ReqType
  <2>3. NewOne(w)'
    BY <2>1 DEF Make, NewOne
  <2> QED BY <1>6, <2>2, <2>3
<1>11. CASE Show(r)
  <2>1. CASE Visible # {}
    <3>1. req'[r].writes = <<>>
      BY <1>2, <1>11, <2>1, RestType DEF Show
    <3> QED BY <1>7, <3>1
  <2>2. CASE Visible = {}
    <3>1. PICK w : w = Make(None, TRUE)
      OBVIOUS
    <3>2. req'[r].writes = <<w>>
      BY <1>2, <1>11, <2>2, <3>1 DEF Show, Rest
    <3>3. NewOne(w)'
      BY <1>4, <2>2, <3>1 DEF Make, NewOne
    <3> QED BY <1>6, <3>2, <3>3
  <2> QED BY <2>1, <2>2
<1> QED BY <1>8, <1>9, <1>10, <1>11

LEMMA WroteRest ==
  ASSUME IInv, IInv', NEW r \in Request, req[r].at = "write", Wrote(r) PROVE req'[r].writes = Rest1(r)
<1>1. made' \in Id \cup {New} /\ req \in [Request -> ReqType]
  BY ReqTyped, Consts DEF Id, New, IInv, TypeOK
<1>2. \E q \in ReqType : req' = [req EXCEPT ![r] = q] /\ q.writes = Rest1(r)
  BY <1>1, WroteForm
<1>3. PICK q \in ReqType : req' = [req EXCEPT ![r] = q] /\ q.writes = Rest1(r)
  BY <1>2
<1> QED BY <1>1, <1>3

\* A primary account that leaves is the one the user archived or deleted.
LEMMA LeftStays ==
  ASSUME Stays, last' = last, NEW w, Leaves(w), Rows' \subseteq Rows, Primaries' = Primaries \ {w.id}
  PROVE  Stays'
<1>1. CASE w.id \in Primaries
  BY <1>1 DEF Leaves, Stays
<1>2. CASE w.id \notin Primaries
  BY <1>2 DEF Stays
<1> QED BY <1>1, <1>2

LEMMA SaveSteady ==
  ASSUME IInv, Solo, DefInv, NEW r \in Request, SaveRow(r), ~overlapped', ~odd', IInv' PROVE DefInv'
<1>0. Step(r)
  BY DEF Step
<1>1. Stays /\ Orderly /\ Shaped(req[r]) /\ last' = last /\ crossed = {}
  BY <1>0, StepCalm
<1>2. req[r].at = "write" /\ Wrote(r)
  BY DEF SaveRow, Goes
<1>3. PICK w \in Write : w = Next1(r) /\ FitsOne(w) /\ w.kind = "save" /\ acc' = [acc EXCEPT ![w.id] = w.row]
  BY <1>2, WritingFits DEF SaveRow, Goes
<1>4. w.id \in Rows /\ w.id \in Id /\ w.row # None /\ w.row \in Row
  BY <1>1, <1>3, Consts DEF FitsOne, Write, Rows
<1>5. acc'[w.id] = w.row /\ Rows' = Rows /\ \A b \in Rows \ {w.id} : acc'[b] = acc[b]
  BY <1>3, <1>4 DEF IInv, TypeOK, Rows
<1>6. /\ w.row.primary /\ ~w.row.archived => Primaries' = Primaries \cup {w.id}
      /\ ~(w.row.primary /\ ~w.row.archived) => Primaries' = Primaries \ {w.id}
  BY <1>4, <1>5 DEF Primaries, Visible
<1>7. (w.row.archived => ~w.row.primary) => Orderly'
  BY <1>1, <1>5 DEF Orderly
<1>8. PICK V : V = Rest1(r) /\ V = req'[r].writes
  BY <1>2, WroteRest
<1>9. Len(req[r].writes) = 1 => V = <<>> /\ Len(V) = 0
  BY <1>8 DEF Rest1
<1>10. CASE Len(req[r].writes) = 1 /\ OneIn(Primaries) /\ Plain(w)
  <2>1. Primaries' = Primaries
    BY <1>1, <1>4, <1>6, <1>10 DEF Plain, Orderly, Primaries, Visible
  <2>2. Stays' /\ OneIn(Primaries)' /\ Orderly'
    BY <1>1, <1>5, <1>7, <1>10, <2>1 DEF Stays, OneIn, Plain
  <2>3. Steady(V)'
    BY <1>9, <1>10, <2>2 DEF Steady
  <2> QED BY <1>0, <1>8, <2>2, <2>3, StepSteady
<1>11. CASE Len(req[r].writes) = 1 /\ Leaves(w) /\ OneIn(Primaries \ {w.id})
  <2>1. w.row.archived /\ ~w.row.primary /\ Primaries' = Primaries \ {w.id}
    BY <1>3, <1>6, <1>11 DEF Leaves
  <2>2. Stays'
    BY <1>1, <1>5, <1>11, <2>1, LeftStays
  <2>3. OneIn(Primaries)' /\ Orderly'
    BY <1>7, <1>11, <2>1 DEF OneIn
  <2>4. Steady(V)'
    BY <1>9, <1>11, <2>3 DEF Steady
  <2> QED BY <1>0, <1>8, <2>2, <2>3, <2>4, StepSteady
<1>12. CASE Len(req[r].writes) = 2 /\ OneIn(Primaries) /\ HandsOver(w, req[r].writes[2])
  <2>1. PICK u : u = req[r].writes[2]
    OBVIOUS
  <2>2. w.row.primary /\ ~w.row.archived /\ w.id # u.id /\ Leaves(u) /\ u.id \in Primaries
    BY <1>12, <2>1 DEF HandsOver
  <2>3. V = <<u>>
    BY <1>8, <1>12, <2>1, <2>2 DEF Rest1, Leaves
  <2>4. last.op \in {"archive", "delete"} /\ last.id = u.id /\ u.id \in last.was
    BY <2>2 DEF Leaves
  <2>5. Stays' /\ Leaves(u)' /\ Orderly'
    BY <1>1, <1>7, <2>2, <2>4 DEF Stays, Leaves
  <2>6. OneIn(Primaries' \ {u.id})
    BY <1>6, <1>12, <2>2 DEF OneIn
  <2>7. Steady(V)'
    BY <2>3, <2>5, <2>6, Lengths DEF Steady
  <2> QED BY <1>0, <1>8, <2>5, <2>7, StepSteady
<1>13. req[r].writes # <<>>
  BY <1>2 DEF IInv, TypeOK
<1> QED BY <1>1, <1>3, <1>10, <1>11, <1>12, <1>13 DEF Shaped, Steady, NewOne, Next1

LEMMA MakeSteady ==
  ASSUME IInv, Solo, DefInv, NEW r \in Request, MakeRow(r), ~overlapped', ~odd', IInv' PROVE DefInv'
<1>0. Step(r)
  BY DEF Step
<1>1. Stays /\ Orderly /\ Shaped(req[r]) /\ last' = last
  BY <1>0, StepCalm
<1>2. req[r].at = "write" /\ Wrote(r) /\ made < MaxAccounts /\ req[r].op # "deriv"
  BY DEF MakeRow, Goes
<1>3. PICK n : n = made + 1
  OBVIOUS
<1>4. PICK w \in Write : w = Next1(r) /\ FitsOne(w) /\ w.kind = "make" /\ acc' = [acc EXCEPT ![n] = w.row]
  BY <1>2, <1>3, WritingFits DEF MakeRow, Goes
<1>5. w.row # None /\ w.row \in Row /\ n \in Id /\ n \notin 1..made /\ Rows \subseteq 1..made
  <2>1. made \in Nat /\ Rows \subseteq 1..made
    BY DEF IInv, TypeOK
  <2> QED BY <1>2, <1>3, <1>4, <2>1, Consts DEF FitsOne, Write, Id
<1>6. acc'[n] = w.row /\ Rows' = Rows \cup {n} /\ \A b \in Rows : acc'[b] = acc[b]
  BY <1>4, <1>5 DEF IInv, TypeOK, Rows
<1>7. OneIn(Primaries) /\ NewOne(w) /\ (Len(req[r].writes) = 2 => req[r].writes[2].kind = "book")
      /\ Len(req[r].writes) \in {1, 2}
  <2>1. req[r].writes # <<>>
    BY <1>2 DEF IInv, TypeOK
  <2>2. Len(req[r].writes) \in {1, 2}
    BY <1>2, WritingFits
  <2> QED BY <1>1, <1>2, <1>4, <2>1, <2>2 DEF Shaped, Steady, Plain, Leaves, HandsOver, Next1
<1>8. Orderly'
  BY <1>1, <1>6, <1>7 DEF Orderly, NewOne
<1>9. Primaries' = IF w.row.primary THEN Primaries \cup {n} ELSE Primaries
  BY <1>5, <1>6, <1>7 DEF Primaries, Visible, NewOne
<1>10. w.row.primary => Primaries = {}
  BY <1>7 DEF NewOne, Primaries
<1>11. OneIn(Primaries)'
  BY <1>7, <1>9, <1>10 DEF OneIn
<1>12. Stays'
  <2>1. n \notin last.was
    BY <1>5 DEF IInv, TypeOK
  <2> QED BY <1>1, <1>6, <1>9, <1>10, <2>1 DEF Stays
<1>13. PICK V : V = Rest1(r) /\ V = req'[r].writes
  BY <1>2, WroteRest
<1>14. Steady(V)'
  <2>1. CASE Len(req[r].writes) = 1
    <3>1. V = <<>>
      BY <1>13, <2>1 DEF Rest1
    <3> QED BY <1>11, <3>1 DEF Steady
  <2>2. CASE Len(req[r].writes) = 2
    <3>1. PICK u : V = <<u>> /\ u.kind = "book"
      <4>0. 2 \in 1..Len(req[r].writes)
        BY <2>2
      <4>1. PICK v \in Write : v = req[r].writes[2]
        BY <1>2, <4>0, WritingFits
      <4>2. V = <<[v EXCEPT !.id = made']>> \/ V = <<v>>
        BY <1>13, <2>2, <4>1 DEF Rest1
      <4>3. v.kind = "book" /\ [v EXCEPT !.id = made'].kind = "book"
        BY <1>7, <2>2, <4>1 DEF Write
      <4> QED BY <4>2, <4>3
    <3> QED BY <1>11, <3>1, Lengths DEF Steady
  <2> QED BY <1>7, <2>1, <2>2
<1> QED BY <1>0, <1>8, <1>12, <1>13, <1>14, StepSteady

LEMMA ChooseSteady ==
  ASSUME IInv, Solo, DefInv, NEW r \in Request, Choose(r), ~overlapped', ~odd', IInv' PROVE DefInv'
<1>0. Step(r)
  BY DEF Step
<1>1. Stays /\ Orderly /\ Shaped(req[r]) /\ last' = last
  BY <1>0, StepCalm
<1>2. PICK w : w = Next1(r)
  OBVIOUS
<1>3. /\ req[r].at = "write" /\ Wrote(r) /\ w.kind = "choose" /\ ~(w.id \in Rows /\ acc[w.id].archived)
      /\ acc' = [b \in Id |-> IF acc[b] = None THEN None ELSE [acc[b] EXCEPT !.primary = (b = w.id)]]
  BY <1>2 DEF Choose, Goes
<1>4. req[r].writes # <<>>
  BY <1>3 DEF IInv, TypeOK
<1>5. last.op = "primary"
  BY <1>1, <1>2, <1>3, <1>4 DEF Shaped, Steady, Plain, NewOne, Leaves, HandsOver, Next1
<1>6. ASSUME NEW b \in Rows'
      PROVE  b \in Rows /\ acc'[b].archived = acc[b].archived /\ (acc'[b].primary => b = w.id)
  <2>1. b \in Id /\ b \in Rows
    BY <1>3, <1>6 DEF Rows
  <2>2. acc[b] \in Row /\ acc[b] # None
    BY <2>1, RowTyped DEF IInv, Rows
  <2>3. PICK primary \in BOOLEAN : primary = (b = w.id)
    OBVIOUS
  <2>4. acc'[b] = [acc[b] EXCEPT !.primary = primary]
    BY <1>3, <2>1, <2>2, <2>3
  <2> QED BY <2>1, <2>2, <2>3, <2>4 DEF Row
<1>7. Orderly' /\ OneIn(Primaries)' /\ Stays'
  BY <1>1, <1>3, <1>5, <1>6 DEF Orderly, OneIn, Primaries, Visible, Stays
<1>8. PICK V : V = Rest1(r) /\ V = req'[r].writes
  BY <1>3, WroteRest
<1>9. V = <<>>
  BY <1>2, <1>3, <1>8, LastWrite
<1>10. Steady(V)'
  BY <1>7, <1>9 DEF Steady
<1> QED BY <1>0, <1>7, <1>8, <1>10, StepSteady

LEMMA DropSteady ==
  ASSUME IInv, Solo, DefInv, NEW r \in Request, Drop(r), ~overlapped', ~odd', IInv' PROVE DefInv'
<1>0. Step(r)
  BY DEF Step
<1>1. Stays /\ Orderly /\ Shaped(req[r]) /\ last' = last
  BY <1>0, StepCalm
<1>2. PICK w : w = Next1(r)
  OBVIOUS
<1>3. /\ req[r].at = "write" /\ Wrote(r) /\ w.kind \in {"drop", "dropAll"} /\ acc' = [acc EXCEPT ![w.id] = None]
  BY <1>2 DEF Drop, Goes
<1>4. req[r].writes # <<>>
  BY <1>3 DEF IInv, TypeOK
<1>5. Leaves(w) /\ OneIn(Primaries \ {w.id})
  BY <1>1, <1>2, <1>3, <1>4 DEF Shaped, Steady, Plain, NewOne, HandsOver, Next1
<1>6. Rows' = Rows \ {w.id} /\ \A b \in Rows' : acc'[b] = acc[b]
  BY <1>3 DEF IInv, TypeOK, Rows
<1>7. Primaries' = Primaries \ {w.id}
  BY <1>6 DEF Primaries, Visible
<1>8. Stays'
  BY <1>1, <1>5, <1>6, <1>7, LeftStays
<1>9. Orderly' /\ OneIn(Primaries)'
  BY <1>1, <1>5, <1>6, <1>7 DEF Orderly, OneIn
<1>10. PICK V : V = Rest1(r) /\ V = req'[r].writes
  BY <1>3, WroteRest
<1>11. V = <<>>
  BY <1>2, <1>3, <1>10, LastWrite
<1>12. Steady(V)'
  BY <1>9, <1>11 DEF Steady
<1> QED BY <1>0, <1>8, <1>9, <1>10, <1>12, StepSteady

LEMMA BookSteady ==
  ASSUME IInv, Solo, DefInv, NEW r \in Request, Book(r), ~overlapped', ~odd', IInv' PROVE DefInv'
<1>0. Step(r)
  BY DEF Step
<1>1. Stays /\ Orderly /\ Shaped(req[r]) /\ last' = last
  BY <1>0, StepCalm
<1>2. PICK w : w = Next1(r)
  OBVIOUS
<1>3. req[r].at = "write" /\ Wrote(r) /\ w.kind = "book" /\ acc' = acc
  BY <1>2 DEF Book, Goes
<1>4. req[r].writes # <<>>
  BY <1>3 DEF IInv, TypeOK
<1>5. OneIn(Primaries)
  BY <1>1, <1>2, <1>3, <1>4 DEF Shaped, Steady, Plain, NewOne, Leaves, HandsOver, Next1
<1>6. Rows' = Rows /\ Primaries' = Primaries
  BY <1>3 DEF Primaries, Visible, Rows
<1>7. Stays' /\ Orderly' /\ OneIn(Primaries)'
  BY <1>1, <1>3, <1>5, <1>6 DEF Stays, Orderly, OneIn
<1>8. PICK V : V = Rest1(r) /\ V = req'[r].writes
  BY <1>3, WroteRest
<1>9. V = <<>>
  BY <1>2, <1>3, <1>8, LastWrite
<1>10. Steady(V)'
  BY <1>7, <1>9 DEF Steady
<1> QED BY <1>0, <1>7, <1>8, <1>10, StepSteady

LEMMA DefStays == IInv /\ IInv' /\ Solo /\ DefInv /\ [Next]_vars => DefInv'
<1> SUFFICES ASSUME IInv, IInv', Solo, DefInv, [Next]_vars, ~overlapped', ~odd' PROVE DefInv'
  BY DEF DefInv
<1>1. CASE UNCHANGED <<acc, req, overlapped, odd, last>>
  <2>1. Stays /\ Orderly /\ (Quiet => OneIn(Primaries)) /\ \A r \in Request : req[r].at # "idle" => Shaped(req[r])
    BY <1>1, DefParts
  <2>2. Rows' = Rows /\ Visible' = Visible /\ Primaries' = Primaries
    BY <1>1 DEF Rows, Visible, Primaries
  <2>3. Stays' /\ Orderly' /\ (Quiet' => OneIn(Primaries)')
    BY <1>1, <2>1, <2>2 DEF Stays, Orderly, Quiet, OneIn
  <2>4. \A w : /\ Plain(w) => Plain(w)'
               /\ NewOne(w) => NewOne(w)'
               /\ Leaves(w) => Leaves(w)'
    BY <1>1, <2>2 DEF Plain, NewOne, Leaves
  <2>5. \A v, w : HandsOver(v, w) => HandsOver(v, w)'
    BY <2>2, <2>4 DEF HandsOver
  <2>6. \A V : Steady(V) => Steady(V)'
    BY <1>1, <2>2, <2>4, <2>5 DEF Steady, OneIn
  <2>7. \A r \in Request : req'[r].at # "idle" => Shaped(req[r])'
    BY <1>1, <2>1, <2>6 DEF Shaped
  <2> QED BY <2>3, <2>7 DEF DefInv, Orderly, Shaped, Next1
<1>2. CASE UNCHANGED vars
  BY <1>1, <1>2 DEF vars, db, ghost
<1>3. ASSUME NEW l \in running, Logged(l) PROVE DefInv'
  BY <1>1, <1>3 DEF Logged, db, ghost
<1>4. ASSUME NEW r \in Request, Step(r) PROVE DefInv'
  BY <1>4, SaveSteady, MakeSteady, ChooseSteady, DropSteady, BookSteady, ReadersSteady DEF Step
<1>5. ASSUME NEW r \in Request, Asks(r) PROVE DefInv'
  BY <1>5, ListSteady, MakersSteady, RowRequestsSteady, LeaversSteady, LoginRequestsSteady, DisconnectSteady DEF Asks
<1>6. ASSUME NEW r \in Request, NEW l \in Mt5, Report(r, l) PROVE DefInv'
  BY <1>6, LoginRequestsSteady
<1> QED BY <1>2, <1>3, <1>4, <1>5, <1>6 DEF Next

-----------------------------------------------------------------------------
(***************************************************************************)
(* What requests that come one after the other promise.                    *)
(***************************************************************************)

LEMMA AloneStarts == Init => Solo /\ ListInv /\ DefInv
<1> SUFFICES ASSUME Init PROVE Solo /\ ListInv /\ DefInv
  OBVIOUS
<1>1. \A r \in Request : req[r].at = "idle"
  BY DEF Init, Rest
<1>2. Rows = {} /\ Primaries = {} /\ last.op = "none" /\ ~last.chosen /\ crossed = {}
  BY DEF Init, Rows, Primaries, Visible
<1>3. Solo /\ ListInv
  BY <1>1, <1>2 DEF Solo, ListInv
<1>4. Stays /\ OneIn(Primaries)
  BY <1>2 DEF Stays, OneIn
<1> QED BY <1>1, <1>2, <1>3, <1>4 DEF DefInv

\* What is known of requests that are alone, of their lists and of the default
\* account.
LEMMA AloneInvariant == Spec => [](Solo /\ ListInv /\ DefInv)
<1>1. IInv /\ IInv' /\ (Solo /\ ListInv /\ DefInv) /\ [Next]_vars => (Solo /\ ListInv /\ DefInv)'
  BY SoloStays, ListStays, DefStays
<1> QED BY <1>1, AloneStarts, Invariant, PTL DEF Spec

\* Requests that came one after the other leave at most one primary account, and
\* the user's choice stays the default one whatever connections, messages of the
\* worker, restored accounts and deletions of others do.
THEOREM ChoiceStays == Spec => []DefaultStays
<1>1. IInv /\ DefInv => DefaultStays
  <2> SUFFICES ASSUME IInv, DefInv, Alone, ~odd PROVE DefaultStays
    BY DEF DefaultStays
  <2>1. Stays /\ OneIn(Primaries)
    BY DEF DefInv, Alone
  <2>2. Cardinality(Primaries) <= 1
    <3>1. CASE Primaries = {}
      BY <3>1, FS_EmptySet
    <3>2. CASE Primaries # {}
      <4>1. PICK p : Primaries = {p}
        BY <2>1, <3>2 DEF OneIn
      <4> QED BY <4>1, FS_Singleton
    <3> QED BY <3>1, <3>2
  <2>3. Primaries # {} => Default = Primaries
    BY DEF Default
  <2> QED BY <2>1, <2>2, <2>3 DEF DefaultStays, Stays
<1> QED BY <1>1, Invariant, AloneInvariant, PTL

\* Two accounts of a login are due to requests that crossed, and a list nobody
\* disturbs leaves an account for every login known when it began, something to
\* show and, beside MT5 accounts, a manual one.
THEOREM ListsMatch == Spec => []AccountsMatchLogins
<1>1. Unique /\ ListInv => AccountsMatchLogins
  BY DEF Unique, Excused, ListInv, Listed, HasManual, Alone, AccountsMatchLogins
<1>2. IInv => Unique
  BY DEF IInv
<1> QED BY <1>1, <1>2, Invariant, AloneInvariant, PTL
=============================================================================
