------------------------------ MODULE Accounts ------------------------------
(***************************************************************************)
(* The trading accounts of a user: the requests that create, choose,       *)
(* archive, restore, reset and delete them, the sign-in and the imports    *)
(* that create a default one, the messages of the worker, and the list,    *)
(* which first reconciles the accounts with the logins it discovers.       *)
(*                                                                         *)
(* A request reads and then writes row by row, each write a statement of   *)
(* its own: a saved entity writes every column as it was read, and inserts *)
(* the row again when it is gone.                                          *)
(***************************************************************************)
EXTENDS Naturals, Sequences, FiniteSets

CONSTANTS
  Mt5, Deriv, Typo, \* logins of 5 to 10 digits; of Deriv; of more digits
  Request,     \* requests the server has in hand at once
  MaxAccounts, \* bound on accounts ever created
  Budgets,     \* how many calls of each operation, to choose from
  None

Login == Mt5 \cup Deriv \cup Typo
Id    == 1..MaxAccounts \* in the order of createdAt
New   == 0
Ops   == {"list", "default", "signin", "create", "connect", "disconnect", "report", "deriv", "import",
          "primary", "archive", "restore", "edit", "reset", "delete"}

ASSUME AccountsAssumption ==
  /\ None \notin Login /\ MaxAccounts \in Nat
  /\ Mt5 \cap Typo = {} /\ Mt5 \cap Deriv = {} /\ Deriv \cap Typo = {}
  /\ Login \cap (Id \cup {New}) = {} /\ None \notin Id \cup {New} /\ Budgets \subseteq [Ops -> Nat]

VARIABLES
  acc, made, \* the rows, and how many there have been
  trades,    \* accounts the trade table has rows of
  known,     \* logins of cloud_instances and import_logs
  running,   \* logins the worker serves
  req, left,
  overlapped, \* history: two requests were in hand at once
  odd,        \* history: a primary that was archived, or of a Deriv login
  crossed,    \* history: accounts and logins two requests wrote at once
  last        \* history: the request begun last, and what it began with

db   == <<acc, made, trades>>
ghost == <<overlapped, odd, crossed, last>>
vars == <<db, known, running, req, left, ghost>>

Row   == [login : Login \cup {None}, primary : BOOLEAN, archived : BOOLEAN]
ASSUME NoneAssumption == None \notin Row
Write == [kind : {"save", "make", "drop", "dropAll", "choose", "book"}, id : Id \cup {New}, row : Row \cup {None}]
Rest  == [op |-> "none", at |-> "idle", login |-> None, writes |-> <<>>, todo |-> {}, manual |-> FALSE]

Save(a, row) == [kind |-> "save", id |-> a, row |-> row]
Make(l, primary) == [kind |-> "make", id |-> New, row |-> [login |-> l, primary |-> primary, archived |-> FALSE]]
Do(kind, a) == [kind |-> kind, id |-> a, row |-> None]

Rows      == {a \in Id : acc[a] # None}
Visible   == {a \in Rows : ~acc[a].archived}
Primaries == {a \in Visible : acc[a].primary}
Of(l)     == {a \in Rows : acc[a].login = l}
Oldest(S) == {a \in S : \A b \in S : a <= b}

\* findOneByUserId: the primary account, or else the oldest that is not archived.
Default == IF Primaries # {} THEN Primaries ELSE Oldest(Visible)

Init ==
  /\ acc = [a \in Id |-> None] /\ made = 0 /\ trades = {}
  /\ known = {} /\ running = {}
  /\ req = [r \in Request |-> Rest] /\ left \in Budgets
  /\ overlapped = FALSE /\ odd = FALSE /\ crossed = {}
  /\ last = [op |-> "none", id |-> New, was |-> {}, chosen |-> FALSE, known |-> {}]

-----------------------------------------------------------------------------
(* What a request reads, and the writes that leaves it.                    *)

\* The accounts and logins that writes are about.
Objects(W) == (UNION {{W[i].id, IF W[i].row = None THEN None ELSE W[i].row.login} : i \in 1..Len(W)})
              \ {New, None}
InHand(r)  == UNION {Objects(req[s].writes) : s \in Request \ {r}}

Takes(r, state, objects) ==
  /\ req' = [req EXCEPT ![r] = state]
  /\ crossed' = crossed \cup (objects \cap InHand(r))

Begin(r, op, a, state, objects) ==
  /\ req[r].at = "idle" /\ left[op] > 0
  /\ Takes(r, [state EXCEPT !.op = op], objects)
  /\ left' = IF op = "report" THEN left ELSE [left EXCEPT ![op] = @ - 1]
  /\ overlapped' = (overlapped \/ \E s \in Request : req[s].at # "idle")
  /\ last' = [op |-> op, id |-> a, was |-> Default, chosen |-> Primaries # {}, known |-> known]
  /\ UNCHANGED odd

Ask(r, op, a, l, W) ==
  /\ Begin(r, op, a, [Rest EXCEPT !.at = "write", !.login = l, !.writes = W], Objects(W))
  /\ UNCHANGED <<db, known, running>>

Create(r) == Ask(r, "create", New, None, <<Make(None, Visible = {})>>)

\* The sign-in creates a default account, primary as the column defaults.
SignIn(r) == Rows = {} /\ Ask(r, "signin", New, None, <<Make(None, TRUE)>>)

FindDefault(r) == Visible = {} /\ Ask(r, "default", New, None, <<Make(None, TRUE)>>)

\* An import goes to the account it names, to the default one, or to a new one.
Import(r, a) ==
  Ask(r, "import", a, None,
      IF a \in Visible THEN <<Do("book", a)>> ELSE <<Make(None, TRUE), Do("book", New)>>)

ImportAny(r) == \E a \in IF Visible = {} THEN {New} ELSE Visible : Import(r, a)

SetPrimary(r, a) == a \in Rows /\ Ask(r, "primary", a, None, <<Do("choose", a)>>)

\* The account that follows a primary one: the oldest, unless that is itself.
Successor(a) ==
  IF ~acc[a].primary \/ Oldest(Visible) \subseteq {a} THEN <<>>
  ELSE LET b == CHOOSE b \in Oldest(Visible) : TRUE IN <<Save(b, [acc[b] EXCEPT !.primary = TRUE])>>

Archive(r, a) ==
  /\ a \in Rows
  /\ Ask(r, "archive", a, None,
         Successor(a) \o <<Save(a, [acc[a] EXCEPT !.archived = TRUE, !.primary = FALSE])>>)

\* Mutant: what is restored is not primary.
RestorePlain(r, a) ==
  a \in Rows /\ Ask(r, "restore", a, None, <<Save(a, [acc[a] EXCEPT !.archived = FALSE, !.primary = FALSE])>>)

Restore(r, a) == a \in Rows /\ Ask(r, "restore", a, None, <<Save(a, [acc[a] EXCEPT !.archived = FALSE])>>)

\* A change of details, a new token, a movement of the balance.
Edit(r, a) == a \in Rows /\ Ask(r, "edit", a, None, <<Save(a, acc[a])>>)

\* Without an account named it is the default one.
Reset(r, a) == a \in Rows /\ Ask(r, "reset", a, None, <<Save(a, [acc[a] EXCEPT !.login = None])>>)

\* Mutant: the successor, whichever it is, is saved after the deletion.
DeleteFirst(r, a) ==
  /\ a \in Rows
  /\ \E b \in Oldest(Visible \cup {a}) :
       Ask(r, "delete", a, None, <<Do(IF a \in trades THEN "dropAll" ELSE "drop", a),
                                   Save(b, [acc[b] EXCEPT !.primary = TRUE])>>)

\* The trades were counted: without force an account that has some is kept.
Delete(r, a) ==
  /\ a \in Rows
  /\ Ask(r, "delete", a, None, Successor(a) \o <<Do(IF a \in trades THEN "dropAll" ELSE "drop", a)>>)

\* connectCloud, for the login of any account that has it.
Connect(r, l) ==
  IF Of(l) = {} THEN Ask(r, "connect", New, l, <<Make(l, Visible = {})>>)
  ELSE \E a \in Of(l) : Ask(r, "connect", a, l, <<Save(a, [acc[a] EXCEPT !.archived = FALSE])>>)

Disconnect(r, l) ==
  /\ l \in running
  /\ \E a \in Of(l) :
       Begin(r, "disconnect", a, [Rest EXCEPT !.at = "write", !.writes = <<Save(a, acc[a])>>], {a, l})
  /\ running' = running \ {l}
  /\ UNCHANGED <<db, known>>

\* ensureAccountExists
DerivSignIn(r, l) ==
  IF Of(l) = {} THEN Ask(r, "deriv", New, l, <<Make(l, TRUE)>>)
  ELSE \E a \in Of(l) : Ask(r, "deriv", a, l, <<Save(a, acc[a])>>)

\* Mutant: an archived account stays so.
ReportQuietly(r, l) == l \in running /\ Of(l) = {} /\ Ask(r, "report", New, l, <<Make(l, FALSE)>>)

\* Mutant: an archived account is not looked for.
ReportAgain(r, l) ==
  l \in running /\ Of(l) \cap Visible = {} /\ Ask(r, "report", New, l, <<Make(l, FALSE)>>)

\* findAccountByLoginOrId: a message of the worker finds the account of its
\* login, brings it back from the archive, or creates one.
Report(r, l) ==
  /\ l \in running
  /\ IF Of(l) = {} THEN Ask(r, "report", New, l, <<Make(l, FALSE)>>)
     ELSE \E a \in Of(l) : /\ acc[a].archived
                           /\ Ask(r, "report", a, l, <<Save(a, [acc[a] EXCEPT !.archived = FALSE])>>)

\* A connection leaves a row in cloud_instances, a sync of the worker an import
\* log; a login of too many digits is not read from them.
Logged(l) ==
  /\ l \in running /\ l \notin known \cup Typo
  /\ known' = known \cup {l}
  /\ UNCHANGED <<db, running, req, left, ghost>>

-----------------------------------------------------------------------------
(* The writes.                                                             *)

Next1(r) == req[r].writes[1]
Goes(r, kind) == req[r].at = "write" /\ Next1(r).kind = kind

\* What is left of the request; a list goes on to the next login.
Wrote(r) ==
  LET rest == [i \in 1..(Len(req[r].writes) - 1) |->
                 LET w == req[r].writes[i + 1]
                 IN  IF w.kind = "book" /\ w.id = New THEN [w EXCEPT !.id = made'] ELSE w]
  IN  /\ req' = [req EXCEPT ![r] =
                   IF rest # <<>> THEN [@ EXCEPT !.writes = rest]
                   ELSE IF @.op = "list" THEN [@ EXCEPT !.at = "find", !.writes = <<>>] ELSE Rest]
      /\ running' = IF req[r].op = "connect" THEN running \cup {req[r].login} ELSE running
      /\ UNCHANGED <<known, left, overlapped, crossed, last>>

SaveRow(r) ==
  /\ Goes(r, "save")
  /\ acc' = [acc EXCEPT ![Next1(r).id] = Next1(r).row]
  /\ UNCHANGED <<made, trades, odd>> /\ Wrote(r)

MakeRow(r) ==
  /\ Goes(r, "make") /\ made < MaxAccounts
  /\ made' = made + 1
  /\ acc' = [acc EXCEPT ![made + 1] = Next1(r).row]
  /\ odd' = (odd \/ req[r].op = "deriv")
  /\ UNCHANGED trades /\ Wrote(r)

\* setPrimary, in a transaction; it does not ask whether the account is archived.
Choose(r) ==
  LET a == Next1(r).id
  IN  /\ Goes(r, "choose")
      /\ acc' = [b \in Id |-> IF acc[b] = None THEN None ELSE [acc[b] EXCEPT !.primary = (b = a)]]
      /\ odd' = (odd \/ (a \in Rows /\ acc[a].archived))
      /\ UNCHANGED <<made, trades>> /\ Wrote(r)

\* Mutant: a deletion leaves the trades to themselves.
DropKeeping(r) ==
  /\ Goes(r, "drop") \/ Goes(r, "dropAll")
  /\ acc' = [acc EXCEPT ![Next1(r).id] = None]
  /\ UNCHANGED <<made, trades, odd>> /\ Wrote(r)

\* The transaction deletes the trades only if some were counted.
Drop(r) ==
  /\ Goes(r, "drop") \/ Goes(r, "dropAll")
  /\ acc' = [acc EXCEPT ![Next1(r).id] = None]
  /\ trades' = IF Goes(r, "dropAll") THEN trades \ {Next1(r).id} ELSE trades
  /\ UNCHANGED <<made, odd>> /\ Wrote(r)

Book(r) ==
  /\ Goes(r, "book")
  /\ trades' = trades \cup {Next1(r).id}
  /\ UNCHANGED <<acc, made, odd>> /\ Wrote(r)

-----------------------------------------------------------------------------
(* The list of accounts, which reconciles them first.                      *)

\* An account of a login with too many digits, and without trades, goes.
Rubbish == {a \in Rows : acc[a].login \in Typo} \ trades

\* There is no clean manual account.
NoManual == \A a \in Visible : acc[a].login # None

\* The rows are read, their logins, archived ones counted, kept for later, and
\* the rubbish deleted.
List(r) ==
  /\ Begin(r, "list", New,
           [Rest EXCEPT !.at = "discover", !.manual = NoManual,
                        !.todo = {acc[a].login : a \in Rows \ Rubbish} \ {None}], Rubbish)
  /\ acc' = [a \in Id |-> IF a \in Rubbish THEN None ELSE acc[a]]
  /\ UNCHANGED <<made, trades, known, running>>

\* Beside MT5 accounts there is to be a manual one.
Lacking(r) == req[r].manual /\ req[r].todo \cup known # {}

\* The rows that were read are gone through for the logins of the tables.
Discover(r) ==
  /\ req[r].at = "discover"
  /\ req' = [req EXCEPT ![r] = [@ EXCEPT !.at = "find", !.todo = known \ req[r].todo, !.manual = Lacking(r)]]
  /\ UNCHANGED <<db, known, running, left, ghost>>

\* A login that has an account by now gets it back from the archive; else it
\* gets one of its own, never the primary one.
Adopt(r) ==
  /\ req[r].at = "find"
  /\ \E l \in req[r].todo :
       \E W \in IF Of(l) = {} THEN {<<Make(l, FALSE)>>}
                ELSE {<<Save(a, [acc[a] EXCEPT !.archived = FALSE])>> : a \in Of(l)} :
         Takes(r, [req[r] EXCEPT !.at = "write", !.writes = W, !.todo = @ \ {l}], Objects(W))
  /\ UNCHANGED <<db, known, running, left, overlapped, odd, last>>

Manual(r) ==
  LET W == <<Make(None, FALSE)>>
  IN  /\ req[r].at = "find" /\ req[r].todo = {} /\ req[r].manual
      /\ Takes(r, [req[r] EXCEPT !.at = "write", !.writes = W, !.manual = FALSE], {})
      /\ UNCHANGED <<db, known, running, left, overlapped, odd, last>>

\* What is not archived is shown; if that is nothing, a default one is made.
Show(r) ==
  /\ req[r].at = "find" /\ req[r].todo = {} /\ ~req[r].manual
  /\ req' = [req EXCEPT ![r] = IF Visible # {} THEN Rest
                               ELSE [Rest EXCEPT !.op = "default", !.at = "write", !.writes = <<Make(None, TRUE)>>]]
  /\ UNCHANGED <<db, known, running, left, ghost>>

-----------------------------------------------------------------------------

Step(r) == SaveRow(r) \/ MakeRow(r) \/ Choose(r) \/ Drop(r) \/ Book(r)
           \/ Discover(r) \/ Adopt(r) \/ Manual(r) \/ Show(r)

Asks(r) ==
  \/ List(r) \/ Create(r) \/ SignIn(r) \/ FindDefault(r) \/ ImportAny(r)
  \/ \E a \in Id : \/ SetPrimary(r, a) \/ Archive(r, a) \/ Restore(r, a)
                   \/ Edit(r, a) \/ Reset(r, a) \/ Delete(r, a)
  \/ \E l \in Mt5 \cup Typo : Connect(r, l) \/ Disconnect(r, l)
  \/ \E l \in Deriv : DerivSignIn(r, l)

Next ==
  \/ \E r \in Request : Asks(r) \/ Step(r)
  \/ \E r \in Request, l \in Mt5 : Report(r, l)
  \/ \E l \in running : Logged(l)

\* A request that was taken up is answered; the worker keeps reporting.
Fairness ==
  /\ \A r \in Request : WF_vars(Step(r))
  /\ \A l \in Mt5 : SF_vars(\E r \in Request : Report(r, l))

Spec == Init /\ [][Next]_vars
FairSpec == Spec /\ Fairness

-----------------------------------------------------------------------------
Quiet == \A r \in Request : req[r].at = "idle"
Alone == Quiet /\ ~overlapped

\* Types of the rows and requests.
TypeOK ==
  /\ acc \in [Id -> Row \cup {None}] /\ made \in 0..MaxAccounts /\ Rows \subseteq 1..made
  /\ trades \subseteq 1..made /\ known \subseteq Mt5 /\ running \subseteq Mt5 \cup Typo
  /\ req \in [Request -> [op : Ops \cup {"none"}, at : {"idle", "write", "discover", "find"},
                          login : Login \cup {None}, writes : Seq(Write), todo : SUBSET Login,
                          manual : BOOLEAN]]
  /\ \A r \in Request : /\ (req[r].writes = <<>>) = (req[r].at # "write")
                        /\ req[r].op = "connect" => req[r].login \in Mt5 \cup Typo
  /\ left \in [Ops -> Nat] /\ overlapped \in BOOLEAN /\ odd \in BOOLEAN
  /\ crossed \subseteq Login \cup 1..made
  /\ last \in [op : Ops \cup {"none"}, id : Id \cup {New}, was : SUBSET (1..made),
               chosen : BOOLEAN, known : SUBSET Mt5]

\* Requests that came one after the other leave at most one primary account, if
\* no archived account was chosen and no Deriv login created one; and what the
\* user chose stays the account imports, tokens and views fall back on until
\* the user chooses another one, or archives or deletes it, or a list takes it
\* for a mistyped login. Connections, messages of the worker, restored accounts
\* and deletions of other ones leave it.
DefaultStays ==
  Alone /\ ~odd =>
    /\ Cardinality(Primaries) <= 1
    /\ \/ ~last.chosen
       \/ last.op = "primary"
       \/ last.op \in {"archive", "delete"} /\ last.id \in last.was
       \/ last.op = "list" /\ last.was \cap Rows = {}
       \/ Default = last.was

\* Two accounts have the same login only where two requests wrote that login,
\* or such an account, at once; and a list that is not disturbed leaves an
\* account, maybe archived, for every login known when it began, something to
\* show, and beside MT5 accounts a manual one.
AccountsMatchLogins ==
  /\ \A a, b \in Rows : a # b /\ acc[a].login = acc[b].login /\ acc[a].login # None
       => acc[a].login \in crossed \/ {a, b} \cap crossed # {}
  /\ (Alone /\ last.op = "list") =>
       /\ \A l \in last.known : Of(l) # {}
       /\ Visible # {}
       /\ last.known # {} => \E a \in Visible : acc[a].login = None

\* Trades whose account is gone were imported while it was deleted.
NoOrphans == \A a \in trades : a \in Rows \cup crossed

\* An account that was deleted comes back only by a request that had it in hand
\* when it was deleted.
DeletedStays == [][\A a \in 1..made : acc[a] = None /\ acc'[a] # None => a \in crossed]_vars

\* An account the worker serves is visible from some time on, whoever archived,
\* reset or deleted it while the worker was at it.
ServedShown == <>[](\A l \in running \cap Mt5 : Of(l) \cap Visible # {})
=============================================================================
