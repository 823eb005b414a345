------------------------------ MODULE Dashboard ------------------------------
(***************************************************************************)
(* What a user is shown of the closed trades (DashboardService).           *)
(*                                                                         *)
(* A request reads the accounts, awaits, reads their trades, awaits and    *)
(* computes; the list of trades and the performance are then kept in a     *)
(* cache for a while.  Imports and reverts mean to clear that cache        *)
(* (invalidateUserCache), but look for a field `store' which the cache of  *)
(* cache-manager 7 does not have: nothing is cleared.                      *)
(*                                                                         *)
(* The performance is computed of the copy of the trades in ClickHouse     *)
(* whenever it has as many rows as the table, whatever rows they are; else *)
(* of the table, and the copy is repaired behind the answer.  How imports  *)
(* and reverts write table and copy is Journal's: here each step changes   *)
(* one of them.                                                            *)
(***************************************************************************)
EXTENDS Integers, FiniteSets, Sequences, SequencesExt, FiniteSetsExt

CONSTANTS
  Accounts, All,        \* the accounts of the user; not an account: all of them
  AllTrades,            \* the closed trades there may be, each with its id
  Hours,                \* hours of a day
  Offset,               \* local time of the server, in hours before UTC
  Start,                \* the initial balance of an account
  Limit,                \* trades a list shows
  ListLife, FigureLife, \* ticks the cache keeps lists, and performances
  Risk, Reward,         \* of the what-if simulation: per cent, and risk/reward
  NoAnswer,             \* nothing
  Requests, MaxTime,    \* bounds
  MaxChanges, MaxFailures

VARIABLES
  now,                  \* the clock
  closed,               \* closed trades in the table
  mirror,               \* how many rows of each there are in ClickHouse
  archived,             \* accounts that are archived
  entry,                \* the cache
  req,                  \* requests for a view
  answer,               \* the last answer
  past,                 \* (history) when the table, the accounts and the copy were how
  changes, failures

viewVars == <<now, closed, mirror, archived, entry, req, answer, past, changes, failures>>

Trade == [id : Nat \ {0}, acc : Accounts, at : Nat, gross : Int, cost : Int, session : STRING]

Kinds == {"list", "performance", "report", "heatmap", "whatif"}
Cached == {"list", "performance"}
Filter == Accounts \cup {All}

ASSUME DashboardAssumption ==
  /\ IsFiniteSet(Accounts) /\ All \notin Accounts
  /\ AllTrades \subseteq Trade /\ IsFiniteSet(AllTrades)
  /\ \A d, e \in AllTrades : d.id = e.id => d = e
  /\ Hours \in Nat \ {0} /\ Offset \in Nat /\ Limit \in Nat
  /\ ListLife \in Nat /\ FigureLife \in Nat
  /\ MaxTime \in Nat /\ MaxChanges \in Nat /\ MaxFailures \in Nat

-----------------------------------------------------------------------------
(* The views, computed as the code does: one trade after the other           *)

Net(d) == d.gross + d.cost

Day(d) == d.at \div Hours
\* getDay and getHours are those of the server; day 0 is a Sunday.
LocalDay(d)  == ((d.at + Offset) \div Hours) % 7
LocalHour(d) == (d.at + Offset) % Hours

Higher(a, b) == IF a > b THEN a ELSE b

\* Adds x to what a map has at k, or to nothing.
AddAt(map, k, x) ==
  [j \in DOMAIN map \cup {k} |-> (IF j \in DOMAIN map THEN map[j] ELSE 0) + (IF j = k THEN x ELSE 0)]

Fresh == [count |-> 0, total |-> 0, wins |-> 0, losses |-> 0, profit |-> 0, loss |-> 0,
          peak |-> 0, drawdown |-> 0, daily |-> << >>, sessions |-> << >>, curve |-> << >>]

Peak(sum, equity) == Higher(sum.peak, equity)

\* One turn of the loop of getPerformance, and of that of getReportData.
Turn(sum, d) ==
  LET net    == Net(d)
      equity == sum.total + net
      peak   == Peak(sum, equity)
  IN  [count    |-> sum.count + 1,
       total    |-> equity,
       wins     |-> sum.wins + (IF net > 0 THEN 1 ELSE 0),
       losses   |-> sum.losses + (IF net < 0 THEN 1 ELSE 0),
       profit   |-> sum.profit + Higher(net, 0),
       loss     |-> sum.loss + Higher(0 - net, 0),
       peak     |-> peak,
       drawdown |-> Higher(sum.drawdown, peak - equity),
       daily    |-> AddAt(sum.daily, Day(d), net),
       sessions |-> AddAt(sum.sessions, d.session, net),
       curve    |-> Append(sum.curve, equity)]

Figures(order) == FoldLeft(Turn, Fresh, order)

\* accountBreakdown of all accounts: every one that was read has its line.
Breakdown(accts, order) ==
  FoldLeft(LAMBDA map, d : [map EXCEPT ![d.acc] = @ + Net(d)], [a \in accts |-> 0], order)

Performance(filter, accts, order) ==
  [figures   |-> [Figures(order) EXCEPT !.curve = << >>],
   breakdown |-> IF filter = All THEN Breakdown(accts, order) ELSE << >>]

\* Only Monday to Friday have a line.
Weekdays(order) ==
  FoldLeft(LAMBDA map, d : IF LocalDay(d) \in DOMAIN map THEN AddAt(map, LocalDay(d), Net(d)) ELSE map,
           [day \in 1 .. 5 |-> 0], order)

Report(accts, order) ==
  LET figures == Figures(order)
      initial == Start * Cardinality(accts)
  IN  [figures  |-> [figures EXCEPT !.curve = << >>],
       curve    |-> [i \in DOMAIN figures.curve |-> initial + figures.curve[i]],
       weekdays |-> Weekdays(order)]

Heatmap(order) ==
  FoldLeft(LAMBDA map, d : AddAt(map, <<LocalDay(d), LocalHour(d)>>, Net(d)), << >>, order)

\* simulateBacktest on the history of the account: every trade risks a share of
\* the equity, and trades of the excluded session are passed over.
WhatIf(order, excluded) ==
  FoldLeft(LAMBDA sum, d :
             LET stake  == (sum.equity * Risk) \div 100
                 gain   == IF Net(d) > 0 THEN stake * Reward ELSE IF Net(d) < 0 THEN 0 - stake ELSE 0
                 equity == sum.equity + gain
                 peak   == Higher(sum.peak, equity)
             IN  IF d.session = excluded
                 THEN [sum EXCEPT !.real = @ + Net(d)]
                 ELSE [equity |-> equity, peak |-> peak, real |-> sum.real + Net(d),
                       drawdown |-> Higher(sum.drawdown, peak - equity)],
           [equity |-> Start, peak |-> Start, drawdown |-> 0, real |-> 0], order)

\* The database sorts by the time of closing; who closed together comes as may be.
Sorted(S) == {order \in SetToSeqs(S) : \A i, j \in DOMAIN order : i < j => order[i].at <= order[j].at}

\* The newest come first, and no more than the limit.
List(order) == SubSeq(Reverse(order), 1, IF Len(order) < Limit THEN Len(order) ELSE Limit)

Value(kind, filter, accts, order) ==
  CASE kind = "list"        -> List(order)
    [] kind = "performance" -> Performance(filter, accts, order)
    [] kind = "report"      -> Report(accts, order)
    [] kind = "heatmap"     -> Heatmap(order)
    [] kind = "whatif"      -> WhatIf(order, "Asian")

-----------------------------------------------------------------------------
(* The copy                                                                  *)

\* A row of the copy gives the time of closing without its zone, and it is read
\* as local; a second row of a trade has a name of its own.
AsRead(d) == [d EXCEPT !.at = @ - Offset]
Second(d) == [d EXCEPT !.id = 0 - @]

\* The rows of some accounts; versions that are not yet merged come as well.
Rows(c, accts) ==
  LET their == {d \in AllTrades : d.acc \in accts} IN
  {AsRead(d) : d \in {e \in their : c[e] >= 1}} \cup {Second(AsRead(d)) : d \in {e \in their : c[e] >= 2}}

\* Rows are added, and a third of a trade is not told from a second.
WithRows(c, S) == [d \in AllTrades |-> IF d \in S /\ c[d] < 2 THEN c[d] + 1 ELSE c[d]]
WithoutRows(c, S)  == [d \in AllTrades |-> IF d \in S THEN 0 ELSE c[d]]

-----------------------------------------------------------------------------
(* Requests for a view                                                       *)

Idle == [at |-> "idle", kind |-> "list", filter |-> All, accts |-> {}, rows |-> {}, value |-> << >>,
         since |-> 0, repair |-> "none"]

Life(kind) == IF kind = "list" THEN ListLife ELSE FigureLife

NoEntry == [value |-> << >>, since |-> 0 - 1]

Reply(kind, filter, value, what) ==
  answer' = [kind |-> kind, filter |-> filter, value |-> value, what |-> what]

\* validateUserAccount: an account that is named may be archived.
Chosen(filter) == IF filter = All THEN Accounts \ archived ELSE {filter}

\* Mutant: an entry is never too old.
HitForever(r, kind, filter) ==
  /\ kind \in Cached /\ entry[<<kind, filter>>] # NoEntry
  /\ Reply(kind, filter, entry[<<kind, filter>>].value, "view")
  /\ UNCHANGED req

\* The cache has an entry, at some time within its last tick no more.
Hit(r, kind, filter) ==
  /\ kind \in Cached /\ entry[<<kind, filter>>] # NoEntry
  /\ now <= entry[<<kind, filter>>].since + Life(kind)
  /\ Reply(kind, filter, entry[<<kind, filter>>].value, "view")
  /\ UNCHANGED req

Miss(r, kind, filter) ==
  /\ kind \in Cached /\ entry[<<kind, filter>>] # NoEntry => now >= entry[<<kind, filter>>].since + Life(kind)
  /\ IF Chosen(filter) = {}
     THEN Reply(kind, filter, << >>, "empty") /\ UNCHANGED req
     ELSE /\ req' = [req EXCEPT ![r] = [at |-> "read", kind |-> kind, filter |-> filter,
                                        accts |-> Chosen(filter), rows |-> {}, value |-> << >>,
                                        since |-> now, repair |-> "none"]]
          /\ UNCHANGED answer

\* A request is over when its answer is given and the repair it began has ended.
Ask(r, kind, filter) ==
  /\ req[r] = Idle
  /\ Hit(r, kind, filter) \/ Miss(r, kind, filter)
  /\ UNCHANGED <<now, closed, mirror, archived, entry, past, changes, failures>>

Of(accts) == {d \in closed : d.acc \in accts}

\* What is left of a request when its answer is given: a repair, if it began one.
Left(x) ==
  IF x.repair = "none" THEN Idle
  ELSE [at |-> "idle", kind |-> "list", filter |-> All, accts |-> x.accts, rows |-> x.rows,
        value |-> << >>, since |-> 0, repair |-> x.repair]

\* The trades are there, in x. The figures of none are not kept; an empty list is.
Compute(r, x, trades) ==
  \E order \in Sorted(trades) :
    LET value == Value(x.kind, x.filter, x.accts, order)
    IN  IF x.kind = "list" \/ (x.kind = "performance" /\ order # << >>)
        THEN req' = [req EXCEPT ![r] = [x EXCEPT !.at = "store", !.value = value]] /\ UNCHANGED answer
        ELSE req' = [req EXCEPT ![r] = Left(x)] /\ Reply(x.kind, x.filter, value, "view")

Read(r) ==
  /\ req[r].at = "read" /\ req[r].kind # "performance"
  /\ Compute(r, req[r], Of(req[r].accts))
  /\ UNCHANGED <<now, closed, mirror, archived, entry, past, changes, failures>>

\* The performance asks the copy, or the table when the copy fails.
AskCopy(r) ==
  /\ req[r].at = "read" /\ req[r].kind = "performance"
  /\ \/ /\ req' = [req EXCEPT ![r] = [req[r] EXCEPT !.at = "looked", !.rows = Rows(mirror, req[r].accts)]]
        /\ UNCHANGED failures
     \/ /\ failures < MaxFailures /\ failures' = failures + 1
        /\ req' = [req EXCEPT ![r] = [req[r] EXCEPT !.at = "looked", !.rows = Of(req[r].accts)]]
  /\ UNCHANGED <<now, closed, mirror, archived, entry, answer, past, changes>>

\* What was found is compared with the table by its number alone.
Count(r) ==
  /\ req[r].at = "looked"
  /\ LET found == req[r].rows
         m     == Cardinality(found)
         n     == Cardinality(Of(req[r].accts))
     IN  IF m = n
         THEN Compute(r, [req[r] EXCEPT !.rows = {}], found)
         ELSE /\ req' = [req EXCEPT ![r] = [req[r] EXCEPT !.at = IF m > n THEN "ghosts" ELSE "missing", !.rows = {}]]
              /\ UNCHANGED answer
  /\ UNCHANGED <<now, closed, mirror, archived, entry, past, changes, failures>>

\* The table is read once more; a repair of the copy by what it holds begins.
Reread(r) ==
  /\ req[r].at \in {"ghosts", "missing"}
  /\ LET rows == Of(req[r].accts)
     IN  Compute(r, [req[r] EXCEPT !.rows = rows, !.repair = IF req[r].at = "ghosts" THEN "wipe" ELSE "fill"], rows)
  /\ UNCHANGED <<now, closed, mirror, archived, entry, past, changes, failures>>

\* The entry counts from now, however long ago its trades were read.
Store(r) ==
  /\ req[r].at = "store"
  /\ entry' = [entry EXCEPT ![<<req[r].kind, req[r].filter>>] = [value |-> req[r].value, since |-> now]]
  /\ Reply(req[r].kind, req[r].filter, req[r].value, "view")
  /\ req' = [req EXCEPT ![r] = Left(req[r])]
  /\ UNCHANGED <<now, closed, mirror, archived, past, changes, failures>>

\* The database fails: the performance is all zeros, any other view an error.
QueryFails(r) ==
  /\ req[r].at \in {"read", "looked", "ghosts", "missing"} /\ failures < MaxFailures
  /\ Reply(req[r].kind, req[r].filter, << >>, IF req[r].kind = "performance" THEN "zeros" ELSE "error")
  /\ req' = [req EXCEPT ![r] = Idle]
  /\ failures' = failures + 1
  /\ UNCHANGED <<now, closed, mirror, archived, entry, past, changes>>

\* From now on the world is so.
World(T, A, C) ==
  /\ closed' = T /\ archived' = A /\ mirror' = C
  /\ past' = past \cup {<<now, T, A, C>>}
  /\ answer' = NoAnswer

\* A request goes on with the repair at another stage.
Stage(r, stage) ==
  req' = [req EXCEPT ![r] = IF req[r].at = "idle" THEN Left([req[r] EXCEPT !.repair = stage])
                            ELSE [req[r] EXCEPT !.repair = stage]]

\* A repair fails unnoticed.
RepairFails(r) ==
  /\ req[r].repair # "none" /\ failures < MaxFailures
  /\ Stage(r, "none")
  /\ failures' = failures + 1
  /\ UNCHANGED <<now, closed, mirror, archived, entry, answer, past, changes>>

\* syncAccountTrades: what the copy has of the accounts goes, then the rows come.
RepairWipe(r) ==
  /\ req[r].repair = "wipe"
  /\ World(closed, archived, WithoutRows(mirror, {d \in AllTrades : d.acc \in req[r].accts}))
  /\ Stage(r, "fill")
  /\ UNCHANGED <<now, entry, changes, failures>>

RepairFill(r) ==
  /\ req[r].repair = "fill"
  /\ World(closed, archived, WithRows(mirror, req[r].rows))
  /\ Stage(r, "none")
  /\ UNCHANGED <<now, entry, changes, failures>>

\* The cache lives in the memory of the process.
Restart ==
  /\ failures < MaxFailures
  /\ entry' = [k \in Kinds \X Filter |-> NoEntry]
  /\ req' = [r \in Requests |-> Idle]
  /\ answer' = NoAnswer
  /\ failures' = failures + 1
  /\ UNCHANGED <<now, closed, mirror, archived, past, changes>>

\* No request takes longer than a tick; its repair may.
Tick ==
  /\ now < MaxTime
  /\ \A r \in Requests : req[r].at = "idle" \/ req[r].since = now
  /\ now' = now + 1
  /\ past' = past \cup {<<now + 1, closed, archived, mirror>>}
  /\ answer' = NoAnswer
  /\ UNCHANGED <<closed, mirror, archived, entry, req, changes, failures>>

Changed(T, A, C) ==
  /\ changes < MaxChanges
  /\ changes' = changes + 1
  /\ World(T, A, C)
  /\ UNCHANGED <<now, entry, req, failures>>

\* An import copies trades, then its transaction saves them, or does not; a
\* revert deletes them from the copy, then from the table. Neither the copying
\* nor the deletion in the copy need succeed, and nothing of the cache is cleared.
Import(d)  == d \notin closed /\ Changed(closed \cup {d}, archived, mirror)
Revert(d)  == d \in closed /\ Changed(closed \ {d}, archived, mirror)
CopyIn(d)  == mirror[d] < 2 /\ Changed(closed, archived, WithRows(mirror, {d}))
CopyOut(d) == mirror[d] > 0 /\ Changed(closed, archived, WithoutRows(mirror, {d}))
Archive(a) == a \notin archived /\ Changed(closed, archived \cup {a}, mirror)

\* ClickHouse keeps one of the versions of a row, in its own time.
CopyMerge(d) == mirror[d] = 2 /\ Changed(closed, archived, [mirror EXCEPT ![d] = 1])

-----------------------------------------------------------------------------

ViewInit ==
  /\ now = 0
  /\ closed \in SUBSET AllTrades
  /\ mirror \in [AllTrades -> 0 .. 2]
  /\ archived = {}
  /\ entry = [k \in Kinds \X Filter |-> NoEntry]
  /\ req = [r \in Requests |-> Idle]
  /\ answer = NoAnswer
  /\ past = {<<0, closed, archived, mirror>>}
  /\ changes = 0 /\ failures = 0

ViewNext ==
  \/ \E r \in Requests :
       \/ \E kind \in Kinds, filter \in Filter : Ask(r, kind, filter)
       \/ Read(r) \/ AskCopy(r) \/ Count(r) \/ Reread(r) \/ Store(r) \/ QueryFails(r)
       \/ RepairWipe(r) \/ RepairFill(r) \/ RepairFails(r)
  \/ \E d \in AllTrades : Import(d) \/ Revert(d) \/ CopyIn(d) \/ CopyOut(d) \/ CopyMerge(d)
  \/ \E a \in Accounts : Archive(a)
  \/ Restart \/ Tick

ViewSpec == ViewInit /\ [][ViewNext]_viewVars

-----------------------------------------------------------------------------
(* The views again, as what they mean                                        *)

Sum(f(_), S) == MapThenSumSet(f, S)
NetOf(S) == Sum(Net, S)

\* What each class of S amounts to.
Split(class(_), S) == [k \in {class(d) : d \in S} |-> NetOf({d \in S : class(d) = k})]

\* The deepest fall of the sum below any of its earlier values, or below nothing.
DeepestFall(order) ==
  LET At(i)  == NetOf({order[k] : k \in 1 .. i})
      Falls == {At(p[1]) - At(p[2]) : p \in {q \in (0 .. Len(order)) \X (0 .. Len(order)) : q[1] <= q[2]}}
  IN  Max(Falls)

FiguresMean(f, S) ==
  LET won == {d \in S : Net(d) > 0}
      lost == {d \in S : Net(d) < 0}
  IN  /\ f.count = Cardinality(S) /\ f.wins = Cardinality(won) /\ f.losses = Cardinality(lost)
      /\ f.profit = NetOf(won) /\ f.loss = 0 - NetOf(lost) /\ f.total = f.profit - f.loss
      /\ f.daily = Split(Day, S)
      /\ f.sessions = Split(LAMBDA d : d.session, S)
      /\ \E order \in Sorted(S) : f.drawdown = DeepestFall(order)

\* A list holds the newest, and nothing newer is missing.
ListMeans(list, S) ==
  LET shown == ToSet(list) IN
  /\ shown \subseteq S /\ Len(list) = Cardinality(shown)
  /\ Cardinality(shown) < Limit => shown = S
  /\ \A i, j \in DOMAIN list : i < j => list[i].at >= list[j].at
  /\ \A d \in S \ shown, e \in shown : d.at <= e.at

\* The account grows and shrinks by constant factors, in whatever order.
WhatIfMeans(sum, S) ==
  LET played == {d \in S : d.session # "Asian"}
      wins == Cardinality({d \in played : Net(d) > 0})
      losses == Cardinality({d \in played : Net(d) < 0})
  IN  /\ sum.equity * 100 ^ (wins + losses) = Start * (100 + Risk * Reward) ^ wins * (100 - Risk) ^ losses
      /\ sum.real = NetOf(S)
      /\ sum.drawdown >= sum.peak - sum.equity

Means(kind, filter, accts, S, value) ==
  CASE kind = "list"        -> ListMeans(value, S)
    [] kind = "performance" -> /\ FiguresMean(value.figures, S)
                               /\ filter = All => value.breakdown = [a \in accts |-> NetOf({d \in S : d.acc = a})]
    [] kind = "report"      -> /\ FiguresMean(value.figures, S)
                               /\ \A day \in 1 .. 5 : value.weekdays[day] = NetOf({d \in S : LocalDay(d) = day})
                               /\ S # {} => value.curve[Len(value.curve)] = Start * Cardinality(accts) + NetOf(S)
    [] kind = "heatmap"     -> value = Split(LAMBDA d : <<LocalDay(d), LocalHour(d)>>, S)
    [] kind = "whatif"      -> WhatIfMeans(value, S)

-----------------------------------------------------------------------------
(* Properties                                                                *)

\* Ticks an answer may lag behind: the life of an entry and a request.
Lag(kind) == 1 + (IF kind \in Cached THEN Life(kind) ELSE 0)

\* What the code computes of any trades, in any order they may be read in, is
\* what the view means for them.
ViewsMean ==
  \A kind \in Kinds, filter \in Filter, accts \in SUBSET Accounts, T \in SUBSET AllTrades :
    LET S == {d \in T : d.acc \in accts} IN
    \A order \in Sorted(S) : Means(kind, filter, accts, S, Value(kind, filter, accts, order))

Table(m, accts) == {d \in m[2] : d.acc \in accts}

\* The trades a view may have been computed of at moment q: those of the table,
\* and for the performance the rows of the copy, if at one of the moments M the
\* table had as many.
Shown(kind, accts, q, M) ==
  {Table(q, accts)} \cup
  {S \in {Rows(q[4], accts)} :
     kind = "performance" /\ \E m \in M : Cardinality(S) = Cardinality(Table(m, accts))}

Moments(kind) == {m \in past : m[1] >= now - Lag(kind)}

\* Every answer, from the cache or not, is what the view means for the accounts
\* and the trades as they were at moments no longer ago than an entry lives and
\* a request takes, however requests, repairs, imports, reverts and archivings
\* interleave and fail; only a performance may speak of the rows of the copy in
\* place of the trades, and only when they were as many.
AnswersAreViews ==
  (answer # NoAnswer /\ answer.what = "view") =>
    \E p, q \in Moments(answer.kind) :
      LET accts == IF answer.filter = All THEN Accounts \ p[3] ELSE {answer.filter}
      IN  \E S \in Shown(answer.kind, accts, q, Moments(answer.kind)) :
            Means(answer.kind, answer.filter, accts, S, answer.value)

ViewTypeOK ==
  /\ now \in 0 .. MaxTime /\ closed \subseteq AllTrades /\ archived \subseteq Accounts
  /\ mirror \in [AllTrades -> 0 .. 2]
  /\ \A k \in DOMAIN entry : entry[k].since <= now /\ entry[k] # NoEntry => k[1] \in Cached
  /\ \A r \in Requests :
       /\ req[r].at \in {"idle", "read", "looked", "ghosts", "missing", "store"}
       /\ req[r].repair \in {"none", "wipe", "fill"}
       /\ req[r].since \in {now, now - 1} \/ req[r].at = "idle"
=============================================================================
