----------------------------- MODULE Leaderboard -----------------------------
(***************************************************************************)
(* The ranking of the traders (LeaderboardService.recalculateRanks): a     *)
(* recalculation reads the users, then the trades of each, computes every  *)
(* rank, and writes the rows of leaderboard_ranks one after the other,     *)
(* finding each by its user and obeying the unique user name.  Nothing     *)
(* keeps two recalculations apart: the start of the backend, any request   *)
(* to /leaderboard/recalculate and any trader without a row begin one.     *)
(*                                                                         *)
(* What module Messaging names the same is named apart here, so that one   *)
(* module can reason about the two.                                        *)
(***************************************************************************)
EXTENDS Integers, FiniteSets

CONSTANTS
  Users,      \* those who have signed up
  Base,       \* the name each would have if nobody else came by it
  Name(_, _), \* a name with a number behind it; 1 leaves the name as it is
  Statistics, \* what the closed trades of a user may amount to
  First,      \* the first rank of each echelon (the code: 1, 4, 11, 51, 101)
  Unranked,   \* the rank of who has not traded (the code: 999)
  Runs,       \* recalculations that may be under way at the same time
  MaxStarts, MaxChanges, MaxCrashes  \* bounds

\* The id of no row.
NoId == 0

Fields == {"trades", "pnl", "days", "age", "winRate", "factor", "reward", "streak"}

\* The numbers that are enough for everybody to have a name.
Numbers == 1 .. Cardinality(Users)

ASSUME LeaderboardAssumption ==
  /\ IsFiniteSet(Users) /\ IsFiniteSet(Runs)
  /\ \A u \in Users : \A m, n \in Numbers : Name(Base[u], m) = Name(Base[u], n) => m = n
  /\ Statistics \subseteq [Fields -> Int] /\ \A s \in Statistics : s.trades >= 0
  /\ First \in [1 .. 5 -> Nat \ {0}] /\ Unranked \in Nat
  /\ MaxStarts \in Nat /\ MaxChanges \in Nat /\ MaxCrashes \in Nat

VARIABLES
  active,    \* users that are not blocked
  stats,     \* what the trades of each amount to now
  table,     \* the rows of leaderboard_ranks
  run,       \* where each recalculation is
  last,      \* (history) the last run that ended, if none began since
  overlap,   \* (history) two runs have been under way together
  starts, changes, crashes

rankVars == <<active, stats, table, run, last, overlap, starts, changes, crashes>>

-----------------------------------------------------------------------------
(* Rank, score and tier of what a trader has done                            *)

RoundDiv(a, b) == (2 * a + b) \div (2 * b)

AtMost(a, b) == IF a < b THEN a ELSE b

\* calculateCompositeScore, in tenths of a point; winRate is in tenths of a
\* per cent, factor (profit factor) and reward (risk/reward) in hundredths.
Score(s) ==
  LET volume == RoundDiv(2500 * AtMost(s.trades, 1000) + 150 * AtMost(s.trades, 25000), 25000)
      profit == IF s.pnl > 0
                THEN RoundDiv(150 * AtMost(s.pnl, 500), 500) + RoundDiv(100 * AtMost(s.factor, 200), 200)
                ELSE RoundDiv(50 * AtMost(s.factor, 100), 200)
      steady == RoundDiv(150 * AtMost(s.days, 20), 20) + RoundDiv(50 * AtMost(s.age, 90), 90)
      skill  == RoundDiv(150 * s.winRate, 1000) + RoundDiv(100 * AtMost(s.reward, 200), 200)
                  + RoundDiv(50 * AtMost(s.streak, 5), 5)
  IN  AtMost(1000, volume + profit + steady + skill)

\* The echelons, by the number of trades; the first two are for winners only.
InEchelon(s, e) ==
  CASE e = 1 -> s.trades >= 25000 /\ s.pnl > 0
    [] e = 2 -> s.trades >= 10000 /\ s.trades < 25000 /\ s.pnl > 0
    [] e = 3 -> s.trades >= 5000 /\ s.trades < 10000
    [] e = 4 -> s.trades >= 1000 /\ s.trades < 5000
    [] e = 5 -> s.trades > 0 /\ s.trades < 1000

\* sortGroup: the first of score, profit, trades and win rate that differs.
Merits(s) == <<Score(s), s.pnl, s.trades, s.winRate>>

\* Mutant: the comparison has its operands swapped, the worst come first.
AheadBackwards(s, t) == \E i \in 1 .. 4 : /\ Merits(s)[i] < Merits(t)[i]
                                          /\ \A j \in 1 .. i - 1 : Merits(s)[j] = Merits(t)[j]

Ahead(s, t) == \E i \in 1 .. 4 : /\ Merits(s)[i] > Merits(t)[i]
                                 /\ \A j \in 1 .. i - 1 : Merits(s)[j] = Merits(t)[j]

Place(order, u) == CHOOSE i \in DOMAIN order : order[i] = u

\* The sort is stable: of two that are equal the one read first comes first.
Before(order, got, u, v) ==
  \/ Ahead(got[u], got[v])
  \/ ~Ahead(got[v], got[u]) /\ Place(order, u) < Place(order, v)

Group(got, e) == {u \in DOMAIN got : InEchelon(got[u], e)}

Calibrating(got) == {u \in DOMAIN got : got[u].trades = 0}

Ranked(got) == Calibrating(got) \cup UNION {Group(got, e) : e \in 1 .. 5}

Echelon(got, u) == IF u \in Calibrating(got) THEN 6 ELSE CHOOSE e \in 1 .. 5 : u \in Group(got, e)

Rank(order, got, u) ==
  IF u \in Calibrating(got) THEN Unranked
  ELSE LET e == Echelon(got, u)
       IN  First[e] + Cardinality({v \in Group(got, e) \ {u} : Before(order, got, v, u)})

\* getTierAndRankInfo: 1 is LEGEND, then MASTERS, DIAMOND, PLATINUM, GOLD,
\* SILVER, and 7 is BRONZE; the first tier whose conditions hold.
Qualifies(t, rank, s) ==
  CASE t = 1 -> s.trades >= 25000 /\ rank = 1 /\ s.pnl > 0 /\ s.winRate >= 550 /\ s.factor >= 150
    [] t = 2 -> s.trades >= 10000 /\ rank < First[2] /\ s.pnl > 0
    [] t = 3 -> s.trades >= 10000 /\ rank < First[3] /\ s.pnl > 0
    [] t = 4 -> s.trades >= 5000 /\ s.pnl >= 0
    [] t = 5 -> s.trades >= 2500
    [] t = 6 -> s.trades >= 1000
    [] t = 7 -> TRUE

Tier(rank, s) == CHOOSE t \in 1 .. 7 : Qualifies(t, rank, s) /\ \A b \in 1 .. t - 1 : ~Qualifies(b, rank, s)

RowOf(r, u) ==
  [user |-> u, name |-> r.names[u], rank |-> Rank(r.order, r.got, u),
   tier |-> Tier(Rank(r.order, r.got, u), r.got[u]), stat |-> r.got[u]]

\* rankedTraders: echelon by echelon, in each by rank, the rest as read.
Precedes(order, got, u, v) ==
  \/ Echelon(got, u) < Echelon(got, v)
  \/ /\ Echelon(got, u) = Echelon(got, v)
     /\ IF Echelon(got, u) = 6 THEN Place(order, u) < Place(order, v) ELSE Before(order, got, u, v)

-----------------------------------------------------------------------------
(* State                                                                     *)

Names == {Name(Base[u], n) : u \in Users, n \in Numbers}

RankRows == [id : Nat \ {NoId}, user : Users, name : Names, rank : Nat, tier : 1 .. 7, stat : Statistics]

\* The orders the users of a set may be read in.
Orders(S) == {f \in [1 .. Cardinality(S) -> S] : \A i, j \in 1 .. Cardinality(S) : f[i] = f[j] => i = j}

Unread == [u \in {} |-> 0]

\* got, names: of those who were read, what they have traded and their names;
\* todo: the traders whose rows are to be written; item: the one whose row is
\* looked for, held: the id of the row found.
Idle == [at |-> "idle", order |-> <<>>, got |-> Unread, names |-> Unread,
         todo |-> {}, item |-> NoId, held |-> NoId, gone |-> {}]

\* No run has ended since the last one began, or some have overlapped.
Nothing == [how |-> "nothing", order |-> <<>>, got |-> Unread, item |-> NoId]

Steps == {"idle", "tally", "find", "write", "sweep", "delete"}

Busy == {p \in Runs : run[p].at # "idle"}

RankTypeOK ==
  /\ active \subseteq Users
  /\ stats \in [Users -> Statistics]
  /\ table \subseteq RankRows
  /\ \A p \in Runs : /\ run[p].at \in Steps
                     /\ run[p].held \in Nat
                     /\ run[p].gone \subseteq Nat
  /\ overlap \in BOOLEAN
  /\ starts \in 0 .. MaxStarts /\ changes \in 0 .. MaxChanges /\ crashes \in 0 .. MaxCrashes

RankInit ==
  /\ active \in SUBSET Users
  /\ stats \in [Users -> Statistics]
  /\ table = {}
  /\ run = [p \in Runs |-> Idle]
  /\ last = Nothing
  /\ overlap = FALSE
  /\ starts = 0 /\ changes = 0 /\ crashes = 0

-----------------------------------------------------------------------------
(* One recalculation                                                         *)

\* The users are read in whatever order the database has them.
Begin(p) ==
  /\ run[p].at = "idle" /\ starts < MaxStarts
  /\ \E order \in Orders(active) :
       run' = [run EXCEPT ![p] = [Idle EXCEPT !.at = "tally", !.order = order]]
  /\ last' = Nothing
  /\ overlap' = (overlap \/ Busy # {})
  /\ starts' = starts + 1
  /\ UNCHANGED <<active, stats, table, changes, crashes>>

\* The function f, told of u, too, if it did not know him.
Told(f, u, x) == [v \in DOMAIN f \cup {u} |-> IF v \in DOMAIN f THEN f[v] ELSE x]

Used(names, name) == \E v \in DOMAIN names : names[v] = name

\* The next user is given his name, with the least number behind it that makes
\* it differ from those given before, and his trades are read; after the last
\* one all is computed.
Tally(p) ==
  LET r == run[p]
      n == Cardinality(DOMAIN r.got) + 1
      u == r.order[n]
  IN
  /\ r.at = "tally" /\ n \in DOMAIN r.order
  /\ \E k \in Numbers :
       /\ ~Used(r.names, Name(Base[u], k)) /\ \A m \in 1 .. k - 1 : Used(r.names, Name(Base[u], m))
       /\ run' = [run EXCEPT ![p] = [@ EXCEPT !.got = Told(r.got, u, stats[u]),
                                             !.names = Told(r.names, u, Name(Base[u], k))]]
  /\ UNCHANGED <<active, stats, table, last, overlap, starts, changes, crashes>>

Compute(p) ==
  LET r == run[p]
      todo == Ranked(r.got)
  IN
  /\ r.at = "tally" /\ Cardinality(DOMAIN r.got) + 1 \notin DOMAIN r.order
  /\ run' = [run EXCEPT ![p] = [@ EXCEPT !.todo = todo, !.at = IF todo = {} THEN "sweep" ELSE "find"]]
  /\ UNCHANGED <<active, stats, table, last, overlap, starts, changes, crashes>>

RowsOf(u) == {r \in table : r.user = u}

\* The row of the next trader is looked for; any of his rows may be found.
Find(p) ==
  LET r == run[p] IN
  /\ r.at = "find"
  /\ \E u \in r.todo :
       /\ \A v \in r.todo \ {u} : Precedes(r.order, r.got, u, v)
       /\ \E id \in (IF RowsOf(u) = {} THEN {NoId} ELSE {x.id : x \in RowsOf(u)}) :
            run' = [run EXCEPT ![p] = [@ EXCEPT !.item = u, !.held = id, !.at = "write"]]
  /\ UNCHANGED <<active, stats, table, last, overlap, starts, changes, crashes>>

\* An id no row has and nobody remembers.
FreshId == CHOOSE i \in 1 .. Cardinality(table) + 1 + Cardinality(Runs) + Cardinality(UNION {run[p].gone : p \in Runs}) :
             /\ \A r \in table : r.id # i
             /\ \A p \in Runs : run[p].held # i /\ i \notin run[p].gone

Put(row, id) == [id |-> id, user |-> row.user, name |-> row.name, rank |-> row.rank,
                 tier |-> row.tier, stat |-> row.stat]

\* Mutant: the column username is not unique.
NotUnique(name, id) == FALSE

Taken(name, id) == \E r \in table : r.name = name /\ r.id # id

\* The row found is updated, if it is still there, or a new one inserted.
Write(p) ==
  LET r == run[p]
      row == RowOf(r, r.item)
      there == \E x \in table : x.id = r.held
      todo == r.todo \ {r.item}
  IN
  /\ r.at = "write"
  /\ (r.held = NoId \/ there) => ~Taken(row.name, r.held)
  /\ table' = IF r.held = NoId THEN table \cup {Put(row, FreshId)}
              ELSE IF there THEN {x \in table : x.id # r.held} \cup {Put(row, r.held)}
              ELSE table
  /\ run' = [run EXCEPT ![p] = [@ EXCEPT !.todo = todo, !.item = NoId, !.held = NoId,
                                         !.at = IF todo = {} THEN "sweep" ELSE "find"]]
  /\ UNCHANGED <<active, stats, last, overlap, starts, changes, crashes>>

Ended(p, how) ==
  /\ run' = [run EXCEPT ![p] = Idle]
  /\ last' = IF overlap THEN Nothing ELSE [how |-> how, order |-> run[p].order, got |-> run[p].got, item |-> run[p].item]

\* The name belongs to another row: the statement fails, and with it the run.
NameTaken(p) ==
  LET r == run[p] IN
  /\ r.at = "write"
  /\ r.held = NoId \/ \E x \in table : x.id = r.held
  /\ Taken(r.names[r.item], r.held)
  /\ Ended(p, "failed")
  /\ UNCHANGED <<active, stats, table, overlap, starts, changes, crashes>>

\* The ids of the rows of those who were not ranked.
Stale(got) == {x.id : x \in {y \in table : y.user \notin Ranked(got)}}

\* Mutant: the rows of users that are not ranked any more stay.
SweepNothing(p) ==
  /\ run[p].at = "sweep"
  /\ run' = [run EXCEPT ![p] = [@ EXCEPT !.at = "delete"]]
  /\ UNCHANGED <<active, stats, table, last, overlap, starts, changes, crashes>>

\* All rows are read, and those of users that were not ranked are to go.
Sweep(p) ==
  /\ run[p].at = "sweep"
  /\ run' = [run EXCEPT ![p] = [@ EXCEPT !.at = "delete", !.gone = Stale(run[p].got)]]
  /\ UNCHANGED <<active, stats, table, last, overlap, starts, changes, crashes>>

\* They are deleted one by one.
Delete(p) ==
  /\ run[p].at = "delete"
  /\ \E id \in run[p].gone :
       /\ table' = {x \in table : x.id # id}
       /\ run' = [run EXCEPT ![p] = [@ EXCEPT !.gone = run[p].gone \ {id}]]
  /\ UNCHANGED <<active, stats, last, overlap, starts, changes, crashes>>

Conclude(p) ==
  /\ run[p].at = "delete" /\ run[p].gone = {}
  /\ Ended(p, "done")
  /\ UNCHANGED <<active, stats, table, overlap, starts, changes, crashes>>

-----------------------------------------------------------------------------
(* What goes on meanwhile                                                    *)

\* Trades are imported, reverted, or their account is archived.
Trade(u, s) ==
  /\ changes < MaxChanges /\ s # stats[u]
  /\ stats' = [stats EXCEPT ![u] = s]
  /\ changes' = changes + 1
  /\ UNCHANGED <<active, table, run, last, overlap, starts, crashes>>

\* A user is blocked after failed logins, or has reset his password.
BlockOrUnblock(u) ==
  /\ changes < MaxChanges
  /\ active' = IF u \in active THEN active \ {u} ELSE active \cup {u}
  /\ changes' = changes + 1
  /\ UNCHANGED <<stats, table, run, last, overlap, starts, crashes>>

\* The backend dies; when it comes back it begins with a recalculation.
RankCrash ==
  /\ crashes < MaxCrashes
  /\ run' = [p \in Runs |-> Idle]
  /\ last' = Nothing
  /\ crashes' = crashes + 1
  /\ UNCHANGED <<active, stats, table, overlap, starts, changes>>

RankNext ==
  \/ \E p \in Runs : \/ Begin(p) \/ Tally(p) \/ Compute(p) \/ Find(p)
                     \/ Write(p) \/ NameTaken(p) \/ Sweep(p) \/ Delete(p) \/ Conclude(p)
  \/ \E u \in Users : BlockOrUnblock(u) \/ \E s \in Statistics : Trade(u, s)
  \/ RankCrash

RankSpec == RankInit /\ [][RankNext]_rankVars

-----------------------------------------------------------------------------
(* Properties                                                                *)

Done == last.how = "done"

\* Another may come by the name of u: by his own, or by one with a number behind.
SharesName(u) == \E v \in Users \ {u}, n \in Numbers : Name(Base[v], n) = Name(Base[u], 1)

AtLeastAsGood(s, t) == \A f \in Fields : s[f] >= t[f]

\* More are in an echelon than it has ranks for.
Crowded == \E e \in 1 .. 4 : Cardinality(Group(last.got, e)) > First[e + 1] - First[e]

\* When runs have never overlapped, the table holds after each that ended well
\* exactly one row for each trader it ranked, with his rank, whatever crashed
\* or failed half-way before; and one fails only at the row of a user whose name
\* another may come by, so that it has passed from one to the other.
TableIsRanking ==
  /\ Done => /\ {<<r.user, r.rank>> : r \in table}
                  = {<<u, Rank(last.order, last.got, u)>> : u \in Ranked(last.got)}
             /\ Cardinality(table) = Cardinality(Ranked(last.got))
  /\ last.how = "failed" => SharesName(last.item)

\* Everybody who was read is ranked, but who has ten thousand trades and no
\* profit, and belongs to no echelon. As long as no echelon has more traders
\* than ranks, two who have traded never share a rank, and who is at least as
\* good as another in everything that counts, and scores higher, is neither
\* ranked below him nor shown in a lower tier (echelons, scores, order, tiers).
RankingIsFair ==
  Done =>
    /\ \A u \in DOMAIN last.got :
         \/ \E r \in table : r.user = u
         \/ last.got[u].trades >= 10000 /\ last.got[u].pnl <= 0
    /\ Crowded \/
       \A r, s \in table :
         /\ r # s /\ r.rank = s.rank => r.rank = Unranked
         /\ AtLeastAsGood(r.stat, s.stat) /\ Score(r.stat) > Score(s.stat)
              => r.rank <= s.rank /\ r.tier <= s.tier

\* However runs overlap, who has a name that nobody else can come by, not with
\* a number behind his own either, has one row at most: of two runs that both
\* found none, the unique name stops the second.
OneRowEach ==
  \A u \in Users : SharesName(u) \/ \A r, s \in RowsOf(u) : r = s
=============================================================================
