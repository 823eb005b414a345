---------------------------- MODULE MCDashboard ----------------------------
EXTENDS Dashboard, Diary, TLC
CONSTANTS a1, a2, r1, r2

VARIABLE instance

MCvars == <<viewVars, diaryVars, instance>>

D(id, acc, at, gross, cost, session) ==
  [id |-> id, acc |-> acc, at |-> at, gross |-> gross, cost |-> cost, session |-> session]

\* Hours of four: a Sunday, a Monday (two that close together, and one whose
\* costs eat the profit) and a Friday, whose last hour is a Saturday's locally.
MCTrades == {D(1, a1, 3, 50, 0, "London"), D(2, a1, 6, 0 - 80, 0, "Asian"),
             D(3, a2, 6, 10, 0 - 30, "London"), D(4, a2, 23, 40, 0 - 5, "London")}

ASSUME ViewsMean

\* Requests and savers have no names.
Alike == Permutations(Requests)

Numbered(N) == {d \in AllTrades : d.id \in N}
Once(S) == [d \in AllTrades |-> IF d \in S THEN 1 ELSE 0]

\* One request for any view of any trades; one for the performance of three, with
\* any copy of them; two requests beside changes, over the lives of the entries,
\* the performance also with a copy of as many trades that are not the same; the
\* diary.
MCInit ==
  /\ ViewInit /\ DiaryInit
  /\ \/ instance = "any view" /\ mirror = Once(closed)
     \/ instance = "any copy" /\ closed \subseteq Numbered(1 .. 3) /\ \A d \in Numbered({4}) : mirror[d] = 0
     \/ instance = "list" /\ closed = Numbered({1, 2}) /\ mirror = Once(closed)
     \/ instance = "performance" /\ closed = Numbered({1, 2}) /\ mirror \in {Once(closed), Once(Numbered({1, 3}))}
     \/ instance = "diary" /\ closed = {} /\ mirror = Once(closed)

Nobody == [r \in Requests |-> Idle]
Asked  == {req'[r] : r \in {q \in Requests : req'[q].at # "idle"}}

\* One request, and one change or failure.
Single ==
  /\ changes' + failures' <= 1 /\ now' = 0
  /\ \A r, q \in Requests : req'[r] # Idle /\ req'[q] # Idle => r = q

AnyView == Single /\ UNCHANGED mirror /\ (answer' # NoAnswer => req' = Nobody)

\* What changes before the request is another copy to begin with.
AnyCopy ==
  /\ Single /\ \A x \in Asked : x.kind = "performance" /\ x.filter = All
  /\ req = Nobody => changes' + failures' = 0

\* Two requests for one view of all accounts.
Two(kind) ==
  /\ \A x \in Asked : x.kind = kind /\ x.filter = All
  /\ answer' # NoAnswer => answer'.kind = kind /\ answer'.filter = All
  /\ Numbered({4}) \cap closed' = {} /\ archived' \subseteq {a2}

TwoLists == Two("list") /\ UNCHANGED mirror

TwoPerformances ==
  /\ Two("performance") /\ \A d \in Numbered({4}) : mirror'[d] = 0
  /\ changes' <= 1 /\ failures' = 0 /\ now' <= 2 /\ archived' = {}
  /\ changes' # changes => UNCHANGED mirror /\ Numbered({1}) \subseteq closed'

\* The views and the diary share nothing.
MCNext ==
  /\ instance' = instance
  /\ \/ /\ instance # "diary" /\ ViewNext /\ UNCHANGED diaryVars
        /\ CASE instance = "any view"    -> AnyView
             [] instance = "any copy"    -> AnyCopy
             [] instance = "list"        -> TwoLists
             [] instance = "performance" -> TwoPerformances
     \/ instance = "diary" /\ DiaryNext /\ UNCHANGED viewVars

MCSpec == MCInit /\ [][MCNext]_MCvars
=============================================================================
