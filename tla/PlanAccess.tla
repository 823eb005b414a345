----------------------------- MODULE PlanAccess -----------------------------
(***************************************************************************)
(* What a user may do: the tier of the plan, which every guarded request   *)
(* asks for and which is cached in Redis next to the table of              *)
(* subscriptions. A request looks into the cache, on a miss reads a row    *)
(* and stores the tier for an hour; who changes a row saves it and then    *)
(* deletes the entry; some who change a row do not delete it at all. How   *)
(* the rows come to change is the matter of module Subscription; what both *)
(* have is named apart, so that one module can reason about the two.       *)
(***************************************************************************)
EXTENDS Naturals

CONSTANTS
  Plans,      \* rows of the user
  Guarded,    \* guarded requests served at a time (bound)
  Changes,    \* changes of rows carried out at a time (bound)
  Paid,       \* tiers a plan may have
  Ttl,        \* ticks an entry lives
  Term,       \* ticks a subscription runs
  Horizon,    \* last tick of the model (bound)
  MaxFailures \* failures of the cache (bound)

ASSUME PlanAccessAssumption ==
  /\ "FREE" \notin Paid
  /\ Ttl \in Nat \ {0} /\ Term \in Nat /\ Horizon \in Nat /\ MaxFailures \in Nat

VARIABLES
  clock,      \* the clock
  plan,       \* the subscriptions
  entry,      \* user_plan_tier:<user>: a tier until a time
  request,    \* how far each request has come
  change,     \* has the change saved its row and not yet deleted the entry?
  failures,   \* failures so far
  right       \* history: the tiers the table justified at each tick

planVars == <<clock, plan, entry, request, change, failures, right>>

Tier == Paid \cup {"FREE"}

\* A row that is not active has run out or is gone: FREE.
PlanRow == [active : BOOLEAN, end : Nat, tier : Tier]
NoPlan == [active |-> FALSE, end |-> 0, tier |-> "FREE"]

\* The entry is there while until > now.
NoEntry == [tier |-> "FREE", until |-> 0]

NoRequest == [at |-> "idle", tier |-> "FREE", since |-> 0]

PlanTypeOK ==
  /\ clock \in 0 .. Horizon
  /\ plan \in [Plans -> PlanRow]
  /\ entry \in [tier : Tier, until : Nat]
  /\ request \in [Guarded -> [at : {"idle", "missed", "read", "answered"},
                               tier : Tier, since : Nat]]
  /\ change \in [Changes -> BOOLEAN]
  /\ failures \in Nat
  /\ right \in [0 .. Horizon -> SUBSET Tier]

-----------------------------------------------------------------------------

Cached == entry.until > clock

Active == {s \in Plans : plan[s].active}
Running == {s \in Active : plan[s].end >= clock}

\* findOne takes any of the active rows; one whose period is over is as none.
TierOf(s) == IF s \in Running THEN plan[s].tier ELSE "FREE"
Readable == IF Active = {} THEN {"FREE"} ELSE {TierOf(s) : s \in Active}

\* The history: what the table justifies after the step.
Remember == right' = [right EXCEPT ![clock'] = @ \cup Readable']

\* The clock. No request runs for more than a tick, an answer not that long.
PlanTick ==
  /\ clock < Horizon
  /\ \A r \in Guarded :
       request[r] = NoRequest \/ (request[r].at # "answered" /\ request[r].since = clock)
  /\ clock' = clock + 1
  /\ UNCHANGED <<plan, entry, request, change, failures>>
  /\ Remember

-----------------------------------------------------------------------------
(***************************************************************************)
(* getUserPlan.                                                            *)
(***************************************************************************)

\* The cache fails; every such failure is caught.
CacheFails == failures < MaxFailures /\ failures' = failures + 1

Reply(r, tier) == request' = [request EXCEPT ![r] = [@ EXCEPT !.at = "answered", !.tier = tier]]

\* Mutant: a hit keeps the entry for another hour.
AskSliding(r) ==
  /\ request[r] = NoRequest
  /\ IF Cached
     THEN /\ request' = [request EXCEPT ![r] =
                           [at |-> "answered", tier |-> entry.tier, since |-> clock]]
          /\ entry' = [entry EXCEPT !.until = clock + Ttl]
     ELSE /\ request' = [request EXCEPT ![r] = [NoRequest EXCEPT !.at = "missed", !.since = clock]]
          /\ UNCHANGED entry
  /\ UNCHANGED <<clock, plan, change, failures>>
  /\ Remember

\* A request looks into the cache; a failure of the cache is a miss.
Ask(r) ==
  /\ request[r] = NoRequest
  /\ \/ /\ Cached
        /\ request' = [request EXCEPT ![r] =
                         [at |-> "answered", tier |-> entry.tier, since |-> clock]]
        /\ UNCHANGED failures
     \/ /\ IF Cached THEN CacheFails ELSE UNCHANGED failures
        /\ request' = [request EXCEPT ![r] =
                         [at |-> "missed", tier |-> "FREE", since |-> clock]]
  /\ UNCHANGED <<clock, plan, entry, change>>
  /\ Remember

Read(r) ==
  /\ request[r].at = "missed"
  /\ \E tier \in Readable :
       request' = [request EXCEPT ![r] = [@ EXCEPT !.at = "read", !.tier = tier]]
  /\ UNCHANGED <<clock, plan, entry, change, failures>>
  /\ Remember

\* The tier is stored for Ttl, if the cache does not fail, and answered.
Store(r) ==
  /\ request[r].at = "read"
  /\ \/ /\ entry' = [tier |-> request[r].tier, until |-> clock + Ttl]
        /\ UNCHANGED failures
     \/ /\ CacheFails
        /\ UNCHANGED entry
  /\ Reply(r, request[r].tier)
  /\ UNCHANGED <<clock, plan, change>>
  /\ Remember

Done(r) ==
  /\ request[r].at = "answered"
  /\ request' = [request EXCEPT ![r] = NoRequest]
  /\ UNCHANGED <<clock, plan, entry, change, failures>>
  /\ Remember

-----------------------------------------------------------------------------
(***************************************************************************)
(* Changes of the rows.                                                    *)
(***************************************************************************)

\* c saves s, and has the entry yet to delete.
Save(c, s, new) ==
  /\ ~change[c]
  /\ plan' = [plan EXCEPT ![s] = new]
  /\ change' = [change EXCEPT ![c] = TRUE]
  /\ UNCHANGED <<clock, entry, request, failures>>
  /\ Remember

\* An end after the last tick is as good as any other. (bound)
Ending(t) == IF t > Horizon THEN Horizon + 1 ELSE t

\* A payment that succeeded, an assignment, the trial.
Grant(c, s, tier) ==
  /\ ~plan[s].active
  /\ Save(c, s, [active |-> TRUE, end |-> Ending(clock + Term), tier |-> tier])

\* The administrator extends it, from its end or from now.
Prolong(c, s) ==
  /\ plan[s].active
  /\ Save(c, s, [plan[s] EXCEPT !.end = Ending((IF @ > clock THEN @ ELSE clock) + Term)])

\* The administrator cancels it; the cron expires it once it is over.
Revoke(c, s) == plan[s].active /\ Save(c, s, NoPlan)

\* The renewal job, a time-out and a rejected payment: no entry is deleted.
RevokeQuietly(s) ==
  /\ plan[s].active
  /\ plan' = [plan EXCEPT ![s] = NoPlan]
  /\ UNCHANGED <<clock, entry, request, change, failures>>
  /\ Remember

\* The entry is deleted, unless the cache fails or the backend dies.
Invalidate(c) ==
  /\ change[c]
  /\ change' = [change EXCEPT ![c] = FALSE]
  /\ \/ entry' = NoEntry /\ UNCHANGED failures
     \/ CacheFails /\ UNCHANGED entry
  /\ UNCHANGED <<clock, plan, request>>
  /\ Remember

-----------------------------------------------------------------------------

PlanInit ==
  /\ clock = 0
  /\ plan = [s \in Plans |-> NoPlan]
  /\ entry = NoEntry
  /\ request = [r \in Guarded |-> NoRequest]
  /\ change = [c \in Changes |-> FALSE]
  /\ failures = 0
  /\ right = [t \in 0 .. Horizon |-> IF t = 0 THEN Readable ELSE {}]

RequestStep == \E r \in Guarded : Ask(r) \/ Read(r) \/ Store(r) \/ Done(r)

ChangeStep ==
  \/ \E c \in Changes, s \in Plans :
       Prolong(c, s) \/ Revoke(c, s) \/ \E tier \in Paid : Grant(c, s, tier)
  \/ \E s \in Plans : RevokeQuietly(s)
  \/ \E c \in Changes : Invalidate(c)

PlanNext == PlanTick \/ RequestStep \/ ChangeStep

PlanSpec == PlanInit /\ [][PlanNext]_planVars

-----------------------------------------------------------------------------
(***************************************************************************)
(* Properties.                                                             *)
(***************************************************************************)

\* Whatever the requests, the changes and the failing cache do to each other:
\* the tier a request is answered was in the table less than Ttl and the time
\* of one request ago. A wrong entry cures itself, and no tier is served that
\* the user never had.
BoundedStaleness ==
  \A r \in Guarded : request[r].at = "answered" =>
    \E t \in 0 .. clock : clock <= t + Ttl /\ request[r].tier \in right[t]
=============================================================================
