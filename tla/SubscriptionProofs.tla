------------------------- MODULE SubscriptionProofs -------------------------
(***************************************************************************)
(* Proofs about Subscription, for any number of rows, handlers, faults and *)
(* acts of the administrator.                                              *)
(*                                                                         *)
(* What makes them go through is what a handler knows of the rows it has   *)
(* READ, since that is what it saves later: SeenPaid (a row seen active    *)
(* online has been paid for, and who has paid has paid, whatever he gets   *)
(* back), SeenFits (what a handler of each kind may have read, so that     *)
(* whoever saves a row with the status he read did not read it pending),   *)
(* Kept (what of a row read is still so) and JobsFit (the rows of a job in *)
(* hand); and what a webhook tells: HooksTrue and HeardTrue (what it says  *)
(* of a payment has befallen it), Owed (only an online row is owed for).   *)
(*                                                                         *)
(* Every action is split into what it does to the table (RowStep), to the  *)
(* payments (PayStep), to the handlers (TaskStep) and to the rest          *)
(* (RestType); StepKeeps puts the four together.                           *)
(***************************************************************************)
EXTENDS Subscription, PlanAccess, FiniteSetTheorems, TLAPS

SeenPaid ==
  \A p \in Procs, s \in Subs :
    task[p].seen[s].status = "ACTIVE" /\ task[p].seen[s].method = "online" => PaidOnce(s)

\* What has no status is no row, in the table and in what was read.
Blank ==
  /\ \A s \in Subs : row[s].status = "none" => row[s] = NoRow
  /\ \A p \in Procs, s \in Subs : task[p].seen[s].status = "none" => task[p].seen[s] = NoRow

\* Only rows that are there are read, and no row goes away.
SeenThere ==
  \A p \in Procs, s \in Subs :
    task[p].seen[s].status # "none" => row[s].status # "none"

Unresolved == {"none", "APPROVAL_PENDING"}

\* What a handler may have read: a row on its way to a new end or a mail is
\* resolved, one that times out is not, one the cron expires is over, and what
\* the provider is asked about is no grant.
Fits(do, r, t) ==
  /\ do \in {"extend", "follow"} => r.status # "APPROVAL_PENDING"
  /\ do = "timeout" => r.status \in Unresolved
  /\ do = "expire" => r = NoRow \/ (r.status = "ACTIVE" /\ r.end <= t)
  /\ do \in {"poll", "hook", "link", "payload"} => r.method = "online"

SeenFits == \A p \in Procs, s \in Subs : Fits(task[p].do, task[p].seen[s], now)

\* Who works for a job has read the row of the job, and pending exactly to poll
\* it or to give it up.
ForJob(t) ==
  t.job # NoJob =>
    /\ t.do \in {"poll", "timeout", "renew", "charge", "follow"}
    /\ \A s \in Subs : t.seen[s] # NoRow =>
         /\ s = t.job.sub
         /\ t.job.name = "check-pending" => t.seen[s].status = "APPROVAL_PENDING"

JobsFit == \A p \in Procs : ForJob(task[p])

\* The method of a row that was read is the same.
Kept ==
  \A p \in Procs, s \in Subs :
    task[p].seen[s].status # "none" => row[s].method = task[p].seen[s].method

\* What is owed is owed for an online row.
Owed == \A s \in Subs : payment[s] # "none" => row[s].status # "none" /\ row[s].method = "online"

\* The event e has befallen the payment of s.
Befell(s, e) == payment[s] = e \/ (e = "paid" /\ payment[s] = "refunded")

\* A webhook does not lie, on its way ...
HooksTrue == \A s \in Subs, e \in Event : <<s, e>> \in hooks => Befell(s, e)

\* ... and in hand.
Heard(t) ==
  t.do \in {"hook", "link", "payload"} =>
    \A s \in Subs : t.seen[s] # NoRow => t.event \in Event /\ Befell(s, t.event)

HeardTrue == \A p \in Procs : Heard(task[p])

\* Only what the provider has an id of is asked about, and no grant has one.
Linked ==
  /\ \A s \in Subs : row[s].linked => row[s].method = "online"
  /\ \A p \in Procs, s \in Subs : task[p].seen[s].linked => task[p].seen[s].method = "online"

IInv ==
  /\ TypeOK /\ PaidFor /\ SeenPaid /\ Blank /\ SeenThere /\ SeenFits /\ JobsFit /\ Kept /\ Linked
  /\ Owed /\ HooksTrue /\ HeardTrue

-----------------------------------------------------------------------------
(***************************************************************************)
(* A step, in four parts.                                                  *)
(***************************************************************************)

Doing == {"nothing", "poll", "hook", "link", "payload", "timeout", "renew", "charge",
          "follow", "expire", "cancel", "extend", "assign", "trial"}
Task == [do : Doing, seen : [Subs -> Row], job : Job \cup {NoJob},
         event : Event \cup {"none"}, since : Nat]

\* The payload that will activate the row of s saves the id it names.
Linking(s) ==
  \E p \in Procs : /\ s \in Seen(p) /\ task[p].event = "paid"
                  /\ task[p].do = "link" /\ task'[p].do = "payload"

RowStep ==
  /\ row' \in [Subs -> Row]
  /\ \A s \in Subs : row'[s] # row[s] =>
       /\ row'[s].status # "none"
       /\ row'[s].status = "APPROVAL_PENDING" => row[s].status = "none" \/ Linking(s)
       /\ row'[s].status = "ACTIVE" /\ row'[s].method = "online" => PaidOnce(s)'
       /\ row[s].status # "none" => row'[s].method = row[s].method
       /\ row'[s].linked => row'[s].method = "online"

PayStep ==
  /\ payment' \in [Subs -> {"none", "pending"} \cup Event]
  /\ \A s \in Subs : payment'[s] # payment[s] =>
       \/ payment[s] = "pending"
       \/ payment[s] = "paid" /\ payment'[s] = "refunded"
       \/ payment[s] = "none" /\ row'[s].status # "none" /\ row'[s].method = "online"

TaskStep ==
  /\ task' \in [Procs -> Task]
  /\ \A p \in Procs, s \in Subs :
       /\ \/ task'[p].seen[s] \in {NoRow, task[p].seen[s], row[s]}
          \/ /\ task[p].seen[s] # NoRow /\ task[p].seen[s].method = "online"
             /\ task'[p].seen[s] = [task[p].seen[s] EXCEPT !.linked = TRUE]
       /\ Fits(task'[p].do, task'[p].seen[s], now)
  /\ \A p \in Procs : ForJob(task'[p]) /\ Heard(task'[p])

RestType ==
  /\ now' \in 0 .. MaxTime /\ now <= now'
  /\ hooks' \subseteq Subs \X Event
  /\ \A s \in Subs, e \in Event : <<s, e>> \in hooks' => <<s, e>> \in hooks \/ Befell(s, e)'
  /\ jobs' \in [Job -> Nat]
  /\ trialUsed' \in BOOLEAN
  /\ faults' \in Nat
  /\ acts' \in Nat

LEMMA TaskType == IInv => task \in [Procs -> Task]
BY DEF IInv, TypeOK, Task, Doing

LEMMA NoRowType ==
  NoRow \in Row /\ NoRow.status = "none" /\ ~NoRow.linked /\ NoRow.method = "online"
BY DEF NoRow, Row, Status, Method

\* What fits still does when time has gone on, and nothing read always does.
LEMMA FitsOn ==
  /\ \A do : \A r \in Row, t \in Nat, u \in Nat : Fits(do, r, t) /\ t <= u => Fits(do, r, u)
  /\ \A do, t : Fits(do, NoRow, t)
BY NoRowType DEF Fits, Unresolved, Row

\* What has befallen a payment has for good.
LEMMA BefellOn ==
  ASSUME PayStep, NEW s \in Subs, NEW e \in Event, Befell(s, e) PROVE Befell(s, e)'
BY DEF PayStep, Befell, Event

\* A row with a link is the row in all the rest.
LEMMA LinkRow ==
  ASSUME NEW r \in Row
  PROVE  /\ [r EXCEPT !.linked = TRUE] \in Row
         /\ [r EXCEPT !.linked = TRUE].status = r.status
         /\ [r EXCEPT !.linked = TRUE].method = r.method
         /\ [r EXCEPT !.linked = TRUE].end = r.end
         /\ [r EXCEPT !.linked = TRUE].linked
BY DEF Row

\* What is known of the rows in hand after a step.
LEMMA SeenStep ==
  ASSUME IInv, TaskStep, NEW p \in Procs, NEW s \in Subs
  PROVE  \/ task'[p].seen[s] = NoRow
         \/ task'[p].seen[s] = row[s]
         \/ /\ task'[p].seen[s].status = task[p].seen[s].status
            /\ task'[p].seen[s].method = task[p].seen[s].method
            /\ task'[p].seen[s].linked => task'[p].seen[s].method = "online"
            /\ task'[p].seen[s].status = "none" => task'[p].seen[s] = NoRow
<1>1. task[p].seen[s] \in Row
  BY TaskType DEF Task
<1>2. CASE task'[p].seen[s] \in {NoRow, row[s]}
  BY <1>2
<1>3. CASE task'[p].seen[s] = task[p].seen[s]
  BY <1>3 DEF IInv, Linked, Blank
<1>4. CASE /\ task[p].seen[s] # NoRow /\ task[p].seen[s].method = "online"
           /\ task'[p].seen[s] = [task[p].seen[s] EXCEPT !.linked = TRUE]
  BY <1>1, <1>4, LinkRow DEF IInv, Blank
<1> QED BY <1>2, <1>3, <1>4 DEF TaskStep

LEMMA StepKeeps == ASSUME IInv, RowStep, PayStep, TaskStep, RestType PROVE IInv' /\ RowStep
<1>1. TypeOK'
  BY DEF RowStep, PayStep, TaskStep, RestType, TypeOK, Task, Doing
<1>2. PaidFor'
  BY DEF IInv, PaidFor, RowStep, PayStep, PaidOnce
<1>3. SeenPaid'
  <2>1. \A s \in Subs : PaidOnce(s) => PaidOnce(s)'
    BY DEF PaidOnce, PayStep
  <2> QED BY <2>1, SeenStep, NoRowType DEF IInv, SeenPaid, PaidFor
<1>4. Blank'
  BY SeenStep DEF IInv, Blank, RowStep
<1>5. SeenThere'
  BY SeenStep, NoRowType DEF IInv, SeenThere, RowStep
<1>6. SeenFits'
  <2>1. now \in Nat /\ now' \in Nat /\ now <= now'
    BY DEF IInv, TypeOK, RestType
  <2>2. \A p \in Procs, s \in Subs : task'[p].seen[s] \in Row
    BY DEF TaskStep, Task
  <2>3. ASSUME NEW p \in Procs, NEW s \in Subs PROVE Fits(task'[p].do, task'[p].seen[s], now')
    <3>1. Fits(task'[p].do, task'[p].seen[s], now)
      BY DEF TaskStep
    <3> QED BY <2>1, <2>2, <3>1, FitsOn
  <2> QED BY <2>3 DEF SeenFits
<1>7. JobsFit'
  BY DEF TaskStep, JobsFit
<1>8. Kept'
  BY SeenStep, NoRowType DEF IInv, Kept, SeenThere, RowStep
<1>9. Linked'
  <2>1. \A s \in Subs : row'[s].linked => row'[s].method = "online"
    BY DEF IInv, Linked, RowStep
  <2> QED BY <2>1, SeenStep, NoRowType DEF IInv, Linked
<1>10. Owed'
  BY DEF IInv, Owed, PayStep, RowStep
<1>11. HooksTrue'
  BY BefellOn DEF IInv, HooksTrue, RestType
<1>12. HeardTrue'
  BY BefellOn DEF TaskStep, HeardTrue, Heard
<1> QED BY <1>1, <1>2, <1>3, <1>4, <1>5, <1>6, <1>7, <1>8, <1>9, <1>10, <1>11, <1>12 DEF IInv

-----------------------------------------------------------------------------
(***************************************************************************)
(* The parts actions are made of.                                          *)
(***************************************************************************)

LEMMA SameRows == ASSUME IInv, UNCHANGED row PROVE RowStep
BY DEF IInv, TypeOK, RowStep

LEMMA SamePayments == ASSUME IInv, UNCHANGED payment PROVE PayStep
BY DEF IInv, TypeOK, PayStep

LEMMA SameTasks == ASSUME IInv, UNCHANGED task PROVE TaskStep
BY TaskType DEF IInv, SeenFits, JobsFit, HeardTrue, TaskStep

\* A handler may save s as r.
LEMMA SaveStep ==
  ASSUME IInv, NEW s \in Subs, NEW r \in Row,
         r.status \notin {"none", "APPROVAL_PENDING"},
         r.status = "ACTIVE" /\ r.method = "online" => PaidOnce(s),
         row[s].status # "none" => r.method = row[s].method,
         r.linked => r.method = "online",
         row' = [row EXCEPT ![s] = r], UNCHANGED payment
  PROVE  RowStep
BY DEF IInv, TypeOK, RowStep, PaidOnce

LEMMA IdleTask ==
  Idle \in Task /\ Idle.do = "nothing" /\ Idle.job = NoJob /\ \A s \in Subs : Idle.seen[s] = NoRow
BY NoRowType DEF Idle, Task, Doing

LEMMA EndStep == ASSUME IInv, NEW p \in Procs, End(p) PROVE TaskStep
BY TaskType, IdleTask, FitsOn
   DEF IInv, SeenFits, JobsFit, ForJob, HeardTrue, Heard, TaskStep, End

LEMMA BeginOnStep ==
  ASSUME IInv, NEW p \in Procs, NEW what \in Doing, NEW S \in SUBSET Subs,
         NEW job \in Job \cup {NoJob}, NEW event \in Event \cup {"none"},
         BeginOn(p, what, S, job, event),
         \A s \in S : Fits(what, row[s], now),
         job # NoJob =>
           /\ what \in {"poll", "timeout", "renew", "charge", "follow"}
           /\ S = {job.sub}
           /\ job.name = "check-pending" => row[job.sub].status = "APPROVAL_PENDING",
         what \in {"hook", "link", "payload"} =>
           event \in Event /\ \A s \in S : Befell(s, event)
  PROVE  TaskStep
<1> DEFINE new == [do |-> what, seen |-> ReadRows(S), job |-> job, event |-> event, since |-> now]
<1>1. task' = [task EXCEPT ![p] = new]
  BY DEF BeginOn
<1>2. new \in Task
  BY NoRowType DEF IInv, TypeOK, Task, ReadRows
<1>3. /\ new.do = what /\ new.job = job /\ new.event = event
      /\ \A s \in Subs : /\ s \notin S => new.seen[s] = NoRow
                         /\ s \in S => new.seen[s] = row[s]
  BY DEF ReadRows
<1> HIDE DEF new
<1>4. \A s \in Subs : new.seen[s] \in {NoRow, row[s]} /\ Fits(new.do, new.seen[s], now)
  BY <1>3, FitsOn
<1>5. ForJob(new) /\ Heard(new)
  BY <1>3 DEF ForJob, Heard
<1> QED BY <1>1, <1>2, <1>4, <1>5, TaskType DEF IInv, SeenFits, JobsFit, HeardTrue, TaskStep

LEMMA BeginStep ==
  ASSUME IInv, NEW p \in Procs, NEW what \in Doing \ {"hook", "link", "payload"},
         NEW S \in SUBSET Subs, NEW job \in Job \cup {NoJob}, Begin(p, what, S, job),
         \A s \in S : Fits(what, row[s], now),
         job # NoJob =>
           /\ what \in {"poll", "timeout", "renew", "charge", "follow"}
           /\ S = {job.sub}
           /\ job.name = "check-pending" => row[job.sub].status = "APPROVAL_PENDING"
  PROVE  TaskStep
BY BeginOnStep DEF Begin

LEMMA GoOnStep ==
  ASSUME IInv, NEW p \in Procs, NEW s \in Subs, task' = GoOn(p, s) PROVE TaskStep
<1> DEFINE new == [task[p] EXCEPT !.seen[s] = NoRow]
<1>1. task' = [task EXCEPT ![p] = new]
  BY TaskType DEF GoOn, Task
<1>2. /\ new \in Task /\ new.do = task[p].do /\ new.job = task[p].job /\ new.event = task[p].event
      /\ \A t \in Subs : new.seen[t] \in {NoRow, task[p].seen[t]}
  BY TaskType, NoRowType DEF Task
<1> HIDE DEF new
<1>3. ForJob(new) /\ \A t \in Subs : Fits(new.do, new.seen[t], now)
  BY <1>2, FitsOn DEF IInv, SeenFits, JobsFit, ForJob
<1>4. Heard(new)
  BY <1>2 DEF IInv, HeardTrue, Heard
<1> QED BY <1>1, <1>2, <1>3, <1>4, TaskType DEF IInv, SeenFits, JobsFit, HeardTrue, TaskStep

LEMMA EnqueuedType ==
  ASSUME IInv, NEW name, NEW s, NEW at PROVE Enqueued(name, s, at) \in [Job -> Nat]
BY DEF IInv, TypeOK, Enqueued

LEMMA QueueType ==
  ASSUME IInv, NEW name, NEW s, NEW at, Queue(name, s, at)
  PROVE  jobs' \in [Job -> Nat] /\ faults' \in Nat
BY EnqueuedType DEF Queue, Fault, IInv, TypeOK

LEMMA TakenType == ASSUME IInv, NEW j \in Job, Due(j) PROVE Taken(j) \in [Job -> Nat]
BY DEF IInv, TypeOK, Taken, Due

LEMMA NewRowFree == ASSUME Free # {} PROVE NewRow \in Subs /\ row[NewRow].status = "none"
BY DEF Free, NewRow

\* What p has seen of s is a row that is there.
LEMMA SeenRow ==
  ASSUME IInv, NEW p \in Procs, NEW s \in Seen(p)
  PROVE  /\ s \in Subs /\ task[p].seen[s] \in Row
         /\ task[p].seen[s].status # "none" /\ row[s].status # "none"
         /\ task[p].seen[s].method = row[s].method
         /\ task[p].seen[s].linked => task[p].seen[s].method = "online"
BY TaskType DEF IInv, Blank, SeenThere, Kept, Linked, Seen, Task

LEMMA PeriodEnd == ASSUME IInv PROVE now \in Nat /\ now + Period \in Nat
BY SubscriptionAssumption DEF IInv, TypeOK

LEMMA SameTime == ASSUME IInv, UNCHANGED now PROVE now' \in 0 .. MaxTime /\ now <= now'
BY DEF IInv, TypeOK

LEMMA FaultType == ASSUME IInv, NEW kind, Fault(kind) PROVE faults' \in Nat
BY DEF IInv, TypeOK, Fault

LEMMA ActType == ASSUME IInv, NEW what, Act(what) PROVE acts' \in Nat
BY DEF IInv, TypeOK, Act

-----------------------------------------------------------------------------
(***************************************************************************)
(* What happens outside, and what only begins a piece of work.             *)
(***************************************************************************)

LEMMA OutsideKeeps == ASSUME IInv, Outside PROVE IInv' /\ RowStep
<1>1. CASE Tick
  <2>1. RestType
    BY <1>1, SubscriptionAssumption DEF Tick, IInv, TypeOK, RestType
  <2> QED BY <1>1, <2>1, SameRows, SamePayments, SameTasks, StepKeeps DEF Tick
<1>2. ASSUME NEW hook \in hooks, LoseHook(hook) PROVE IInv' /\ RowStep
  <2>1. RestType
    BY <1>2, FaultType DEF LoseHook, IInv, TypeOK, RestType
  <2> QED BY <1>2, <2>1, SameRows, SamePayments, SameTasks, StepKeeps DEF LoseHook
<1>3. ASSUME NEW s \in Subs, NEW outcome \in Event, Become(s, outcome),
             \/ payment[s] = "pending"
             \/ payment[s] = "paid" /\ outcome = "refunded",
             UNCHANGED <<now, row, jobs, task, trialUsed, faults>>, acts' \in Nat
      PROVE  IInv' /\ RowStep
  <2>1. PayStep
    BY <1>3 DEF Become, IInv, TypeOK, PayStep, Event
  <2>2. Befell(s, outcome)'
    BY <1>3 DEF Become, IInv, TypeOK, Befell
  <2>3. RestType
    BY <1>3, <2>2 DEF Become, IInv, TypeOK, RestType
  <2> QED BY <1>3, <2>1, <2>3, SameRows, SameTasks, StepKeeps
<1>4. ASSUME NEW s \in Subs, NEW outcome \in {"paid", "failed"}, Settle(s, outcome) PROVE IInv' /\ RowStep
  BY <1>3, <1>4 DEF Settle, IInv, TypeOK, Event
<1>5. ASSUME NEW s \in Subs, Refund(s) PROVE IInv' /\ RowStep
  BY <1>3, <1>5, ActType DEF Refund, Event
<1> QED BY <1>1, <1>2, <1>4, <1>5 DEF Outside

LEMMA SubscribeKeeps == ASSUME IInv, NEW linked \in Named, Subscribe(linked) PROVE IInv' /\ RowStep
<1>1. NewRow \in Subs /\ row[NewRow].status = "none" /\ linked \in BOOLEAN
  BY NewRowFree, SubscriptionAssumption DEF Subscribe, Room
<1>2. /\ Pending(linked) \in Row /\ Pending(linked).status = "APPROVAL_PENDING"
      /\ Pending(linked).method = "online"
  BY <1>1 DEF Pending, NoRow, Row, Status, Method
<1>3. RowStep
  BY <1>1, <1>2 DEF Subscribe, IInv, TypeOK, RowStep
<1>4. PayStep
  <2>1. payment[NewRow] = "none" /\ row'[NewRow] = Pending(linked)
    BY <1>1 DEF Subscribe, IInv, TypeOK, Owed
  <2> QED BY <1>1, <1>2, <2>1 DEF Subscribe, IInv, TypeOK, PayStep
<1>5. RestType
  BY QueueType DEF Subscribe, IInv, TypeOK, RestType
<1> QED BY <1>3, <1>4, <1>5, SameTasks, StepKeeps DEF Subscribe

LEMMA RequestsKeep ==
  ASSUME IInv, NEW p \in Procs,
         \/ \E s \in Subs : CheckStatus(p, s) \/ \E event \in Event : Webhook(p, s, event)
         \/ Cancel(p) \/ Extend(p) \/ Assign(p) \/ TrialCheck(p) \/ ExpireScan(p)
  PROVE  IInv' /\ RowStep
<1>1. RowStep /\ PayStep
  BY SameRows, SamePayments DEF CheckStatus, Webhook, Cancel, Extend, Assign, TrialCheck, ExpireScan
<1>2. RestType
  BY ActType, SameTime DEF CheckStatus, Webhook, Cancel, Extend, Assign, TrialCheck, ExpireScan,
                 IInv, TypeOK, RestType
<1>3. TaskStep
  <2>1. ASSUME NEW s \in Subs, CheckStatus(p, s) PROVE TaskStep
    <3>1. row[s].linked => Fits("poll", row[s], now)
      BY DEF IInv, Linked, Fits
    <3> QED BY <2>1, <3>1, BeginStep DEF CheckStatus, Doing
  <2>5. ASSUME NEW s \in Subs, NEW event \in Event, Webhook(p, s, event) PROVE TaskStep
    <3>1. Befell(s, event)
      BY <2>5 DEF Webhook, IInv, HooksTrue
    <3>2. Fits("hook", row[s], now)
      BY <3>1 DEF IInv, Owed, Befell, Event, Fits
    <3> QED BY <2>5, <3>1, <3>2, BeginOnStep DEF Webhook, Doing
  <2>2. ASSUME Cancel(p) \/ Assign(p) \/ TrialCheck(p) PROVE TaskStep
    <3>1. \A what \in {"cancel", "assign", "trial"} : \A r, t : Fits(what, r, t)
      BY DEF Fits
    <3> QED BY <2>2, <3>1, BeginStep DEF Cancel, Assign, TrialCheck, ActiveRows, Doing
  <2>3. ASSUME Extend(p) PROVE TaskStep
    <3>1. \A s \in Newest : s \in Subs /\ Fits("extend", row[s], now)
      BY DEF Newest, ActiveRows, Fits
    <3> QED BY <2>3, <3>1, BeginStep DEF Extend, Doing
  <2>4. ASSUME ExpireScan(p) PROVE TaskStep
    <3>1. Overdue \subseteq Subs /\ \A s \in Overdue : Fits("expire", row[s], now)
      BY DEF Overdue, ActiveRows, Fits
    <3> QED BY <2>4, <3>1, BeginStep DEF ExpireScan, Doing
  <2> QED BY <2>1, <2>2, <2>3, <2>4, <2>5
<1> QED BY <1>1, <1>2, <1>3, StepKeeps

LEMMA JobsKeep ==
  ASSUME IInv, NEW p \in Procs, NEW j \in Job,
         CheckPending(p, j) \/ RenewalCharge(p, j) \/ Remarketing(p, j)
  PROVE  IInv' /\ RowStep
<1>1. RowStep /\ PayStep
  BY SameRows, SamePayments DEF CheckPending, RenewalCharge, Remarketing
<1>2. RestType
  BY TakenType DEF CheckPending, RenewalCharge, Remarketing, IInv, TypeOK, RestType
<1>3. TaskStep
  <2>1. j.sub \in Subs
    BY DEF Job
  <2>2. CASE CheckPending(p, j)
    <3>1. row[j.sub].status = "APPROVAL_PENDING" => Fits("timeout", row[j.sub], now)
      BY DEF Fits, Unresolved
    <3>2. row[j.sub].linked => Fits("poll", row[j.sub], now)
      BY <2>1 DEF Fits, IInv, Linked
    <3> QED BY <2>1, <2>2, <3>1, <3>2, BeginStep, SameTasks DEF CheckPending, Doing
  <2>3. CASE RenewalCharge(p, j)
    <3>1. \A r, t : Fits("renew", r, t)
      BY DEF Fits
    <3> QED BY <2>1, <2>3, <3>1, BeginStep, SameTasks DEF RenewalCharge, Doing, Unresolved
  <2>4. CASE Remarketing(p, j)
    <3>1. row[j.sub].status \in {"CANCELLED", "EXPIRED"} => Fits("follow", row[j.sub], now)
      BY DEF Fits
    <3> QED BY <2>1, <2>4, <3>1, BeginStep, SameTasks DEF Remarketing, Doing, Unresolved
  <2> QED BY <2>2, <2>3, <2>4
<1> QED BY <1>1, <1>2, <1>3, StepKeeps

LEMMA CrashKeeps == ASSUME IInv, Crash PROVE IInv' /\ RowStep
<1>1. TaskStep
  BY IdleTask, FitsOn DEF Crash, TaskStep, ForJob, Heard
<1>2. \A j \in Job : Cardinality({p \in Procs : task[p].job = j}) \in Nat
  BY SubscriptionAssumption, FS_Subset, FS_CardinalityType
<1>3. RestType
  BY <1>2, FaultType DEF Crash, IInv, TypeOK, RestType
<1> QED BY <1>1, <1>3, SameRows, SamePayments, StepKeeps DEF Crash

-----------------------------------------------------------------------------
(***************************************************************************)
(* What saves.                                                             *)
(***************************************************************************)

\* What a handler goes by is so.
LEMMA OutcomeTrue ==
  ASSUME IInv, NEW p \in Procs, NEW s \in Seen(p)
  PROVE  /\ Success(p, s) => PaidOnce(s)
         /\ Failure(p, s) => \/ payment[s] = "failed"
                             \/ task[p].do = "payload" /\ payment[s] = "refunded"
<1>1. task[p].do = "payload" => Befell(s, task[p].event)
  BY DEF IInv, HeardTrue, Heard, Seen
<1> QED BY <1>1 DEF Success, Failure, Outcome, Working, PaidOnce, Befell

LEMMA ActivateStep ==
  ASSUME IInv, NEW p \in Procs, NEW s \in Seen(p), Activate(s, task[p].seen[s]),
         Success(p, s), UNCHANGED payment
  PROVE  RowStep /\ jobs' \in [Job -> Nat] /\ faults' \in Nat
<1> DEFINE new == [task[p].seen[s] EXCEPT !.status = "ACTIVE", !.end = now + Period]
<1>1. /\ new \in Row /\ new.status = "ACTIVE"
      /\ new.method = row[s].method
      /\ new.linked => new.method = "online"
  BY SeenRow, PeriodEnd DEF Row, Status
<1>2. s \in Subs /\ PaidOnce(s)
  BY SeenRow, OutcomeTrue
<1>3. CASE UNCHANGED <<row, jobs, faults>>
  BY <1>3, SameRows DEF IInv, TypeOK
<1>4. CASE row' = [row EXCEPT ![s] = new] /\ Queue("renewal-charge", s, now + Period)
  <2> HIDE DEF new
  <2> QED BY <1>1, <1>2, <1>4, SaveStep, QueueType
<1> QED BY <1>3, <1>4 DEF Activate

\* A row that is saved with another status than ACTIVE.
LEMMA CloseStep ==
  ASSUME IInv, NEW p \in Procs, NEW s \in Seen(p), NEW status \in {"CANCELLED", "EXPIRED"},
         row' = [row EXCEPT ![s] = [task[p].seen[s] EXCEPT !.status = status]],
         UNCHANGED payment
  PROVE  RowStep
<1> DEFINE new == [task[p].seen[s] EXCEPT !.status = status]
<1>1. /\ new \in Row /\ new.status = status /\ s \in Subs
      /\ new.method = row[s].method
      /\ new.linked => new.method = "online"
  BY SeenRow DEF Row, Status
<1> HIDE DEF new
<1>2. row' = [row EXCEPT ![s] = new]
  BY DEF new
<1> QED BY <1>1, <1>2, SaveStep

LEMMA RejectStep ==
  ASSUME IInv, NEW p \in Procs, NEW s \in Seen(p), NEW resolved,
         Reject(s, task[p].seen[s], resolved), UNCHANGED payment
  PROVE  RowStep /\ jobs' \in [Job -> Nat] /\ faults' \in Nat
<1>1. CASE UNCHANGED <<row, jobs, faults>>
  BY <1>1, SameRows DEF IInv, TypeOK
<1>2. CASE /\ row' = [row EXCEPT ![s] = [task[p].seen[s] EXCEPT !.status = "CANCELLED"]]
           /\ Queue("remarketing-followup", s, now + FollowUp)
  BY <1>2, CloseStep, QueueType
<1> QED BY <1>1, <1>2 DEF Reject

LEMMA RequeueStep ==
  ASSUME IInv, NEW j, Requeue(j) PROVE RowStep /\ jobs' \in [Job -> Nat]
BY SameRows, EnqueuedType DEF Requeue, IInv, TypeOK

LEMMA LearnKeeps ==
  ASSUME IInv, NEW p \in Procs, Answer(p) \/ Payload(p) \/ TimeOut(p) PROVE IInv' /\ RowStep
<1>1. TaskStep /\ PayStep
  BY EndStep, SamePayments DEF Answer, Payload, TimeOut
<1>2. RowStep /\ jobs' \in [Job -> Nat] /\ faults' \in Nat
  <2>1. CASE Answer(p)
    <3>1. PICK s \in Seen(p) :
            \/ Success(p, s) /\ Activate(s, task[p].seen[s])
            \/ Reject(s, task[p].seen[s], {"CANCELLED"})
            \/ /\ Requeue(task[p].job)
               /\ UNCHANGED faults \/ Fault("silence")
      BY <2>1 DEF Answer
    <3>2. UNCHANGED payment
      BY <2>1 DEF Answer
    <3>3. CASE Requeue(task[p].job) /\ (UNCHANGED faults \/ Fault("silence"))
      BY <3>3, RequeueStep, FaultType DEF IInv, TypeOK
    <3> QED BY <3>1, <3>2, <3>3, ActivateStep, RejectStep
  <2>2. CASE Payload(p)
    BY <2>2, ActivateStep, RejectStep DEF Payload
  <2>3. CASE TimeOut(p)
    <3>1. PICK s \in Seen(p) :
            /\ row' = [row EXCEPT ![s] = [task[p].seen[s] EXCEPT !.status = "CANCELLED"]]
            /\ Queue("remarketing-followup", s, now + FollowUp)
      BY <2>3 DEF TimeOut
    <3>2. UNCHANGED payment
      BY <2>3 DEF TimeOut
    <3> QED BY <3>1, <3>2, CloseStep, QueueType
  <2> QED BY <2>1, <2>2, <2>3
<1>3. RestType
  BY <1>2 DEF Answer, Payload, TimeOut, IInv, TypeOK, RestType
<1> QED BY <1>1, <1>2, <1>3, StepKeeps

LEMMA FallBackKeeps == ASSUME IInv, NEW p \in Procs, FallBack(p) PROVE IInv' /\ RowStep
<1>1. PICK s \in Seen(p), what \in {"link", "payload"} :
        task' = [task EXCEPT ![p].do = what, ![p].seen = ReadRows({s})]
  BY DEF FallBack
<1>2. ReadRows({s}) \in [Subs -> Row]
  BY NoRowType DEF ReadRows, IInv, TypeOK
<1>3. PICK seen \in [Subs -> Row] : seen = ReadRows({s})
  BY <1>2
<1>8. PICK new : new = [[task[p] EXCEPT !.do = what] EXCEPT !.seen = seen]
  OBVIOUS
<1>4. task' = [task EXCEPT ![p] = new]
  BY <1>1, <1>3, <1>8, TaskType DEF Task
<1>5. /\ new \in Task /\ new.do = what /\ new.seen = seen
      /\ new.job = task[p].job /\ new.event = task[p].event
  <2>1. PICK t \in Task : t = task[p]
    BY TaskType
  <2>2. PICK m : m = [t EXCEPT !.do = what]
    OBVIOUS
  <2>3. m = [do |-> what, seen |-> t.seen, job |-> t.job, event |-> t.event, since |-> t.since]
    BY <2>2 DEF Task
  <2>4. new = [m EXCEPT !.seen = seen]
    BY <1>8, <2>1, <2>2
  <2>5. new = [do |-> what, seen |-> seen, job |-> t.job, event |-> t.event, since |-> t.since]
    BY <2>3, <2>4
  <2>6. t.job \in Job \cup {NoJob} /\ t.event \in Event \cup {"none"} /\ t.since \in Nat
    BY DEF Task
  <2> QED BY <2>1, <2>5, <2>6 DEF Task, Doing
<1>6. TaskStep
  <2>1. task[p].do = "hook" /\ task[p].job = NoJob
    BY DEF FallBack, Working, IInv, JobsFit, ForJob
  <2>2. row[s].method = "online" /\ s \in Subs
    BY <2>1, SeenRow DEF IInv, SeenFits, Fits
  <2>3. \A t \in Subs : seen[t] = IF t = s THEN row[s] ELSE NoRow
    BY <1>3 DEF ReadRows
  <2>4. \A t \in Subs : new.seen[t] \in {NoRow, row[t]} /\ Fits(what, new.seen[t], now)
    BY <1>5, <2>2, <2>3, FitsOn DEF Fits
  <2>5. ForJob(new)
    BY <1>5, <2>1 DEF ForJob
  <2>6. Heard(new)
    BY <1>5, <2>1, <2>3 DEF IInv, HeardTrue, Heard, Seen
  <2> QED BY <1>4, <1>5, <2>4, <2>5, <2>6, TaskType DEF IInv, SeenFits, JobsFit, HeardTrue, TaskStep
<1>7. RestType
  BY FaultType DEF FallBack, IInv, TypeOK, RestType
<1> QED BY <1>6, <1>7, SameRows, SamePayments, StepKeeps DEF FallBack

LEMMA LinkKeeps == ASSUME IInv, NEW p \in Procs, Link(p) PROVE IInv' /\ RowStep
<1>1. PICK s \in Seen(p) :
        LET linked == [task[p].seen[s] EXCEPT !.linked = TRUE]
        IN  /\ row' = IF task[p].event = "paid" THEN [row EXCEPT ![s] = linked] ELSE row
            /\ task' = [task EXCEPT ![p].do = "payload", ![p].seen[s] = linked]
  BY DEF Link
<1>2. /\ s \in Subs /\ task[p] \in Task /\ task[p].do = "link"
      /\ task[p].seen[s] \in Row /\ task[p].seen[s].method = "online"
  BY TaskType, SeenRow DEF Link, Working, IInv, SeenFits, Fits
<1>3. PICK old \in Row : old = task[p].seen[s]
  BY <1>2
<1>4. PICK linked : linked = [old EXCEPT !.linked = TRUE]
  OBVIOUS
<1>13. linked \in Row /\ linked.status = old.status /\ linked.method = "online"
  BY <1>2, <1>3, <1>4 DEF Row
<1>5. /\ row' = IF task[p].event = "paid" THEN [row EXCEPT ![s] = linked] ELSE row
      /\ task' = [task EXCEPT ![p].do = "payload", ![p].seen[s] = linked]
  BY <1>1, <1>3, <1>4
<1>6. PICK seen \in [Subs -> Row] : seen = [task[p].seen EXCEPT ![s] = linked]
  BY <1>2, <1>13 DEF Task
<1>14. PICK new : new = [[task[p] EXCEPT !.do = "payload"] EXCEPT !.seen = seen]
  OBVIOUS
<1>7. task' = [task EXCEPT ![p] = new]
  BY <1>2, <1>5, <1>6, <1>14, TaskType DEF Task
<1>8. /\ new \in Task /\ new.do = "payload" /\ new.seen = seen
      /\ new.job = task[p].job /\ new.event = task[p].event
  <2>1. PICK t \in Task : t = task[p]
    BY <1>2
  <2>2. PICK m : m = [t EXCEPT !.do = "payload"]
    OBVIOUS
  <2>3. m = [do |-> "payload", seen |-> t.seen, job |-> t.job, event |-> t.event, since |-> t.since]
    BY <2>2 DEF Task
  <2>4. new = [m EXCEPT !.seen = seen]
    BY <1>14, <2>1, <2>2
  <2>5. new = [do |-> "payload", seen |-> seen, job |-> t.job, event |-> t.event, since |-> t.since]
    BY <2>3, <2>4
  <2>6. t.job \in Job \cup {NoJob} /\ t.event \in Event \cup {"none"} /\ t.since \in Nat
    BY DEF Task
  <2> QED BY <2>1, <2>5, <2>6 DEF Task, Doing
<1>9. \A t \in Subs : seen[t] = IF t = s THEN linked ELSE task[p].seen[t]
  BY <1>2, <1>6 DEF Task
<1>10. TaskStep
  <2>1. \A t \in Subs : Fits("payload", new.seen[t], now)
    <3>1. \A t \in Subs : task[p].seen[t].method = "online"
      BY <1>2 DEF IInv, SeenFits, Fits
    <3> QED BY <1>8, <1>9, <1>13, <3>1 DEF Fits
  <2>2. task[p].job = NoJob
    BY <1>2 DEF IInv, JobsFit, ForJob
  <2>3. ForJob(new)
    BY <1>8, <2>2 DEF ForJob
  <2>4. Heard(new)
    BY <1>2, <1>8, <1>9, <1>13 DEF IInv, HeardTrue, Heard, Seen
  <2>5. \A t \in Subs : \/ new.seen[t] = task[p].seen[t]
                       \/ /\ task[p].seen[t] # NoRow /\ task[p].seen[t].method = "online"
                          /\ new.seen[t] = [task[p].seen[t] EXCEPT !.linked = TRUE]
    BY <1>2, <1>3, <1>4, <1>8, <1>9 DEF Seen
  <2> QED BY <1>7, <1>8, <2>1, <2>3, <2>4, <2>5, TaskType
          DEF IInv, SeenFits, JobsFit, HeardTrue, TaskStep
<1>11. RowStep
  <2>1. CASE task[p].event # "paid"
    BY <1>5, <2>1, SameRows
  <2>2. CASE task[p].event = "paid"
    <3>1. \A t \in Subs : row'[t] = IF t = s THEN linked ELSE row[t]
      BY <1>2, <1>5, <2>2 DEF IInv, TypeOK
    <3>2. Linking(s)
      BY <1>2, <1>7, <1>8, <2>2, TaskType DEF Linking
    <3>3. linked.status # "none" /\ row[s].method = "online"
      BY <1>2, <1>3, <1>13, SeenRow
    <3>4. PaidOnce(s) /\ payment' = payment
      BY <1>2, <2>2 DEF IInv, HeardTrue, Heard, Befell, PaidOnce, Seen, Link
    <3>5. row' \in [Subs -> Row]
      BY <1>2, <1>5, <1>13, <2>2 DEF IInv, TypeOK
    <3> QED BY <1>13, <3>1, <3>2, <3>3, <3>4, <3>5 DEF RowStep, PaidOnce
  <2> QED BY <2>1, <2>2
<1>12. RestType
  BY DEF Link, IInv, TypeOK, RestType
<1> QED BY <1>10, <1>11, <1>12, SamePayments, StepKeeps DEF Link

LEMMA RenewDecideKeeps == ASSUME IInv, NEW p \in Procs, RenewDecide(p) PROVE IInv' /\ RowStep
<1>1. PayStep
  BY SamePayments DEF RenewDecide
<1>2. TaskStep /\ RowStep /\ jobs' \in [Job -> Nat] /\ faults' \in Nat
  <2>1. CASE UNCHANGED <<row, jobs, faults>> /\ task' = [task EXCEPT ![p].do = "charge"]
    <3> DEFINE new == [task[p] EXCEPT !.do = "charge"]
    <3>1. /\ new \in Task /\ new.do = "charge" /\ new.job = task[p].job
          /\ new.event = task[p].event
          /\ \A s \in Subs : new.seen[s] = task[p].seen[s]
      BY TaskType DEF Task, Doing
    <3>2. task[p].do = "renew" /\ task' = [task EXCEPT ![p] = new]
      BY <2>1, TaskType DEF RenewDecide, Working, Task
    <3> HIDE DEF new
    <3>3. ForJob(new) /\ Heard(new) /\ \A s \in Subs : Fits(new.do, new.seen[s], now)
      BY <3>1, <3>2 DEF IInv, JobsFit, ForJob, Fits, Heard
    <3>4. TaskStep
      BY <3>1, <3>2, <3>3, TaskType DEF IInv, SeenFits, JobsFit, HeardTrue, TaskStep
    <3> QED BY <2>1, <3>4, SameRows DEF IInv, TypeOK
  <2>2. ASSUME NEW s \in Seen(p), row' = Expired(p, s), End(p),
               Queue("remarketing-followup", s, now + FollowUp)
        PROVE  TaskStep /\ RowStep /\ jobs' \in [Job -> Nat] /\ faults' \in Nat
    BY <2>2, EndStep, CloseStep, QueueType DEF Expired, RenewDecide
  <2> QED BY <2>1, <2>2 DEF RenewDecide
<1>3. RestType
  BY <1>2 DEF RenewDecide, IInv, TypeOK, RestType
<1> QED BY <1>1, <1>2, <1>3, StepKeeps

LEMMA RenewChargeKeeps == ASSUME IInv, NEW p \in Procs, RenewCharge(p) PROVE IInv' /\ RowStep
<1>1. TaskStep
  BY EndStep DEF RenewCharge
<1>2. PICK s \in Seen(p) :
        \/ /\ Room
           /\ row' = [Expired(p, s) EXCEPT ![NewRow] = Pending(TRUE)]
           /\ payment' = [payment EXCEPT ![NewRow] = "pending"]
           /\ \/ /\ jobs' = Enqueued("check-pending", NewRow, now)
                 /\ UNCHANGED faults
              \/ /\ Fault("enqueue")
                 /\ jobs' = Enqueued("remarketing-followup", s, now + FollowUp)
        \/ /\ (~Room /\ UNCHANGED faults) \/ Fault("silence")
           /\ row' = Expired(p, s)
           /\ jobs' = Enqueued("remarketing-followup", s, now + FollowUp)
           /\ UNCHANGED payment
  BY DEF RenewCharge
<1>3. RestType
  <2>1. jobs' \in [Job -> Nat]
    <3>1. PICK name, t, at : jobs' = Enqueued(name, t, at)
      BY <1>2
    <3> QED BY <3>1, EnqueuedType
  <2>2. faults' \in Nat
    BY <1>2, FaultType DEF IInv, TypeOK
  <2> QED BY <2>1, <2>2 DEF RenewCharge, IInv, TypeOK, RestType
<1>4. CASE UNCHANGED payment /\ row' = Expired(p, s)
  BY <1>1, <1>3, <1>4, CloseStep, SamePayments, StepKeeps DEF Expired
<1>5. CASE /\ Room
           /\ row' = [Expired(p, s) EXCEPT ![NewRow] = Pending(TRUE)]
           /\ payment' = [payment EXCEPT ![NewRow] = "pending"]
  <2>1. NewRow \in Subs /\ row[NewRow].status = "none"
    BY <1>5, NewRowFree DEF Room
  <2>2. /\ Pending(TRUE) \in Row /\ Pending(TRUE).status = "APPROVAL_PENDING"
        /\ Pending(TRUE).method = "online"
    BY DEF Pending, NoRow, Row, Status, Method
  <2>3. /\ s \in Subs /\ s # NewRow
    BY <2>1, SeenRow
  <2> DEFINE old == [task[p].seen[s] EXCEPT !.status = "EXPIRED"]
  <2>4. /\ old \in Row /\ old.status = "EXPIRED" /\ old.method = row[s].method
        /\ old.linked => old.method = "online"
    BY <2>1, SeenRow DEF Row, Status
  <2>5. row' = [[row EXCEPT ![s] = old] EXCEPT ![NewRow] = Pending(TRUE)]
    BY <1>5 DEF Expired
  <2> HIDE DEF old
  <2>6. RowStep
    BY <2>1, <2>2, <2>3, <2>4, <2>5 DEF IInv, TypeOK, RowStep
  <2>7. PayStep
    <3>1. payment[NewRow] = "none" /\ row'[NewRow] = Pending(TRUE)
      BY <2>1, <2>5 DEF IInv, TypeOK, Owed
    <3> QED BY <1>5, <2>1, <2>2, <3>1 DEF IInv, TypeOK, PayStep
  <2> QED BY <1>1, <1>3, <2>6, <2>7, StepKeeps
<1> QED BY <1>2, <1>4, <1>5

LEMMA ListKeeps ==
  ASSUME IInv, NEW p \in Procs, NEW s \in Subs,
         ExpireOne(p, s) \/ CancelOne(p, s) \/ AssignCancelOne(p, s)
  PROVE  IInv' /\ RowStep
<1>1. s \in Seen(p) /\ UNCHANGED payment
  BY DEF ExpireOne, CancelOne, AssignCancelOne
<1>2. TaskStep
  BY EndStep, GoOnStep DEF ExpireOne, CancelOne, AssignCancelOne
<1>3. RowStep
  <2>1. CASE ExpireOne(p, s) \/ AssignCancelOne(p, s)
    BY <1>1, <2>1, CloseStep DEF ExpireOne, AssignCancelOne, Expired
  <2>2. CASE CancelOne(p, s)
    <3> DEFINE new == [task[p].seen[s] EXCEPT !.status = "CANCELLED", !.end = task[p].since]
    <3>1. /\ new \in Row /\ new.status = "CANCELLED"
          /\ new.method = row[s].method
          /\ new.linked => new.method = "online"
      <4>1. PICK old \in Row : old = task[p].seen[s]
        BY <1>1, SeenRow
      <4>2. PICK at \in Nat : at = task[p].since
        BY TaskType DEF Task
      <4>3. PICK made : made = [old EXCEPT !.status = "CANCELLED", !.end = at]
        OBVIOUS
      <4>4. made \in Row /\ made.status = "CANCELLED" /\ made.method = old.method /\ made.linked = old.linked
        BY <4>3 DEF Row, Status
      <4>5. new = made
        BY <4>1, <4>2, <4>3
      <4> QED BY <1>1, <4>1, <4>4, <4>5, SeenRow
    <3>2. row' = [row EXCEPT ![s] = new]
      BY <2>2 DEF CancelOne
    <3> HIDE DEF new
    <3> QED BY <1>1, <3>1, <3>2, SaveStep
  <2> QED BY <2>1, <2>2
<1>4. RestType
  BY DEF ExpireOne, CancelOne, AssignCancelOne, IInv, TypeOK, RestType
<1> QED BY <1>1, <1>2, <1>3, <1>4, SamePayments, StepKeeps

\* A row is saved with the status it was read with.
LEMMA KeepStatusStep ==
  ASSUME IInv, NEW p \in Procs, NEW s \in Seen(p), task[p].do \in {"extend", "follow"},
         NEW new \in Row, new.status = task[p].seen[s].status, new.method = task[p].seen[s].method,
         new.linked = task[p].seen[s].linked,
         row' = [row EXCEPT ![s] = new], UNCHANGED payment
  PROVE  RowStep
<1>1. s \in Subs /\ new.status \notin {"none", "APPROVAL_PENDING"}
  BY SeenRow DEF IInv, SeenFits, Fits
<1>2. new.status = "ACTIVE" /\ new.method = "online" => PaidOnce(s)
  BY <1>1 DEF IInv, SeenPaid
<1> QED BY <1>1, <1>2, SeenRow, SaveStep

LEMMA OtherSavesKeep ==
  ASSUME IInv, NEW p \in Procs, SendFollowUp(p) \/ ExtendSave(p) PROVE IInv' /\ RowStep
<1>1. TaskStep /\ PayStep
  BY EndStep, SamePayments DEF SendFollowUp, ExtendSave
<1>2. RowStep
  <2>1. CASE SendFollowUp(p)
    <3>1. PICK s \in Seen(p) :
            row' = [row EXCEPT ![s] = [task[p].seen[s] EXCEPT !.followUpSent = TRUE]]
      BY <2>1 DEF SendFollowUp
    <3>2. [task[p].seen[s] EXCEPT !.followUpSent = TRUE] \in Row
      BY SeenRow DEF Row
    <3>3. /\ [task[p].seen[s] EXCEPT !.followUpSent = TRUE].status = task[p].seen[s].status
          /\ [task[p].seen[s] EXCEPT !.followUpSent = TRUE].method = task[p].seen[s].method
          /\ [task[p].seen[s] EXCEPT !.followUpSent = TRUE].linked = task[p].seen[s].linked
      BY SeenRow DEF Row
    <3> QED BY <2>1, <3>1, <3>2, <3>3, KeepStatusStep DEF SendFollowUp, Working
  <2>2. CASE ExtendSave(p)
    <3>1. PICK s \in Seen(p) : \E end \in {task[p].seen[s].end, task[p].since} :
            row' = [row EXCEPT ![s] = [task[p].seen[s] EXCEPT !.end = end + Period]]
      BY <2>2 DEF ExtendSave
    <3> PICK end \in {task[p].seen[s].end, task[p].since} :
            row' = [row EXCEPT ![s] = [task[p].seen[s] EXCEPT !.end = end + Period]]
      BY <3>1
    <3>2. end + Period \in Nat
      BY <3>1, SeenRow, TaskType, SubscriptionAssumption DEF Task, Row
    <3>3. /\ [task[p].seen[s] EXCEPT !.end = end + Period] \in Row
          /\ [task[p].seen[s] EXCEPT !.end = end + Period].status = task[p].seen[s].status
          /\ [task[p].seen[s] EXCEPT !.end = end + Period].method = task[p].seen[s].method
          /\ [task[p].seen[s] EXCEPT !.end = end + Period].linked = task[p].seen[s].linked
      BY <3>2, SeenRow DEF Row
    <3> QED BY <2>2, <3>1, <3>3, KeepStatusStep DEF ExtendSave, Working
  <2> QED BY <2>1, <2>2
<1>3. RestType
  BY DEF SendFollowUp, ExtendSave, IInv, TypeOK, RestType
<1> QED BY <1>1, <1>2, <1>3, StepKeeps

LEMMA GrantKeeps ==
  ASSUME IInv, NEW p \in Procs, AssignCreate(p) \/ TrialGrant(p) PROVE IInv' /\ RowStep
<1>1. TaskStep /\ PayStep
  BY EndStep, SamePayments DEF AssignCreate, TrialGrant
<1>2. ASSUME NEW method \in {"ADMIN_MANUAL", "TRIAL"}, Free # {}, row' = Granted(method),
             UNCHANGED payment
      PROVE  RowStep
  <2> DEFINE new == [NoRow EXCEPT !.status = "ACTIVE", !.method = method, !.end = now + Period]
  <2>1. new \in Row /\ new.status = "ACTIVE" /\ new.method # "online" /\ ~new.linked
    BY PeriodEnd DEF NoRow, Row, Status, Method
  <2>2. row' = [row EXCEPT ![NewRow] = new]
    BY <1>2 DEF Granted
  <2> HIDE DEF new
  <2> QED BY <1>2, <2>1, <2>2, NewRowFree, SaveStep
<1>3. RowStep
  BY <1>2, SameRows DEF AssignCreate, TrialGrant
<1>4. RestType
  BY FaultType, SameTime DEF AssignCreate, TrialGrant, IInv, TypeOK, RestType
<1> QED BY <1>1, <1>3, <1>4, StepKeeps

-----------------------------------------------------------------------------
(***************************************************************************)
(* The invariant.                                                          *)
(***************************************************************************)

LEMMA InitHolds == Init => IInv
<1> SUFFICES ASSUME Init PROVE IInv
  OBVIOUS
<1>1. TypeOK
  <2>1. task \in [Procs -> Task]
    BY IdleTask DEF Init
  <2>2. now \in 0 .. MaxTime /\ row \in [Subs -> Row] /\ jobs \in [Job -> Nat]
    BY SubscriptionAssumption, NoRowType DEF Init
  <2> QED BY <2>1, <2>2 DEF Init, TypeOK, Task, Doing
<1>2. SeenFits /\ JobsFit
  BY IdleTask, FitsOn DEF Init, SeenFits, JobsFit, ForJob
<1>3. PaidFor /\ SeenPaid /\ Blank /\ SeenThere /\ Kept /\ Linked
  BY IdleTask, NoRowType DEF Init, PaidFor, SeenPaid, Blank, SeenThere, Kept, Linked
<1>4. Owed /\ HooksTrue /\ HeardTrue
  BY IdleTask DEF Init, Owed, HooksTrue, HeardTrue, Heard
<1> QED BY <1>1, <1>2, <1>3, <1>4 DEF IInv

LEMMA NextKeeps == IInv /\ [Next]_vars => IInv' /\ RowStep
<1> SUFFICES ASSUME IInv, [Next]_vars PROVE IInv' /\ RowStep
  OBVIOUS
<1>1. CASE Outside
  BY <1>1, OutsideKeeps
<1>2. CASE Requests
  BY <1>2, SubscribeKeeps, RequestsKeep DEF Requests
<1>3. CASE RunJob
  BY <1>3, JobsKeep DEF RunJob
<1>4. CASE Crash
  BY <1>4, CrashKeeps
<1>5. ASSUME NEW p \in Procs, Continue(p) PROVE IInv' /\ RowStep
  BY <1>5, LearnKeeps, FallBackKeeps, LinkKeeps, RenewDecideKeeps, RenewChargeKeeps, OtherSavesKeep,
     GrantKeeps, ListKeeps DEF Continue
<1>6. CASE UNCHANGED vars
  <2>1. RestType
    BY <1>6 DEF vars, IInv, TypeOK, RestType
  <2> QED BY <1>6, <2>1, SameRows, SamePayments, SameTasks, StepKeeps DEF vars
<1> QED BY <1>1, <1>2, <1>3, <1>4, <1>5, <1>6 DEF Next

THEOREM Invariant == Spec => []IInv
BY InitHolds, NextKeeps, PTL DEF Spec

\* Every reachable state of the subscriptions is well typed.
THEOREM TypeCorrect == Spec => []TypeOK
BY Invariant, PTL DEF IInv

\* Whatever handlers run at once, whatever is lost, read early or saved late:
\* an active online row has been paid for.
THEOREM ActiveIsPaid == Spec => []PaidFor
BY Invariant, PTL DEF IInv

\* A row that was resolved is pending again.
AgainStep ==
  \A s \in Subs :
       row[s].status \in {"ACTIVE", "CANCELLED", "EXPIRED"} /\ row'[s].status = "APPROVAL_PENDING"
       => /\ PaidOnce(s)
          /\ \E p \in Procs : /\ s \in Seen(p) /\ task[p].event = "paid"
                              /\ task[p].do = "link" /\ task'[p].do = "payload"

\* Stale rows are saved all the time, but none of them puts a resolved row back
\* to where it waits for its payment: only the payload of a webhook does, for a
\* row that is paid for and that it is about to activate.
THEOREM NeverPendingAgain == Spec => StaysResolved
<1>1. ASSUME IInv, [Next]_vars PROVE AgainStep
  <2>1. RowStep
    BY <1>1, NextKeeps
  <2>2. \A s \in Subs : Linking(s) => PaidOnce(s)
    BY <1>1 DEF Linking, IInv, HeardTrue, Heard, Befell, PaidOnce, Seen
  <2> QED BY <2>1, <2>2 DEF RowStep, AgainStep, Linking
<1>2. IInv /\ [Next]_vars => [AgainStep]_vars
  BY <1>1
<1>3. Spec => [][AgainStep]_vars
  <2> HIDE DEF AgainStep
  <2> QED BY <1>2, Invariant, PTL DEF Spec
<1> QED BY <1>3 DEF AgainStep, StaysResolved

-----------------------------------------------------------------------------
(***************************************************************************)
(* What ends early.                                                        *)
(***************************************************************************)

Early(s) == row[s].status = "ACTIVE" /\ row[s].end > now /\ row'[s].status # "ACTIVE"

\* p saves s, and is one of those that may end it.
EndedBy(p, s) ==
  /\ s \in Seen(p) /\ task'[p] # task[p]
  /\ \/ task[p].do \in {"cancel", "assign", "renew", "charge"}
     \/ task[p].do = "payload" /\ payment[s] = "refunded"
     \/ task[p].seen[s].status # "ACTIVE"
     \/ task[p].seen[s].end < row[s].end

EarlyStep == \A s \in Subs : Early(s) => \E p \in Procs : EndedBy(p, s)

LEMMA NotEarly == ASSUME UNCHANGED row PROVE EarlyStep
BY DEF EarlyStep, Early

\* Who has read a row is at work, and no longer when he has saved it.
LEMMA Moves ==
  ASSUME IInv, NEW p \in Procs, NEW s \in Seen(p), End(p) \/ task' = GoOn(p, s)
  PROVE  task'[p] # task[p]
<1>1. s \in Subs /\ task[p].seen[s] # NoRow /\ task \in [Procs -> Task]
  BY TaskType DEF Seen
<1>2. CASE End(p)
  BY <1>1, <1>2, IdleTask DEF End
<1>3. CASE task' = GoOn(p, s)
  BY <1>1, <1>3 DEF GoOn, Task
<1> QED BY <1>2, <1>3

\* p saves s, and no other row that is there.
LEMMA SavedEarly ==
  ASSUME IInv, NEW p \in Procs, NEW s \in Seen(p), End(p) \/ task' = GoOn(p, s),
         \A t \in Subs \ {s} : row'[t] = row[t] \/ row[t].status = "none",
         Early(s) => \/ task[p].do \in {"cancel", "assign", "renew", "charge"}
                     \/ task[p].do = "payload" /\ payment[s] = "refunded"
                     \/ task[p].seen[s].status # "ACTIVE"
                     \/ task[p].seen[s].end < row[s].end
  PROVE  EarlyStep
BY Moves DEF EarlyStep, Early, EndedBy

LEMMA GrantEarly ==
  ASSUME IInv, NEW r, Free # {}, row' = [row EXCEPT ![NewRow] = r] PROVE EarlyStep
BY NewRowFree DEF IInv, TypeOK, EarlyStep, Early

\* The saves that leave what was active active, unless it was paid back.
LEMMA LearnEarly ==
  ASSUME IInv, NEW p \in Procs, Answer(p) \/ Payload(p) \/ TimeOut(p) PROVE EarlyStep
<1>1. End(p) /\ row \in [Subs -> Row]
  BY DEF Answer, Payload, TimeOut, IInv, TypeOK
<1>2. ASSUME NEW s \in Seen(p), NEW r \in Row, row' = [row EXCEPT ![s] = r],
             \/ r.status = "ACTIVE" \/ task[p].seen[s].status # "ACTIVE"
             \/ task[p].do = "payload" /\ payment[s] = "refunded"
      PROVE  EarlyStep
  BY <1>1, <1>2, SeenRow, SavedEarly DEF Early
<1>3. ASSUME NEW s \in Seen(p), Activate(s, task[p].seen[s]) PROVE EarlyStep
  <2>1. [task[p].seen[s] EXCEPT !.status = "ACTIVE", !.end = now + Period] \in Row
    BY SeenRow, PeriodEnd DEF Row, Status
  <2>2. [task[p].seen[s] EXCEPT !.status = "ACTIVE", !.end = now + Period].status = "ACTIVE"
    BY SeenRow DEF Row
  <2> QED BY <1>2, <1>3, <2>1, <2>2, NotEarly DEF Activate
<1>4. ASSUME NEW s \in Seen(p),
             \/ task[p].seen[s].status # "ACTIVE"
             \/ task[p].do = "payload" /\ payment[s] = "refunded",
             row' = [row EXCEPT ![s] = [task[p].seen[s] EXCEPT !.status = "CANCELLED"]]
      PROVE  EarlyStep
  <2>1. [task[p].seen[s] EXCEPT !.status = "CANCELLED"] \in Row
    BY SeenRow DEF Row, Status
  <2> QED BY <1>2, <1>4, <2>1
<1>5. ASSUME NEW s \in Seen(p), NEW resolved, Reject(s, task[p].seen[s], resolved),
             Failure(p, s), task[p].do \in {"poll", "hook", "payload"}
      PROVE  EarlyStep
  <2>1. \/ task[p].seen[s].status # "ACTIVE"
        \/ task[p].do = "payload" /\ payment[s] = "refunded"
    BY <1>5, SeenRow, OutcomeTrue DEF IInv, SeenPaid, SeenFits, Fits, PaidOnce
  <2> QED BY <1>4, <1>5, <2>1, NotEarly DEF Reject
<1>6. CASE Answer(p)
  BY <1>3, <1>5, <1>6, NotEarly DEF Answer, Working, Requeue
<1>7. CASE Payload(p)
  BY <1>3, <1>5, <1>7 DEF Payload, Working
<1>8. CASE TimeOut(p)
  BY <1>4, <1>8, SeenRow DEF TimeOut, Working, IInv, SeenFits, Fits, Unresolved
<1> QED BY <1>6, <1>7, <1>8

LEMMA LinkEarly == ASSUME IInv, NEW p \in Procs, Link(p) PROVE EarlyStep
<1>1. PICK s \in Seen(p) :
        LET linked == [task[p].seen[s] EXCEPT !.linked = TRUE]
        IN  /\ row' = IF task[p].event = "paid" THEN [row EXCEPT ![s] = linked] ELSE row
            /\ task' = [task EXCEPT ![p].do = "payload", ![p].seen[s] = linked]
  BY DEF Link
<1>2. s \in Subs /\ task[p].seen[s] \in Row /\ task[p] \in Task /\ task \in [Procs -> Task]
  BY SeenRow, TaskType
<1>3. task'[p].do = "payload" /\ task[p].do = "link"
  BY <1>1, <1>2 DEF Link, Working, Task
<1>4. task'[p] # task[p]
  BY <1>3
<1>5. row'[s].status \in {row[s].status, task[p].seen[s].status}
  BY <1>1, <1>2, LinkRow DEF IInv, TypeOK
<1>6. \A t \in Subs \ {s} : row'[t] = row[t]
  BY <1>1, <1>2 DEF IInv, TypeOK
<1> QED BY <1>4, <1>5, <1>6 DEF EarlyStep, Early, EndedBy

LEMMA RenewEarly ==
  ASSUME IInv, NEW p \in Procs, RenewDecide(p) \/ RenewCharge(p) PROVE EarlyStep
<1>1. CASE UNCHANGED row
  BY <1>1, NotEarly
<1>2. ASSUME NEW s \in Seen(p), End(p), task[p].do \in {"renew", "charge"},
             \/ row' = Expired(p, s)
             \/ Room /\ row' = [Expired(p, s) EXCEPT ![NewRow] = Pending(TRUE)]
      PROVE  EarlyStep
  <2>1. \A t \in Subs \ {s} : row'[t] = row[t] \/ row[t].status = "none"
    BY <1>2, NewRowFree DEF Room, Expired, IInv, TypeOK
  <2> QED BY <1>2, <2>1, SavedEarly
<1> QED BY <1>1, <1>2 DEF RenewDecide, RenewCharge, Working

LEMMA ListEarly ==
  ASSUME IInv, NEW p \in Procs, NEW s \in Subs,
         ExpireOne(p, s) \/ CancelOne(p, s) \/ AssignCancelOne(p, s)
  PROVE  EarlyStep
<1>1. /\ s \in Seen(p) /\ (End(p) \/ task' = GoOn(p, s))
      /\ \A t \in Subs \ {s} : row'[t] = row[t]
  BY DEF ExpireOne, CancelOne, AssignCancelOne, Expired, IInv, TypeOK
<1>2. CASE ExpireOne(p, s)
  <2>1. task[p].seen[s] # NoRow /\ task[p].seen[s] \in Row /\ row[s] \in Row /\ now \in Nat
    BY <1>1, SeenRow DEF Seen, IInv, TypeOK
  <2>2. task[p].seen[s].end <= now
    BY <1>2, <2>1 DEF ExpireOne, Working, IInv, SeenFits, Fits
  <2>3. row[s].end > now => task[p].seen[s].end < row[s].end
    BY <2>1, <2>2 DEF Row
  <2> QED BY <1>1, <2>3, SavedEarly DEF Early
<1>3. CASE CancelOne(p, s) \/ AssignCancelOne(p, s)
  BY <1>1, <1>3, SavedEarly DEF CancelOne, AssignCancelOne, Working
<1> QED BY <1>2, <1>3

LEMMA OtherEarly ==
  ASSUME IInv, NEW p \in Procs, SendFollowUp(p) \/ ExtendSave(p) PROVE EarlyStep
<1>1. PICK s \in Seen(p), r \in Row :
        row' = [row EXCEPT ![s] = r] /\ r.status = task[p].seen[s].status
  <2>1. CASE SendFollowUp(p)
    <3>1. PICK s \in Seen(p) :
            row' = [row EXCEPT ![s] = [task[p].seen[s] EXCEPT !.followUpSent = TRUE]]
      BY <2>1 DEF SendFollowUp
    <3>2. /\ [task[p].seen[s] EXCEPT !.followUpSent = TRUE] \in Row
          /\ [task[p].seen[s] EXCEPT !.followUpSent = TRUE].status = task[p].seen[s].status
      BY SeenRow DEF Row
    <3> QED BY <3>1, <3>2
  <2>2. CASE ExtendSave(p)
    <3>1. PICK s \in Seen(p) : \E end \in {task[p].seen[s].end, task[p].since} :
            row' = [row EXCEPT ![s] = [task[p].seen[s] EXCEPT !.end = end + Period]]
      BY <2>2 DEF ExtendSave
    <3>2. \A end \in {task[p].seen[s].end, task[p].since} :
            /\ [task[p].seen[s] EXCEPT !.end = end + Period] \in Row
            /\ [task[p].seen[s] EXCEPT !.end = end + Period].status = task[p].seen[s].status
      <4> TAKE end \in {task[p].seen[s].end, task[p].since}
      <4>1. end + Period \in Nat
        BY SeenRow, TaskType, SubscriptionAssumption DEF Task, Row
      <4> QED BY <4>1, SeenRow DEF Row
    <3> QED BY <3>1, <3>2
  <2> QED BY <2>1, <2>2
<1>2. End(p) /\ row'[s].status = task[p].seen[s].status /\ \A t \in Subs \ {s} : row'[t] = row[t]
  BY <1>1, SeenRow DEF SendFollowUp, ExtendSave, IInv, TypeOK
<1> QED BY <1>2, SavedEarly DEF Early

\* An active row ends before its time by the administrator, by the renewal job
\* of an earlier period, by the webhook of a payment that was paid back, or by a
\* handler that read it before it was activated or extended - and by no other
\* interleaving.
THEOREM EndsOnTime == Spec => EndsEarlyOnlyByStale
<1>1. ASSUME IInv, [Next]_vars PROVE EarlyStep
  <2>1. CASE \/ UNCHANGED vars \/ Outside \/ RunJob \/ Crash
    BY <2>1, NotEarly DEF vars, Outside, Tick, LoseHook, Settle, Refund, RunJob, CheckPending,
       RenewalCharge, Remarketing, Crash
  <2>2. CASE Requests
    <3>1. ASSUME NEW linked \in Named, Subscribe(linked) PROVE EarlyStep
      BY <1>1, <3>1, GrantEarly DEF Subscribe, Room
    <3>2. CASE UNCHANGED row
      BY <3>2, NotEarly
    <3> QED BY <2>2, <3>1, <3>2 DEF Requests, CheckStatus, Webhook, Cancel, Extend, Assign,
         TrialCheck, ExpireScan
  <2>3. ASSUME NEW p \in Procs, Continue(p) PROVE EarlyStep
    <3>1. CASE FallBack(p)
      BY <3>1, NotEarly DEF FallBack
    <3>2. CASE AssignCreate(p) \/ TrialGrant(p)
      BY <1>1, <3>2, GrantEarly, NotEarly DEF AssignCreate, TrialGrant, Granted
    <3> QED BY <1>1, <2>3, <3>1, <3>2, LearnEarly, LinkEarly, RenewEarly, ListEarly, OtherEarly DEF Continue
  <2> QED BY <1>1, <2>1, <2>2, <2>3 DEF Next
<1>2. IInv /\ [Next]_vars => [EarlyStep]_vars
  BY <1>1
<1>3. Spec => [][EarlyStep]_vars
  <2> HIDE DEF EarlyStep
  <2> QED BY <1>2, Invariant, PTL DEF Spec
<1> QED BY <1>3 DEF EarlyStep, Early, EndedBy, EndsEarlyOnlyByStale

-----------------------------------------------------------------------------
(***************************************************************************)
(* Who is looked after.                                                    *)
(***************************************************************************)

IsPending(s) == row[s].status = "APPROVAL_PENDING"

\* Does this handler poll for a job, or give one up?
Polls(t) == t.job # NoJob /\ t.job.name = "check-pending"

\* The payload of a webhook is processed.
Paying(s) == \E p \in Procs : s \in Seen(p) /\ task[p].do \in {"link", "payload"}

\* What a payload may leave pending counts before it does.
Unwatched == {s \in Subs : (IsPending(s) /\ ~Watched(s)) \/ Paying(s)}

\* A waiting poll of a pending row stays, or somebody has taken it up.
JobsStay ==
  \A j \in Job : j.name = "check-pending" /\ jobs[j] > 0 /\ IsPending(j.sub) =>
    \/ jobs'[j] > 0
    \/ \E p \in Procs : task'[p].seen[j.sub] # NoRow /\ Polls(task'[p])

\* Whoever polls goes on with its row until that is resolved, or somebody else
\* looks after it.
PollsStay ==
  \A p \in Procs : Polls(task[p]) =>
    \A s \in Seen(p) : \/ ~IsPending(s) \/ ~IsPending(s)' \/ Watched(s)'

\* No payload is taken up.
NoPayload == \A s \in Subs : Paying(s)' => Paying(s)

TasksStay == PollsStay /\ NoPayload

LEMMA WatchKept ==
  ASSUME IInv, JobsStay, PollsStay, NEW s \in Subs, IsPending(s), IsPending(s)', Watched(s)
  PROVE  Watched(s)'
<1>1. ASSUME NEW j \in Job, j.sub = s, j.name = "check-pending", jobs[j] > 0 PROVE Watched(s)'
  <2>1. \/ jobs'[j] > 0
        \/ \E p \in Procs : task'[p].seen[s] # NoRow /\ Polls(task'[p])
    BY <1>1 DEF JobsStay
  <2> QED BY <1>1, <2>1 DEF Watched, Seen, Polls
<1>2. ASSUME NEW p \in Procs, s \in Seen(p), Polls(task[p]) PROVE Watched(s)'
  BY <1>2 DEF PollsStay
<1> QED BY <1>1, <1>2 DEF Watched, Polls

\* One row more is pending with nobody to look after it only if something failed.
WatchStep ==
  \/ Unwatched' \subseteq Unwatched /\ faults' >= faults
  \/ faults' = faults + 1 /\ \E x \in Subs : Unwatched' \subseteq Unwatched \cup {x}

LEMMA RowWatched ==
  ASSUME IInv, RowStep, JobsStay, PollsStay, NEW s \in Unwatched', Paying(s)' => Paying(s),
         row[s].status = "none" /\ IsPending(s)' => Watched(s)'
  PROVE  s \in Unwatched
<1>1. s \in Subs
  BY DEF Unwatched
<1>2. CASE Paying(s)'
  BY <1>1, <1>2 DEF Unwatched
<1>3. CASE IsPending(s)' /\ ~Watched(s)'
  <2>1. IsPending(s) \/ Linking(s)
    BY <1>1, <1>3 DEF RowStep, IsPending
  <2>2. Linking(s) => Paying(s)
    BY DEF Linking, Paying
  <2> QED BY <1>1, <1>3, <2>1, <2>2, WatchKept DEF Unwatched
<1> QED BY <1>2, <1>3 DEF Unwatched

LEMMA StepWatched ==
  ASSUME IInv, RowStep, JobsStay, TasksStay,
         \/ /\ faults' >= faults
            /\ \A s \in Subs : row[s].status = "none" /\ IsPending(s)' => Watched(s)'
         \/ /\ faults' = faults + 1
            /\ \E x \in Subs : \A s \in Subs \ {x} :
                 row[s].status = "none" /\ IsPending(s)' => Watched(s)'
  PROVE  WatchStep
<1>1. ASSUME NEW s \in Unwatched', row[s].status = "none" /\ IsPending(s)' => Watched(s)'
      PROVE  s \in Unwatched
  <2>1. s \in Subs
    BY DEF Unwatched
  <2> QED BY <1>1, <2>1, RowWatched DEF TasksStay, NoPayload
<1>2. \A s \in Unwatched' : s \in Subs
  BY DEF Unwatched
<1> QED BY <1>1, <1>2 DEF WatchStep

-----------------------------------------------------------------------------
(***************************************************************************)
(* The parts of it.                                                        *)
(***************************************************************************)

\* Queueing a job takes none away, and the one it is about waits afterwards.
LEMMA EnqueuedMore ==
  ASSUME IInv, NEW name, NEW s, NEW at
  PROVE  /\ \A j \in Job : jobs[j] > 0 => Enqueued(name, s, at)[j] > 0
         /\ \A j \in Job : j = [name |-> name, sub |-> s, at |-> at] => Enqueued(name, s, at)[j] > 0
BY SubscriptionAssumption DEF IInv, TypeOK, Enqueued

LEMMA MoreJobs ==
  ASSUME IInv, \/ UNCHANGED jobs \/ \E name, s, at : jobs' = Enqueued(name, s, at)
  PROVE  JobsStay
BY EnqueuedMore DEF JobsStay

\* Who goes on with the same rows for the same job.
LEMMA WorkOn ==
  ASSUME NEW p \in Procs, NEW s \in Seen(p), Polls(task[p]), task'[p].job = task[p].job,
         task'[p].seen = task[p].seen
  PROVE  Watched(s)'
BY DEF Watched, Seen, Polls

LEMMA SameWork == ASSUME UNCHANGED task PROVE TasksStay
BY WorkOn DEF TasksStay, PollsStay, NoPayload, Paying, Seen

LEMMA BeginWork ==
  ASSUME IInv, NEW p \in Procs, NEW what, NEW S, NEW job, NEW event,
         BeginOn(p, what, S, job, event), what \notin {"link", "payload"}
  PROVE  TasksStay
<1>1. task[p].job = NoJob /\ \A q \in Procs \ {p} : task'[q] = task[q]
  BY TaskType, IdleTask DEF BeginOn
<1>2. task'[p].do = what
  BY TaskType DEF BeginOn
<1>3. PollsStay
  BY <1>1, WorkOn DEF PollsStay, Polls
<1>4. NoPayload
  BY <1>1, <1>2 DEF NoPayload, Paying, Seen
<1> QED BY <1>3, <1>4 DEF TasksStay

\* p ends, or goes on with fewer rows; what it polled for is looked after.
LEMMA EndWork ==
  ASSUME IInv, NEW p \in Procs, End(p) \/ \E x \in Subs : task' = GoOn(p, x),
         Polls(task[p]) => \A s \in Seen(p) : \/ ~IsPending(s) \/ ~IsPending(s)' \/ Watched(s)'
  PROVE  TasksStay
<1>1. \A q \in Procs \ {p} : task'[q] = task[q]
  BY TaskType DEF End, GoOn
<1>2. PollsStay
  BY <1>1, WorkOn DEF PollsStay
<1>3. \A s \in Subs : task'[p].seen[s] # NoRow =>
        task[p].seen[s] # NoRow /\ task'[p].do = task[p].do
  BY TaskType, IdleTask DEF End, GoOn, Task
<1>4. NoPayload
  BY <1>1, <1>3 DEF NoPayload, Paying, Seen
<1> QED BY <1>2, <1>4 DEF TasksStay

\* What is begun for a job just taken looks after its row.
LEMMA TakeJob ==
  ASSUME IInv, NEW p \in Procs, NEW j \in Job, jobs' = Taken(j),
         \/ j.name # "check-pending"
         \/ ~IsPending(j.sub)
         \/ \E what : Begin(p, what, {j.sub}, j)
  PROVE  JobsStay
<1>1. \A k \in Job \ {j} : jobs'[k] = jobs[k]
  BY DEF Taken, IInv, TypeOK
<1>2. ASSUME NEW what, Begin(p, what, {j.sub}, j), IsPending(j.sub), j.name = "check-pending"
      PROVE  task'[p].seen[j.sub] # NoRow /\ Polls(task'[p])
  <2>1. j.sub \in Subs /\ row[j.sub] # NoRow
    BY <1>2, NoRowType DEF Job, IsPending
  <2>2. task'[p] = [do |-> what, seen |-> ReadRows({j.sub}), job |-> j, event |-> "none", since |-> now]
    BY <1>2, TaskType DEF Begin, BeginOn
  <2>3. ReadRows({j.sub})[j.sub] = row[j.sub]
    BY <2>1 DEF ReadRows
  <2> QED BY <1>2, <2>1, <2>2, <2>3, SubscriptionAssumption DEF Polls
<1> QED BY <1>1, <1>2 DEF JobsStay

\* Whatever a handler without a job does to its rows.
LEMMA NoJobWork ==
  ASSUME IInv, NEW p \in Procs, NEW s \in Subs, End(p) \/ task' = GoOn(p, s),
         task[p].do \notin {"poll", "timeout", "renew", "charge", "follow"}
  PROVE  TasksStay
<1>1. task[p].job = NoJob
  BY DEF IInv, JobsFit, ForJob
<1> QED BY <1>1, EndWork DEF Polls

-----------------------------------------------------------------------------
(***************************************************************************)
(* Every action.                                                           *)
(***************************************************************************)

\* What makes no row pending.
LEMMA NoneNew ==
  ASSUME IInv, RowStep, JobsStay, TasksStay, faults' >= faults,
         \A s \in Subs : row[s].status = "none" => ~IsPending(s)'
  PROVE  WatchStep
BY StepWatched

LEMMA FaultsGrow ==
  ASSUME IInv, UNCHANGED faults \/ \E kind : Fault(kind) PROVE faults' >= faults
BY DEF IInv, TypeOK, Fault

\* A row that is not there is not pending.
LEMMA NotThere == ASSUME UNCHANGED row PROVE \A s \in Subs : row[s].status = "none" => ~IsPending(s)'
BY DEF IsPending

LEMMA OutsideWatched == ASSUME IInv, Outside, RowStep PROVE WatchStep
<1>1. UNCHANGED <<row, jobs, task>> /\ (UNCHANGED faults \/ \E kind : Fault(kind))
  BY DEF Outside, Tick, LoseHook, Settle, Refund
<1> QED BY <1>1, MoreJobs, SameWork, FaultsGrow, NotThere, NoneNew

\* A row whose poll has been queued is looked after.
LEMMA PollQueued ==
  ASSUME IInv, NEW s \in Subs, jobs' = Enqueued("check-pending", s, now) PROVE Watched(s)'
<1> DEFINE j == [name |-> "check-pending", sub |-> s, at |-> now]
<1>1. j \in Job /\ j.sub = s /\ j.name = "check-pending"
  BY DEF Job, IInv, TypeOK
<1>2. jobs'[j] > 0
  BY <1>1, EnqueuedMore
<1> HIDE DEF j
<1> QED BY <1>1, <1>2 DEF Watched

LEMMA SubscribeWatched ==
  ASSUME IInv, NEW linked \in Named, Subscribe(linked), RowStep PROVE WatchStep
<1>1. PICK x \in Subs : x = NewRow
  BY NewRowFree DEF Subscribe, Room
<1>2. JobsStay /\ TasksStay
  BY MoreJobs, SameWork DEF Subscribe, Queue
<1>3. \A s \in Subs \ {x} : row[s].status = "none" => ~IsPending(s)'
  BY <1>1 DEF IsPending, Subscribe, IInv, TypeOK
<1>4. CASE jobs' = Enqueued("check-pending", x, now) /\ UNCHANGED faults
  <2>1. Watched(x)'
    BY <1>4, PollQueued
  <2>2. faults' >= faults
    BY <1>4, FaultsGrow
  <2> QED BY <1>2, <1>3, <2>1, <2>2, StepWatched
<1>5. CASE Fault("enqueue")
  BY <1>2, <1>3, <1>5, StepWatched DEF Fault
<1> QED BY <1>1, <1>4, <1>5 DEF Subscribe, Queue

LEMMA RequestsWatched ==
  ASSUME IInv, RowStep, NEW p \in Procs,
         \/ \E s \in Subs : CheckStatus(p, s) \/ \E event \in Event : Webhook(p, s, event)
         \/ Cancel(p) \/ Extend(p) \/ Assign(p) \/ TrialCheck(p) \/ ExpireScan(p)
  PROVE  WatchStep
<1>1. UNCHANGED <<row, jobs, faults>>
  BY DEF CheckStatus, Webhook, Cancel, Extend, Assign, TrialCheck, ExpireScan
<1>2. TasksStay
  <2>1. ASSUME NEW s \in Subs, NEW event \in Event, Webhook(p, s, event) PROVE TasksStay
    BY <2>1, BeginWork DEF Webhook
  <2>2. ASSUME NEW what, NEW S, NEW job, Begin(p, what, S, job), what \notin {"link", "payload"}
        PROVE  TasksStay
    BY <2>2, BeginWork DEF Begin
  <2> QED BY <2>1, <2>2 DEF CheckStatus, Cancel, Extend, Assign, TrialCheck, ExpireScan
<1> QED BY <1>1, <1>2, MoreJobs, FaultsGrow, NotThere, NoneNew

LEMMA JobsWatched ==
  ASSUME IInv, RowStep, NEW p \in Procs, NEW j \in Job,
         CheckPending(p, j) \/ RenewalCharge(p, j) \/ Remarketing(p, j)
  PROVE  WatchStep
<1>1. UNCHANGED <<row, faults>> /\ jobs' = Taken(j)
  BY DEF CheckPending, RenewalCharge, Remarketing
<1>2. TasksStay
  BY BeginWork, SameWork DEF CheckPending, RenewalCharge, Remarketing, Begin
<1>3. JobsStay
  BY <1>1, TakeJob DEF CheckPending, RenewalCharge, Remarketing, IsPending
<1> QED BY <1>1, <1>2, <1>3, FaultsGrow, NotThere, NoneNew

LEMMA CrashWatched == ASSUME IInv, Crash, RowStep PROVE WatchStep
<1> DEFINE Doers(j) == {p \in Procs : task[p].job = j}
<1>1. \A j \in Job : jobs'[j] = jobs[j] + Cardinality(Doers(j))
  BY DEF Crash
<1>2. \A j \in Job : IsFiniteSet(Doers(j)) /\ Cardinality(Doers(j)) \in Nat
  BY SubscriptionAssumption, FS_Subset, FS_CardinalityType
<1>3. \A j \in Job : Doers(j) # {} => Cardinality(Doers(j)) > 0
  BY <1>2, FS_EmptySet
<1> HIDE DEF Doers
<1>4. \A j \in Job : jobs[j] > 0 \/ Doers(j) # {} => jobs'[j] > 0
  BY <1>1, <1>2, <1>3 DEF IInv, TypeOK
<1>5. JobsStay
  BY <1>4 DEF JobsStay
<1>6. TasksStay
  <2>3. NoPayload
    BY IdleTask DEF Crash, NoPayload, Paying, Seen
  <2> SUFFICES ASSUME NEW p \in Procs, Polls(task[p]), NEW s \in Seen(p) PROVE Watched(s)'
    BY <2>3 DEF TasksStay, PollsStay
  <2>1. task[p].job \in Job /\ task[p].job.sub = s /\ s \in Subs
    BY TaskType, SeenRow DEF Task, IInv, JobsFit, ForJob, Seen, Polls
  <2>2. Doers(task[p].job) # {}
    BY DEF Doers
  <2> QED BY <1>4, <2>1, <2>2 DEF Watched, Polls
<1> QED BY <1>5, <1>6, FaultsGrow, NotThere, NoneNew DEF Crash

\* p is done with a row, which then is not pending.
LEMMA DoneWatched ==
  ASSUME IInv, RowStep, NEW p \in Procs, End(p), NEW s \in Seen(p),
         ~IsPending(s)' \/ ~Polls(task[p]), JobsStay, faults' >= faults,
         \A t \in Subs : row[t].status = "none" /\ IsPending(t)' => Watched(t)'
  PROVE  WatchStep
<1>1. s \in Subs /\ \A t \in Seen(p) : task[p].job # NoJob => t = s
  BY DEF IInv, JobsFit, ForJob, Seen
<1>2. TasksStay
  BY <1>1, EndWork DEF Polls
<1> QED BY <1>2, StepWatched

\* p saves a row it has read, with a status that is not pending.
LEMMA SavedWatched ==
  ASSUME IInv, RowStep, NEW p \in Procs, NEW s \in Seen(p), End(p), NEW r,
         r.status # "APPROVAL_PENDING", row' = [row EXCEPT ![s] = r],
         UNCHANGED jobs \/ \E name, t, at : jobs' = Enqueued(name, t, at),
         UNCHANGED faults \/ \E kind : Fault(kind)
  PROVE  WatchStep
<1>1. s \in Subs /\ \A t \in Subs : row'[t] = IF t = s THEN r ELSE row[t]
  BY SeenRow DEF IInv, TypeOK
<1>2. ~IsPending(s)' /\ \A t \in Subs : row[t].status = "none" => ~IsPending(t)'
  BY <1>1 DEF IsPending
<1> QED BY <1>2, MoreJobs, FaultsGrow, DoneWatched

\* ... and queues a job about it.
LEMMA SavedQueued ==
  ASSUME IInv, RowStep, NEW p \in Procs, NEW s \in Seen(p), End(p), NEW r,
         r.status # "APPROVAL_PENDING", row' = [row EXCEPT ![s] = r],
         NEW name, NEW at, Queue(name, s, at)
  PROVE  WatchStep
<1>1. /\ UNCHANGED jobs \/ \E n, t, u : jobs' = Enqueued(n, t, u)
      /\ UNCHANGED faults \/ \E kind : Fault(kind)
  BY DEF Queue
<1> QED BY <1>1, SavedWatched

LEMMA LearnWatched ==
  ASSUME IInv, RowStep, NEW p \in Procs, Answer(p) \/ Payload(p) \/ TimeOut(p) PROVE WatchStep
<1>1. End(p)
  BY DEF Answer, Payload, TimeOut
<1>2. ASSUME NEW s \in Seen(p), UNCHANGED <<row, jobs, faults>>,
             task[p].seen[s].status # "APPROVAL_PENDING"
      PROVE  WatchStep
  <2>1. ~Polls(task[p])
    BY <1>2 DEF IInv, JobsFit, ForJob, Polls, Seen
  <2> QED BY <1>1, <1>2, <2>1, MoreJobs, FaultsGrow, NotThere, DoneWatched
<1>3. ASSUME NEW s \in Seen(p), Activate(s, task[p].seen[s]) PROVE WatchStep
  <2> DEFINE new == [task[p].seen[s] EXCEPT !.status = "ACTIVE", !.end = now + Period]
  <2>1. new.status # "APPROVAL_PENDING"
    BY SeenRow DEF Row
  <2>2. CASE task[p].seen[s].status = "ACTIVE" /\ UNCHANGED <<row, jobs, faults>>
    BY <1>2, <2>2
  <2>3. CASE row' = [row EXCEPT ![s] = new] /\ Queue("renewal-charge", s, now + Period)
    <3> HIDE DEF new
    <3> QED BY <1>1, <2>1, <2>3, SavedQueued
  <2> QED BY <1>3, <2>2, <2>3 DEF Activate
<1>4. ASSUME NEW s \in Seen(p), NEW S \in {{"CANCELLED"}, {"CANCELLED", "EXPIRED"}},
             Reject(s, task[p].seen[s], S)
      PROVE  WatchStep
  <2>1. [task[p].seen[s] EXCEPT !.status = "CANCELLED"].status = "CANCELLED"
    BY SeenRow DEF Row
  <2> QED BY <1>1, <1>2, <1>4, <2>1, SavedQueued DEF Reject
<1>5. ASSUME Requeue(task[p].job), UNCHANGED faults \/ Fault("silence") PROVE WatchStep
  <2>1. JobsStay
    BY <1>5, MoreJobs DEF Requeue
  <2>2. ASSUME NEW s \in Seen(p), Polls(task[p]), IsPending(s) PROVE Watched(s)'
    <3> DEFINE j == task[p].job
    <3>1. j \in Job /\ j.sub = s /\ s \in Subs /\ j = [name |-> j.name, sub |-> j.sub, at |-> j.at]
      BY <2>2, TaskType, SeenRow DEF Task, IInv, JobsFit, ForJob, Seen, Job, Polls
    <3>2. j.name = "check-pending"
      BY <2>2 DEF Polls
    <3>3. jobs' = Enqueued(j.name, j.sub, j.at)
      BY <1>5, <2>2, <3>1 DEF Requeue, IsPending, Polls
    <3>4. jobs'[j] > 0
      BY <3>1, <3>3, EnqueuedMore
    <3> QED BY <3>1, <3>2, <3>4 DEF Watched
  <2>3. TasksStay
    BY <1>1, <2>2, EndWork
  <2>4. UNCHANGED row
    BY <1>5 DEF Requeue
  <2> QED BY <1>5, <2>1, <2>3, <2>4, FaultsGrow, NotThere, NoneNew
<1>6. CASE Answer(p)
  BY <1>3, <1>4, <1>5, <1>6 DEF Answer
<1>7. CASE Payload(p)
  BY <1>3, <1>4, <1>7 DEF Payload
<1>8. CASE TimeOut(p)
  <2>1. PICK s \in Seen(p) :
          /\ row' = [row EXCEPT ![s] = [task[p].seen[s] EXCEPT !.status = "CANCELLED"]]
          /\ Queue("remarketing-followup", s, now + FollowUp)
    BY <1>8 DEF TimeOut
  <2>2. [task[p].seen[s] EXCEPT !.status = "CANCELLED"].status = "CANCELLED"
    BY SeenRow DEF Row
  <2> QED BY <1>1, <2>1, <2>2, SavedQueued
<1> QED BY <1>6, <1>7, <1>8

LEMMA RenewWatched ==
  ASSUME IInv, RowStep, NEW p \in Procs, RenewDecide(p) \/ RenewCharge(p) PROVE WatchStep
<1>1. ASSUME NEW s \in Seen(p) PROVE [task[p].seen[s] EXCEPT !.status = "EXPIRED"].status = "EXPIRED"
  BY <1>1, SeenRow DEF Row
<1>2. ASSUME NEW s \in Seen(p), End(p), row' = Expired(p, s),
             UNCHANGED jobs \/ \E name, t, at : jobs' = Enqueued(name, t, at),
             UNCHANGED faults \/ \E kind : Fault(kind)
      PROVE  WatchStep
  BY <1>1, <1>2, SavedWatched DEF Expired
<1>3. ASSUME NEW s \in Seen(p), End(p), Room,
             row' = [Expired(p, s) EXCEPT ![NewRow] = Pending(TRUE)],
             \E name, t, at : jobs' = Enqueued(name, t, at),
             \/ jobs' = Enqueued("check-pending", NewRow, now) /\ UNCHANGED faults
             \/ Fault("enqueue")
      PROVE  WatchStep
  <2>1. PICK x \in Subs : x = NewRow /\ row[x].status = "none"
    BY <1>3, NewRowFree DEF Room
  <2>2. s \in Subs /\ s # x /\ \A t \in Seen(p) : task[p].job # NoJob => t = s
    BY <2>1, SeenRow DEF IInv, JobsFit, ForJob, Seen
  <2> DEFINE new == [task[p].seen[s] EXCEPT !.status = "EXPIRED"]
  <2>3. row' = [[row EXCEPT ![s] = new] EXCEPT ![x] = Pending(TRUE)]
    BY <1>3, <2>1 DEF Expired
  <2>4. new.status = "EXPIRED"
    BY <1>1
  <2> HIDE DEF new
  <2>5. ~IsPending(s)' /\ \A t \in Subs \ {x} : row[t].status = "none" => ~IsPending(t)'
    BY <2>2, <2>3, <2>4 DEF IsPending, IInv, TypeOK
  <2>6. JobsStay
    BY <1>3, MoreJobs
  <2>7. TasksStay
    BY <1>3, <2>2, <2>5, EndWork DEF Polls
  <2>8. CASE jobs' = Enqueued("check-pending", x, now) /\ UNCHANGED faults
    <3>1. Watched(x)' /\ faults' >= faults
      BY <2>8, PollQueued, FaultsGrow
    <3> QED BY <2>5, <2>6, <2>7, <3>1, StepWatched
  <2>9. CASE Fault("enqueue")
    BY <2>5, <2>6, <2>7, <2>9, StepWatched DEF Fault
  <2> QED BY <1>3, <2>1, <2>8, <2>9
<1>4. CASE RenewDecide(p) /\ task' = [task EXCEPT ![p].do = "charge"] /\ UNCHANGED <<row, jobs, faults>>
  <2>1. /\ \A q \in Procs : task'[q].job = task[q].job /\ task'[q].seen = task[q].seen
        /\ \A q \in Procs : task'[q].do \in {task[q].do, "charge"}
    BY <1>4, TaskType DEF Task
  <2>2. TasksStay
    BY <2>1, WorkOn DEF TasksStay, PollsStay, NoPayload, Paying, Seen
  <2> QED BY <1>4, <2>2, MoreJobs, FaultsGrow, NotThere, NoneNew
<1>5. CASE RenewDecide(p) /\ ~(task' = [task EXCEPT ![p].do = "charge"] /\ UNCHANGED <<row, jobs, faults>>)
  <2>1. PICK s \in Seen(p) : row' = Expired(p, s) /\ Queue("remarketing-followup", s, now + FollowUp)
    BY <1>5 DEF RenewDecide
  <2>2. End(p)
    BY <1>5 DEF RenewDecide
  <2> QED BY <1>2, <2>1, <2>2 DEF Queue
<1>6. CASE RenewCharge(p)
  BY <1>2, <1>3, <1>6 DEF RenewCharge
<1> QED BY <1>4, <1>5, <1>6

LEMMA SaveWatched ==
  ASSUME IInv, RowStep, NEW p \in Procs, SendFollowUp(p) \/ ExtendSave(p) PROVE WatchStep
<1>1. End(p) /\ UNCHANGED <<jobs, faults>>
  BY DEF SendFollowUp, ExtendSave
<1>2. CASE SendFollowUp(p)
  <2>1. PICK s \in Seen(p) :
          row' = [row EXCEPT ![s] = [task[p].seen[s] EXCEPT !.followUpSent = TRUE]]
    BY <1>2 DEF SendFollowUp
  <2>2. [task[p].seen[s] EXCEPT !.followUpSent = TRUE].status # "APPROVAL_PENDING"
    BY <1>2, SeenRow DEF SendFollowUp, Working, Row, IInv, SeenFits, Fits
  <2> QED BY <1>1, <2>1, <2>2, SavedWatched
<1>3. CASE ExtendSave(p)
  <2>1. PICK s \in Seen(p) : \E end \in {task[p].seen[s].end, task[p].since} :
          row' = [row EXCEPT ![s] = [task[p].seen[s] EXCEPT !.end = end + Period]]
    BY <1>3 DEF ExtendSave
  <2>2. PICK end \in {task[p].seen[s].end, task[p].since} :
          row' = [row EXCEPT ![s] = [task[p].seen[s] EXCEPT !.end = end + Period]]
    BY <2>1
  <2>3. task[p].do = "extend" /\ task[p].seen[s].status # "APPROVAL_PENDING"
    BY <1>3, SeenRow DEF ExtendSave, Working, IInv, SeenFits, Fits
  <2>4. [task[p].seen[s] EXCEPT !.end = end + Period].status # "APPROVAL_PENDING"
    BY <2>3, SeenRow, SMTT(30) DEF Row
  <2> QED BY <1>1, <2>1, <2>2, <2>4, SavedWatched
<1> QED BY <1>2, <1>3

\* The lists of the cron and of the administrator, and the rows granted.
LEMMA OthersWatched ==
  ASSUME IInv, RowStep, NEW p \in Procs,
         \/ AssignCreate(p) \/ TrialGrant(p)
         \/ \E s \in Subs : ExpireOne(p, s) \/ CancelOne(p, s) \/ AssignCancelOne(p, s)
  PROVE  WatchStep
<1>1. UNCHANGED jobs /\ (UNCHANGED faults \/ \E kind : Fault(kind))
  BY DEF AssignCreate, TrialGrant, ExpireOne, CancelOne, AssignCancelOne
<1>2. JobsStay /\ faults' >= faults
  BY <1>1, MoreJobs, FaultsGrow
<1>3. TasksStay
  <2>1. CASE AssignCreate(p) \/ TrialGrant(p)
    <3>1. End(p) /\ task[p].job = NoJob
      BY <2>1 DEF AssignCreate, TrialGrant, Working, IInv, JobsFit, ForJob
    <3> QED BY <3>1, EndWork DEF Polls
  <2>3. ASSUME NEW s \in Subs, ExpireOne(p, s) \/ CancelOne(p, s) \/ AssignCancelOne(p, s)
        PROVE  TasksStay
    BY <2>3, NoJobWork DEF ExpireOne, CancelOne, AssignCancelOne, Working
  <2> QED BY <2>1, <2>3
<1> DEFINE Quiet == \A s \in Subs : row[s].status = "none" => ~IsPending(s)'
<1>4. Quiet
  <2>1. CASE UNCHANGED row
    BY <2>1, NotThere
  <2>2. ASSUME NEW method, row' = Granted(method) PROVE Quiet
    <3> DEFINE new == [NoRow EXCEPT !.status = "ACTIVE", !.method = method, !.end = now + Period]
    <3>1. new.status = "ACTIVE"
      BY DEF NoRow
    <3>2. row' = [row EXCEPT ![NewRow] = new]
      BY <2>2 DEF Granted
    <3> HIDE DEF new
    <3> QED BY <3>1, <3>2 DEF IsPending, IInv, TypeOK
  <2>3. ASSUME NEW s \in Subs, ExpireOne(p, s) \/ CancelOne(p, s) \/ AssignCancelOne(p, s)
        PROVE  Quiet
    <3>1. row[s].status # "none" /\ \A t \in Subs \ {s} : row'[t] = row[t]
      BY <2>3, SeenRow
         DEF ExpireOne, CancelOne, AssignCancelOne, Expired, IInv, TypeOK
    <3> QED BY <3>1 DEF IsPending
  <2> QED BY <2>1, <2>2, <2>3 DEF AssignCreate, TrialGrant
<1> QED BY <1>2, <1>3, <1>4, NoneNew

\* A webhook that falls back counts at once for the row its payload is about ...
LEMMA FallBackWatched == ASSUME IInv, RowStep, NEW p \in Procs, FallBack(p) PROVE WatchStep
<1>1. PICK x \in Seen(p), what \in {"link", "payload"} :
        task' = [task EXCEPT ![p].do = what, ![p].seen = ReadRows({x})]
  BY DEF FallBack
<1>2. task[p].job = NoJob /\ x \in Subs
  BY SeenRow DEF FallBack, Working, IInv, JobsFit, ForJob
<1>3. \A q \in Procs \ {p} : task'[q] = task[q]
  BY <1>1, TaskType
<1>4. PollsStay
  BY <1>2, <1>3, WorkOn DEF PollsStay, Polls
<1>5. JobsStay /\ UNCHANGED row
  BY MoreJobs DEF FallBack
<1>6. \A s \in Subs : task'[p].seen[s] # NoRow => s = x
  BY <1>1, TaskType DEF Task, ReadRows
<1>7. \A s \in Subs \ {x} : Paying(s)' => Paying(s)
  BY <1>3, <1>6 DEF Paying, Seen
<1>8. ASSUME NEW s \in Unwatched', s # x PROVE s \in Unwatched
  <2>1. s \in Subs
    BY DEF Unwatched
  <2> QED BY <1>4, <1>5, <1>7, <1>8, <2>1, NotThere, RowWatched
<1>9. Unwatched' \subseteq Unwatched \cup {x}
  BY <1>8
<1> QED BY <1>2, <1>9 DEF WatchStep, FallBack, Fault

\* ... and goes on counting for it.
LEMMA LinkWatched == ASSUME IInv, RowStep, NEW p \in Procs, Link(p) PROVE WatchStep
<1>1. PICK x \in Seen(p) :
        LET linked == [task[p].seen[x] EXCEPT !.linked = TRUE]
        IN  /\ row' = IF task[p].event = "paid" THEN [row EXCEPT ![x] = linked] ELSE row
            /\ task' = [task EXCEPT ![p].do = "payload", ![p].seen[x] = linked]
  BY DEF Link
<1>2. /\ task[p].job = NoJob /\ task[p].do = "link" /\ x \in Subs
      /\ row[x].status # "none" /\ task \in [Procs -> Task]
  BY TaskType, SeenRow DEF Link, Working, IInv, JobsFit, ForJob
<1>3. \A q \in Procs \ {p} : task'[q] = task[q]
  BY <1>1, <1>2
<1>4. PollsStay
  BY <1>2, <1>3, WorkOn DEF PollsStay, Polls
<1>5. \A s \in Subs \ {x} : task'[p].seen[s] = task[p].seen[s]
  BY <1>1, <1>2 DEF Task
<1>6. NoPayload
  BY <1>2, <1>3, <1>5 DEF NoPayload, Paying, Seen
<1>7. JobsStay /\ faults' >= faults
  BY MoreJobs, FaultsGrow DEF Link
<1>8. \A s \in Subs \ {x} : row'[s] = row[s]
  BY <1>1, <1>2 DEF IInv, TypeOK
<1>9. \A s \in Subs : row[s].status = "none" => ~IsPending(s)'
  BY <1>2, <1>8 DEF IsPending
<1> QED BY <1>4, <1>6, <1>7, <1>9, NoneNew DEF TasksStay

LEMMA NextWatched == ASSUME IInv, [Next]_vars PROVE WatchStep
<1>1. RowStep
  BY NextKeeps
<1>2. CASE Outside \/ Crash
  BY <1>1, <1>2, OutsideWatched, CrashWatched
<1>3. CASE Requests
  BY <1>1, <1>3, SubscribeWatched, RequestsWatched DEF Requests
<1>4. CASE RunJob
  BY <1>1, <1>4, JobsWatched DEF RunJob
<1>5. ASSUME NEW p \in Procs, Continue(p) PROVE WatchStep
  BY <1>1, <1>5, LearnWatched, RenewWatched, SaveWatched, OthersWatched, FallBackWatched,
     LinkWatched DEF Continue
<1>6. CASE UNCHANGED vars
  BY <1>1, <1>6, MoreJobs, SameWork, FaultsGrow, NotThere, NoneNew DEF vars
<1> QED BY <1>2, <1>3, <1>4, <1>5, <1>6 DEF Next

\* Every pending row is looked after but for one per failure: whatever else is
\* lost, read early or saved late, no poll of a pending row gets lost.
THEOREM PendingIsWatched == Spec => []PendingWatched
<1> DEFINE Few == Cardinality(Unwatched) <= faults
<1>1. Init => Few
  <2> SUFFICES ASSUME Init PROVE Few
    OBVIOUS
  <2>1. Unwatched = {} /\ faults = 0
    BY NoRowType, IdleTask DEF Init, Unwatched, IsPending, Paying, Seen
  <2> QED BY <2>1, FS_EmptySet
<1>2. ASSUME Few, IInv, [Next]_vars PROVE Few'
  <2>1. WatchStep /\ IInv'
    BY <1>2, NextWatched, NextKeeps
  <2>2. IsFiniteSet(Unwatched) /\ IsFiniteSet(Unwatched')
    BY SubscriptionAssumption, FS_Subset DEF Unwatched
  <2>3. Cardinality(Unwatched) \in Nat /\ Cardinality(Unwatched') \in Nat
    BY <2>2, FS_CardinalityType
  <2>4. faults \in Nat /\ faults' \in Nat
    BY <1>2, <2>1 DEF IInv, TypeOK
  <2>5. CASE Unwatched' \subseteq Unwatched /\ faults' >= faults
    <3>1. Cardinality(Unwatched') <= Cardinality(Unwatched)
      BY <2>2, <2>5, FS_Subset
    <3> QED BY <1>2, <2>3, <2>4, <2>5, <3>1
  <2>6. ASSUME NEW x \in Subs, Unwatched' \subseteq Unwatched \cup {x}, faults' = faults + 1
        PROVE  Few'
    <3>1. IsFiniteSet(Unwatched \cup {x}) /\ Cardinality(Unwatched \cup {x}) <= Cardinality(Unwatched) + 1
      <4>1. Cardinality(Unwatched \cup {x}) \in {Cardinality(Unwatched), Cardinality(Unwatched) + 1}
        BY <2>2, FS_AddElement
      <4>2. IsFiniteSet(Unwatched \cup {x})
        BY <2>2, FS_AddElement
      <4> QED BY <2>3, <4>1, <4>2
    <3>2. Cardinality(Unwatched') <= Cardinality(Unwatched \cup {x}) /\ Cardinality(Unwatched \cup {x}) \in Nat
      BY <2>6, <3>1, FS_Subset, FS_CardinalityType
    <3> QED BY <1>2, <2>3, <2>4, <2>6, <3>1, <3>2
  <2> QED BY <2>1, <2>5, <2>6 DEF WatchStep
<1>3. Few /\ IInv => PendingWatched
  <2> SUFFICES ASSUME Few, IInv PROVE PendingWatched
    OBVIOUS
  <2> DEFINE Alone == {s \in Subs : row[s].status = "APPROVAL_PENDING" /\ ~Watched(s)}
  <2>1. IsFiniteSet(Unwatched) /\ Alone \subseteq Unwatched
    BY SubscriptionAssumption, FS_Subset DEF Unwatched, IsPending
  <2>2. Cardinality(Alone) <= Cardinality(Unwatched) /\ IsFiniteSet(Alone)
    BY <2>1, FS_Subset
  <2>3. Cardinality(Alone) \in Nat /\ Cardinality(Unwatched) \in Nat /\ faults \in Nat
    BY <2>1, <2>2, FS_CardinalityType DEF IInv, TypeOK
  <2>4. Cardinality(Alone) <= faults
    BY <2>2, <2>3
  <2> QED BY <2>4 DEF PendingWatched
<1>4. Few /\ IInv /\ [Next]_vars => Few'
  BY <1>2
<1> HIDE DEF Few
<1> QED BY <1>1, <1>3, <1>4, Invariant, PTL DEF Spec
-----------------------------------------------------------------------------
(***************************************************************************)
(* The tier of the plan, module PlanAccess: a tier that is answered was    *)
(* justified by the table not long ago, for any rows, requests and         *)
(* changes, and any tiers and life times.                                  *)
(*                                                                         *)
(* The invariant follows a tier on its way: from the table into a request, *)
(* from there into the entry, and from the entry into later requests. Each *)
(* of them holds a tier of some tick t of the history, and t is bounded by *)
(* when the request began and by when the entry ends.                      *)
(***************************************************************************)

\* tier was in the table at a tick that is at most k before x.
Was(tier, x, k) == \E t \in 0 .. clock : x <= t + k /\ tier \in right[t]

RequestOK(r) ==
  /\ request[r].at # "idle" => request[r].since <= clock /\ clock <= request[r].since + 1
  /\ request[r].at = "read" => Was(request[r].tier, request[r].since, 0)
  /\ request[r].at = "answered" => Was(request[r].tier, clock, Ttl)

EntryOK == Cached => Was(entry.tier, entry.until, Ttl + 1)

PlanInv ==
  /\ PlanTypeOK
  /\ Readable \subseteq right[clock]
  /\ \A r \in Guarded : RequestOK(r)
  /\ EntryOK

\* What the history has, it keeps.
LEMMA HistoryGrows ==
  ASSUME PlanTypeOK, Remember, clock' \in 0 .. Horizon, clock <= clock'
  PROVE  \A t \in 0 .. clock : t \in 0 .. clock' /\ right[t] \subseteq right'[t]
  BY PlanAccessAssumption DEF PlanTypeOK, Remember

\* What can be read is a tier, when the rows are rows.
LEMMA ReadableTier == ASSUME plan \in [Plans -> PlanRow] PROVE Readable \subseteq Tier
  BY DEF Readable, Active, TierOf, PlanRow, Tier

\* Every step is remembered, and the history stays well typed.
LEMMA RememberedStep ==
  ASSUME PlanTypeOK, Remember, clock' \in 0 .. Horizon, plan' \in [Plans -> PlanRow]
  PROVE  right' \in [0 .. Horizon -> SUBSET Tier] /\ Readable' \subseteq right'[clock']
  <1>1. Readable' \subseteq Tier
    BY ReadableTier, plan' \in [Plans -> PlanRow] DEF Readable, Active, TierOf, PlanRow, Tier
  <1> QED
    BY <1>1 DEF PlanTypeOK, Remember

THEOREM PlanInitOK == PlanInit => PlanInv
  <1> SUFFICES ASSUME PlanInit PROVE PlanInv
    OBVIOUS
  <1>1. plan \in [Plans -> PlanRow]
    BY DEF PlanInit, NoPlan, PlanRow, Tier
  <1>2. Readable \subseteq Tier
    BY <1>1, ReadableTier
  <1>3. PlanTypeOK
    BY <1>1, <1>2, PlanAccessAssumption DEF PlanInit, PlanTypeOK, NoEntry, NoRequest, Tier
  <1>4. Readable \subseteq right[clock]
    BY PlanAccessAssumption DEF PlanInit
  <1> QED
    BY <1>3, <1>4, PlanAccessAssumption DEF PlanInit, PlanInv, RequestOK, EntryOK, Cached, NoEntry, NoRequest

\* The clock moves: no answer is left, and who is at work began this tick.
LEMMA PlanTickStep == ASSUME PlanInv, PlanTick PROVE PlanInv'
  <1> USE PlanAccessAssumption
  <1>1. clock' \in 0 .. Horizon /\ clock' = clock + 1 /\ plan' = plan
    BY DEF PlanTick, PlanInv, PlanTypeOK
  <1>2. right' \in [0 .. Horizon -> SUBSET Tier] /\ Readable' \subseteq right'[clock']
    BY <1>1, RememberedStep DEF PlanInv, PlanTick, PlanTypeOK
  <1>3. PlanTypeOK'
    BY <1>1, <1>2 DEF PlanInv, PlanTypeOK, PlanTick
  <1>4. \A t \in 0 .. clock : t \in 0 .. clock' /\ right[t] \subseteq right'[t]
    BY <1>1, HistoryGrows DEF PlanInv, PlanTypeOK, PlanTick
  <1>5. ASSUME NEW r \in Guarded PROVE RequestOK(r)'
    <2>1. request[r].at # "idle" => request[r].at # "answered" /\ request[r].since = clock
      BY DEF PlanTick, NoRequest
    <2>2. request[r].at = "read" =>
            \E t \in 0 .. clock : request[r].since <= t + 0 /\ request[r].tier \in right[t]
      BY DEF PlanInv, RequestOK, Was
    <2> QED
      BY <2>1, <2>2, <1>1, <1>4 DEF RequestOK, PlanTick, PlanInv, PlanTypeOK, Was
  <1>6. EntryOK'
    BY <1>1, <1>4 DEF EntryOK, Cached, Was, PlanTick, PlanInv, PlanTypeOK
  <1> QED
    BY <1>2, <1>3, <1>5, <1>6 DEF PlanInv

\* A step of request r that leaves the clock and the rows: what is left to show.
LEMMA RequestKeeps ==
  ASSUME PlanInv, Remember, UNCHANGED <<clock, plan, change>>,
         NEW r \in Guarded,
         \A q \in Guarded \ {r} : request'[q] = request[q],
         request' \in [Guarded -> [at : {"idle", "missed", "read", "answered"},
                                    tier : Tier, since : Nat]],
         entry' \in [tier : Tier, until : Nat],
         failures' \in Nat,
         RequestOK(r)',
         EntryOK'
  PROVE  PlanInv'
  <1>1. clock' \in 0 .. Horizon /\ clock <= clock' /\ plan' \in [Plans -> PlanRow]
    BY PlanAccessAssumption DEF PlanInv, PlanTypeOK
  <1>2. right' \in [0 .. Horizon -> SUBSET Tier] /\ Readable' \subseteq right'[clock']
    BY <1>1, RememberedStep DEF PlanInv
  <1>3. PlanTypeOK'
    BY <1>1, <1>2 DEF PlanInv, PlanTypeOK
  <1>4. \A t \in 0 .. clock : t \in 0 .. clock' /\ right[t] \subseteq right'[t]
    BY <1>1, HistoryGrows DEF PlanInv
  <1>5. ASSUME NEW q \in Guarded PROVE RequestOK(q)'
    <2>1. CASE q = r
      BY <2>1
    <2>2. CASE q # r
      BY <2>2, <1>4 DEF PlanInv, RequestOK, Was
    <2> QED
      BY <2>1, <2>2
  <1> QED
    BY <1>2, <1>3, <1>5 DEF PlanInv

\* An entry that stays is still justified.
LEMMA EntryStays ==
  ASSUME PlanInv, Remember, UNCHANGED <<clock, entry>> PROVE EntryOK'
  <1>1. \A t \in 0 .. clock : t \in 0 .. clock' /\ right[t] \subseteq right'[t]
    BY HistoryGrows DEF PlanInv, PlanTypeOK
  <1> QED
    BY <1>1 DEF PlanInv, EntryOK, Cached, Was

LEMMA AskKeeps == ASSUME PlanInv, NEW r \in Guarded, Ask(r) PROVE PlanInv'
  <1> USE PlanAccessAssumption
  <1>1. EntryOK'
    BY EntryStays DEF Ask
  <1>2. \A t \in 0 .. clock : t \in 0 .. clock' /\ right[t] \subseteq right'[t]
    BY HistoryGrows DEF PlanInv, PlanTypeOK, Ask
  <1>3. CASE /\ Cached
             /\ request' = [request EXCEPT ![r] =
                              [at |-> "answered", tier |-> entry.tier, since |-> clock]]
             /\ UNCHANGED failures
    <2>1. PICK t \in 0 .. clock : entry.until <= t + (Ttl + 1) /\ entry.tier \in right[t]
      BY <1>3 DEF PlanInv, EntryOK, Was
    <2>2. clock <= t + Ttl
      BY <2>1, <1>3 DEF Cached, PlanInv, PlanTypeOK
    <2>3. RequestOK(r)'
      <3>1. t \in 0 .. clock' /\ entry.tier \in right'[t] /\ clock' = clock
        BY <2>1, <1>2 DEF Ask
      <3>2. /\ request'[r].at = "answered"
            /\ request'[r].tier = entry.tier
            /\ request'[r].since = clock
        BY <1>3 DEF PlanInv, PlanTypeOK
      <3>3. clock \in Nat
        BY DEF PlanInv, PlanTypeOK
      <3> QED
        BY <3>1, <3>2, <3>3, <2>2 DEF RequestOK, Was
    <2>4. request' \in [Guarded -> [at : {"idle", "missed", "read", "answered"},
                                     tier : Tier, since : Nat]]
      BY <1>3 DEF PlanInv, PlanTypeOK
    <2>5. \A q \in Guarded \ {r} : request'[q] = request[q]
      BY <1>3 DEF PlanInv, PlanTypeOK
    <2> QED
      BY <2>3, <2>4, <2>5, <1>1, <1>3, RequestKeeps DEF Ask, PlanInv, PlanTypeOK
  <1>4. CASE /\ IF Cached THEN CacheFails ELSE UNCHANGED failures
             /\ request' = [request EXCEPT ![r] =
                              [at |-> "missed", tier |-> "FREE", since |-> clock]]
    <2>1. failures' \in Nat
      BY <1>4 DEF CacheFails, PlanInv, PlanTypeOK
    <2>2. RequestOK(r)'
      BY <1>4 DEF RequestOK, PlanInv, PlanTypeOK, Ask
    <2>3. request' \in [Guarded -> [at : {"idle", "missed", "read", "answered"},
                                     tier : Tier, since : Nat]]
      BY <1>4 DEF PlanInv, PlanTypeOK, Tier
    <2> QED
      BY <2>1, <2>2, <2>3, <1>1, <1>4, RequestKeeps DEF Ask, PlanInv, PlanTypeOK
  <1> QED
    BY <1>3, <1>4 DEF Ask

LEMMA ReadKeeps == ASSUME PlanInv, NEW r \in Guarded, Read(r) PROVE PlanInv'
  <1> USE PlanAccessAssumption
  <1>1. PICK tier \in Readable :
          request' = [request EXCEPT ![r] = [@ EXCEPT !.at = "read", !.tier = tier]]
    BY DEF Read
  <1>2. tier \in Tier
    BY ReadableTier DEF PlanInv, PlanTypeOK
  <1>3. request'[r].at = "read" /\ request'[r].tier = tier /\ request'[r].since = request[r].since
    BY <1>1 DEF PlanInv, PlanTypeOK
  <1>4. request' \in [Guarded -> [at : {"idle", "missed", "read", "answered"},
                                   tier : Tier, since : Nat]]
    <2> DEFINE new == [request[r] EXCEPT !.at = "read", !.tier = tier]
    <2>1. new \in [at : {"idle", "missed", "read", "answered"}, tier : Tier, since : Nat]
      BY <1>2 DEF PlanInv, PlanTypeOK
    <2>2. request' = [request EXCEPT ![r] = new]
      BY <1>1
    <2> HIDE DEF new
    <2> QED
      BY <2>1, <2>2 DEF PlanInv, PlanTypeOK
  <1>5. tier \in right'[clock'] /\ clock' = clock
    <2>1. tier \in right[clock] /\ clock \in 0 .. clock
      BY DEF PlanInv, PlanTypeOK
    <2>2. \A t \in 0 .. clock : right[t] \subseteq right'[t]
      BY HistoryGrows DEF PlanInv, PlanTypeOK, Read
    <2> QED
      BY <2>1, <2>2 DEF Read
  <1>6. RequestOK(r)'
    BY <1>3, <1>5 DEF RequestOK, Was, PlanInv, PlanTypeOK, Read
  <1>7. EntryOK'
    BY EntryStays DEF Read
  <1> QED
    BY <1>1, <1>4, <1>6, <1>7, RequestKeeps DEF Read, PlanInv, PlanTypeOK

LEMMA StoreKeeps == ASSUME PlanInv, NEW r \in Guarded, Store(r) PROVE PlanInv'
  <1> USE PlanAccessAssumption
  <1>1. PICK t \in 0 .. clock : request[r].since <= t + 0 /\ request[r].tier \in right[t]
    BY DEF PlanInv, RequestOK, Was, Store
  <1>2. clock <= t + Ttl /\ clock + Ttl <= t + (Ttl + 1)
    BY <1>1 DEF PlanInv, RequestOK, Store, PlanTypeOK
  <1>3. t \in 0 .. clock' /\ right[t] \subseteq right'[t] /\ clock' = clock
    BY HistoryGrows DEF PlanInv, PlanTypeOK, Store
  <1>4. /\ request'[r].at = "answered"
        /\ request'[r].tier = request[r].tier
        /\ request'[r].since = request[r].since
        /\ request' \in [Guarded -> [at : {"idle", "missed", "read", "answered"},
                                      tier : Tier, since : Nat]]
        /\ \A q \in Guarded \ {r} : request'[q] = request[q]
    BY DEF PlanInv, PlanTypeOK, Store, Reply
  <1>5. RequestOK(r)'
    BY <1>1, <1>2, <1>3, <1>4 DEF RequestOK, Was, PlanInv, Store
  <1>6. CASE entry' = [tier |-> request[r].tier, until |-> clock + Ttl] /\ UNCHANGED failures
    <2>1. EntryOK'
      BY <1>1, <1>2, <1>3, <1>6 DEF EntryOK, Was
    <2>2. entry' \in [tier : Tier, until : Nat] /\ failures' \in Nat
      BY <1>6 DEF PlanInv, PlanTypeOK
    <2> QED
      BY <2>1, <2>2, <1>4, <1>5, RequestKeeps DEF Store
  <1>7. CASE CacheFails /\ UNCHANGED entry
    <2>1. EntryOK'
      BY <1>7, EntryStays DEF Store
    <2>2. entry' \in [tier : Tier, until : Nat] /\ failures' \in Nat
      BY <1>7 DEF PlanInv, PlanTypeOK, CacheFails
    <2> QED
      BY <2>1, <2>2, <1>4, <1>5, RequestKeeps DEF Store
  <1> QED
    BY <1>6, <1>7 DEF Store

LEMMA DoneKeeps == ASSUME PlanInv, NEW r \in Guarded, Done(r) PROVE PlanInv'
  <1>1. RequestOK(r)'
    BY DEF RequestOK, Done, NoRequest, PlanInv, PlanTypeOK
  <1>2. EntryOK'
    BY EntryStays DEF Done
  <1>3. request' \in [Guarded -> [at : {"idle", "missed", "read", "answered"},
                                   tier : Tier, since : Nat]]
    BY DEF PlanInv, PlanTypeOK, Done, NoRequest, Tier
  <1> QED
    BY <1>1, <1>2, <1>3, RequestKeeps DEF Done, PlanInv, PlanTypeOK

\* A change leaves the requests alone; of the entry it can only take away.
LEMMA ChangeKeeps ==
  ASSUME PlanInv, Remember, UNCHANGED <<clock, request>>,
         plan' \in [Plans -> PlanRow], change' \in [Changes -> BOOLEAN], failures' \in Nat,
         entry' \in {entry, NoEntry}
  PROVE  PlanInv'
  <1> USE PlanAccessAssumption
  <1>1. clock' \in 0 .. Horizon /\ clock <= clock'
    BY DEF PlanInv, PlanTypeOK
  <1>2. right' \in [0 .. Horizon -> SUBSET Tier] /\ Readable' \subseteq right'[clock']
    BY <1>1, RememberedStep DEF PlanInv
  <1>3. PlanTypeOK'
    BY <1>1, <1>2 DEF PlanInv, PlanTypeOK, NoEntry, Tier
  <1>4. \A t \in 0 .. clock : t \in 0 .. clock' /\ right[t] \subseteq right'[t]
    BY <1>1, HistoryGrows DEF PlanInv
  <1>5. ASSUME NEW q \in Guarded PROVE RequestOK(q)'
    BY <1>4 DEF PlanInv, RequestOK, Was
  <1>6. EntryOK'
    BY <1>1, <1>4 DEF PlanInv, EntryOK, Cached, Was, NoEntry
  <1> QED
    BY <1>2, <1>3, <1>5, <1>6 DEF PlanInv

LEMMA PlanSavedStep ==
  ASSUME PlanInv, NEW c \in Changes, NEW s \in Plans, NEW new \in PlanRow, Save(c, s, new)
  PROVE  PlanInv'
  BY ChangeKeeps DEF Save, PlanInv, PlanTypeOK

LEMMA ChangesKeep == ASSUME PlanInv, ChangeStep PROVE PlanInv'
  <1> USE PlanAccessAssumption
  <1>1. ASSUME NEW t \in Nat PROVE Ending(t) \in Nat
    BY DEF Ending
  <1>2. ASSUME NEW c \in Changes, NEW s \in Plans, Prolong(c, s) PROVE PlanInv'
    <2> DEFINE new == [plan[s] EXCEPT !.end = Ending((IF @ > clock THEN @ ELSE clock) + Term)]
    <2>1. (IF plan[s].end > clock THEN plan[s].end ELSE clock) + Term \in Nat
      BY DEF PlanInv, PlanTypeOK, PlanRow
    <2>2. Ending((IF plan[s].end > clock THEN plan[s].end ELSE clock) + Term) \in Nat
      BY <2>1, <1>1
    <2>3. new \in PlanRow
      <3>1. PICK end \in Nat : end = Ending((IF plan[s].end > clock THEN plan[s].end ELSE clock) + Term)
        BY <2>2
      <3>2. plan[s] \in PlanRow
        BY DEF PlanInv, PlanTypeOK
      <3>3. [plan[s] EXCEPT !.end = end] \in PlanRow
        BY <3>2, SMTT(30) DEF PlanRow
      <3> QED
        BY <3>1, <3>3
    <2>4. Save(c, s, new)
      BY <1>2 DEF Prolong
    <2> HIDE DEF new
    <2> QED
      BY <2>3, <2>4, PlanSavedStep
  <1>3. ASSUME NEW c \in Changes, NEW s \in Plans, Revoke(c, s) PROVE PlanInv'
    BY <1>3, PlanSavedStep DEF Revoke, NoPlan, PlanRow, Tier
  <1>4. ASSUME NEW c \in Changes, NEW s \in Plans, NEW tier \in Paid, Grant(c, s, tier)
        PROVE  PlanInv'
    <2> DEFINE new == [active |-> TRUE, end |-> Ending(clock + Term), tier |-> tier]
    <2>1. new \in PlanRow
      <3>1. clock + Term \in Nat
        BY DEF PlanInv, PlanTypeOK
      <3>2. Ending(clock + Term) \in Nat
        BY <1>1, <3>1
      <3> QED
        BY <3>2 DEF PlanRow, Tier
    <2>2. Save(c, s, new)
      BY <1>4 DEF Grant
    <2> HIDE DEF new
    <2> QED
      BY <2>1, <2>2, PlanSavedStep
  <1>5. ASSUME NEW s \in Plans, RevokeQuietly(s) PROVE PlanInv'
    BY <1>5, ChangeKeeps DEF RevokeQuietly, NoPlan, PlanRow, Tier, PlanInv, PlanTypeOK
  <1>6. ASSUME NEW c \in Changes, Invalidate(c) PROVE PlanInv'
    BY <1>6, ChangeKeeps DEF Invalidate, CacheFails, PlanInv, PlanTypeOK
  <1> QED
    BY <1>2, <1>3, <1>4, <1>5, <1>6 DEF ChangeStep

LEMMA PlanNextOK == PlanInv /\ [PlanNext]_planVars => PlanInv'
  <1> SUFFICES ASSUME PlanInv, [PlanNext]_planVars PROVE PlanInv'
    OBVIOUS
  <1>1. CASE PlanTick
    BY <1>1, PlanTickStep
  <1>2. CASE RequestStep
    BY <1>2, AskKeeps, ReadKeeps, StoreKeeps, DoneKeeps DEF RequestStep
  <1>3. CASE ChangeStep
    BY <1>3, ChangesKeep
  <1>4. CASE UNCHANGED planVars
    BY <1>4 DEF planVars, PlanInv, PlanTypeOK, RequestOK, EntryOK, Was, Cached,
                Readable, Active, TierOf, Running
  <1> QED
    BY <1>1, <1>2, <1>3, <1>4 DEF PlanNext

\* The invariant holds in every state.
THEOREM PlanInvariant == PlanSpec => []PlanInv
  BY PlanInitOK, PlanNextOK, PTL DEF PlanSpec

\* The state is always well typed.
THEOREM PlanTypeCorrect == PlanSpec => []PlanTypeOK
  <1>1. PlanInv => PlanTypeOK
    BY DEF PlanInv
  <1> QED
    BY PlanInvariant, <1>1, PTL

\* getUserPlan never answers a tier that the table did not justify within the
\* life of an entry, whatever requests, changes and failures come together.
THEOREM StaleForALifeAtMost == PlanSpec => []BoundedStaleness
  <1>1. PlanInv => BoundedStaleness
    BY DEF PlanInv, RequestOK, Was, BoundedStaleness
  <1> QED
    BY PlanInvariant, <1>1, PTL
=============================================================================
