---------------------------- MODULE Subscription ----------------------------
(***************************************************************************)
(* The subscriptions of one user: payments asked of the provider (Debito), *)
(* the rows of the table, the delayed jobs of the subscription queue, the  *)
(* cron that expires what is over, the administrator and the trial.        *)
(*                                                                         *)
(* Every handler reads rows, awaits (the provider, mail, the database) and *)
(* saves the row it had READ with some columns changed; the ORM writes all *)
(* columns that differ, so a save puts the whole old row back. `task' are  *)
(* the handlers in flight, each with the rows it has seen.                 *)
(***************************************************************************)
EXTENDS Naturals, FiniteSets

CONSTANTS
  Subs,           \* rows the table can hold (bound)
  Procs,          \* handlers the backend runs at a time (bound)
  Period,         \* ticks one payment buys
  Timeout,        \* ticks a pending payment is polled for
  FollowUp,       \* ticks before the remarketing follow-up
  MaxTime,        \* last tick of the model (bound)
  MaxCopies,      \* waiting jobs that do not differ (bound)
  Faults,         \* kinds of faults that happen: subset of FaultKinds
  MaxFaults,      \* how many of them (bound)
  Acts,           \* acts of the administrator and the payer: subset of AllActs
  MaxActs,        \* how often (bound)
  Named,          \* does Debito name its id of a payment? subset of BOOLEAN
  Wallet,         \* has the user a mobile wallet on file to renew with?
  NoJob           \* not a job: the handler serves a request

FaultKinds == {"crash", "enqueue", "silence", "error", "hook"}
AllActs == {"cancel", "extend", "assign", "campaign", "refund"}

\* What a webhook tells; refunded stands for payment.refunded and .chargeback.
Event == {"paid", "failed", "refunded"}

VARIABLES
  now,            \* the clock
  row,            \* the table subscriptions
  payment,        \* what became of each row's payment at Debito (external)
  hooks,          \* webhooks on their way, each <<row, event>> (external)
  jobs,           \* subscription-queue: how many of each job are waiting
  task,           \* handlers in flight
  trialUsed,      \* users.has_used_trial
  faults,         \* faults so far
  acts            \* such acts so far

vars == <<now, row, payment, hooks, jobs, task, trialUsed, faults, acts>>

Status == {"none", "APPROVAL_PENDING", "ACTIVE", "CANCELLED", "EXPIRED"}
Method == {"online", "ADMIN_MANUAL", "TRIAL"}

\* end: currentPeriodEnd; linked: is the provider's id known?
Row == [status : Status, end : Nat, linked : BOOLEAN, method : Method,
        followUpSent : BOOLEAN]

NoRow == [status |-> "none", end |-> 0, linked |-> FALSE, method |-> "online",
          followUpSent |-> FALSE]

\* at: when a check-pending job began to poll, when any other job is due.
Job == [name : {"check-pending", "renewal-charge", "remarketing-followup"},
        sub : Subs, at : 0 .. MaxTime]

ASSUME SubscriptionAssumption ==
  /\ Period \in Nat \ {0} /\ Timeout \in Nat /\ FollowUp \in Nat
  /\ MaxTime \in Nat /\ MaxCopies \in Nat \ {0} /\ MaxFaults \in Nat /\ MaxActs \in Nat
  /\ Faults \subseteq FaultKinds /\ Acts \subseteq AllActs
  /\ IsFiniteSet(Procs) /\ IsFiniteSet(Subs)
  /\ Wallet \in BOOLEAN /\ Named \subseteq BOOLEAN
  /\ NoJob \notin Job

\* A handler that has not read s has seen NoRow of it.
Idle == [do |-> "nothing", seen |-> [s \in Subs |-> NoRow], job |-> NoJob, event |-> "none",
         since |-> 0]
Seen(p) == {s \in Subs : task[p].seen[s] # NoRow}

TypeOK ==
  /\ now \in 0 .. MaxTime
  /\ row \in [Subs -> Row]
  /\ payment \in [Subs -> {"none", "pending"} \cup Event]
  /\ hooks \subseteq Subs \X Event
  /\ jobs \in [Job -> Nat]
  /\ task \in [Procs -> [do : {"nothing", "poll", "hook", "link", "payload", "timeout",
                              "renew", "charge", "follow", "expire", "cancel",
                              "extend", "assign", "trial"},
                         seen : [Subs -> Row], job : Job \cup {NoJob},
                         event : Event \cup {"none"}, since : Nat]]
  /\ trialUsed \in BOOLEAN
  /\ faults \in Nat
  /\ acts \in Nat

-----------------------------------------------------------------------------
(***************************************************************************)
(* Helpers.                                                                *)
(***************************************************************************)

\* A fault of this kind happens.
Fault(kind) ==
  /\ kind \in Faults
  /\ faults < MaxFaults
  /\ faults' = faults + 1

\* Somebody does this.
Act(what) ==
  /\ what \in Acts
  /\ acts < MaxActs
  /\ acts' = acts + 1

\* The rows of S as they are read now.
ReadRows(S) == [s \in Subs |-> IF s \in S THEN row[s] ELSE NoRow]

\* p takes up a piece of work after it has read the rows of S.
BeginOn(p, what, S, job, event) ==
  /\ task[p] = Idle
  /\ task' = [task EXCEPT ![p] =
       [do |-> what, seen |-> ReadRows(S), job |-> job, event |-> event, since |-> now]]

Begin(p, what, S, job) == BeginOn(p, what, S, job, "none")

Working(p, what) == task[p].do = what
End(p) == task' = [task EXCEPT ![p] = Idle]

\* A job that is due after the last tick is never run.
Enqueued(name, s, at) ==
  [j \in Job |-> IF j = [name |-> name, sub |-> s, at |-> at] /\ jobs[j] < MaxCopies
                 THEN jobs[j] + 1 ELSE jobs[j]]

\* A job is queued after a row was saved: the backend may fail in between.
Queue(name, s, at) ==
  \/ jobs' = Enqueued(name, s, at) /\ UNCHANGED faults
  \/ Fault("enqueue") /\ UNCHANGED jobs

Due(j) ==
  /\ jobs[j] > 0
  /\ j.name # "check-pending" => j.at <= now

Taken(j) == [jobs EXCEPT ![j] = @ - 1]

ActiveRows == {s \in Subs : row[s].status = "ACTIVE"}

\* ... ORDER BY currentPeriodEnd DESC
Newest == {s \in ActiveRows : \A t \in ActiveRows : row[t].end <= row[s].end}

HasActive == \E s \in Newest : row[s].end > now

Free == {s \in Subs : row[s].status = "none"}

\* The next row of the table; which one does not matter.
NewRow == CHOOSE s \in Free : TRUE

-----------------------------------------------------------------------------
(***************************************************************************)
(* The provider and the clock (external).                                  *)
(***************************************************************************)

\* No handler runs for more than a tick.
Tick ==
  /\ now < MaxTime
  /\ \A p \in Procs : task[p] = Idle \/ task[p].since = now
  /\ now' = now + 1
  /\ UNCHANGED <<row, payment, hooks, jobs, task, trialUsed, faults, acts>>

Become(s, outcome) ==
  /\ payment' = [payment EXCEPT ![s] = outcome]
  /\ hooks' = hooks \cup {<<s, outcome>>}

Settle(s, outcome) ==
  /\ payment[s] = "pending"
  /\ Become(s, outcome)
  /\ UNCHANGED <<now, row, jobs, task, trialUsed, faults, acts>>

\* A payment that was made is paid back.
Refund(s) ==
  /\ payment[s] = "paid"
  /\ Act("refund")
  /\ Become(s, "refunded")
  /\ UNCHANGED <<now, row, jobs, task, trialUsed, faults>>

LoseHook(hook) ==
  /\ hook \in hooks
  /\ Fault("hook")
  /\ hooks' = hooks \ {hook}
  /\ UNCHANGED <<now, row, payment, jobs, task, trialUsed, acts>>

-----------------------------------------------------------------------------
(***************************************************************************)
(* A payment is begun.                                                     *)
(***************************************************************************)

\* Is there a row left, and time to poll its payment? (bound)
Room == Free # {} /\ now + Timeout <= MaxTime

Pending(linked) ==
  [NoRow EXCEPT !.status = "APPROVAL_PENDING", !.linked = linked]

\* The provider is asked, the row saved and its polling queued; between the
\* last two the backend may fail. The provider may not have named an id.
Subscribe(linked) ==
  /\ Room
  /\ row' = [row EXCEPT ![NewRow] = Pending(linked)]
  /\ payment' = [payment EXCEPT ![NewRow] = "pending"]
  /\ Queue("check-pending", NewRow, now)
  /\ UNCHANGED <<now, hooks, task, trialUsed, acts>>

-----------------------------------------------------------------------------
(***************************************************************************)
(* The outcome of a payment is learnt.                                     *)
(***************************************************************************)

\* The user or the redirect of the card payment asks for a check.
CheckStatus(p, s) ==
  /\ row[s].linked
  /\ Begin(p, "poll", {s}, NoJob)
  /\ UNCHANGED <<now, row, payment, hooks, jobs, trialUsed, faults, acts>>

\* The provider's webhook: whatever it tells, its payment is polled.
Webhook(p, s, event) ==
  /\ <<s, event>> \in hooks
  /\ hooks' = hooks \ {<<s, event>>}
  /\ BeginOn(p, "hook", {s}, NoJob, event)
  /\ UNCHANGED <<now, row, payment, jobs, trialUsed, faults, acts>>

\* The check-pending job polls, or gives up when its time is over.
CheckPending(p, j) ==
  /\ j.name = "check-pending"
  /\ Due(j)
  /\ task[p] = Idle
  /\ \/ /\ row[j.sub].status # "APPROVAL_PENDING"
        /\ jobs' = Taken(j)
        /\ UNCHANGED task
     \/ /\ row[j.sub].status = "APPROVAL_PENDING"
        /\ now - j.at >= Timeout
        /\ jobs' = Taken(j)
        /\ Begin(p, "timeout", {j.sub}, j)
     \/ /\ row[j.sub].status = "APPROVAL_PENDING"
        /\ now - j.at < Timeout
        /\ row[j.sub].linked
        /\ jobs' = Taken(j)
        /\ Begin(p, "poll", {j.sub}, j)
  /\ UNCHANGED <<now, row, payment, hooks, trialUsed, faults, acts>>

\* The outcome p goes by: the webhook's own word when it processes its payload,
\* and else what the poll is answered.
Outcome(p, s) == IF Working(p, "payload") THEN task[p].event ELSE payment[s]

\* Mutant: whatever is not a failure is a success.
SuccessUnlessFailed(p, s) == Outcome(p, s) # "failed"

Success(p, s) == Outcome(p, s) = "paid"

\* The poll knows no refunds: a status it has no name for is no outcome.
Failure(p, s) ==
  \/ Outcome(p, s) = "failed"
  \/ Working(p, "payload") /\ Outcome(p, s) = "refunded"

\* Mutant: only a row that is still pending is activated.
ActivateOnlyPending(s, seen) ==
  \/ /\ seen.status # "APPROVAL_PENDING"
     /\ UNCHANGED <<row, jobs, faults>>
  \/ /\ seen.status = "APPROVAL_PENDING"
     /\ row' = [row EXCEPT ![s] = [seen EXCEPT !.status = "ACTIVE", !.end = now + Period]]
     /\ Queue("renewal-charge", s, now + Period)

\* A success: the row is saved as ACTIVE for a period from now, and its
\* renewal is queued.
Activate(s, seen) ==
  \/ /\ seen.status = "ACTIVE"
     /\ UNCHANGED <<row, jobs, faults>>
  \/ /\ seen.status # "ACTIVE"
     /\ row' = [row EXCEPT ![s] = [seen EXCEPT !.status = "ACTIVE", !.end = now + Period]]
     /\ Queue("renewal-charge", s, now + Period)

\* A failure, unless the row was already in one of these statuses.
Reject(s, seen, resolved) ==
  \/ /\ seen.status \in resolved
     /\ UNCHANGED <<row, jobs, faults>>
  \/ /\ seen.status \notin resolved
     /\ row' = [row EXCEPT ![s] = [seen EXCEPT !.status = "CANCELLED"]]
     /\ Queue("remarketing-followup", s, now + FollowUp)

\* Mutant: the job is not queued again.
RequeueNever(j) == UNCHANGED <<row, jobs>>

\* Mutant: the job marks its row as pending when it is queued again.
RequeueMarks(j) ==
  /\ jobs' = IF j # NoJob THEN Enqueued(j.name, j.sub, j.at) ELSE jobs
  /\ row' = IF j # NoJob THEN [row EXCEPT ![j.sub].status = "APPROVAL_PENDING"] ELSE row

\* No outcome: a check-pending job is queued again while the row is pending.
Requeue(j) ==
  /\ jobs' = IF j # NoJob /\ row[j.sub].status = "APPROVAL_PENDING"
             THEN Enqueued(j.name, j.sub, j.at) ELSE jobs
  /\ UNCHANGED row

\* The provider answers the poll, or does not: its silence is no outcome. A
\* payment it has named no id of is not asked about.
Answer(p) ==
  /\ Working(p, "poll") \/ Working(p, "hook")
  /\ \E s \in Seen(p) :
       LET seen == task[p].seen[s]
       IN  \/ seen.linked /\ Success(p, s) /\ Activate(s, seen)
           \/ seen.linked /\ Failure(p, s) /\ Reject(s, seen, {"CANCELLED"})
           \/ /\ ~seen.linked \/ ~(Success(p, s) \/ Failure(p, s))
              /\ Requeue(task[p].job)
              /\ UNCHANGED faults
           \/ seen.linked /\ Fault("silence") /\ Requeue(task[p].job)
  /\ End(p)
  /\ UNCHANGED <<now, payment, hooks, trialUsed, acts>>

\* The handler of the webhook throws and falls back to the webhook's payload,
\* for which it reads the row again. The payload may name an id of the payment
\* that is not the row's.
FallBack(p) ==
  /\ Working(p, "hook")
  /\ Fault("error")
  /\ \E s \in Seen(p), what \in {"link", "payload"} :
       task' = [task EXCEPT ![p].do = what, ![p].seen = ReadRows({s})]
  /\ UNCHANGED <<now, row, payment, hooks, jobs, trialUsed, acts>>

\* The row gets the id; a payload of success saves it, as it was read, before
\* anything else, and one of failure with the failure.
Link(p) ==
  /\ Working(p, "link")
  /\ \E s \in Seen(p) :
       LET linked == [task[p].seen[s] EXCEPT !.linked = TRUE]
       IN  /\ row' = IF task[p].event = "paid" THEN [row EXCEPT ![s] = linked] ELSE row
           /\ task' = [task EXCEPT ![p].do = "payload", ![p].seen[s] = linked]
  /\ UNCHANGED <<now, payment, hooks, jobs, trialUsed, faults, acts>>

\* A refund ends a subscription that runs.
Payload(p) ==
  /\ Working(p, "payload")
  /\ \E s \in Seen(p) :
       \/ Success(p, s) /\ Activate(s, task[p].seen[s])
       \/ Failure(p, s) /\ Reject(s, task[p].seen[s], {"CANCELLED", "EXPIRED"})
  /\ End(p)
  /\ UNCHANGED <<now, payment, hooks, trialUsed, acts>>

\* The polling time is over: the row read before is cancelled.
TimeOut(p) ==
  /\ Working(p, "timeout")
  /\ \E s \in Seen(p) :
       /\ row' = [row EXCEPT ![s] = [task[p].seen[s] EXCEPT !.status = "CANCELLED"]]
       /\ Queue("remarketing-followup", s, now + FollowUp)
  /\ End(p)
  /\ UNCHANGED <<now, payment, hooks, trialUsed, acts>>

-----------------------------------------------------------------------------
(***************************************************************************)
(* The end of a period.                                                    *)
(***************************************************************************)

\* The renewal-charge job, due when the period it was queued for ends.
RenewalCharge(p, j) ==
  /\ j.name = "renewal-charge"
  /\ Due(j)
  /\ task[p] = Idle
  /\ jobs' = Taken(j)
  /\ IF row[j.sub].status = "ACTIVE"
     THEN Begin(p, "renew", {j.sub}, j)
     ELSE UNCHANGED task
  /\ UNCHANGED <<now, row, payment, hooks, trialUsed, faults, acts>>

\* The row read before is saved as EXPIRED.
Expired(p, s) == [row EXCEPT ![s] = [task[p].seen[s] EXCEPT !.status = "EXPIRED"]]

\* Only who has an active subscription and a wallet is charged again; else
\* the row expires and a follow-up is queued.
RenewDecide(p) ==
  /\ Working(p, "renew")
  /\ IF HasActive /\ Wallet /\ Room
     THEN /\ task' = [task EXCEPT ![p].do = "charge"]
          /\ UNCHANGED <<row, jobs, faults>>
     ELSE /\ \E s \in Seen(p) :
               /\ row' = Expired(p, s)
               /\ Queue("remarketing-followup", s, now + FollowUp)
          /\ End(p)
  /\ UNCHANGED <<now, payment, hooks, trialUsed, acts>>

\* The provider is asked for the next payment, in a row of its own, or fails, or
\* the backend fails to queue the polling of the new row.
RenewCharge(p) ==
  /\ Working(p, "charge")
  /\ \E s \in Seen(p) :
       \/ /\ Room
          /\ row' = [Expired(p, s) EXCEPT ![NewRow] = Pending(TRUE)]
          /\ payment' = [payment EXCEPT ![NewRow] = "pending"]
          /\ \/ /\ jobs' = Enqueued("check-pending", NewRow, now)
                /\ UNCHANGED faults
             \/ /\ Fault("enqueue")
                /\ jobs' = Enqueued("remarketing-followup", s, now + FollowUp)
       \/ /\ (~Room /\ UNCHANGED faults) \/ Fault("silence")
          /\ row' = Expired(p, s)
          /\ jobs' = Enqueued("remarketing-followup", s, now + FollowUp)
          /\ UNCHANGED payment
  /\ End(p)
  /\ UNCHANGED <<now, hooks, trialUsed, acts>>

\* The remarketing-followup job.
Remarketing(p, j) ==
  /\ j.name = "remarketing-followup"
  /\ Due(j)
  /\ task[p] = Idle
  /\ jobs' = Taken(j)
  /\ IF row[j.sub].status \in {"CANCELLED", "EXPIRED"} /\ ~row[j.sub].followUpSent
     THEN Begin(p, "follow", {j.sub}, j)
     ELSE UNCHANGED task
  /\ UNCHANGED <<now, row, payment, hooks, trialUsed, faults, acts>>

\* The mail is sent, and the row read before it is saved.
SendFollowUp(p) ==
  /\ Working(p, "follow")
  /\ \E s \in Seen(p) :
       row' = [row EXCEPT ![s] = [task[p].seen[s] EXCEPT !.followUpSent = TRUE]]
  /\ End(p)
  /\ UNCHANGED <<now, payment, hooks, jobs, trialUsed, faults, acts>>

\* Mutant: what ends within the hour is taken to be over.
OverdueSoon == {s \in ActiveRows : row[s].end <= now + 1}

Overdue == {s \in ActiveRows : row[s].end <= now}

\* Mutant: the cron takes the rows that end before now.
ExpireScanLate(p) ==
  /\ {s \in ActiveRows : row[s].end < now} # {}
  /\ Begin(p, "expire", {s \in ActiveRows : row[s].end < now}, NoJob)
  /\ UNCHANGED <<now, row, payment, hooks, jobs, trialUsed, faults, acts>>

\* The cron of every five minutes reads all rows that are over ...
ExpireScan(p) ==
  /\ Overdue # {}
  /\ Begin(p, "expire", Overdue, NoJob)
  /\ UNCHANGED <<now, row, payment, hooks, jobs, trialUsed, faults, acts>>

\* p goes on with the rows it has read but s.
GoOn(p, s) == [task EXCEPT ![p].seen[s] = NoRow]

\* ... and saves one after the other.
ExpireOne(p, s) ==
  /\ Working(p, "expire")
  /\ s \in Seen(p)
  /\ row' = Expired(p, s)
  /\ IF Seen(p) = {s} THEN End(p) ELSE task' = GoOn(p, s)
  /\ UNCHANGED <<now, payment, hooks, jobs, trialUsed, faults, acts>>

-----------------------------------------------------------------------------
(***************************************************************************)
(* The administrator and the trial.                                        *)
(***************************************************************************)

Cancel(p) ==
  /\ Act("cancel")
  /\ ActiveRows # {}
  /\ Begin(p, "cancel", ActiveRows, NoJob)
  /\ UNCHANGED <<now, row, payment, hooks, jobs, trialUsed, faults>>

CancelOne(p, s) ==
  /\ Working(p, "cancel")
  /\ s \in Seen(p)
  /\ row' = [row EXCEPT ![s] =
       [task[p].seen[s] EXCEPT !.status = "CANCELLED", !.end = task[p].since]]
  /\ IF Seen(p) = {s} THEN End(p) ELSE task' = GoOn(p, s)
  /\ UNCHANGED <<now, payment, hooks, jobs, trialUsed, faults, acts>>

Extend(p) ==
  /\ Act("extend")
  /\ \E s \in Newest : Begin(p, "extend", {s}, NoJob)
  /\ UNCHANGED <<now, row, payment, hooks, jobs, trialUsed, faults>>

\* A period more, from the end of the running one or from now.
ExtendSave(p) ==
  /\ Working(p, "extend")
  /\ \E s \in Seen(p) :
       LET seen == task[p].seen[s]
           base == IF seen.end > task[p].since THEN seen.end ELSE task[p].since
       IN  row' = [row EXCEPT ![s] = [seen EXCEPT !.end = base + Period]]
  /\ End(p)
  /\ UNCHANGED <<now, payment, hooks, jobs, trialUsed, faults, acts>>

Assign(p) ==
  /\ Act("assign")
  /\ Free # {}
  /\ Begin(p, "assign", ActiveRows, NoJob)
  /\ UNCHANGED <<now, row, payment, hooks, jobs, trialUsed, faults>>

AssignCancelOne(p, s) ==
  /\ Working(p, "assign")
  /\ s \in Seen(p)
  /\ row' = [row EXCEPT ![s] = [task[p].seen[s] EXCEPT !.status = "CANCELLED"]]
  /\ task' = GoOn(p, s)
  /\ UNCHANGED <<now, payment, hooks, jobs, trialUsed, faults, acts>>

\* A row that is active without a payment; no job is queued for its end.
Granted(method) ==
  [row EXCEPT ![NewRow] =
     [NoRow EXCEPT !.status = "ACTIVE", !.method = method, !.end = now + Period]]

AssignCreate(p) ==
  /\ Working(p, "assign")
  /\ Seen(p) = {}
  /\ IF Free # {} THEN row' = Granted("ADMIN_MANUAL") ELSE UNCHANGED row
  /\ End(p)
  /\ UNCHANGED <<now, payment, hooks, jobs, trialUsed, faults, acts>>

\* GET /profile grants the trial to who has not had it and has no running
\* subscription; it looks at any one of the active rows.
TrialCheck(p) ==
  /\ "campaign" \in Acts
  /\ ~trialUsed
  /\ ActiveRows = {} \/ Overdue # {}
  /\ Begin(p, "trial", {}, NoJob)
  /\ UNCHANGED <<now, row, payment, hooks, jobs, trialUsed, faults, acts>>

\* The row is saved, then the user, which may fail.
TrialGrant(p) ==
  /\ Working(p, "trial")
  /\ IF Free # {} THEN row' = Granted("TRIAL") ELSE UNCHANGED row
  /\ \/ trialUsed' = TRUE /\ UNCHANGED faults
     \/ Fault("error") /\ UNCHANGED trialUsed
  /\ End(p)
  /\ UNCHANGED <<now, payment, hooks, jobs, acts>>

-----------------------------------------------------------------------------

\* The backend dies. Requests are lost; the queue runs a job in hand again.
Crash ==
  /\ Fault("crash")
  /\ jobs' = [j \in Job |-> jobs[j] + Cardinality({p \in Procs : task[p].job = j})]
  /\ task' = [p \in Procs |-> Idle]
  /\ UNCHANGED <<now, row, payment, hooks, trialUsed, acts>>

Init ==
  /\ now = 0
  /\ row = [s \in Subs |-> NoRow]
  /\ payment = [s \in Subs |-> "none"]
  /\ hooks = {}
  /\ jobs = [j \in Job |-> 0]
  /\ task = [p \in Procs |-> Idle]
  /\ trialUsed = FALSE
  /\ faults = 0
  /\ acts = 0

Outside ==
  \/ Tick
  \/ \E s \in Subs : Refund(s) \/ \E outcome \in {"paid", "failed"} : Settle(s, outcome)
  \/ \E hook \in hooks : LoseHook(hook)

Requests ==
  \/ \E linked \in Named : Subscribe(linked)
  \/ \E p \in Procs :
       \/ \E s \in Subs : CheckStatus(p, s) \/ \E event \in Event : Webhook(p, s, event)
       \/ Cancel(p) \/ Extend(p) \/ Assign(p) \/ TrialCheck(p) \/ ExpireScan(p)

RunJob ==
  \E p \in Procs, j \in Job : CheckPending(p, j) \/ RenewalCharge(p, j) \/ Remarketing(p, j)

Continue(p) ==
  \/ Answer(p) \/ FallBack(p) \/ Link(p) \/ Payload(p) \/ TimeOut(p)
  \/ RenewDecide(p) \/ RenewCharge(p) \/ SendFollowUp(p)
  \/ ExtendSave(p) \/ AssignCreate(p) \/ TrialGrant(p)
  \/ \E s \in Subs : ExpireOne(p, s) \/ CancelOne(p, s) \/ AssignCancelOne(p, s)

Next == Outside \/ Requests \/ RunJob \/ Crash \/ \E p \in Procs : Continue(p)

Spec == Init /\ [][Next]_vars

\* Time goes on, a handler carries its work on, and among the handlers that
\* come and go the cron, a webhook on its way and a waiting job get their turn.
Fairness ==
  /\ WF_vars(Tick)
  /\ \A p \in Procs : WF_vars(Continue(p))
  /\ SF_vars(\E p \in Procs : ExpireScan(p))
  /\ \A s \in Subs :
       /\ SF_vars(\E p \in Procs, event \in Event : Webhook(p, s, event))
       /\ SF_vars(\E p \in Procs, j \in Job : j.sub = s /\ CheckPending(p, j))

FairSpec == Spec /\ Fairness

-----------------------------------------------------------------------------
(***************************************************************************)
(* Properties.                                                             *)
(***************************************************************************)

PaidOnce(s) == payment[s] \in {"paid", "refunded"}

\* Whatever was read, lost or saved late: an online row that is active has
\* been paid for at the provider.
PaidFor ==
  \A s \in Subs : row[s].status = "ACTIVE" /\ row[s].method = "online" => PaidOnce(s)

\* Someone looks after the outcome of s: a waiting job or one in hand.
Watched(s) ==
  \/ \E j \in Job : j.sub = s /\ j.name = "check-pending" /\ jobs[j] > 0
  \/ \E p \in Procs :
       s \in Seen(p) /\ task[p].job # NoJob /\ task[p].job.name = "check-pending"

\* A pending row is looked after, but for one per failure: between the save of
\* the row and the queueing of its job, or of a webhook that fell back to its
\* payload.
PendingWatched ==
  Cardinality({s \in Subs : row[s].status = "APPROVAL_PENDING" /\ ~Watched(s)}) <= faults

\* A row that is resolved does not wait for its payment again, although rows
\* read while it did are still being saved; but for a row that is paid for, when
\* the payload of the webhook that will activate it saves the id it names.
StaysResolved ==
  [][\A s \in Subs :
       row[s].status \in {"ACTIVE", "CANCELLED", "EXPIRED"} /\ row'[s].status = "APPROVAL_PENDING"
       => /\ PaidOnce(s)
          /\ \E p \in Procs : /\ s \in Seen(p) /\ task[p].event = "paid"
                              /\ task[p].do = "link" /\ task'[p].do = "payload"]_vars

\* An active row ends before its time only by the administrator, by the renewal
\* job of a period that was extended, by the payload of a webhook when its
\* payment was paid back, or when a handler saves it as it was before it was
\* activated or extended.
EndsEarlyOnlyByStale ==
  [][\A s \in Subs :
       row[s].status = "ACTIVE" /\ row[s].end > now /\ row'[s].status # "ACTIVE"
       => \E p \in Procs : /\ s \in Seen(p) /\ task'[p] # task[p]
                           /\ \/ task[p].do \in {"cancel", "assign", "renew", "charge"}
                              \/ task[p].do = "payload" /\ payment[s] = "refunded"
                              \/ task[p].seen[s].status # "ACTIVE"
                              \/ task[p].seen[s].end < row[s].end]_vars

\* A row whose period is over does not stay active.
OverdueExpires == \A s \in Subs : s \in Overdue ~> s \notin Overdue


\* Who has paid, and is not paid back, is served: by the poll, or by the
\* webhook when the payment came too late for the polls or the polls were never
\* queued. A fault that comes after the payment may lose both.
PaidServed ==
  \A s \in Subs :
    /\ <>(payment[s] = "paid" /\ row[s].linked)
    /\ [](payment[s] # "refunded")
    /\ [](faults = 0) \/ <>(faults = MaxFaults /\ payment[s] \in {"none", "pending"})
    => <>(row[s].status = "ACTIVE")
=============================================================================
