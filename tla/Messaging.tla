------------------------------ MODULE Messaging ------------------------------
(***************************************************************************)
(* Broadcasts: the job that looks every minute for the ones that are due,  *)
(* the executions that put an e-mail for every recipient into the queue    *)
(* and send the SMS, the monthly count of SMS, and the mailers that work   *)
(* the queue off.                                                          *)
(*                                                                         *)
(* Time counts months, the interval of the recurring broadcasts here and   *)
(* of the count of SMS; the job may look any number of times in a month.   *)
(***************************************************************************)
EXTENDS Integers, FiniteSets

CONSTANTS
  Broadcast, User,
  Recurring, \* broadcasts with an interval
  Rows,      \* how often the query for the recipients of b returns u
  HasEmail, HasPhone, \* users with an address, with a number
  Limit,     \* TIER_LIMITS, by user
  Worker,    \* executions in hand at once
  Mailers,   \* jobs the queue hands out at once
  MaxMonth, MaxFaults, MaxActs, \* bounds
  None

ASSUME MessagingAssumption ==
  /\ IsFiniteSet(Broadcast) /\ IsFiniteSet(User) /\ IsFiniteSet(Worker)
  /\ None \notin Broadcast \cup User \cup (Broadcast \X User)
  /\ Recurring \subseteq Broadcast /\ Rows \in [Broadcast \X User -> Nat]
  /\ HasEmail \cup HasPhone \subseteq User /\ Limit \in [User -> Nat]
  /\ {Mailers, MaxMonth, MaxFaults, MaxActs} \subseteq Nat

VARIABLES
  month,
  status, nextRun, \* of a broadcast
  count, reset,    \* smsUsageCount, and the month of lastSmsReset
  exec,            \* executions
  jobs, hands,     \* the queue, and how many of its jobs are in hand
  sending, accepted, \* jobs in hand: whose mail is to be sent, whose mail the server took
  editing,         \* a user saved by some other request: what it will save
  got, lost, texted, \* mails delivered, mails lost, SMS by month of their check
  faults, acts,
  unheard, \* history: mails the server took and that were sent again all the same
  uncounted, \* history: SMS that went out without coming to be counted
  shared,  \* history: broadcasts that were in two hands, or in one that failed
  chosen,  \* history: broadcasts an administrator had executed
  raced    \* history: users saved by two at once

sms   == <<count, reset, texted, uncounted, raced>>
post  == <<jobs, hands, sending, accepted, got, lost, unheard>>
casts == <<status, nextRun, shared, chosen>>
vars  == <<month, casts, sms, exec, post, editing, faults, acts>>

Month == 0..MaxMonth
Key   == Broadcast \X User
Job   == Key \X {0, 1} \* with how often it has been given back
Rest  == [bs |-> {}, b |-> None, left |-> [u \in User |-> 0], at |-> "idle", u |-> None, count |-> 0, month |-> 0]

Fault == faults < MaxFaults /\ faults' = faults + 1
Act   == acts < MaxActs /\ acts' = acts + 1

Init ==
  /\ month = 0
  /\ status \in [Broadcast -> {"scheduled", "sent"}] /\ \A b \in Recurring : status[b] = "scheduled"
  /\ nextRun \in [Broadcast -> 0..(MaxMonth + 1)]
  /\ count = [u \in User |-> 0] /\ reset = [u \in User |-> 0]
  /\ exec = [w \in Worker |-> Rest]
  /\ jobs = [j \in Job |-> 0] /\ hands = 0 /\ sending = jobs /\ accepted = jobs
  /\ editing = [u |-> None, count |-> 0, month |-> 0]
  /\ got = [k \in Key |-> 0] /\ lost = {} /\ unheard = got
  /\ texted = [m \in Month |-> [u \in User |-> 0]] /\ uncounted = texted
  /\ faults \in 0..MaxFaults /\ acts \in 0..MaxActs \* what is left of the bounds
  /\ shared = {} /\ chosen = {} /\ raced = {}

-----------------------------------------------------------------------------
(* processScheduledBroadcasts and executeBroadcast.                        *)

Set(w, e) == exec' = [exec EXCEPT ![w] = e]
InHand(w) == UNION {exec[v].bs : v \in Worker \ {w}}

\* Mutant: a broadcast is due in its month alone.
DueNow == {b \in Broadcast : status[b] = "scheduled" /\ nextRun[b] = month}

Due == {b \in Broadcast : status[b] = "scheduled" /\ nextRun[b] <= month}

\* Nothing keeps the next look of the job from starting before the last ended.
Look(w) ==
  /\ exec[w] = Rest /\ Due # {}
  /\ Set(w, [Rest EXCEPT !.bs = Due, !.at = "next"])
  /\ shared' = shared \cup (Due \cap InHand(w))
  /\ UNCHANGED <<month, status, nextRun, chosen, sms, post, editing, faults, acts>>

\* The route reads the id from a header that is not sent: any row may be found.
Execute(w) ==
  /\ exec[w] = Rest /\ Act
  /\ \E b \in Broadcast :
       /\ Set(w, [Rest EXCEPT !.bs = {b}, !.at = "next"])
       /\ shared' = shared \cup ({b} \cap InHand(w)) /\ chosen' = chosen \cup {b}
  /\ UNCHANGED <<month, status, nextRun, sms, post, editing, faults>>

\* The row and the recipients are read; what was sent is left alone, but a
\* recurring broadcast is not asked whether it is still due.
Load(w) ==
  /\ exec[w].at = "next"
  /\ \E b \in exec[w].bs :
       Set(w, IF status[b] # "sent"
              THEN [exec[w] EXCEPT !.b = b, !.left = [u \in User |-> Rows[<<b, u>>]], !.at = "user"]
              ELSE IF exec[w].bs = {b} THEN Rest ELSE [exec[w] EXCEPT !.bs = @ \ {b}])
  /\ UNCHANGED <<month, casts, sms, post, editing, faults, acts>>

\* The mail of the next recipient is queued.
Mail(w) ==
  /\ exec[w].at = "user"
  /\ \E u \in User :
       /\ exec[w].left[u] > 0
       /\ Set(w, [exec[w] EXCEPT !.left[u] = @ - 1, !.at = IF u \in HasPhone THEN "sms" ELSE "user",
                                 !.u = IF u \in HasPhone THEN u ELSE None])
       /\ jobs' = IF u \in HasEmail THEN [jobs EXCEPT ![<<<<exec[w].b, u>>, 0>>] = @ + 1] ELSE jobs
  /\ UNCHANGED <<month, casts, sms, hands, sending, accepted, got, lost, unheard, editing, faults, acts>>

Leave(w) == Set(w, IF exec[w].bs = {exec[w].b} THEN Rest
                   ELSE [Rest EXCEPT !.bs = exec[w].bs \ {exec[w].b}, !.at = "next"])

\* The queue cannot be reached: the execution ends, the row stays as it was.
MailFails(w) ==
  /\ exec[w].at = "user" /\ Fault
  /\ Leave(w) /\ shared' = shared \cup {exec[w].b}
  /\ UNCHANGED <<month, status, nextRun, chosen, sms, post, editing, acts>>

\* Mutant: a recurring broadcast keeps its date.
FinishLate(w) ==
  /\ exec[w].at = "user" /\ \A u \in User : exec[w].left[u] = 0
  /\ LET b == exec[w].b
     IN  /\ status' = [status EXCEPT ![b] = IF b \in Recurring THEN @ ELSE "sent"]
         /\ nextRun' = nextRun
  /\ Leave(w)
  /\ UNCHANGED <<month, shared, chosen, sms, post, editing, faults, acts>>

Finish(w) ==
  /\ exec[w].at = "user" /\ \A u \in User : exec[w].left[u] = 0
  /\ LET b == exec[w].b
     IN  /\ status' = [status EXCEPT ![b] = IF b \in Recurring THEN "scheduled" ELSE "sent"]
         /\ nextRun' = [nextRun EXCEPT ![b] = IF b \in Recurring THEN month + 1 ELSE @]
  /\ Leave(w)
  /\ UNCHANGED <<month, shared, chosen, sms, post, editing, faults, acts>>

-----------------------------------------------------------------------------
(* sendSms: the user is read, the SMS posted, the user saved.              *)

Saving(u) == {w \in Worker : exec[w].u = u /\ exec[w].at \in {"post", "save"}}
Races(u, w) == raced' = IF Saving(u) \ {w} # {} \/ editing.u = u THEN raced \cup {u} ELSE raced

\* The count begins anew with the month.
Counted(u) == IF reset[u] # month THEN 0 ELSE count[u]

WithinLimit(u) == Counted(u) < Limit[u]

\* In another month the count is reset and saved at once.
SmsCheck(w) ==
  LET u == exec[w].u
  IN  /\ exec[w].at = "sms"
      /\ count' = [count EXCEPT ![u] = Counted(u)] /\ reset' = [reset EXCEPT ![u] = month]
      /\ IF WithinLimit(u)
         THEN /\ Set(w, [exec[w] EXCEPT !.at = "post", !.count = Counted(u), !.month = month])
              /\ Races(u, w)
         ELSE Set(w, [exec[w] EXCEPT !.at = "user", !.u = None]) /\ UNCHANGED raced
      /\ UNCHANGED <<month, texted, uncounted, casts, post, editing, faults, acts>>

SmsPost(w) ==
  /\ exec[w].at = "post"
  /\ texted' = [texted EXCEPT ![exec[w].month][exec[w].u] = @ + 1]
  /\ Set(w, [exec[w] EXCEPT !.at = "save"])
  /\ UNCHANGED <<month, count, reset, uncounted, raced, casts, post, editing, faults, acts>>

SmsSave(w) ==
  /\ exec[w].at = "save"
  /\ count' = [count EXCEPT ![exec[w].u] = exec[w].count + 1]
  /\ reset' = [reset EXCEPT ![exec[w].u] = exec[w].month]
  /\ Set(w, [exec[w] EXCEPT !.at = "user", !.u = None])
  /\ UNCHANGED <<month, texted, uncounted, raced, casts, post, editing, faults, acts>>

\* The SMS went out of w, and nobody will count it.
Missed(w, m, u) == exec[w].at = "save" /\ exec[w].month = m /\ exec[w].u = u

\* Mutant: an SMS that was not counted is posted once more.
SmsFailsAgain(w) ==
  /\ exec[w].at \in {"sms", "post", "save"} /\ Fault
  /\ Set(w, IF exec[w].at = "save" THEN [exec[w] EXCEPT !.at = "post"] ELSE [exec[w] EXCEPT !.at = "user", !.u = None])
  /\ UNCHANGED <<month, sms, casts, post, editing, acts>>

\* What fails is swallowed, and the next user has his turn: a reading, the
\* gateway's refusal, its answer that is lost once the SMS went out, a save.
SmsFails(w) ==
  /\ exec[w].at \in {"sms", "post", "save"} /\ Fault
  /\ Set(w, [exec[w] EXCEPT !.at = "user", !.u = None])
  /\ uncounted' = [m \in Month |-> [u \in User |-> uncounted[m][u] + (IF Missed(w, m, u) THEN 1 ELSE 0)]]
  /\ UNCHANGED <<month, count, reset, texted, raced, casts, post, editing, acts>>

\* Settings, sign-in and profile read the user and save it as they read it.
EditRead(u) ==
  /\ editing.u = None /\ Act
  /\ editing' = [u |-> u, count |-> count[u], month |-> reset[u]]
  /\ raced' = IF Saving(u) # {} THEN raced \cup {u} ELSE raced
  /\ UNCHANGED <<month, casts, count, reset, texted, uncounted, exec, post, faults>>

\* An SMS of the system (code, expiry, payment) asks for no limit, but counts.
NotifyRead(u) ==
  /\ editing.u = None /\ Act
  /\ count' = [count EXCEPT ![u] = Counted(u)] /\ reset' = [reset EXCEPT ![u] = month]
  /\ editing' = [u |-> u, count |-> Counted(u) + 1, month |-> month]
  /\ raced' = IF Saving(u) # {} THEN raced \cup {u} ELSE raced
  /\ UNCHANGED <<month, casts, texted, uncounted, exec, post, faults>>

EditSave ==
  /\ editing.u # None
  /\ count' = [count EXCEPT ![editing.u] = editing.count]
  /\ reset' = [reset EXCEPT ![editing.u] = editing.month]
  /\ editing' = [editing EXCEPT !.u = None]
  /\ UNCHANGED <<month, casts, texted, uncounted, raced, exec, post, faults, acts>>

\* Its SMS was not sent, or its save throws.
EditFails ==
  /\ editing.u # None /\ Fault
  /\ editing' = [editing EXCEPT !.u = None]
  /\ UNCHANGED <<month, casts, sms, exec, post, acts>>

-----------------------------------------------------------------------------
(* EmailProcessor and sendEmail.                                           *)

More(f, j) == [f EXCEPT ![j] = @ + 1]
Less(f, j) == [f EXCEPT ![j] = @ - 1]

\* Every name of job has a processor, and the queue adds them up.
Take(j) ==
  /\ jobs[j] > 0 /\ hands < Mailers
  /\ jobs' = Less(jobs, j) /\ sending' = More(sending, j) /\ hands' = hands + 1
  /\ UNCHANGED <<month, casts, sms, exec, accepted, got, lost, unheard, editing, faults, acts>>

Accepted(j) ==
  /\ sending[j] > 0
  /\ got' = More(got, j[1])
  /\ sending' = Less(sending, j) /\ accepted' = More(accepted, j)
  /\ UNCHANGED <<month, casts, sms, exec, jobs, hands, lost, unheard, editing, faults, acts>>

Completed(j) ==
  /\ accepted[j] > 0
  /\ accepted' = Less(accepted, j) /\ hands' = hands - 1
  /\ UNCHANGED <<month, casts, sms, exec, jobs, sending, got, lost, unheard, editing, faults, acts>>

\* A mail that is refused is not tried again.
Refused(j) ==
  /\ sending[j] > 0 /\ Fault
  /\ lost' = lost \cup {j[1]}
  /\ sending' = Less(sending, j) /\ hands' = hands - 1
  /\ UNCHANGED <<month, casts, sms, exec, jobs, accepted, got, unheard, editing, acts>>

\* One whose connection drops or times out is, also if the server had taken it.
ConnectionDrops(j) ==
  /\ Fault
  /\ \/ sending[j] > 0 /\ UNCHANGED <<sending, accepted, unheard>>
     \/ /\ accepted[j] > 0
        /\ accepted' = Less(accepted, j) /\ sending' = More(sending, j) /\ unheard' = More(unheard, j[1])
  /\ UNCHANGED <<month, casts, sms, exec, jobs, hands, got, lost, editing, acts>>

\* The process ends: executions and saves are gone, the jobs in hand are given
\* back as stalled, but a job that has been given back before has failed.
Crash ==
  /\ Fault
  /\ exec' = [w \in Worker |-> Rest] /\ editing' = [editing EXCEPT !.u = None]
  /\ jobs' = [j \in Job |-> jobs[j] + (IF j[2] = 1 THEN sending[<<j[1], 0>>] + accepted[<<j[1], 0>>] ELSE 0)]
  /\ lost' = lost \cup {k \in Key : sending[<<k, 1>>] > 0}
  /\ unheard' = [k \in Key |-> unheard[k] + accepted[<<k, 0>>]]
  /\ sending' = [j \in Job |-> 0] /\ accepted' = [j \in Job |-> 0] /\ hands' = 0
  /\ shared' = shared \cup UNION {exec[w].bs : w \in Worker}
  /\ uncounted' = [m \in Month |-> [u \in User |->
                     uncounted[m][u] + Cardinality({w \in Worker : Missed(w, m, u)})]]
  /\ UNCHANGED <<month, status, nextRun, chosen, count, reset, texted, raced, got, acts>>

Tick == month < MaxMonth /\ month' = month + 1
        /\ UNCHANGED <<casts, sms, exec, post, editing, faults, acts>>

-----------------------------------------------------------------------------

Step(w) == Load(w) \/ Mail(w) \/ Finish(w) \/ SmsCheck(w) \/ SmsPost(w) \/ SmsSave(w)
Mailing == \E j \in Job : Take(j) \/ Accepted(j) \/ Completed(j)

Next ==
  \/ \E w \in Worker : Look(w) \/ Execute(w) \/ Step(w) \/ MailFails(w) \/ SmsFails(w)
  \/ \E u \in User : EditRead(u) \/ NotifyRead(u)
  \/ \E j \in Job : Refused(j) \/ ConnectionDrops(j)
  \/ EditSave \/ EditFails \/ Mailing \/ Crash \/ Tick

\* The job looks every minute, executions go on, the mailers work.
Fairness ==
  /\ WF_vars(\E w \in Worker : Look(w)) /\ \A w \in Worker : WF_vars(Step(w))
  /\ WF_vars(Mailing) /\ WF_vars(Tick)

Spec == Init /\ [][Next]_vars
FairSpec == Spec /\ Fairness

-----------------------------------------------------------------------------
\* Types of the tables, executions and histories.
TypeOK ==
  /\ month \in Month /\ status \in [Broadcast -> {"scheduled", "sent"}] /\ nextRun \in [Broadcast -> Nat]
  /\ \A u \in User : count[u] \in Nat /\ reset[u] \in 0..month
  /\ \A w \in Worker :
       /\ exec[w].bs \subseteq Broadcast /\ exec[w].left \in [User -> Nat]
       /\ exec[w].at \in {"idle", "next", "user", "sms", "post", "save"}
       /\ (exec[w].at = "idle") = (exec[w].bs = {})
       /\ IF exec[w].at \in {"idle", "next"} THEN exec[w].b = None ELSE exec[w].b \in exec[w].bs
       /\ IF exec[w].at \in {"sms", "post", "save"} THEN exec[w].u \in HasPhone ELSE exec[w].u = None
       /\ exec[w].count \in Nat /\ exec[w].month \in 0..month
  /\ jobs \in [Job -> Nat] /\ sending \in [Job -> Nat] /\ accepted \in [Job -> Nat] /\ hands \in Int
  /\ got \in [Key -> Nat] /\ unheard \in [Key -> Nat] /\ lost \subseteq Key
  /\ editing.u \in User \cup {None} /\ shared \cup chosen \subseteq Broadcast /\ raced \subseteq User

\* Nobody is mailed a broadcast more often than it came due and the query named
\* them, unless two looks or executions had it in hand at once, one failed
\* half-way, or an administrator had it executed; but for one more copy of every
\* mail the server took without the mailer's hearing of it.
Mailed(k) == got[k] + jobs[<<k, 0>>] + jobs[<<k, 1>>] + sending[<<k, 0>>] + sending[<<k, 1>>] - unheard[k]
NoSecondCopy ==
  \A b \in Broadcast \ (shared \cup chosen), u \in User :
    Mailed(<<b, u>>) <= Rows[<<b, u>>] * (IF b \in Recurring THEN month + 1 ELSE 1)

\* The SMS of a month that ask for the limit, by when they asked, keep to it,
\* whatever the system sends beside them, unless the user was saved by two at
\* once; but for those that went out and were never counted, because an answer
\* was lost, a save threw or the process ended.
Known(m, u) == texted[m][u] - uncounted[m][u]
LimitHolds == \A u \in User \ raced, m \in Month : Known(m, u) <= Limit[u]

\* A broadcast that is due comes to be done with, and everybody with an address
\* the query names comes to have it, or lost it to the mail server or to a
\* second end of the process, whatever failed or crashed on the way.
EverybodyIsTold ==
  \A b \in Broadcast :
    b \in Due ~> b \notin Due /\ \A u \in HasEmail : Rows[<<b, u>>] > 0 => got[b, u] > 0 \/ <<b, u>> \in lost
=============================================================================
