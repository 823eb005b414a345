---------------------------- MODULE MCCloudAccount ----------------------------
\* A tick is a minute and a half: a claimed task is handed out again after one,
\* remembered for less than two, a token lives three (of seven) and one more
\* once it has been exchanged; an account is disconnected after one.
EXTENDS CloudAccount

VARIABLE
  undone          \* history: was a wish to connect executed late, or one to
                  \* disconnect dropped?

MCInit == Init /\ undone = FALSE

\* A START the worker has not heard of is handed out anew ...
Late(t) == /\ task[t].type = "START" /\ task[t].status = "IN_PROGRESS"
           /\ runs[t] = 0 /\ t \in batch' \ batch

\* ... or the worker dies with its token in hand.
Kept(t) == /\ task[t].type = "START" /\ hand.task = t /\ hand.at = "taken"
           /\ hand' = Nothing /\ faults' # faults

\* The backend dies before a STOP is done.
Dropped(t) == /\ task[t].type = "STOP" /\ task[t].status \in {"RECEIVED", "IN_PROGRESS"}
              /\ task'[t].status = "gone" /\ faults' # faults

MCNext ==
  /\ Next
  /\ undone' = (undone \/ \E t \in Task : Late(t) \/ Kept(t) \/ Dropped(t))

MCSpec == MCInit /\ [][MCNext]_<<vars, undone>> /\ Fairness

\* Who has disconnected an account last stays disconnected ("Terminal
\* desconectado"), however often an older START is handed out: it is remembered,
\* or its token is spent. But not if the START was claimed and never heard of, or
\* its token never used, nor if the backend forgets the STOP.
LastWishHolds == ~undone /\ Quiet /\ LastIsStop => pool = Absent
=============================================================================
