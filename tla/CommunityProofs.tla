-------------------------- MODULE CommunityProofs --------------------------
(***************************************************************************)
(* Proofs about Messaging and about Leaderboard, two components that share *)
(* nothing and stand one after the other here.                             *)
(*                                                                         *)
(* Messaging, for any broadcasts, users, recipients, limits, executions    *)
(* and failures.                                                           *)
(* Nobody has a broadcast in the mail too often because the mails of b     *)
(* that exist, and those the execution in hand has still to queue, are at  *)
(* most what the query named in the rounds that were finished and the one  *)
(* that is on (MailOK); a round is finished when the row is saved, and a   *)
(* mail that is sent again was heard of or is written down as unheard.     *)
(* The limit holds because what the user has had sent in the month of his  *)
(* row is at most the count in the row, but for what will never be counted *)
(* and the one SMS that is posted and not yet counted, and because of a    *)
(* user who was not saved by two at once only one save is under way, and   *)
(* knows that count (SmsOK).                                               *)
(*                                                                         *)
(* Leaderboard, for any users, statistics, echelons, runs and crashes.     *)
(* The rows have unique ids and names, and who has a name nobody else can  *)
(* come by goes by it, since no name given before him in any run is his,   *)
(* so a second row of his would carry the name of the first (TableFits,    *)
(* Called). A run that no other has overlapped knows the table: what   *)
(* it found is still so when it writes, those it has written stand there   *)
(* as it ranked them, and the ids it deletes are those of everybody else   *)
(* (Knows); so the table is the ranking when it ends (Alone).              *)
(***************************************************************************)
EXTENDS Messaging, Leaderboard, FiniteSetTheorems, TLAPS

At == {"idle", "next", "user", "sms", "post", "save"}

Hand == [bs : SUBSET Broadcast, b : Broadcast \cup {None}, left : [User -> Nat],
         at : At, u : User \cup {None}, count : Nat, month : Nat]

\* What an execution has in hand fits how far it has come.
HandFits(w) ==
  /\ exec[w].at = "idle" <=> exec[w].bs = {}
  /\ IF exec[w].at \in {"idle", "next"} THEN exec[w].b = None ELSE exec[w].b \in exec[w].bs
  /\ IF exec[w].at \in {"sms", "post", "save"} THEN exec[w].u \in HasPhone ELSE exec[w].u = None
  /\ exec[w].month <= month

\* The types, and that no month lies ahead.
Typed ==
  /\ month \in Month
  /\ status \in [Broadcast -> {"scheduled", "sent"}]
  /\ nextRun \in [Broadcast -> Nat]
  /\ count \in [User -> Nat] /\ reset \in [User -> Nat]
  /\ \A u \in User : reset[u] <= month
  /\ exec \in [Worker -> Hand] /\ \A w \in Worker : HandFits(w)
  /\ jobs \in [Job -> Nat] /\ sending \in [Job -> Nat] /\ accepted \in [Job -> Nat] /\ hands \in Int
  /\ got \in [Key -> Nat] /\ unheard \in [Key -> Nat] /\ lost \subseteq Key
  /\ editing \in [u : User \cup {None}, count : Nat, month : Nat] /\ editing.month <= month
  /\ texted \in [Month -> [User -> Nat]] /\ uncounted \in [Month -> [User -> Nat]]
  /\ shared \subseteq Broadcast /\ chosen \subseteq Broadcast /\ raced \subseteq User

LEMMA InitTyped == Init => Typed
  <1> SUFFICES ASSUME Init PROVE Typed
    OBVIOUS
  <1> USE MessagingAssumption
  <1>1. Rest \in Hand
    BY DEF Rest, Hand, At
  <1>2. exec \in [Worker -> Hand] /\ \A w \in Worker : exec[w] = Rest
    BY <1>1 DEF Init
  <1>3. month = 0 /\ 0 \in Month
    BY DEF Init, Month
  <1>4. \A w \in Worker : HandFits(w)
    BY <1>2, <1>3 DEF HandFits, Rest
  <1>5. nextRun \in [Broadcast -> Nat]
    BY DEF Init
  <1> QED
    BY <1>2, <1>3, <1>4, <1>5 DEF Init, Typed, Key

-----------------------------------------------------------------------------
(* Types                                                                     *)

\* A step of one execution.
LEMMA HandSet ==
  ASSUME Typed, NEW w \in Worker, NEW e \in Hand, Set(w, e)
  PROVE  /\ exec' \in [Worker -> Hand] /\ exec'[w] = e
         /\ \A v \in Worker \ {w} : exec'[v] = exec[v]
  BY DEF Set, Typed

LEMMA RestIsHand == Rest \in Hand
  BY MessagingAssumption DEF Rest, Hand, At

LEMMA Held ==
  ASSUME Typed, NEW w \in Worker
  PROVE  /\ exec[w] \in Hand /\ HandFits(w)
         /\ exec[w].bs \subseteq Broadcast /\ exec[w].b \in Broadcast \cup {None}
         /\ exec[w].left \in [User -> Nat] /\ exec[w].u \in User \cup {None}
         /\ exec[w].count \in Nat /\ exec[w].month \in Nat /\ month \in Nat
  <1>1. exec[w] \in Hand /\ HandFits(w) /\ month \in Nat
    BY MessagingAssumption DEF Typed, Month
  <1> QED
    BY <1>1 DEF Hand

\* An execution that leaves a broadcast goes on with the others, or rests.
LEMMA Left ==
  ASSUME Typed, NEW w \in Worker, exec[w].at = "user", Leave(w), month' = month
  PROVE  /\ exec' \in [Worker -> Hand]
         /\ \A v \in Worker \ {w} : exec'[v] = exec[v]
         /\ exec'[w].bs = exec[w].bs \ {exec[w].b}
         /\ exec'[w].b = None /\ exec'[w].u = None
         /\ exec'[w].at \in {"idle", "next"}
         /\ HandFits(w)'
  <1> USE MessagingAssumption
  <1>1. exec[w].b \in exec[w].bs /\ exec[w].bs \subseteq Broadcast /\ month \in Nat
    BY Held DEF HandFits
  <1>2. CASE exec[w].bs = {exec[w].b}
    <2>1. exec' \in [Worker -> Hand] /\ exec'[w] = Rest /\ \A v \in Worker \ {w} : exec'[v] = exec[v]
      BY <1>2, RestIsHand, HandSet DEF Leave
    <2>2. /\ exec'[w].bs = {} /\ exec'[w].b = None /\ exec'[w].at = "idle" /\ exec'[w].u = None
          /\ exec'[w].month = 0
      BY <2>1 DEF Rest
    <2> QED
      BY <1>1, <1>2, <2>1, <2>2 DEF HandFits
  <1>3. CASE exec[w].bs # {exec[w].b}
    <2> DEFINE e == [Rest EXCEPT !.bs = exec[w].bs \ {exec[w].b}, !.at = "next"]
    <2>1. e \in Hand
      BY <1>1, RestIsHand DEF Hand, At
    <2>2. /\ e.bs = exec[w].bs \ {exec[w].b} /\ e.at = "next"
          /\ e.b = None /\ e.u = None /\ e.month = 0
      <3>1. Rest.b = None /\ Rest.u = None /\ Rest.month = 0
        BY DEF Rest
      <3> QED
        BY <3>1, RestIsHand DEF Hand
    <2>3. Set(w, e)
      BY <1>3 DEF Leave, Set
    <2> HIDE DEF e
    <2>4. exec' \in [Worker -> Hand] /\ exec'[w] = e /\ \A v \in Worker \ {w} : exec'[v] = exec[v]
      BY <2>1, <2>3, HandSet
    <2> QED
      BY <1>1, <1>3, <2>2, <2>4 DEF HandFits
  <1> QED
    BY <1>2, <1>3

\* What only one execution changes.
LEMMA OneHand ==
  ASSUME Typed, NEW w \in Worker, exec' \in [Worker -> Hand], month' = month, HandFits(w)',
         \A v \in Worker \ {w} : exec'[v] = exec[v]
  PROVE  \A v \in Worker : HandFits(v)'
  BY DEF Typed, HandFits

-----------------------------------------------------------------------------
(* The invariant                                                             *)

\* For a user not saved by two at once: the limit was kept, at most one execution
\* is about to save him, and it knows the count; the count covers what was sent.
SmsOK(u) ==
  /\ \A m \in Month : Known(m, u) <= Limit[u]
  /\ \A v, w \in Saving(u) : v = w
  /\ \A w \in Saving(u) :
       /\ exec[w].count = count[u] /\ exec[w].month = reset[u] /\ count[u] < Limit[u]
       /\ Known(reset[u], u) <= count[u] + (IF exec[w].at = "save" THEN 1 ELSE 0)
  /\ Limit[u] > 0 =>
       /\ Saving(u) = {} => Known(reset[u], u) <= count[u]
       /\ \A m \in Month : m > reset[u] => Known(m, u) <= 0
       /\ editing.u = u => Saving(u) = {} /\ editing.count >= count[u] /\ editing.month = reset[u]

\* How often b has come due and was done with, and how often it may have been.
Rounds(b) == IF b \in Recurring THEN nextRun[b] ELSE IF status[b] = "sent" THEN 1 ELSE 0
Top(b) == IF b \in Recurring THEN month + 1 ELSE 1

\* For a broadcast of one hand at a time: who has it in hand does so in time, and
\* the mails that exist and are yet to be queued are those of the rounds.
MailOK(b) ==
  /\ \A v, w \in Worker : b \in exec[v].bs /\ b \in exec[w].bs => v = w
  /\ \A w \in Worker : b \in exec[w].bs => status[b] = "scheduled" /\ nextRun[b] <= month
  /\ \A u \in User : Mailed(<<b, u>>) <= Rows[<<b, u>>] * Top(b)
  /\ (\A w \in Worker : exec[w].b # b) => \A u \in User : Mailed(<<b, u>>) <= Rows[<<b, u>>] * Rounds(b)
  /\ \A w \in Worker, u \in User :
       exec[w].b = b => Mailed(<<b, u>>) + exec[w].left[u] <= Rows[<<b, u>>] * (Rounds(b) + 1)

IInv ==
  /\ Typed
  /\ \A u \in User \ raced : SmsOK(u)
  /\ \A b \in Broadcast \ (shared \cup chosen) : MailOK(b)

LEMMA Product == ASSUME NEW a \in Nat, NEW x \in Nat, NEW y \in Nat, x <= y PROVE a * x <= a * y
  OBVIOUS

\* The jobs of a key.
LEMMA Jobs ==
  ASSUME NEW b \in Broadcast, NEW u \in User
  PROVE  <<b, u>> \in Key /\ <<<<b, u>>, 0>> \in Job /\ <<<<b, u>>, 1>> \in Job
  BY DEF Key, Job

LEMMA MailedInt ==
  ASSUME NEW b \in Broadcast, NEW u \in User, jobs \in [Job -> Nat], sending \in [Job -> Nat],
         got \in [Key -> Nat], unheard \in [Key -> Nat]
  PROVE  Mailed(<<b, u>>) \in Int
  BY Jobs DEF Mailed

LEMMA MailedIsInt == ASSUME Typed, NEW b \in Broadcast, NEW u \in User PROVE Mailed(<<b, u>>) \in Int
  BY MailedInt DEF Typed

LEMMA KnownInt == ASSUME Typed, NEW u \in User, NEW m \in Month PROVE Known(m, u) \in Int
  BY DEF Typed, Known

\* What the row of a user holds, as numbers.
LEMMA OfUser ==
  ASSUME Typed, NEW u \in User
  PROVE  /\ count[u] \in Nat /\ Limit[u] \in Nat /\ reset[u] \in Month
         /\ \A m \in Month : Known(m, u) \in Int
  <1>1. month \in 0 .. MaxMonth /\ MaxMonth \in Nat /\ reset[u] \in Nat /\ reset[u] <= month
    BY MessagingAssumption DEF Typed, Month
  <1>2. reset[u] \in Month
    BY <1>1 DEF Month
  <1>3. count[u] \in Nat /\ Limit[u] \in Nat
    BY MessagingAssumption DEF Typed
  <1> QED
    BY <1>2, <1>3, KnownInt

LEMMA InitOK == Init => IInv
  <1> SUFFICES ASSUME Init PROVE IInv
    OBVIOUS
  <1> USE MessagingAssumption
  <1>1. Typed
    BY InitTyped
  <1>2. \A w \in Worker : exec[w].bs = {} /\ exec[w].b = None /\ exec[w].u = None /\ exec[w].at = "idle"
    BY DEF Init, Rest
  <1>3. ASSUME NEW u \in User PROVE SmsOK(u)
    <2>1. Saving(u) = {}
      BY <1>2 DEF Saving
    <2>2. /\ \A m \in Month : Known(m, u) = 0
          /\ reset[u] = 0 /\ count[u] = 0 /\ editing.u # u /\ 0 \in Month
      BY DEF Init, Month, Known
    <2> QED
      BY <2>1, <2>2 DEF SmsOK
  <1>4. ASSUME NEW b \in Broadcast PROVE MailOK(b)
    <2>1. ASSUME NEW u \in User PROVE Mailed(<<b, u>>) = 0
      BY Jobs DEF Init, Mailed
    <2>2. Rounds(b) \in Nat /\ Top(b) \in Nat
      BY <1>1 DEF Typed, Rounds, Top, Month
    <2>3. \A u \in User : Rows[<<b, u>>] * Top(b) \in Nat /\ Rows[<<b, u>>] * Rounds(b) \in Nat
      BY <2>2
    <2> QED
      BY <1>2, <2>1, <2>3 DEF MailOK
  <1> QED
    BY <1>1, <1>3, <1>4 DEF IInv

\* A step that leaves what concerns the SMS of u.
LEMMA SmsKept ==
  ASSUME Typed, NEW u \in User, SmsOK(u),
         count'[u] = count[u], reset'[u] = reset[u], \A m \in Month : Known(m, u)' = Known(m, u),
         \A w \in Worker : w \in Saving(u) \/ w \in Saving(u)' => exec'[w] = exec[w],
         editing'.u # u \/ editing' = editing
  PROVE  SmsOK(u)'
  <1>1. Saving(u)' = Saving(u) /\ \A w \in Saving(u) : exec'[w] = exec[w]
    BY DEF Saving
  <1>2. reset[u] \in Month /\ reset'[u] \in Month
    BY MessagingAssumption DEF Typed, Month
  <1>3. Known(reset[u], u)' = Known(reset[u], u)
    BY <1>2
  <1>4. \A m \in Month : Known(m, u)' <= Limit[u]
    BY DEF SmsOK
  <1>5. /\ \A v, w \in Saving(u)' : v = w
        /\ \A w \in Saving(u)' :
             /\ exec'[w].count = count'[u] /\ exec'[w].month = reset'[u] /\ count'[u] < Limit[u]
             /\ Known(reset[u], u)' <= count'[u] + (IF exec'[w].at = "save" THEN 1 ELSE 0)
    BY <1>1, <1>3 DEF SmsOK
  <1>6. ASSUME Limit[u] > 0
        PROVE  /\ Saving(u)' = {} => Known(reset[u], u)' <= count'[u]
               /\ \A m \in Month : m > reset'[u] => Known(m, u)' <= 0
               /\ editing'.u = u => Saving(u)' = {} /\ editing'.count >= count'[u] /\ editing'.month = reset'[u]
    BY <1>1, <1>3, <1>6 DEF SmsOK
  <1> QED
    BY <1>4, <1>5, <1>6 DEF SmsOK

\* A step that leaves b where it is in the executions, and mails no more of it.
LEMMA MailKept ==
  ASSUME Typed, NEW b \in Broadcast, MailOK(b),
         status'[b] = status[b], nextRun'[b] = nextRun[b], month' \in Nat, month <= month',
         \A u \in User : Mailed(<<b, u>>)' \in Int /\ Mailed(<<b, u>>)' <= Mailed(<<b, u>>),
         \A w \in Worker : /\ b \in exec'[w].bs => b \in exec[w].bs
                           /\ exec'[w].b = b <=> exec[w].b = b
                           /\ exec[w].b = b => exec'[w].left = exec[w].left
  PROVE  MailOK(b)'
  <1> USE MessagingAssumption
  <1>1. Rounds(b)' = Rounds(b) /\ Rounds(b) \in Nat
    BY DEF Rounds, Typed
  <1>2. Top(b) \in Nat /\ Top(b)' \in Nat /\ Top(b) <= Top(b)'
    <2>1. month \in Nat
      BY DEF Typed, Month
    <2> QED
      BY <2>1 DEF Top
  <1>3. \A u \in User : Rows[<<b, u>>] \in Nat /\ Mailed(<<b, u>>) \in Int
    BY MailedIsInt
  <1>4. \A u \in User : Rows[<<b, u>>] * Top(b) <= Rows[<<b, u>>] * Top(b)'
    BY <1>2, <1>3, Product
  <1>5. \A u \in User : Rows[<<b, u>>] * Top(b) \in Nat /\ Rows[<<b, u>>] * Top(b)' \in Nat
    BY <1>2, <1>3
  <1>6. \A u \in User : Mailed(<<b, u>>)' <= Rows[<<b, u>>] * Top(b)'
    <2> TAKE u \in User
    <2>1. Mailed(<<b, u>>) <= Rows[<<b, u>>] * Top(b)
      BY DEF MailOK
    <2> QED
      BY <2>1, <1>3, <1>4, <1>5
  <1>7. \A u \in User : Rows[<<b, u>>] * Rounds(b) \in Nat /\ Rows[<<b, u>>] * (Rounds(b) + 1) \in Nat
    BY <1>1, <1>3
  <1>8. ASSUME NEW u \in User, \A w \in Worker : exec'[w].b # b
        PROVE  Mailed(<<b, u>>)' <= Rows[<<b, u>>] * Rounds(b)'
    <2>1. Mailed(<<b, u>>) <= Rows[<<b, u>>] * Rounds(b)
      BY <1>8 DEF MailOK
    <2> QED
      BY <2>1, <1>1, <1>3, <1>7
  <1>9. ASSUME NEW u \in User, NEW w \in Worker, exec'[w].b = b
        PROVE  Mailed(<<b, u>>)' + exec'[w].left[u] <= Rows[<<b, u>>] * (Rounds(b) + 1)'
    <2>1. Mailed(<<b, u>>) + exec[w].left[u] <= Rows[<<b, u>>] * (Rounds(b) + 1)
      BY <1>9 DEF MailOK
    <2>2. exec'[w].left = exec[w].left /\ exec[w].left[u] \in Nat
      BY <1>9, Held
    <2> QED
      BY <2>1, <2>2, <1>1, <1>3, <1>7
  <1>10. \A w \in Worker : b \in exec'[w].bs => status'[b] = "scheduled" /\ nextRun'[b] <= month'
    BY DEF MailOK, Typed, Month
  <1>11. \A v, w \in Worker : b \in exec'[v].bs /\ b \in exec'[w].bs => v = w
    BY DEF MailOK
  <1> QED
    BY <1>6, <1>8, <1>9, <1>10, <1>11 DEF MailOK

-----------------------------------------------------------------------------
(* Steps of sendSms                                                          *)

\* A step of sendSms leaves the broadcasts.
LEMMA SmsMailOK ==
  ASSUME IInv, NEW w \in Worker, exec' \in [Worker -> Hand],
         \A v \in Worker \ {w} : exec'[v] = exec[v],
         exec'[w].bs = exec[w].bs, exec'[w].b = exec[w].b, exec'[w].left = exec[w].left,
         UNCHANGED <<month, casts, post>>
  PROVE  \A b \in Broadcast \ (shared' \cup chosen') : MailOK(b)'
  <1> SUFFICES ASSUME NEW b \in Broadcast \ (shared \cup chosen) PROVE MailOK(b)'
    BY DEF casts
  <1>1. \A u \in User : Mailed(<<b, u>>)' = Mailed(<<b, u>>) /\ Mailed(<<b, u>>) \in Int
    BY MailedIsInt DEF Mailed, post, IInv
  <1>2. month \in Nat /\ month' = month /\ status' = status /\ nextRun' = nextRun
    BY DEF IInv, Typed, Month, casts
  <1>3. \A v \in Worker : exec'[v].bs = exec[v].bs /\ exec'[v].b = exec[v].b /\ exec'[v].left = exec[v].left
    OBVIOUS
  <1>4. Typed /\ MailOK(b)
    BY DEF IInv
  <1> QED
    BY <1>1, <1>2, <1>3, <1>4, MailKept

LEMMA SmsCheckStep == ASSUME IInv, NEW w \in Worker, SmsCheck(w) PROVE IInv'
  <1> USE MessagingAssumption DEF IInv
  <1>0. exec[w].u \in HasPhone /\ exec[w].at = "sms" /\ month \in Month /\ month \in Nat
    BY Held DEF SmsCheck, HandFits, Month, Typed
  <1>a. PICK u \in User : u = exec[w].u
    BY <1>0
  <1>1. u \in User /\ u = exec[w].u /\ u \in HasPhone /\ exec[w].at = "sms" /\ month \in Month /\ month \in Nat
    BY <1>0, <1>a
  <1>2. Counted(u) \in Nat /\ (reset[u] # month => Counted(u) = 0) /\ (reset[u] = month => Counted(u) = count[u])
    BY <1>1 DEF Counted, Typed
  <1>3. count' = [count EXCEPT ![u] = Counted(u)] /\ reset' = [reset EXCEPT ![u] = month]
    BY <1>1 DEF SmsCheck
  <1>4. /\ count' \in [User -> Nat] /\ reset' \in [User -> Nat]
        /\ count'[u] = Counted(u) /\ reset'[u] = month
        /\ \A v \in User \ {u} : count'[v] = count[v] /\ reset'[v] = reset[v]
        /\ \A v \in User : reset'[v] <= month
    BY <1>1, <1>2, <1>3 DEF Typed
  <1>5. /\ exec' \in [Worker -> Hand] /\ \A v \in Worker \ {w} : exec'[v] = exec[v]
        /\ exec'[w].bs = exec[w].bs /\ exec'[w].b = exec[w].b /\ exec'[w].left = exec[w].left
        /\ HandFits(w)'
        /\ IF WithinLimit(u)
           THEN exec'[w].at = "post" /\ exec'[w].u = u /\ exec'[w].count = Counted(u) /\ exec'[w].month = month
           ELSE exec'[w].at = "user"
    <2>1. CASE WithinLimit(u)
      <3> DEFINE e == [exec[w] EXCEPT !.at = "post", !.count = Counted(u), !.month = month]
      <3>1. Set(w, e)
        BY <1>1, <2>1 DEF SmsCheck
      <3>2. e \in Hand
        <4>1. ASSUME NEW h \in Hand, NEW c \in Nat, NEW m \in Nat
              PROVE  [h EXCEPT !.at = "post", !.count = c, !.month = m] \in Hand
          BY DEF Hand, At
        <4> QED
          BY <1>1, <1>2, <4>1, Held
      <3>3. /\ e.bs = exec[w].bs /\ e.b = exec[w].b /\ e.left = exec[w].left /\ e.u = u
            /\ e.at = "post" /\ e.count = Counted(u) /\ e.month = month
        BY <1>1, Held DEF Hand
      <3> HIDE DEF e
      <3>4. exec' \in [Worker -> Hand] /\ exec'[w] = e /\ \A v \in Worker \ {w} : exec'[v] = exec[v]
        BY <3>1, <3>2, HandSet
      <3>5. HandFits(w)'
        BY <1>1, <3>3, <3>4, Held DEF HandFits, SmsCheck
      <3> QED
        BY <2>1, <3>3, <3>4, <3>5
    <2>2. CASE ~WithinLimit(u)
      <3> DEFINE e == [exec[w] EXCEPT !.at = "user", !.u = None]
      <3>1. Set(w, e)
        BY <1>1, <2>2 DEF SmsCheck
      <3>2. e \in Hand
        BY Held DEF Hand, At
      <3>3. /\ e.bs = exec[w].bs /\ e.b = exec[w].b /\ e.left = exec[w].left /\ e.u = None
            /\ e.at = "user" /\ e.month = exec[w].month
        BY Held DEF Hand
      <3> HIDE DEF e
      <3>4. exec' \in [Worker -> Hand] /\ exec'[w] = e /\ \A v \in Worker \ {w} : exec'[v] = exec[v]
        BY <3>1, <3>2, HandSet
      <3>5. HandFits(w)'
        BY <1>1, <3>3, <3>4, Held DEF HandFits, SmsCheck
      <3> QED
        BY <2>2, <3>3, <3>4, <3>5
    <2> QED
      BY <2>1, <2>2
  <1>6. raced' \subseteq User /\ raced \subseteq raced'
    BY <1>1 DEF SmsCheck, Races, Typed
  <1>7. Typed'
    <2>1. UNCHANGED <<month, texted, uncounted, casts, post, editing>>
      BY <1>1 DEF SmsCheck
    <2>2. \A v \in Worker : HandFits(v)'
      BY <1>5, <2>1, OneHand
    <2>3. raced' \subseteq User
      BY <1>6
    <2> QED
      BY <1>4, <1>5, <2>1, <2>2, <2>3 DEF Typed, casts, post
  <1>8. ASSUME NEW v \in User \ raced' PROVE SmsOK(v)'
    <2>1. SmsOK(v) /\ v \notin raced
      BY <1>6
    <2>2. CASE v # u
      <3>1. \A x \in Worker : x \in Saving(v) \/ x \in Saving(v)' => exec'[x] = exec[x]
        BY <1>1, <1>5, <2>2, Held DEF Saving
      <3> QED
        BY <2>1, <2>2, <3>1, <1>4, SmsKept DEF SmsCheck, Known
    <2>3. CASE v = u /\ WithinLimit(u)
      <3>1. Saving(u) = {} /\ editing.u # u
        BY <1>1, <2>1, <2>3 DEF SmsCheck, Races, Saving
      <3>2. Saving(u)' = {w}
        BY <1>5, <2>3, <3>1 DEF Saving
      <3>3. Counted(u) < Limit[u] /\ Limit[u] \in Nat
        BY <1>1, <2>3 DEF WithinLimit
      <3>4. \A m \in Month : Known(m, u) \in Int
        BY <1>1, KnownInt
      <3>5. \A m \in Month : m > month => Known(m, u) <= 0
        BY <1>1, <1>2, <2>1, <2>3, <3>3 DEF SmsOK, Typed, Month
      <3>6. Known(month, u) <= Counted(u)
        <4>1. reset[u] \in Nat /\ reset[u] <= month /\ Limit[u] > 0
          BY <1>1, <1>2, <3>3 DEF Typed
        <4>2. /\ Known(reset[u], u) <= count[u]
              /\ \A m \in Month : m > reset[u] => Known(m, u) <= 0
          BY <2>1, <2>3, <3>1, <4>1 DEF SmsOK
        <4>3. CASE reset[u] = month
          BY <1>2, <4>2, <4>3
        <4>4. CASE reset[u] # month
          BY <1>1, <1>2, <4>1, <4>2, <4>4
        <4> QED
          BY <4>3, <4>4
      <3>7. (\A m \in Month : Known(m, u)' = Known(m, u)) /\ Known(month, u)' = Known(month, u) /\ editing' = editing
        BY <1>1 DEF SmsCheck, Known
      <3> QED
        BY <1>1, <1>2, <1>4, <1>5, <2>1, <2>3, <3>1, <3>2, <3>3, <3>4, <3>5, <3>6, <3>7 DEF SmsOK
    <2>4. CASE v = u /\ ~WithinLimit(u)
      <3>1. w \notin Saving(u) /\ w \notin Saving(u)'
        BY <1>1, <1>5, <2>4 DEF Saving
      <3>2. \A x \in Worker : x \in Saving(u) \/ x \in Saving(u)' => exec'[x] = exec[x]
        BY <1>5, <3>1
      <3>3. Limit[u] \in Nat /\ Counted(u) >= Limit[u]
        BY <1>1, <1>2, <2>4 DEF WithinLimit
      <3>4. CASE Limit[u] > 0
        <4>1. reset[u] = month /\ Counted(u) = count[u]
          BY <1>2, <3>3, <3>4
        <4> QED
          BY <1>1, <1>4, <2>1, <2>4, <3>2, <4>1, SmsKept DEF SmsCheck, Known
      <3>5. CASE Limit[u] = 0
        <4>1. Saving(u) = {}
          BY <2>1, <2>4, <3>5, <1>1 DEF SmsOK, Typed
        <4>2. Saving(u)' = {}
          BY <4>1, <3>2 DEF Saving
        <4>3. \A m \in Month : Known(m, u)' = Known(m, u)
          BY DEF SmsCheck, Known
        <4> QED
          BY <2>1, <2>4, <3>5, <4>2, <4>3 DEF SmsOK
      <3> QED
        BY <3>3, <3>4, <3>5
    <2> QED
      BY <2>2, <2>3, <2>4
  <1>9. \A b \in Broadcast \ (shared' \cup chosen') : MailOK(b)'
    BY <1>5, SmsMailOK DEF SmsCheck
  <1> QED
    BY <1>7, <1>8, <1>9

\* An execution goes on to the next recipient.
LEMMA BackToUser ==
  ASSUME Typed, NEW w \in Worker, exec[w].at \in {"sms", "post", "save"}, month' = month,
         Set(w, [exec[w] EXCEPT !.at = "user", !.u = None])
  PROVE  /\ exec' \in [Worker -> Hand] /\ \A v \in Worker \ {w} : exec'[v] = exec[v]
         /\ exec'[w].bs = exec[w].bs /\ exec'[w].b = exec[w].b /\ exec'[w].left = exec[w].left
         /\ exec'[w].at = "user" /\ HandFits(w)'
  <1> DEFINE e == [exec[w] EXCEPT !.at = "user", !.u = None]
  <1>1. e \in Hand
    BY Held DEF Hand, At
  <1>2. /\ e.bs = exec[w].bs /\ e.b = exec[w].b /\ e.left = exec[w].left /\ e.u = None
        /\ e.at = "user" /\ e.month = exec[w].month
    BY Held DEF Hand
  <1>0. Set(w, e)
    OBVIOUS
  <1> HIDE DEF e
  <1>3. exec' \in [Worker -> Hand] /\ exec'[w] = e /\ \A v \in Worker \ {w} : exec'[v] = exec[v]
    BY <1>0, <1>1, HandSet
  <1>4. HandFits(w)'
    BY <1>2, <1>3, Held DEF HandFits
  <1> QED
    BY <1>2, <1>3, <1>4

LEMMA SmsPostStep == ASSUME IInv, NEW w \in Worker, SmsPost(w) PROVE IInv'
  <1> USE MessagingAssumption DEF IInv
  <1>0. exec[w].u \in HasPhone /\ exec[w].at = "post" /\ exec[w].month \in Month /\ month \in Month
    <2>1. exec[w].at = "post"
      BY DEF SmsPost
    <2>2. month \in Month
      BY DEF Typed
    <2> QED
      BY <2>1, <2>2, Held DEF HandFits, Month
  <1>1. PICK u \in User : u = exec[w].u
    BY <1>0
  <1>2. w \in Saving(u)
    BY <1>0, <1>1 DEF Saving
  <1>3. /\ texted' \in [Month -> [User -> Nat]] /\ uncounted' = uncounted
        /\ \A m \in Month, v \in User :
             texted'[m][v] = IF m = exec[w].month /\ v = u THEN texted[m][v] + 1 ELSE texted[m][v]
    BY <1>0, <1>1 DEF Typed, SmsPost
  <1>4. \A m \in Month, v \in User :
          Known(m, v)' = IF m = exec[w].month /\ v = u THEN Known(m, v) + 1 ELSE Known(m, v)
    BY <1>3 DEF Known, Typed
  <1>5. /\ exec' \in [Worker -> Hand] /\ \A v \in Worker \ {w} : exec'[v] = exec[v]
        /\ exec'[w].bs = exec[w].bs /\ exec'[w].b = exec[w].b /\ exec'[w].left = exec[w].left
        /\ exec'[w].at = "save" /\ exec'[w].u = u /\ exec'[w].count = exec[w].count
        /\ exec'[w].month = exec[w].month /\ HandFits(w)'
    <2> DEFINE e == [exec[w] EXCEPT !.at = "save"]
    <2>1. e \in Hand
      BY Held DEF Hand, At
    <2>2. /\ e.bs = exec[w].bs /\ e.b = exec[w].b /\ e.left = exec[w].left /\ e.u = u
          /\ e.at = "save" /\ e.count = exec[w].count /\ e.month = exec[w].month
      BY <1>1, Held DEF Hand
    <2>3. Set(w, e)
      BY DEF SmsPost
    <2> HIDE DEF e
    <2>4. exec' \in [Worker -> Hand] /\ exec'[w] = e /\ \A v \in Worker \ {w} : exec'[v] = exec[v]
      BY <2>1, <2>3, HandSet
    <2>5. HandFits(w)'
      BY <1>0, <1>1, <2>2, <2>4, Held DEF HandFits, SmsPost
    <2> QED
      BY <2>2, <2>4, <2>5
  <1>6. Typed'
    BY <1>3, <1>5, OneHand DEF SmsPost, Typed, casts, post
  <1>7. ASSUME NEW v \in User \ raced' PROVE SmsOK(v)'
    <2>1. SmsOK(v) /\ v \notin raced
      BY DEF SmsPost
    <2>2. CASE v # u
      <3>1. \A x \in Worker : x \in Saving(v) \/ x \in Saving(v)' => exec'[x] = exec[x]
        BY <1>1, <1>5, <2>2 DEF Saving
      <3> QED
        BY <1>4, <2>1, <2>2, <3>1, SmsKept DEF SmsPost
    <2>3. CASE v = u
      <3>1. /\ exec[w].count = count[u] /\ exec[w].month = reset[u] /\ count[u] < Limit[u]
            /\ Known(reset[u], u) <= count[u] + 0 /\ \A x \in Saving(u) : x = w
        BY <1>0, <1>2, <2>1, <2>3 DEF SmsOK
      <3>2. /\ count[u] \in Nat /\ Limit[u] \in Nat /\ reset[u] \in Month /\ \A m \in Month : Known(m, u) \in Int
            /\ count'[u] = count[u] /\ reset'[u] = reset[u] /\ editing' = editing
        BY <1>0, <3>1, KnownInt DEF Typed, SmsPost
      <3>3. Saving(u)' = {w}
        BY <1>5, <3>1 DEF Saving
      <3>4. Known(reset[u], u)' <= count[u] + 1 /\ Known(reset[u], u)' <= Limit[u]
        <4>1. PICK r \in Month : r = reset[u]
          BY <3>2
        <4>2. Known(r, u)' = Known(r, u) + 1 /\ Known(r, u) <= count[u]
          BY <1>4, <3>1, <3>2, <4>1
        <4>3. Known(reset[u], u)' = Known(r, u)'
          BY <3>2, <4>1
        <4> QED
          BY <3>1, <3>2, <4>1, <4>2, <4>3
      <3>5. \A m \in Month : m # reset[u] => Known(m, u)' = Known(m, u)
        BY <1>4, <3>1
      <3>6. \A m \in Month : Known(m, u)' <= Limit[u]
        BY <2>1, <2>3, <3>2, <3>4, <3>5 DEF SmsOK
      <3>7. editing.u # u
        BY <1>2, <2>1, <2>3, <3>1, <3>2 DEF SmsOK
      <3>8. \A m \in Month : m > reset[u] => Known(m, u)' <= 0
        BY <2>1, <2>3, <3>1, <3>2, <3>5 DEF SmsOK, Month
      <3> QED
        BY <1>5, <2>3, <3>1, <3>2, <3>3, <3>4, <3>6, <3>7, <3>8 DEF SmsOK
    <2> QED
      BY <2>2, <2>3
  <1>8. \A b \in Broadcast \ (shared' \cup chosen') : MailOK(b)'
    BY <1>5, SmsMailOK DEF SmsPost
  <1> QED
    BY <1>6, <1>7, <1>8

\* What fails is not counted: the SMS that went out with it is written down.
LEMMA SmsFailsStep == ASSUME IInv, NEW w \in Worker, SmsFails(w) PROVE IInv'
  <1> USE MessagingAssumption DEF IInv
  <1>0. exec[w].u \in HasPhone /\ exec[w].at \in {"sms", "post", "save"} /\ month' = month
    <2>1. exec[w].at \in {"sms", "post", "save"}
      BY DEF SmsFails
    <2> QED
      BY <2>1, Held DEF HandFits, SmsFails
  <1>1. PICK u \in User : u = exec[w].u
    BY <1>0
  <1>2. /\ exec' \in [Worker -> Hand] /\ \A v \in Worker \ {w} : exec'[v] = exec[v]
        /\ exec'[w].bs = exec[w].bs /\ exec'[w].b = exec[w].b /\ exec'[w].left = exec[w].left
        /\ exec'[w].at = "user" /\ HandFits(w)'
    BY <1>0, BackToUser DEF SmsFails
  <1>3. /\ uncounted' \in [Month -> [User -> Nat]] /\ texted' = texted
        /\ \A m \in Month, v \in User : uncounted'[m][v] = uncounted[m][v] + (IF Missed(w, m, v) THEN 1 ELSE 0)
    BY DEF Typed, SmsFails
  <1>4. \A m \in Month, v \in User : Known(m, v)' = Known(m, v) - (IF Missed(w, m, v) THEN 1 ELSE 0)
    BY <1>3 DEF Known, Typed
  <1>5. Typed'
    BY <1>2, <1>3, OneHand DEF SmsFails, Typed, casts, post
  <1>6. ASSUME NEW v \in User \ raced' PROVE SmsOK(v)'
    <2>1. SmsOK(v) /\ v \notin raced
      BY DEF SmsFails
    <2>2. CASE v # u
      <3>1. \A x \in Worker : x \in Saving(v) \/ x \in Saving(v)' => exec'[x] = exec[x]
        BY <1>1, <1>2, <2>2 DEF Saving
      <3>2. \A m \in Month : Known(m, v)' = Known(m, v)
        <4>1. \A m \in Month : ~Missed(w, m, v) /\ Known(m, v) \in Int
          BY <1>1, <2>2, KnownInt DEF Missed
        <4> QED
          BY <1>4, <4>1
      <3> QED
        BY <2>1, <2>2, <3>1, <3>2, SmsKept DEF SmsFails
    <2>3. CASE v = u /\ exec[w].at = "sms"
      <3>1. \A x \in Worker : x \in Saving(u) \/ x \in Saving(u)' => exec'[x] = exec[x]
        BY <1>2, <2>3 DEF Saving
      <3>2. \A m \in Month : Known(m, u)' = Known(m, u)
        <4>1. \A m \in Month : ~Missed(w, m, u) /\ Known(m, u) \in Int
          BY <2>3, KnownInt DEF Missed
        <4> QED
          BY <1>4, <4>1
      <3> QED
        BY <2>1, <2>3, <3>1, <3>2, SmsKept DEF SmsFails
    <2>4. CASE v = u /\ exec[w].at \in {"post", "save"}
      <3>1. w \in Saving(u)
        BY <1>1, <2>4 DEF Saving
      <3>2. /\ exec[w].month = reset[u] /\ count[u] < Limit[u] /\ \A x \in Saving(u) : x = w
            /\ Known(reset[u], u) <= count[u] + (IF exec[w].at = "save" THEN 1 ELSE 0)
        BY <2>1, <2>4, <3>1 DEF SmsOK
      <3>3. /\ count' = count /\ reset' = reset /\ editing' = editing
            /\ count[u] \in Nat /\ Limit[u] \in Nat /\ reset[u] \in Month
            /\ \A m \in Month : Known(m, u) \in Int
        BY OfUser DEF SmsFails
      <3>4. \A m \in Month : Known(m, u)' <= Known(m, u)
        BY <1>4, <3>3
      <3>5. Known(reset[u], u)' <= count[u]
        <4>1. PICK r \in Month : r = reset[u]
          BY <3>3
        <4>2. Missed(w, r, u) <=> exec[w].at = "save"
          BY <1>1, <3>2, <4>1 DEF Missed
        <4>3. Known(r, u)' <= count[u]
          BY <1>4, <3>2, <3>3, <4>1, <4>2
        <4>4. Known(reset[u], u)' = Known(r, u)'
          BY <3>3, <4>1
        <4> QED
          BY <4>3, <4>4
      <3>6. Saving(u)' = {}
        BY <1>2, <3>2 DEF Saving
      <3>7. editing.u # u
        BY <2>1, <2>4, <3>1, <3>2, <3>3 DEF SmsOK
      <3>8. /\ \A m \in Month : Known(m, u) <= Limit[u]
            /\ \A m \in Month : m > reset[u] => Known(m, u) <= 0
        BY <2>1, <2>4, <3>2, <3>3 DEF SmsOK
      <3>9. /\ \A m \in Month : Known(m, u)' <= Limit[u]
            /\ \A m \in Month : m > reset[u] => Known(m, u)' <= 0
        <4>1. \A m \in Month : Known(m, u)' \in Int
          BY <1>4, <3>3
        <4> QED
          BY <3>3, <3>4, <3>8, <4>1
      <3> QED
        BY <2>4, <3>3, <3>5, <3>6, <3>7, <3>9 DEF SmsOK
    <2> QED
      BY <1>0, <2>2, <2>3, <2>4
  <1>7. \A b \in Broadcast \ (shared' \cup chosen') : MailOK(b)'
    BY <1>2, SmsMailOK DEF SmsFails
  <1> QED
    BY <1>5, <1>6, <1>7

LEMMA SmsSaveStep == ASSUME IInv, NEW w \in Worker, SmsSave(w) PROVE IInv'
  <1> USE MessagingAssumption DEF IInv
  <1>0. exec[w].u \in HasPhone /\ exec[w].at = "save" /\ exec[w].month \in Nat /\ exec[w].month <= month
        /\ exec[w].count \in Nat
    BY Held DEF SmsSave, HandFits
  <1>1. PICK u \in User : u = exec[w].u
    BY <1>0
  <1>2. w \in Saving(u)
    BY <1>0, <1>1 DEF Saving
  <1>3. /\ exec' \in [Worker -> Hand] /\ \A v \in Worker \ {w} : exec'[v] = exec[v]
        /\ exec'[w].bs = exec[w].bs /\ exec'[w].b = exec[w].b /\ exec'[w].left = exec[w].left
        /\ exec'[w].at = "user" /\ HandFits(w)'
    BY <1>0, BackToUser DEF SmsSave
  <1>4. count' = [count EXCEPT ![u] = exec[w].count + 1] /\ reset' = [reset EXCEPT ![u] = exec[w].month]
    BY <1>1 DEF SmsSave
  <1>5. /\ count' \in [User -> Nat] /\ reset' \in [User -> Nat]
        /\ count'[u] = exec[w].count + 1 /\ reset'[u] = exec[w].month
        /\ \A v \in User \ {u} : count'[v] = count[v] /\ reset'[v] = reset[v]
        /\ \A v \in User : reset'[v] <= month
    BY <1>0, <1>4 DEF Typed
  <1>6. Typed'
    BY <1>3, <1>5, OneHand DEF SmsSave, Typed, casts, post
  <1>7. ASSUME NEW v \in User \ raced' PROVE SmsOK(v)'
    <2>1. SmsOK(v) /\ v \notin raced
      BY DEF SmsSave
    <2>2. CASE v # u
      <3>1. \A x \in Worker : x \in Saving(v) \/ x \in Saving(v)' => exec'[x] = exec[x]
        BY <1>1, <1>3, <2>2 DEF Saving
      <3> QED
        BY <1>5, <2>1, <2>2, <3>1, SmsKept DEF SmsSave, Known
    <2>3. CASE v = u
      <3>1. /\ exec[w].count = count[u] /\ exec[w].month = reset[u] /\ count[u] < Limit[u]
            /\ Known(reset[u], u) <= count[u] + 1 /\ \A x \in Saving(u) : x = w
        BY <1>0, <1>2, <2>1, <2>3 DEF SmsOK
      <3>2. /\ count[u] \in Nat /\ Limit[u] \in Nat /\ editing' = editing /\ reset[u] \in Month
            /\ \A m \in Month : Known(m, u)' = Known(m, u)
        BY OfUser DEF SmsSave, Known
      <3>3. Saving(u)' = {}
        BY <1>3, <3>1 DEF Saving
      <3>4. editing.u # u
        BY <1>2, <2>1, <2>3, <3>1, <3>2 DEF SmsOK
      <3>5. Known(reset[u], u) <= count'[u] /\ reset'[u] = reset[u]
        BY <1>5, <3>1
      <3>6. \A m \in Month : m > reset[u] => Known(m, u) <= 0
        BY <2>1, <2>3, <3>1, <3>2 DEF SmsOK
      <3>7. \A m \in Month : Known(m, u) <= Limit[u]
        BY <2>1, <2>3 DEF SmsOK
      <3>8. Known(reset[u], u)' <= count'[u]
        BY <3>2, <3>5
      <3> QED
        BY <2>3, <3>2, <3>3, <3>4, <3>5, <3>6, <3>7, <3>8 DEF SmsOK
    <2> QED
      BY <2>2, <2>3
  <1>8. \A b \in Broadcast \ (shared' \cup chosen') : MailOK(b)'
    BY <1>3, SmsMailOK DEF SmsSave
  <1> QED
    BY <1>6, <1>7, <1>8

\* Another request reads the user, or saves him.
LEMMA EditMailOK ==
  ASSUME IInv, UNCHANGED <<month, casts, exec, post>>
  PROVE  \A b \in Broadcast \ (shared' \cup chosen') : MailOK(b)'
  <1> SUFFICES ASSUME NEW b \in Broadcast \ (shared \cup chosen) PROVE MailOK(b)'
    BY DEF casts
  <1>1. MailOK(b)
    BY DEF IInv
  <1> QED
    BY <1>1 DEF MailOK, Mailed, Top, Rounds, casts, post

LEMMA EditReadStep == ASSUME IInv, NEW u \in User, EditRead(u) PROVE IInv'
  <1> USE MessagingAssumption DEF IInv
  <1>1. raced' \subseteq User /\ raced \subseteq raced'
    BY DEF EditRead, Typed
  <1>2. editing' = [u |-> u, count |-> count[u], month |-> reset[u]]
    BY DEF EditRead
  <1>3. Typed'
    BY <1>1, <1>2 DEF EditRead, Typed, HandFits, casts, post
  <1>4. ASSUME NEW v \in User \ raced' PROVE SmsOK(v)'
    <2>1. SmsOK(v) /\ v \notin raced /\ Saving(v)' = Saving(v)
      BY <1>1 DEF EditRead, Saving
    <2>2. CASE v # u
      BY <1>2, <2>1, <2>2, SmsKept DEF EditRead, Known
    <2>3. CASE v = u
      <3>1. Saving(u) = {}
        BY <2>3 DEF EditRead
      <3> QED
        BY <1>2, <2>1, <2>3, <3>1 DEF EditRead, SmsOK, Known, Typed
    <2> QED
      BY <2>2, <2>3
  <1>5. \A b \in Broadcast \ (shared' \cup chosen') : MailOK(b)'
    BY EditMailOK DEF EditRead
  <1> QED
    BY <1>3, <1>4, <1>5

\* The system's SMS begins: the count, reset if the month is another, covers what was sent.
LEMMA NotifyReadStep == ASSUME IInv, NEW u \in User, NotifyRead(u) PROVE IInv'
  <1> USE MessagingAssumption DEF IInv
  <1>1. /\ raced' \subseteq User /\ raced \subseteq raced' /\ month' = month /\ month \in Month /\ month \in Nat
        /\ editing.u = None /\ exec' = exec
    BY DEF NotifyRead, Typed, Month
  <1>2. Counted(u) \in Nat /\ (reset[u] # month => Counted(u) = 0) /\ (reset[u] = month => Counted(u) = count[u])
    BY DEF Counted, Typed
  <1>3. editing' = [u |-> u, count |-> Counted(u) + 1, month |-> month]
    BY DEF NotifyRead
  <1>4. /\ count' \in [User -> Nat] /\ reset' \in [User -> Nat]
        /\ count'[u] = Counted(u) /\ reset'[u] = month
        /\ \A v \in User \ {u} : count'[v] = count[v] /\ reset'[v] = reset[v]
        /\ \A v \in User : reset'[v] <= month
    BY <1>1, <1>2 DEF Typed, NotifyRead
  <1>5. Typed'
    <2>1. editing' \in [u : User \cup {None}, count : Nat, month : Nat] /\ editing'.month <= month
      BY <1>1, <1>2, <1>3
    <2> QED
      BY <1>1, <1>4, <2>1 DEF NotifyRead, Typed, HandFits, casts, post
  <1>6. \A v \in User, m \in Month : Known(m, v)' = Known(m, v)
    BY DEF NotifyRead, Known
  <1>7. ASSUME NEW v \in User \ raced' PROVE SmsOK(v)'
    <2>1. SmsOK(v) /\ v \notin raced /\ Saving(v)' = Saving(v)
      BY <1>1 DEF Saving
    <2>2. CASE v # u
      BY <1>1, <1>3, <1>4, <1>6, <2>1, <2>2, SmsKept
    <2>3. CASE v = u
      <3>1. Saving(u) = {}
        BY <2>3 DEF NotifyRead
      <3>2. \A m \in Month : Known(m, u) <= Limit[u] /\ Known(m, u) \in Int
        BY <2>1, <2>3, KnownInt DEF SmsOK
      <3>3. ASSUME Limit[u] > 0
            PROVE  /\ Known(month, u) <= Counted(u)
                   /\ \A m \in Month : m > month => Known(m, u) <= 0
        <4>1. reset[u] \in Nat /\ reset[u] <= month /\ reset[u] \in Month
          BY <1>1 DEF Typed, Month
        <4>2. /\ Known(reset[u], u) <= count[u]
              /\ \A m \in Month : m > reset[u] => Known(m, u) <= 0
          BY <2>1, <2>3, <3>1, <3>3 DEF SmsOK
        <4>3. CASE reset[u] = month
          BY <1>2, <4>2, <4>3
        <4>4. CASE reset[u] # month
          <5>1. Known(month, u) <= 0
            BY <1>1, <4>1, <4>2, <4>4
          <5>2. \A m \in Month : m > month => m > reset[u]
            BY <1>1, <4>1 DEF Month
          <5> QED
            BY <1>2, <4>2, <4>4, <5>1, <5>2
        <4> QED
          BY <4>3, <4>4
      <3>4. Known(reset[u], u)' = Known(month, u)
        BY <1>1, <1>4, <1>6
      <3>5. editing'.count >= count'[u] /\ editing'.month = reset'[u]
        BY <1>2, <1>3, <1>4
      <3> QED
        BY <1>1, <1>4, <1>6, <2>1, <2>3, <3>1, <3>2, <3>3, <3>4, <3>5 DEF SmsOK
    <2> QED
      BY <2>2, <2>3
  <1>8. \A b \in Broadcast \ (shared' \cup chosen') : MailOK(b)'
    BY EditMailOK DEF NotifyRead
  <1> QED
    BY <1>5, <1>7, <1>8

LEMMA EditFailsStep == ASSUME IInv, EditFails PROVE IInv'
  <1> USE MessagingAssumption DEF IInv
  <1>1. editing'.u = None /\ editing' \in [u : User \cup {None}, count : Nat, month : Nat]
        /\ editing'.month = editing.month
    BY DEF EditFails, Typed
  <1>2. Typed'
    BY <1>1 DEF EditFails, Typed, HandFits, casts, sms, post
  <1>3. ASSUME NEW v \in User \ raced' PROVE SmsOK(v)'
    <2>1. SmsOK(v) /\ Saving(v)' = Saving(v) /\ editing'.u # v
      BY <1>1 DEF EditFails, Saving, sms
    <2> QED
      BY <2>1, SmsKept DEF EditFails, sms, Known
  <1>4. \A b \in Broadcast \ (shared' \cup chosen') : MailOK(b)'
    BY EditMailOK DEF EditFails
  <1> QED
    BY <1>2, <1>3, <1>4

LEMMA EditSaveStep == ASSUME IInv, EditSave PROVE IInv'
  <1> USE MessagingAssumption DEF IInv
  <1>0. editing.u \in User /\ editing.count \in Nat /\ editing.month \in Nat /\ editing.month <= month
    BY DEF EditSave, Typed
  <1>1. PICK u \in User : u = editing.u
    BY <1>0
  <1>2. count' = [count EXCEPT ![u] = editing.count] /\ reset' = [reset EXCEPT ![u] = editing.month]
    BY <1>1 DEF EditSave
  <1>3. /\ count' \in [User -> Nat] /\ reset' \in [User -> Nat]
        /\ count'[u] = editing.count /\ reset'[u] = editing.month
        /\ \A v \in User \ {u} : count'[v] = count[v] /\ reset'[v] = reset[v]
        /\ \A v \in User : reset'[v] <= month
    BY <1>0, <1>2 DEF Typed
  <1>4. editing'.u = None /\ editing' \in [u : User \cup {None}, count : Nat, month : Nat]
        /\ editing'.month = editing.month
    BY DEF EditSave, Typed
  <1>5. Typed'
    BY <1>3, <1>4 DEF EditSave, Typed, HandFits, casts, post
  <1>6. ASSUME NEW v \in User \ raced' PROVE SmsOK(v)'
    <2>1. SmsOK(v) /\ v \notin raced /\ Saving(v)' = Saving(v) /\ editing'.u # v
      BY <1>4 DEF EditSave, Saving
    <2>2. CASE v # u
      BY <1>3, <2>1, <2>2, SmsKept DEF EditSave, Known
    <2>3. CASE v = u
      <3>1. Limit[u] \in Nat /\ exec' = exec /\ \A m \in Month : Known(m, u)' = Known(m, u)
        BY DEF EditSave, Known
      <3>2. CASE Limit[u] > 0
        <4>1. Saving(u) = {} /\ count'[u] >= count[u] /\ reset'[u] = reset[u]
          BY <1>1, <1>3, <2>1, <2>3, <3>2 DEF SmsOK
        <4>2. /\ Known(reset[u], u) <= count[u] /\ Known(reset[u], u) \in Int
              /\ count[u] \in Nat /\ count'[u] \in Nat /\ reset[u] \in Month
          <5>1. reset[u] \in Month
            BY DEF Typed, Month
          <5> QED
            BY <1>3, <2>1, <2>3, <3>2, <4>1, <5>1, KnownInt DEF SmsOK, Typed
        <4>3. Known(reset[u], u)' = Known(reset[u], u)
          BY <3>1, <4>1, <4>2
        <4>4. Known(reset[u], u)' <= count'[u]
          BY <4>1, <4>2, <4>3
        <4> QED
          BY <2>1, <2>3, <3>1, <3>2, <4>1, <4>4 DEF SmsOK
      <3>3. CASE Limit[u] = 0
        <4>1. Saving(u) = {}
          BY <2>1, <2>3, <3>3 DEF SmsOK, Typed
        <4> QED
          BY <2>1, <2>3, <3>1, <3>3, <4>1 DEF SmsOK
      <3> QED
        BY <3>1, <3>2, <3>3
    <2> QED
      BY <2>2, <2>3
  <1>7. \A b \in Broadcast \ (shared' \cup chosen') : MailOK(b)'
    BY EditMailOK DEF EditSave
  <1> QED
    BY <1>5, <1>6, <1>7

-----------------------------------------------------------------------------
(* Steps of the executions                                                   *)

\* An execution that is not at an SMS leaves those of all users.
LEMMA MailSmsOK ==
  ASSUME IInv, NEW w \in Worker, \A v \in Worker \ {w} : exec'[v] = exec[v],
         exec[w].at \notin {"post", "save"}, exec'[w].at \notin {"post", "save"},
         UNCHANGED <<sms, editing>>
  PROVE  \A u \in User \ raced' : SmsOK(u)'
  <1> SUFFICES ASSUME NEW u \in User \ raced PROVE SmsOK(u)'
    BY DEF sms
  <1>1. \A v \in Worker : v \in Saving(u) \/ v \in Saving(u)' => exec'[v] = exec[v]
    BY DEF Saving
  <1> QED
    BY <1>1, SmsKept DEF IInv, sms, Known

\* An execution begins with the broadcasts of B.
LEMMA Begun ==
  ASSUME IInv, NEW w \in Worker, exec[w] = Rest, NEW B \in SUBSET Broadcast, B # {},
         Set(w, [Rest EXCEPT !.bs = B, !.at = "next"]),
         \A b \in B \ chosen' : status[b] = "scheduled" /\ nextRun[b] <= month,
         shared' = shared \cup (B \cap InHand(w)), chosen \subseteq chosen', chosen' \subseteq Broadcast,
         UNCHANGED <<month, status, nextRun, sms, post, editing>>
  PROVE  IInv'
  <1> USE MessagingAssumption DEF IInv
  <1> DEFINE e == [Rest EXCEPT !.bs = B, !.at = "next"]
  <1>1. e \in Hand
    BY RestIsHand DEF Hand, At
  <1>2. /\ e.bs = B /\ e.at = "next" /\ e.b = None /\ e.u = None /\ e.month = 0
    <2>1. Rest.b = None /\ Rest.u = None /\ Rest.month = 0
      BY DEF Rest
    <2> QED
      BY <2>1, RestIsHand DEF Hand
  <1>3. Set(w, e)
    OBVIOUS
  <1> HIDE DEF e
  <1>4. exec' \in [Worker -> Hand] /\ exec'[w] = e /\ \A v \in Worker \ {w} : exec'[v] = exec[v]
    BY <1>1, <1>3, HandSet
  <1>5. month \in Nat /\ month' = month
    BY DEF Typed, Month
  <1>6. HandFits(w)'
    BY <1>2, <1>4, <1>5 DEF HandFits
  <1>7. shared' \subseteq Broadcast
    BY DEF Typed
  <1>8. Typed'
    BY <1>4, <1>6, <1>7, OneHand DEF Typed, sms, post
  <1>9. exec[w].bs = {} /\ exec[w].at = "idle" /\ exec[w].b = None
    BY DEF Rest
  <1>10. \A u \in User \ raced' : SmsOK(u)'
    BY <1>2, <1>4, <1>9, MailSmsOK
  <1>11. ASSUME NEW b \in Broadcast \ (shared' \cup chosen') PROVE MailOK(b)'
    <2>1. MailOK(b) /\ b \notin shared \cup chosen
      OBVIOUS
    <2>2. \A u \in User : Mailed(<<b, u>>)' = Mailed(<<b, u>>) /\ Mailed(<<b, u>>) \in Int
      BY MailedIsInt DEF Mailed, post
    <2>3. CASE b \notin B
      <3>1. \A v \in Worker : exec'[v].bs = exec[v].bs \/ b \notin exec'[v].bs
        BY <1>2, <1>4, <2>3
      <3>2. \A v \in Worker : exec'[v].b = exec[v].b /\ (exec[v].b = b => exec'[v].left = exec[v].left)
        BY <1>2, <1>4, <1>9
      <3> QED
        BY <1>5, <2>1, <2>2, <3>1, <3>2, MailKept
    <2>4. CASE b \in B
      <3>1. \A v \in Worker \ {w} : b \notin exec[v].bs
        BY <2>4 DEF InHand
      <3>2. \A v \in Worker : b \notin exec[v].bs /\ exec[v].b # b
        <4> TAKE v \in Worker
        <4>1. b \notin exec[v].bs
          BY <1>9, <3>1
        <4> QED
          BY <4>1, Held DEF HandFits
      <3>3. \A v \in Worker : (b \in exec'[v].bs => v = w) /\ exec'[v].b # b
        BY <1>2, <1>4, <3>2
      <3>4. Rounds(b)' = Rounds(b) /\ Top(b)' = Top(b)
        BY DEF Rounds, Top
      <3> QED
        BY <1>5, <2>1, <2>2, <2>4, <3>2, <3>3, <3>4 DEF MailOK
    <2> QED
      BY <2>3, <2>4
  <1> QED
    BY <1>8, <1>10, <1>11

LEMMA LookStep == ASSUME IInv, NEW w \in Worker, Look(w) PROVE IInv'
  <1>1. Due \in SUBSET Broadcast /\ \A b \in Due : status[b] = "scheduled" /\ nextRun[b] <= month
    BY DEF Due
  <1>2. chosen' = chosen /\ chosen \subseteq Broadcast
    BY DEF Look, IInv, Typed
  <1> QED
    BY <1>1, <1>2, Begun DEF Look

LEMMA ExecuteStep == ASSUME IInv, NEW w \in Worker, Execute(w) PROVE IInv'
  <1>1. PICK b \in Broadcast :
          /\ Set(w, [Rest EXCEPT !.bs = {b}, !.at = "next"])
          /\ shared' = shared \cup ({b} \cap InHand(w)) /\ chosen' = chosen \cup {b}
    BY DEF Execute
  <1>2. chosen' \subseteq Broadcast
    BY <1>1 DEF IInv, Typed
  <1> QED
    BY <1>1, <1>2, Begun DEF Execute

LEMMA LoadStep == ASSUME IInv, NEW w \in Worker, Load(w) PROVE IInv'
  <1> USE MessagingAssumption DEF IInv
  <1>1. exec[w].at = "next" /\ exec[w].b = None /\ exec[w].u = None /\ month \in Nat /\ exec[w].month <= month
    BY Held DEF Load, HandFits
  <1>2. PICK b \in exec[w].bs :
          Set(w, IF status[b] # "sent"
                 THEN [exec[w] EXCEPT !.b = b, !.left = [u \in User |-> Rows[<<b, u>>]], !.at = "user"]
                 ELSE IF exec[w].bs = {b} THEN Rest ELSE [exec[w] EXCEPT !.bs = @ \ {b}])
    BY DEF Load
  <1>3. b \in Broadcast
    BY Held
  <1>4. UNCHANGED <<month, status, nextRun, shared, chosen, sms, post, editing>>
    BY DEF Load, casts
  <1>5. CASE status[b] # "sent"
    <2> DEFINE all == [u \in User |-> Rows[<<b, u>>]]
               e == [exec[w] EXCEPT !.b = b, !.left = all, !.at = "user"]
    <2>1. all \in [User -> Nat] /\ \A u \in User : all[u] = Rows[<<b, u>>]
      BY <1>3
    <2> HIDE DEF all
    <2>2. e \in Hand
      <3>1. ASSUME NEW h \in Hand, NEW l \in [User -> Nat]
            PROVE  [h EXCEPT !.b = b, !.left = l, !.at = "user"] \in Hand
        BY <1>3 DEF Hand, At
      <3> QED
        BY <2>1, <3>1, Held
    <2>3. /\ e.bs = exec[w].bs /\ e.b = b /\ e.left = all /\ e.u = None /\ e.at = "user"
          /\ e.month = exec[w].month
      BY <1>1, Held DEF Hand
    <2>4. Set(w, e)
      BY <1>2, <1>5 DEF all
    <2> HIDE DEF e
    <2>5. exec' \in [Worker -> Hand] /\ exec'[w] = e /\ \A v \in Worker \ {w} : exec'[v] = exec[v]
      BY <2>2, <2>4, HandSet
    <2>6. HandFits(w)'
      BY <1>1, <1>4, <2>3, <2>5 DEF HandFits
    <2>7. Typed'
      BY <1>4, <2>5, <2>6, OneHand DEF Typed, sms, post
    <2>8. \A u \in User \ raced' : SmsOK(u)'
      BY <1>1, <1>4, <2>3, <2>5, MailSmsOK
    <2>9. ASSUME NEW c \in Broadcast \ (shared' \cup chosen') PROVE MailOK(c)'
      <3>1. MailOK(c)
        BY <1>4
      <3>2. \A u \in User : Mailed(<<c, u>>)' = Mailed(<<c, u>>) /\ Mailed(<<c, u>>) \in Int
        BY <1>4, MailedIsInt DEF Mailed, post
      <3>3. CASE c # b
        <4>1. \A v \in Worker : /\ exec'[v].bs = exec[v].bs
                                /\ exec'[v].b = c <=> exec[v].b = c
                                /\ exec[v].b = c => exec'[v].left = exec[v].left
          BY <1>1, <2>3, <2>5, <3>3
        <4> QED
          BY <1>1, <1>4, <3>1, <3>2, <4>1, MailKept
      <3>4. CASE c = b
        <4>1. \A v \in Worker : exec[v].b = b => b \in exec[v].bs
          BY Held, <1>3 DEF HandFits
        <4>2. \A v \in Worker : b \in exec[v].bs => v = w
          BY <3>1, <3>4 DEF MailOK
        <4>3. \A v \in Worker : exec[v].b # b
          BY <1>1, <1>3, <4>1, <4>2
        <4>4. \A v \in Worker : exec'[v].b = b => v = w
          BY <2>5, <4>3
        <4>5. Rounds(b)' = Rounds(b) /\ Top(b)' = Top(b) /\ Rounds(b) \in Nat
          BY <1>3, <1>4 DEF Rounds, Top, Typed
        <4>6. \A u \in User : Rows[<<b, u>>] \in Nat
          BY <1>3
        <4>7. ASSUME NEW u \in User PROVE Mailed(<<b, u>>) + Rows[<<b, u>>] <= Rows[<<b, u>>] * (Rounds(b) + 1)
          <5>1. Mailed(<<b, u>>) <= Rows[<<b, u>>] * Rounds(b)
            BY <3>1, <3>4, <4>3 DEF MailOK
          <5>2. Mailed(<<b, u>>) \in Int /\ Rows[<<b, u>>] * Rounds(b) \in Nat
            BY <3>2, <3>4, <4>5, <4>6
          <5>3. Rows[<<b, u>>] * (Rounds(b) + 1) = Rows[<<b, u>>] * Rounds(b) + Rows[<<b, u>>]
            BY <4>5, <4>6
          <5> QED
            BY <4>6, <5>1, <5>2, <5>3
        <4>8. \A v \in Worker : exec'[v].bs = exec[v].bs
          BY <2>3, <2>5
        <4>9. \A v \in Worker, u \in User :
                exec'[v].b = b => Mailed(<<b, u>>)' + exec'[v].left[u] <= Rows[<<b, u>>] * (Rounds(b)' + 1)
          BY <2>1, <2>3, <2>5, <3>2, <3>4, <4>4, <4>5, <4>7
        <4>10. exec'[w].b = b
          BY <2>3, <2>5
        <4> QED
          BY <1>4, <3>1, <3>2, <3>4, <4>5, <4>8, <4>9, <4>10 DEF MailOK
      <3> QED
        BY <3>3, <3>4
    <2> QED
      BY <2>7, <2>8, <2>9
  <1>6. CASE status[b] = "sent"
    <2>1. PICK e \in Hand :
            /\ Set(w, e) /\ e.bs = exec[w].bs \ {b} /\ e.b = None /\ e.u = None /\ e.month <= month
            /\ e.at = IF e.bs = {} THEN "idle" ELSE "next"
      <3>1. CASE exec[w].bs = {b}
        <4>1. /\ Rest \in Hand /\ Rest.bs = {} /\ Rest.b = None /\ Rest.u = None /\ Rest.month = 0
              /\ Rest.at = "idle"
          BY RestIsHand DEF Rest
        <4> QED
          BY <1>1, <1>2, <1>6, <3>1, <4>1
      <3>2. CASE exec[w].bs # {b}
        <4> DEFINE e == [exec[w] EXCEPT !.bs = @ \ {b}]
        <4>1. e \in Hand
          BY Held DEF Hand
        <4>2. /\ e.bs = exec[w].bs \ {b} /\ e.b = None /\ e.u = None /\ e.month <= month /\ e.at = "next"
          BY <1>1, Held DEF Hand
        <4>3. Set(w, e)
          BY <1>2, <1>6, <3>2
        <4> HIDE DEF e
        <4> QED
          BY <3>2, <4>1, <4>2, <4>3
      <3> QED
        BY <3>1, <3>2
    <2>2. exec' \in [Worker -> Hand] /\ exec'[w] = e /\ \A v \in Worker \ {w} : exec'[v] = exec[v]
      BY <2>1, HandSet
    <2>3. HandFits(w)'
      BY <1>4, <2>1, <2>2 DEF HandFits
    <2>4. Typed'
      BY <1>4, <2>2, <2>3, OneHand DEF Typed, sms, post
    <2>5. \A u \in User \ raced' : SmsOK(u)'
      BY <1>1, <1>4, <2>1, <2>2, MailSmsOK
    <2>6. ASSUME NEW c \in Broadcast \ (shared' \cup chosen') PROVE MailOK(c)'
      <3>1. MailOK(c)
        BY <1>4
      <3>2. \A u \in User : Mailed(<<c, u>>)' = Mailed(<<c, u>>) /\ Mailed(<<c, u>>) \in Int
        BY <1>4, MailedIsInt DEF Mailed, post
      <3>3. \A v \in Worker : /\ c \in exec'[v].bs => c \in exec[v].bs
                              /\ exec'[v].b = c <=> exec[v].b = c
                              /\ exec[v].b = c => exec'[v].left = exec[v].left
        BY <1>1, <2>1, <2>2
      <3> QED
        BY <1>1, <1>4, <3>1, <3>2, <3>3, MailKept
    <2> QED
      BY <2>4, <2>5, <2>6
  <1> QED
    BY <1>5, <1>6

LEMMA MailStep == ASSUME IInv, NEW w \in Worker, Mail(w) PROVE IInv'
  <1> USE MessagingAssumption DEF IInv
  <1>1. /\ exec[w].at = "user" /\ exec[w].b \in exec[w].bs /\ exec[w].u = None
        /\ month \in Nat /\ exec[w].month <= month
    BY Held DEF Mail, HandFits
  <1>2. PICK b \in Broadcast : b = exec[w].b
    BY <1>1, Held
  <1>3. PICK u \in User :
          /\ exec[w].left[u] > 0
          /\ Set(w, [exec[w] EXCEPT !.left[u] = @ - 1, !.at = IF u \in HasPhone THEN "sms" ELSE "user",
                                    !.u = IF u \in HasPhone THEN u ELSE None])
          /\ jobs' = IF u \in HasEmail THEN [jobs EXCEPT ![<<<<b, u>>, 0>>] = @ + 1] ELSE jobs
    BY <1>2 DEF Mail
  <1>4. UNCHANGED <<month, casts, sms, hands, sending, accepted, got, lost, unheard, editing>>
    BY DEF Mail
  <1>5. PICK l \in [User -> Nat] : l = [exec[w].left EXCEPT ![u] = @ - 1]
    <2>1. ASSUME NEW f \in [User -> Nat], f[u] > 0 PROVE [f EXCEPT ![u] = @ - 1] \in [User -> Nat]
      BY <2>1
    <2>2. exec[w].left \in [User -> Nat]
      BY Held
    <2> QED
      BY <1>3, <2>1, <2>2
  <1>6. l[u] + 1 = exec[w].left[u] /\ \A v \in User \ {u} : l[v] = exec[w].left[v]
    BY <1>3, <1>5, Held
  <1>7. PICK at \in {"sms", "user"}, p \in User \cup {None} :
          /\ at = IF u \in HasPhone THEN "sms" ELSE "user"
          /\ p = IF u \in HasPhone THEN u ELSE None
    OBVIOUS
  <1>8. PICK e \in Hand :
          /\ Set(w, e) /\ e.bs = exec[w].bs /\ e.b = b /\ e.left = l /\ e.at = at /\ e.u = p
          /\ e.month = exec[w].month
    <2> DEFINE e == [exec[w] EXCEPT !.left = l, !.at = at, !.u = p]
    <2>1. e \in Hand
      <3>1. ASSUME NEW h \in Hand PROVE [h EXCEPT !.left = l, !.at = at, !.u = p] \in Hand
        BY DEF Hand, At
      <3> QED
        BY <3>1, Held
    <2>2. /\ e.bs = exec[w].bs /\ e.b = b /\ e.left = l /\ e.at = at /\ e.u = p /\ e.month = exec[w].month
      BY <1>2, Held DEF Hand
    <2>3. Set(w, e)
      BY <1>3, <1>5, <1>7
    <2> HIDE DEF e
    <2> QED
      BY <2>1, <2>2, <2>3
  <1>9. exec' \in [Worker -> Hand] /\ exec'[w] = e /\ \A v \in Worker \ {w} : exec'[v] = exec[v]
    BY <1>8, HandSet
  <1>10. HandFits(w)'
    BY <1>1, <1>2, <1>4, <1>7, <1>8, <1>9 DEF HandFits
  <1>11. jobs' \in [Job -> Nat] /\ jobs'[<<<<b, u>>, 0>>] <= jobs[<<<<b, u>>, 0>>] + 1
         /\ \A j \in Job \ {<<<<b, u>>, 0>>} : jobs'[j] = jobs[j]
    <2>1. PICK j \in Job : j = <<<<b, u>>, 0>>
      BY Jobs
    <2>2. jobs \in [Job -> Nat] /\ (jobs' = [jobs EXCEPT ![j] = @ + 1] \/ jobs' = jobs)
      BY <1>3, <2>1 DEF Typed
    <2>3. jobs' \in [Job -> Nat] /\ jobs'[j] <= jobs[j] + 1 /\ \A i \in Job \ {j} : jobs'[i] = jobs[i]
      BY <2>2
    <2> QED
      BY <2>1, <2>3
  <1>12. Typed'
    BY <1>4, <1>9, <1>10, <1>11, OneHand DEF Typed, casts, sms
  <1>13. \A v \in User \ raced' : SmsOK(v)'
    BY <1>1, <1>4, <1>7, <1>8, <1>9, MailSmsOK
  <1>14. ASSUME NEW c \in Broadcast \ (shared' \cup chosen') PROVE MailOK(c)'
    <2>1. MailOK(c)
      BY <1>4 DEF casts
    <2>2. \A x \in User : /\ Mailed(<<c, x>>) \in Int /\ Mailed(<<c, x>>)' \in Int
                         /\ Mailed(<<c, x>>)' <= Mailed(<<c, x>>) + (IF c = b /\ x = u THEN 1 ELSE 0)
      <3> TAKE x \in User
      <3>1. /\ <<c, x>> \in Key /\ <<<<c, x>>, 0>> \in Job /\ <<<<c, x>>, 1>> \in Job
            /\ c = b /\ x = u <=> <<<<c, x>>, 0>> = <<<<b, u>>, 0>>
            /\ <<<<c, x>>, 1>> # <<<<b, u>>, 0>>
        BY Jobs
      <3>2. sending' = sending /\ got' = got /\ unheard' = unheard
        BY <1>4
      <3>3. /\ jobs[<<<<c, x>>, 0>>] \in Nat /\ jobs'[<<<<c, x>>, 0>>] \in Nat
            /\ jobs[<<<<c, x>>, 1>>] \in Nat /\ got[<<c, x>>] \in Nat /\ unheard[<<c, x>>] \in Nat
            /\ sending[<<<<c, x>>, 0>>] \in Nat /\ sending[<<<<c, x>>, 1>>] \in Nat
        BY <1>11, <3>1 DEF Typed
      <3>4. /\ jobs'[<<<<c, x>>, 0>>] <= jobs[<<<<c, x>>, 0>>] + (IF c = b /\ x = u THEN 1 ELSE 0)
            /\ jobs'[<<<<c, x>>, 1>>] = jobs[<<<<c, x>>, 1>>]
        <4>1. CASE c = b /\ x = u
          BY <1>11, <3>1, <4>1
        <4>2. CASE ~(c = b /\ x = u)
          BY <1>11, <3>1, <3>3, <4>2
        <4> QED
          BY <4>1, <4>2
      <3> QED
        BY <3>2, <3>3, <3>4 DEF Mailed
    <2>3. status' = status /\ nextRun' = nextRun /\ month' = month
      BY <1>4 DEF casts
    <2>4. CASE c # b
      <3>1. \A v \in Worker : /\ exec'[v].bs = exec[v].bs
                              /\ exec'[v].b = c <=> exec[v].b = c
                              /\ exec[v].b = c => exec'[v].left = exec[v].left
        BY <1>2, <1>8, <1>9, <2>4
      <3>2. \A x \in User : Mailed(<<c, x>>)' \in Int /\ Mailed(<<c, x>>)' <= Mailed(<<c, x>>)
        BY <2>2, <2>4
      <3> QED
        BY <1>1, <2>1, <2>3, <3>1, <3>2, MailKept
    <2>5. CASE c = b
      <3>1. \A v \in Worker : exec[v].b = b => v = w
        <4>1. \A v \in Worker : exec[v].b = b => b \in exec[v].bs
          BY Held, <1>2 DEF HandFits
        <4> QED
          BY <1>1, <1>2, <2>1, <2>5, <4>1 DEF MailOK
      <3>2. status[b] = "scheduled" /\ nextRun[b] <= month /\ nextRun[b] \in Nat
        BY <1>1, <1>2, <2>1, <2>5 DEF MailOK, Typed
      <3>3. Rounds(b)' = Rounds(b) /\ Top(b)' = Top(b)
        BY <2>3 DEF Rounds, Top
      <3>4. Rounds(b) \in Nat /\ Top(b) \in Nat /\ Rounds(b) + 1 <= Top(b)
        BY <1>1, <3>2 DEF Rounds, Top
      <3>5. ASSUME NEW x \in User
            PROVE  /\ Mailed(<<b, x>>)' + l[x] <= Rows[<<b, x>>] * (Rounds(b) + 1)
                   /\ Mailed(<<b, x>>)' <= Rows[<<b, x>>] * Top(b)
        <4>1. Mailed(<<b, x>>) + exec[w].left[x] <= Rows[<<b, x>>] * (Rounds(b) + 1)
          BY <1>2, <2>1, <2>5 DEF MailOK
        <4>2. Rows[<<b, x>>] \in Nat /\ l[x] \in Nat /\ exec[w].left[x] \in Nat
          BY Held
        <4>3. Mailed(<<b, x>>)' + l[x] <= Mailed(<<b, x>>) + exec[w].left[x]
          <5>1. CASE x = u
            BY <1>6, <2>2, <2>5, <4>2, <5>1
          <5>2. CASE x # u
            BY <1>6, <2>2, <2>5, <4>2, <5>2
          <5> QED
            BY <5>1, <5>2
        <4>4. Rows[<<b, x>>] * (Rounds(b) + 1) <= Rows[<<b, x>>] * Top(b)
          <5>1. Rounds(b) + 1 \in Nat
            BY <3>4
          <5> QED
            BY <3>4, <4>2, <5>1, Product
        <4>5. Rows[<<b, x>>] * (Rounds(b) + 1) \in Nat /\ Rows[<<b, x>>] * Top(b) \in Nat
          BY <3>4, <4>2
        <4> QED
          BY <2>2, <2>5, <4>1, <4>2, <4>3, <4>4, <4>5
      <3>6. \A v \in Worker : exec'[v].bs = exec[v].bs /\ (exec'[v].b = b <=> v = w)
        BY <1>8, <1>9, <3>1
      <3>7. exec'[w].left = l
        BY <1>8, <1>9
      <3> QED
        BY <2>1, <2>3, <2>5, <3>3, <3>5, <3>6, <3>7 DEF MailOK
    <2> QED
      BY <2>4, <2>5
  <1> QED
    BY <1>12, <1>13, <1>14

\* An execution is done with a broadcast, one way or the other.
LEMMA LeftOK ==
  ASSUME IInv, NEW w \in Worker, exec[w].at = "user", Leave(w),
         NEW b \in Broadcast, b = exec[w].b,
         UNCHANGED <<month, sms, post, editing>>,
         shared \subseteq shared', shared' \subseteq Broadcast, chosen' = chosen,
         status' \in [Broadcast -> {"scheduled", "sent"}], nextRun' \in [Broadcast -> Nat],
         \A c \in Broadcast \ {b} : status'[c] = status[c] /\ nextRun'[c] = nextRun[c],
         b \notin shared' \cup chosen' => \A u \in User : Mailed(<<b, u>>) <= Rows[<<b, u>>] * Rounds(b)'
  PROVE  IInv'
  <1> USE MessagingAssumption DEF IInv
  <1>1. exec[w].b \in exec[w].bs /\ exec[w].b \in Broadcast /\ month \in Nat /\ month' = month
    BY Held DEF HandFits
  <1>2. b = exec[w].b
    OBVIOUS
  <1>3. /\ exec' \in [Worker -> Hand] /\ \A v \in Worker \ {w} : exec'[v] = exec[v]
        /\ exec'[w].bs = exec[w].bs \ {b} /\ exec'[w].b = None /\ exec'[w].at \in {"idle", "next"}
        /\ HandFits(w)'
    BY <1>1, <1>2, Left
  <1>4. Typed'
    BY <1>1, <1>3, OneHand DEF Typed, sms, post
  <1>5. \A u \in User \ raced' : SmsOK(u)'
    BY <1>3, MailSmsOK
  <1>6. ASSUME NEW c \in Broadcast \ (shared' \cup chosen') PROVE MailOK(c)'
    <2>1. MailOK(c)
      OBVIOUS
    <2>2. \A u \in User : Mailed(<<c, u>>)' = Mailed(<<c, u>>) /\ Mailed(<<c, u>>) \in Int
      BY MailedIsInt DEF Mailed, post
    <2>3. CASE c # b
      <3>1. \A v \in Worker : /\ c \in exec'[v].bs => c \in exec[v].bs
                              /\ exec'[v].b = c <=> exec[v].b = c
                              /\ exec[v].b = c => exec'[v].left = exec[v].left
        BY <1>2, <1>3, <2>3
      <3>2. status'[c] = status[c] /\ nextRun'[c] = nextRun[c]
        BY <1>2, <2>3
      <3> QED
        BY <1>1, <2>1, <2>2, <3>1, <3>2, MailKept
    <2>4. CASE c = b
      <3>1. \A v \in Worker : b \in exec[v].bs => v = w
        BY <1>1, <1>2, <2>1, <2>4 DEF MailOK
      <3>2. \A v \in Worker : b \notin exec'[v].bs
        BY <1>3, <3>1
      <3>3. \A v \in Worker : exec'[v].b # b
        <4>1. \A v \in Worker : exec[v].b = b => b \in exec[v].bs
          BY Held DEF HandFits
        <4> QED
          BY <1>3, <3>1, <4>1
      <3>4. \A u \in User : Mailed(<<b, u>>) <= Rows[<<b, u>>] * Rounds(b)'
        BY <2>4
      <3>5. Top(b)' = Top(b) /\ \A u \in User : Mailed(<<b, u>>) <= Rows[<<b, u>>] * Top(b)
        BY <1>1, <2>1, <2>4 DEF Top, MailOK
      <3> QED
        BY <2>2, <2>4, <3>2, <3>3, <3>4, <3>5 DEF MailOK
    <2> QED
      BY <2>3, <2>4
  <1> QED
    BY <1>4, <1>5, <1>6

LEMMA MailFailsStep == ASSUME IInv, NEW w \in Worker, MailFails(w) PROVE IInv'
  <1>1. PICK b \in Broadcast : b = exec[w].b
    BY Held DEF MailFails, IInv, HandFits
  <1>2. b \in shared' /\ shared \subseteq shared' /\ shared' \subseteq Broadcast
    BY <1>1 DEF MailFails, IInv, Typed
  <1> QED
    BY <1>1, <1>2, LeftOK DEF MailFails, IInv, Typed

LEMMA FinishStep == ASSUME IInv, NEW w \in Worker, Finish(w) PROVE IInv'
  <1> USE MessagingAssumption DEF IInv
  <1>1. exec[w].at = "user" /\ exec[w].b \in exec[w].bs /\ exec[w].b \in Broadcast /\ month \in Nat
    BY Held DEF Finish, HandFits
  <1>2. PICK b \in Broadcast : b = exec[w].b
    BY <1>1
  <1>3. /\ status' = [status EXCEPT ![b] = IF b \in Recurring THEN "scheduled" ELSE "sent"]
        /\ nextRun' = [nextRun EXCEPT ![b] = IF b \in Recurring THEN month + 1 ELSE @]
    BY <1>2 DEF Finish
  <1>4. /\ status' \in [Broadcast -> {"scheduled", "sent"}] /\ nextRun' \in [Broadcast -> Nat]
        /\ \A c \in Broadcast \ {b} : status'[c] = status[c] /\ nextRun'[c] = nextRun[c]
        /\ status'[b] = IF b \in Recurring THEN "scheduled" ELSE "sent"
        /\ b \in Recurring => nextRun'[b] = month + 1
    BY <1>1, <1>3 DEF Typed
  <1>5. ASSUME b \notin shared \cup chosen, NEW u \in User
        PROVE  Mailed(<<b, u>>) <= Rows[<<b, u>>] * Rounds(b)'
    <2>1. MailOK(b)
      BY <1>5
    <2>2. Mailed(<<b, u>>) + exec[w].left[u] <= Rows[<<b, u>>] * (Rounds(b) + 1)
      BY <1>2, <2>1 DEF MailOK
    <2>3. exec[w].left[u] = 0 /\ Mailed(<<b, u>>) \in Int /\ Rows[<<b, u>>] \in Nat
      BY MailedIsInt DEF Finish
    <2>4. status[b] = "scheduled" /\ nextRun[b] <= month /\ nextRun[b] \in Nat
      BY <1>1, <1>2, <2>1 DEF MailOK, Typed
    <2>5. Rounds(b) + 1 \in Nat /\ Rounds(b)' \in Nat /\ Rounds(b) + 1 <= Rounds(b)'
      BY <1>1, <1>4, <2>4 DEF Rounds
    <2>6. Rows[<<b, u>>] * (Rounds(b) + 1) <= Rows[<<b, u>>] * Rounds(b)'
      BY <2>3, <2>5, Product
    <2>7. Rows[<<b, u>>] * (Rounds(b) + 1) \in Nat /\ Rows[<<b, u>>] * Rounds(b)' \in Nat
      BY <2>3, <2>5
    <2> QED
      BY <2>2, <2>3, <2>6, <2>7
  <1>6. UNCHANGED <<month, shared, chosen, sms, post, editing>> /\ Leave(w)
    BY DEF Finish
  <1>7. shared' \subseteq Broadcast
    BY <1>6 DEF Typed
  <1> QED
    BY <1>1, <1>2, <1>4, <1>5, <1>6, <1>7, LeftOK

-----------------------------------------------------------------------------
(* Steps of the mailers, the process and the clock                           *)

\* A step of the mailers makes no mail that was not heard of.
LEMMA MailerOK ==
  ASSUME IInv, UNCHANGED <<month, casts, sms, exec, editing>>,
         jobs' \in [Job -> Nat], sending' \in [Job -> Nat], accepted' \in [Job -> Nat], hands' \in Int,
         got' \in [Key -> Nat], unheard' \in [Key -> Nat], lost' \subseteq Key,
         \A b \in Broadcast, u \in User : Mailed(<<b, u>>)' <= Mailed(<<b, u>>)
  PROVE  IInv'
  <1> USE MessagingAssumption DEF IInv
  <1>1. Typed'
    BY DEF Typed, HandFits, casts, sms
  <1>2. ASSUME NEW u \in User \ raced' PROVE SmsOK(u)'
    <2>1. SmsOK(u) /\ Saving(u)' = Saving(u) /\ u \in User
      BY DEF sms, Saving
    <2> QED
      BY <2>1, SmsKept DEF sms, Known
  <1>3. ASSUME NEW b \in Broadcast \ (shared' \cup chosen') PROVE MailOK(b)'
    <2>1. MailOK(b) /\ month \in Nat
      BY DEF casts, Typed, Month
    <2>2. \A u \in User : Mailed(<<b, u>>)' \in Int /\ Mailed(<<b, u>>)' <= Mailed(<<b, u>>)
      <3> TAKE u \in User
      <3>1. Mailed(<<b, u>>)' \in Int
        BY Jobs DEF Mailed
      <3> QED
        BY <3>1
    <2> QED
      BY <2>1, <2>2, MailKept DEF casts
  <1> QED
    BY <1>1, <1>2, <1>3

LEMMA MoreLess ==
  ASSUME NEW S, NEW f \in [S -> Nat], NEW j \in S
  PROVE  /\ More(f, j) \in [S -> Nat] /\ More(f, j)[j] = f[j] + 1
         /\ \A i \in S \ {j} : More(f, j)[i] = f[i]
         /\ f[j] > 0 => Less(f, j) \in [S -> Nat] /\ Less(f, j)[j] = f[j] - 1
         /\ \A i \in S \ {j} : Less(f, j)[i] = f[i]
  BY DEF More, Less

\* A job and the key it is of.
LEMMA OfKey ==
  ASSUME NEW j \in Job
  PROVE  /\ j[1] \in Key
         /\ \A b \in Broadcast, u \in User :
              /\ j = <<<<b, u>>, 0>> \/ j = <<<<b, u>>, 1>> <=> j[1] = <<b, u>>
              /\ j = <<<<b, u>>, 0>> => j # <<<<b, u>>, 1>>
  BY DEF Job

\* What a mail is counted by, as numbers.
LEMMA Counts ==
  ASSUME Typed, NEW b \in Broadcast, NEW u \in User
  PROVE  /\ jobs[<<<<b, u>>, 0>>] \in Nat /\ jobs[<<<<b, u>>, 1>>] \in Nat
         /\ sending[<<<<b, u>>, 0>>] \in Nat /\ sending[<<<<b, u>>, 1>>] \in Nat
         /\ accepted[<<<<b, u>>, 0>>] \in Nat /\ accepted[<<<<b, u>>, 1>>] \in Nat
         /\ got[<<b, u>>] \in Nat /\ unheard[<<b, u>>] \in Nat
  BY Jobs DEF Typed

LEMMA MailedSame ==
  ASSUME Typed, UNCHANGED <<jobs, sending, got, unheard>>
  PROVE  \A b \in Broadcast, u \in User : Mailed(<<b, u>>)' <= Mailed(<<b, u>>)
  <1> TAKE b \in Broadcast, u \in User
  <1>1. Mailed(<<b, u>>)' = Mailed(<<b, u>>)
    BY DEF Mailed
  <1> QED
    BY <1>1, MailedIsInt

\* A job goes from hand to hand: what leaves one place comes to another.
LEMMA MailedMoves ==
  ASSUME Typed, NEW j \in Job,
         jobs' \in [Job -> Nat], sending' \in [Job -> Nat], got' \in [Key -> Nat], unheard' \in [Key -> Nat],
         jobs'[j] + sending'[j] + got'[j[1]] + unheard[j[1]] <= jobs[j] + sending[j] + got[j[1]] + unheard'[j[1]],
         \A i \in Job \ {j} : jobs'[i] = jobs[i] /\ sending'[i] = sending[i],
         \A k \in Key \ {j[1]} : got'[k] = got[k] /\ unheard'[k] = unheard[k]
  PROVE  \A b \in Broadcast, u \in User : Mailed(<<b, u>>)' <= Mailed(<<b, u>>)
  <1> TAKE b \in Broadcast, u \in User
  <1>1. PICK k \in Key : k = <<b, u>>
    BY Jobs
  <1>2. PICK x \in Job, y \in Job : x = <<k, 0>> /\ y = <<k, 1>>
    BY <1>1, Jobs
  <1>3. /\ Mailed(<<b, u>>) = got[k] + jobs[x] + jobs[y] + sending[x] + sending[y] - unheard[k]
        /\ Mailed(<<b, u>>)' = got'[k] + jobs'[x] + jobs'[y] + sending'[x] + sending'[y] - unheard'[k]
    BY <1>1, <1>2 DEF Mailed
  <1>4. /\ j = x => y \in Job \ {j} /\ j[1] = k
        /\ j = y => x \in Job \ {j} /\ j[1] = k
        /\ j # x /\ j # y => x \in Job \ {j} /\ y \in Job \ {j} /\ k \in Key \ {j[1]}
    BY <1>1, <1>2, OfKey
  <1>5. /\ got[k] \in Nat /\ unheard[k] \in Nat /\ got'[k] \in Nat /\ unheard'[k] \in Nat
        /\ jobs[x] \in Nat /\ jobs[y] \in Nat /\ jobs'[x] \in Nat /\ jobs'[y] \in Nat
        /\ sending[x] \in Nat /\ sending[y] \in Nat /\ sending'[x] \in Nat /\ sending'[y] \in Nat
    BY DEF Typed
  <1>6. CASE j = x
    <2>1. /\ jobs'[y] = jobs[y] /\ sending'[y] = sending[y]
          /\ jobs'[x] + sending'[x] + got'[k] + unheard[k] <= jobs[x] + sending[x] + got[k] + unheard'[k]
      BY <1>4, <1>6
    <2> QED
      BY <1>3, <1>5, <2>1
  <1>7. CASE j = y
    <2>1. /\ jobs'[x] = jobs[x] /\ sending'[x] = sending[x]
          /\ jobs'[y] + sending'[y] + got'[k] + unheard[k] <= jobs[y] + sending[y] + got[k] + unheard'[k]
      BY <1>4, <1>7
    <2> QED
      BY <1>3, <1>5, <2>1
  <1>8. CASE j # x /\ j # y
    <2>1. /\ jobs'[x] = jobs[x] /\ sending'[x] = sending[x] /\ jobs'[y] = jobs[y] /\ sending'[y] = sending[y]
          /\ got'[k] = got[k] /\ unheard'[k] = unheard[k]
      BY <1>4, <1>8
    <2> QED
      BY <1>3, <1>5, <2>1
  <1> QED
    BY <1>6, <1>7, <1>8

LEMMA MailingStep == ASSUME IInv, NEW j \in Job, Take(j) \/ Accepted(j) \/ Completed(j) PROVE IInv'
  <1> USE MessagingAssumption DEF IInv
  <1>0. Typed /\ hands \in Int /\ j[1] \in Key
    BY OfKey DEF Typed
  <1>a. /\ jobs \in [Job -> Nat] /\ sending \in [Job -> Nat] /\ accepted \in [Job -> Nat]
        /\ got \in [Key -> Nat] /\ unheard \in [Key -> Nat] /\ lost \subseteq Key
        /\ got[j[1]] \in Nat /\ unheard[j[1]] \in Nat /\ jobs[j] \in Nat /\ sending[j] \in Nat
    BY <1>0 DEF Typed
  <1>1. CASE Take(j)
    <2>1. /\ jobs' = Less(jobs, j) /\ sending' = More(sending, j) /\ jobs[j] > 0 /\ hands' = hands + 1
          /\ UNCHANGED <<got, unheard, accepted, lost>>
      BY <1>1 DEF Take
    <2>2. jobs' \in [Job -> Nat] /\ jobs'[j] = jobs[j] - 1 /\ \A i \in Job \ {j} : jobs'[i] = jobs[i]
      BY <1>a, <2>1, MoreLess
    <2>3. sending' \in [Job -> Nat] /\ sending'[j] = sending[j] + 1 /\ \A i \in Job \ {j} : sending'[i] = sending[i]
      BY <1>a, <2>1, MoreLess
    <2>4. got' \in [Key -> Nat] /\ unheard' \in [Key -> Nat]
      BY <1>a, <2>1
    <2>5. \A b \in Broadcast, u \in User : Mailed(<<b, u>>)' <= Mailed(<<b, u>>)
      <3>1. jobs'[j] + sending'[j] + got'[j[1]] + unheard[j[1]] <= jobs[j] + sending[j] + got[j[1]] + unheard'[j[1]]
        BY <1>0, <1>a, <2>1, <2>2, <2>3, <2>4
      <3>2. \A i \in Job \ {j} : jobs'[i] = jobs[i] /\ sending'[i] = sending[i]
        BY <1>0, <1>a, <2>1, <2>2, <2>3, <2>4
      <3>3. \A k \in Key \ {j[1]} : got'[k] = got[k] /\ unheard'[k] = unheard[k]
        BY <1>0, <1>a, <2>1, <2>2, <2>3, <2>4
      <3> QED
        BY <1>0, <1>a, <2>1, <2>2, <2>3, <2>4, <3>1, <3>2, <3>3, MailedMoves
    <2> QED
      BY <1>0, <1>1, <1>a, <2>1, <2>2, <2>3, <2>5, MailerOK DEF Take
  <1>2. CASE Accepted(j)
    <2>1. /\ sending' = Less(sending, j) /\ accepted' = More(accepted, j) /\ sending[j] > 0
          /\ got' = More(got, j[1]) /\ UNCHANGED <<unheard, jobs, lost, hands>>
      BY <1>2 DEF Accepted
    <2>2. sending' \in [Job -> Nat] /\ sending'[j] = sending[j] - 1
          /\ \A i \in Job \ {j} : sending'[i] = sending[i]
      BY <1>a, <2>1, MoreLess
    <2>3. got' \in [Key -> Nat] /\ got'[j[1]] = got[j[1]] + 1 /\ \A k \in Key \ {j[1]} : got'[k] = got[k]
      BY <1>0, <1>a, <2>1, MoreLess
    <2>4. accepted' \in [Job -> Nat]
      BY <1>a, <2>1, MoreLess
    <2>5. jobs' \in [Job -> Nat] /\ unheard' \in [Key -> Nat]
      BY <1>a, <2>1
    <2>6. \A b \in Broadcast, u \in User : Mailed(<<b, u>>)' <= Mailed(<<b, u>>)
      <3>1. jobs'[j] + sending'[j] + got'[j[1]] + unheard[j[1]] <= jobs[j] + sending[j] + got[j[1]] + unheard'[j[1]]
        BY <1>0, <1>a, <2>1, <2>2, <2>3, <2>5
      <3>2. \A i \in Job \ {j} : jobs'[i] = jobs[i] /\ sending'[i] = sending[i]
        BY <1>0, <1>a, <2>1, <2>2, <2>3, <2>5
      <3>3. \A k \in Key \ {j[1]} : got'[k] = got[k] /\ unheard'[k] = unheard[k]
        BY <1>0, <1>a, <2>1, <2>2, <2>3, <2>5
      <3> QED
        BY <1>0, <1>a, <2>1, <2>2, <2>3, <2>5, <3>1, <3>2, <3>3, MailedMoves
    <2> QED
      BY <1>0, <1>2, <1>a, <2>1, <2>2, <2>3, <2>4, <2>6, MailerOK DEF Accepted
  <1>3. CASE Completed(j)
    <2>1. /\ accepted' = Less(accepted, j) /\ accepted[j] > 0 /\ hands' = hands - 1
          /\ UNCHANGED <<jobs, sending, got, unheard, lost>>
      BY <1>3 DEF Completed
    <2>2. accepted' \in [Job -> Nat]
      BY <1>a, <2>1, MoreLess
    <2>3. \A b \in Broadcast, u \in User : Mailed(<<b, u>>)' <= Mailed(<<b, u>>)
      BY <1>0, <2>1, MailedSame
    <2> QED
      BY <1>0, <1>3, <1>a, <2>1, <2>2, <2>3, MailerOK DEF Completed
  <1> QED
    BY <1>1, <1>2, <1>3

LEMMA MailingFailsStep == ASSUME IInv, NEW j \in Job, Refused(j) \/ ConnectionDrops(j) PROVE IInv'
  <1> USE MessagingAssumption DEF IInv
  <1>0. Typed /\ hands \in Int /\ j[1] \in Key
    BY OfKey DEF Typed
  <1>a. /\ jobs \in [Job -> Nat] /\ sending \in [Job -> Nat] /\ accepted \in [Job -> Nat]
        /\ got \in [Key -> Nat] /\ unheard \in [Key -> Nat] /\ lost \subseteq Key
        /\ got[j[1]] \in Nat /\ unheard[j[1]] \in Nat /\ jobs[j] \in Nat /\ sending[j] \in Nat
    BY <1>0 DEF Typed
  <1>1. CASE Refused(j)
    <2>1. /\ sending' = Less(sending, j) /\ sending[j] > 0 /\ hands' = hands - 1 /\ lost' = lost \cup {j[1]}
          /\ UNCHANGED <<jobs, accepted, got, unheard>>
      BY <1>1 DEF Refused
    <2>2. sending' \in [Job -> Nat] /\ sending'[j] = sending[j] - 1
          /\ \A i \in Job \ {j} : sending'[i] = sending[i]
      BY <1>a, <2>1, MoreLess
    <2>3. jobs' \in [Job -> Nat] /\ got' \in [Key -> Nat] /\ unheard' \in [Key -> Nat]
      BY <1>a, <2>1
    <2>4. \A b \in Broadcast, u \in User : Mailed(<<b, u>>)' <= Mailed(<<b, u>>)
      <3>1. jobs'[j] + sending'[j] + got'[j[1]] + unheard[j[1]] <= jobs[j] + sending[j] + got[j[1]] + unheard'[j[1]]
        BY <1>0, <1>a, <2>1, <2>2, <2>3
      <3>2. \A i \in Job \ {j} : jobs'[i] = jobs[i] /\ sending'[i] = sending[i]
        BY <1>0, <1>a, <2>1, <2>2, <2>3
      <3>3. \A k \in Key \ {j[1]} : got'[k] = got[k] /\ unheard'[k] = unheard[k]
        BY <1>0, <1>a, <2>1, <2>2, <2>3
      <3> QED
        BY <1>0, <1>a, <2>1, <2>2, <2>3, <3>1, <3>2, <3>3, MailedMoves
    <2> QED
      BY <1>0, <1>1, <1>a, <2>1, <2>2, <2>4, MailerOK DEF Refused
  <1>2. CASE ConnectionDrops(j) /\ UNCHANGED <<sending, accepted, unheard>>
    <2>1. UNCHANGED <<jobs, hands, got, lost>>
      BY <1>2 DEF ConnectionDrops
    <2>2. \A b \in Broadcast, u \in User : Mailed(<<b, u>>)' <= Mailed(<<b, u>>)
      BY <1>0, <1>2, <2>1, MailedSame
    <2> QED
      BY <1>0, <1>2, <1>a, <2>1, <2>2, MailerOK DEF ConnectionDrops
  <1>3. CASE /\ ConnectionDrops(j) /\ accepted[j] > 0 /\ accepted' = Less(accepted, j)
             /\ sending' = More(sending, j) /\ unheard' = More(unheard, j[1])
    <2>1. UNCHANGED <<jobs, hands, got, lost>>
      BY <1>3 DEF ConnectionDrops
    <2>2. sending' \in [Job -> Nat] /\ sending'[j] = sending[j] + 1 /\ \A i \in Job \ {j} : sending'[i] = sending[i]
      BY <1>3, <1>a, MoreLess
    <2>3. unheard' \in [Key -> Nat] /\ unheard'[j[1]] = unheard[j[1]] + 1
          /\ \A k \in Key \ {j[1]} : unheard'[k] = unheard[k]
      BY <1>3, <1>0, <1>a, MoreLess
    <2>4. accepted' \in [Job -> Nat]
      BY <1>3, <1>a, MoreLess
    <2>5. jobs' \in [Job -> Nat] /\ got' \in [Key -> Nat]
      BY <1>a, <2>1
    <2>6. \A b \in Broadcast, u \in User : Mailed(<<b, u>>)' <= Mailed(<<b, u>>)
      <3>1. jobs'[j] + sending'[j] + got'[j[1]] + unheard[j[1]] <= jobs[j] + sending[j] + got[j[1]] + unheard'[j[1]]
        BY <1>0, <1>a, <2>1, <2>2, <2>3, <2>5
      <3>2. \A i \in Job \ {j} : jobs'[i] = jobs[i] /\ sending'[i] = sending[i]
        BY <1>0, <1>a, <2>1, <2>2, <2>3, <2>5
      <3>3. \A k \in Key \ {j[1]} : got'[k] = got[k] /\ unheard'[k] = unheard[k]
        BY <1>0, <1>a, <2>1, <2>2, <2>3, <2>5
      <3> QED
        BY <1>0, <1>a, <2>1, <2>2, <2>3, <2>5, <3>1, <3>2, <3>3, MailedMoves
    <2> QED
      BY <1>0, <1>3, <1>a, <2>1, <2>2, <2>3, <2>4, <2>6, MailerOK DEF ConnectionDrops
  <1> QED
    BY <1>1, <1>2, <1>3 DEF ConnectionDrops

\* The process ends: what was posted of an SMS and not counted is written down.
LEMMA CrashSms ==
  ASSUME IInv, Crash
  PROVE  /\ uncounted' \in [Month -> [User -> Nat]]
         /\ \A u \in User \ raced : SmsOK(u)'
  <1> USE MessagingAssumption DEF IInv
  <1>0. \A w \in Worker : exec'[w].u = None
    BY DEF Crash, Rest
  <1>1. ASSUME NEW m \in Month, NEW u \in User
        PROVE  Cardinality({w \in Worker : Missed(w, m, u)}) \in Nat
    <2>1. IsFiniteSet({w \in Worker : Missed(w, m, u)})
      BY FS_Subset
    <2> QED
      BY <2>1, FS_CardinalityType
  <1>2. /\ uncounted' \in [Month -> [User -> Nat]] /\ texted' = texted
        /\ \A m \in Month, u \in User :
             uncounted'[m][u] = uncounted[m][u] + Cardinality({w \in Worker : Missed(w, m, u)})
    BY <1>1 DEF Crash, Typed
  <1>3. ASSUME NEW m \in Month, NEW u \in User
        PROVE  Known(m, u)' = Known(m, u) - Cardinality({w \in Worker : Missed(w, m, u)})
    <2>1. PICK n \in Nat : n = Cardinality({w \in Worker : Missed(w, m, u)})
      BY <1>1
    <2>2. texted[m][u] \in Nat /\ uncounted[m][u] \in Nat
      BY DEF Typed
    <2>3. uncounted'[m][u] = uncounted[m][u] + n /\ texted'[m][u] = texted[m][u]
      BY <1>2, <2>1
    <2>4. Known(m, u)' = Known(m, u) - n
      BY <2>2, <2>3 DEF Known
    <2> QED
      BY <2>1, <2>4
  <1>4. ASSUME NEW u \in User \ raced PROVE SmsOK(u)'
    <2>1. SmsOK(u) /\ Saving(u)' = {} /\ editing'.u # u
      BY <1>0 DEF Saving, Crash, Typed
    <2>2. /\ count' = count /\ reset' = reset /\ reset[u] \in Month /\ count[u] \in Nat /\ Limit[u] \in Nat
          /\ \A m \in Month : Known(m, u) \in Int
      BY OfUser DEF Crash
    <2>3. ASSUME NEW m \in Month PROVE Known(m, u)' \in Int /\ Known(m, u)' <= Known(m, u)
      <3>1. PICK n \in Nat : n = Cardinality({w \in Worker : Missed(w, m, u)})
        BY <1>1
      <3>2. Known(m, u)' = Known(m, u) - n
        BY <1>3, <3>1
      <3> QED
        BY <2>2, <3>2
    <2>4. ASSUME Limit[u] > 0
          PROVE  Known(reset[u], u)' <= count[u]
      <3>1. PICK r \in Month : r = reset[u]
        BY <2>2
      <3>2. Known(r, u)' <= count[u]
        <4>1. CASE Saving(u) = {}
          BY <2>1, <2>2, <2>3, <2>4, <3>1, <4>1 DEF SmsOK
        <4>2. CASE Saving(u) # {}
          <5>1. PICK w \in Worker : w \in Saving(u)
            BY <4>2 DEF Saving
          <5>2. /\ \A v \in Saving(u) : v = w
                /\ exec[w].month = r /\ exec[w].u = u
                /\ Known(r, u) <= count[u] + (IF exec[w].at = "save" THEN 1 ELSE 0)
            BY <2>1, <3>1, <5>1 DEF SmsOK, Saving
          <5>3. CASE exec[w].at # "save"
            BY <2>2, <2>3, <5>2, <5>3
          <5>4. CASE exec[w].at = "save"
            <6>1. {v \in Worker : Missed(v, r, u)} = {w}
              BY <5>2, <5>4 DEF Missed, Saving
            <6>2. Cardinality({v \in Worker : Missed(v, r, u)}) = 1
              BY <6>1, FS_Singleton
            <6> QED
              BY <1>3, <2>2, <5>2, <5>4, <6>2
          <5> QED
            BY <5>3, <5>4
        <4> QED
          BY <4>1, <4>2
      <3>3. Known(reset[u], u)' = Known(r, u)'
        BY <2>2, <3>1
      <3> QED
        BY <3>2, <3>3
    <2>5. /\ \A m \in Month : Known(m, u)' <= Limit[u]
          /\ Limit[u] > 0 => \A m \in Month : m > reset[u] => Known(m, u)' <= 0
      <3>1. /\ \A m \in Month : Known(m, u) <= Limit[u]
            /\ Limit[u] > 0 => \A m \in Month : m > reset[u] => Known(m, u) <= 0
        BY <2>1 DEF SmsOK
      <3> QED
        BY <2>2, <2>3, <3>1
    <2> QED
      BY <2>1, <2>2, <2>4, <2>5 DEF SmsOK
  <1> QED
    BY <1>2, <1>4

LEMMA CrashStep == ASSUME IInv, Crash PROVE IInv'
  <1> USE MessagingAssumption DEF IInv
  <1>1. exec' \in [Worker -> Hand] /\ \A w \in Worker : exec'[w] = Rest
    BY RestIsHand DEF Crash
  <1>2. Rest.bs = {} /\ Rest.b = None /\ Rest.u = None /\ Rest.at = "idle" /\ Rest.month = 0
    BY DEF Rest
  <1>3. month \in Nat /\ month' = month /\ status' = status /\ nextRun' = nextRun /\ chosen' = chosen
    BY DEF Crash, Typed, Month
  <1>4. \A w \in Worker : HandFits(w)'
    BY <1>1, <1>2, <1>3 DEF HandFits
  <1>5. /\ editing'.u = None /\ editing'.month = editing.month
        /\ editing' \in [u : User \cup {None}, count : Nat, month : Nat]
    BY DEF Crash, Typed
  <1>6. /\ got' = got /\ lost' \subseteq Key /\ hands' \in Int
        /\ sending' \in [Job -> Nat] /\ accepted' \in [Job -> Nat] /\ \A j \in Job : sending'[j] = 0
    BY DEF Crash, Typed
  <1>7. \A j \in Job : j[2] \in {0, 1} /\ <<j[1], 0>> \in Job
    BY DEF Job
  <1>8. /\ jobs' \in [Job -> Nat]
        /\ \A j \in Job : jobs'[j] = jobs[j] + (IF j[2] = 1 THEN sending[<<j[1], 0>>] + accepted[<<j[1], 0>>] ELSE 0)
    <2>1. jobs' = [j \in Job |-> jobs[j] + (IF j[2] = 1 THEN sending[<<j[1], 0>>] + accepted[<<j[1], 0>>] ELSE 0)]
      BY DEF Crash
    <2>2. \A j \in Job : jobs[j] \in Nat /\ sending[<<j[1], 0>>] \in Nat /\ accepted[<<j[1], 0>>] \in Nat
      BY <1>7 DEF Typed
    <2> QED
      BY <2>1, <2>2
  <1>9. /\ unheard' \in [Key -> Nat]
        /\ \A k \in Key : unheard'[k] = unheard[k] + accepted[<<k, 0>>]
    <2>1. \A k \in Key : <<k, 0>> \in Job
      BY DEF Job
    <2> QED
      BY <2>1 DEF Crash, Typed
  <1>10. shared' = shared \cup UNION {exec[w].bs : w \in Worker} /\ shared' \subseteq Broadcast
    BY Held DEF Crash, Typed
  <1>11. raced' = raced /\ uncounted' \in [Month -> [User -> Nat]]
    BY CrashSms DEF Crash
  <1>12. Typed'
    BY <1>1, <1>3, <1>4, <1>5, <1>6, <1>8, <1>9, <1>10, <1>11 DEF Crash, Typed
  <1>13. ASSUME NEW b \in Broadcast \ (shared' \cup chosen') PROVE MailOK(b)'
    <2>1. MailOK(b) /\ \A w \in Worker : b \notin exec[w].bs
      BY <1>3, <1>10
    <2>2. \A w \in Worker : exec[w].b # b
      BY <2>1, Held DEF HandFits
    <2>3. ASSUME NEW u \in User
          PROVE  Mailed(<<b, u>>)' \in Int /\ Mailed(<<b, u>>)' <= Mailed(<<b, u>>)
      <3>1. /\ jobs'[<<<<b, u>>, 0>>] = jobs[<<<<b, u>>, 0>>]
            /\ jobs'[<<<<b, u>>, 1>>] = jobs[<<<<b, u>>, 1>>] + (sending[<<<<b, u>>, 0>>] + accepted[<<<<b, u>>, 0>>])
        <4>1. <<<<b, u>>, 0>>[2] = 0 /\ <<<<b, u>>, 1>>[2] = 1 /\ <<<<b, u>>, 1>>[1] = <<b, u>>
          OBVIOUS
        <4>2. jobs[<<<<b, u>>, 0>>] \in Nat /\ <<<<b, u>>, 0>> \in Job /\ <<<<b, u>>, 1>> \in Job
          BY Counts, Jobs
        <4> QED
          BY <1>8, <4>1, <4>2
      <3>2. /\ sending'[<<<<b, u>>, 0>>] = 0 /\ sending'[<<<<b, u>>, 1>>] = 0
            /\ unheard'[<<b, u>>] = unheard[<<b, u>>] + accepted[<<<<b, u>>, 0>>] /\ got' = got
        BY <1>6, <1>9, Jobs
      <3> QED
        <4>1. sending[<<<<b, u>>, 0>>] \in Nat /\ sending[<<<<b, u>>, 1>>] \in Nat
          BY Counts
        <4> HIDE MessagingAssumption
        <4> QED
          BY <3>1, <3>2, <4>1, Counts DEF Mailed
    <2>4. \A w \in Worker : b \notin exec'[w].bs /\ exec'[w].b # b
      BY <1>1, <1>2
    <2> QED
      BY <1>3, <2>1, <2>2, <2>3, <2>4, MailKept
  <1> QED
    BY <1>11, <1>12, <1>13, CrashSms

LEMMA TickStep == ASSUME IInv, Tick PROVE IInv'
  <1> USE MessagingAssumption DEF IInv
  <1>1. month \in Nat /\ month' = month + 1 /\ month' \in Month
    <2>1. month \in 0 .. MaxMonth /\ month < MaxMonth /\ month' = month + 1 /\ MaxMonth \in Nat
      BY DEF Tick, Typed, Month
    <2> QED
      BY <2>1 DEF Month
  <1>2. \A w \in Worker : HandFits(w)'
    <2> TAKE w \in Worker
    <2>1. exec[w].month <= month + 1
      BY <1>1, Held DEF HandFits
    <2> QED
      BY <1>1, <2>1, Held DEF Tick, HandFits
  <1>3. Typed'
    <2>1. \A u \in User : reset[u] <= month + 1
      BY <1>1 DEF Typed
    <2>2. editing.month <= month + 1
      BY <1>1 DEF Typed
    <2> QED
      BY <1>1, <1>2, <2>1, <2>2 DEF Tick, Typed, casts, sms, post
  <1>4. ASSUME NEW u \in User \ raced' PROVE SmsOK(u)'
    <2>1. SmsOK(u) /\ Saving(u)' = Saving(u)
      BY DEF Tick, sms, Saving
    <2> QED
      BY <2>1, SmsKept DEF Tick, sms, Known
  <1>5. ASSUME NEW b \in Broadcast \ (shared' \cup chosen') PROVE MailOK(b)'
    <2>1. MailOK(b)
      BY DEF Tick, casts
    <2>2. \A u \in User : Mailed(<<b, u>>)' = Mailed(<<b, u>>) /\ Mailed(<<b, u>>) \in Int
      BY MailedIsInt DEF Mailed, Tick, post
    <2> QED
      BY <1>1, <2>1, <2>2, MailKept DEF Tick, casts
  <1> QED
    BY <1>3, <1>4, <1>5

-----------------------------------------------------------------------------

LEMMA NextOK == IInv /\ [Next]_vars => IInv'
  <1> SUFFICES ASSUME IInv, [Next]_vars PROVE IInv'
    OBVIOUS
  <1>1. ASSUME NEW w \in Worker, Look(w) \/ Execute(w) \/ Step(w) \/ MailFails(w) \/ SmsFails(w) PROVE IInv'
    BY <1>1, LookStep, ExecuteStep, LoadStep, MailStep, FinishStep, SmsCheckStep, SmsPostStep,
       SmsSaveStep, SmsFailsStep, MailFailsStep DEF Step
  <1>2. CASE UNCHANGED vars
    <2>1. \A b \in Broadcast, u \in User : Mailed(<<b, u>>)' <= Mailed(<<b, u>>)
      BY <1>2, MailedSame DEF vars, IInv, post
    <2> QED
      BY <1>2, <2>1, MailerOK DEF vars, IInv, Typed, post
  <1>3. ASSUME NEW u \in User, EditRead(u) \/ NotifyRead(u) PROVE IInv'
    BY <1>3, EditReadStep, NotifyReadStep
  <1> QED
    BY <1>1, <1>2, <1>3, EditSaveStep, EditFailsStep, MailingStep, MailingFailsStep, CrashStep, TickStep
    DEF Next, Mailing

\* The invariant holds in every state.
THEOREM Invariant == Spec => []IInv
  BY InitOK, NextOK, PTL DEF Spec

\* The tables, executions and histories are always well typed.
THEOREM TypeCorrect == Spec => []TypeOK
  <1>1. IInv => TypeOK
    <2> SUFFICES ASSUME IInv PROVE TypeOK
      OBVIOUS
    <2>1. ASSUME NEW w \in Worker
          PROVE  /\ exec[w].bs \subseteq Broadcast /\ exec[w].left \in [User -> Nat]
                 /\ exec[w].at \in {"idle", "next", "user", "sms", "post", "save"}
                 /\ (exec[w].at = "idle") = (exec[w].bs = {})
                 /\ IF exec[w].at \in {"idle", "next"} THEN exec[w].b = None ELSE exec[w].b \in exec[w].bs
                 /\ IF exec[w].at \in {"sms", "post", "save"} THEN exec[w].u \in HasPhone ELSE exec[w].u = None
                 /\ exec[w].count \in Nat /\ exec[w].month \in 0..month
      BY <2>1, Held DEF IInv, HandFits, Hand, At
    <2>2. \A u \in User : count[u] \in Nat /\ reset[u] \in 0..month
      BY MessagingAssumption DEF IInv, Typed, Month
    <2> QED
      BY <2>1, <2>2 DEF IInv, Typed, TypeOK
  <1> QED
    BY Invariant, <1>1, PTL

\* executeBroadcast and sendEmail: nobody is mailed a broadcast more often than it
\* came due and the query named them, wherever looks, crashes and failures fall,
\* unless it was in two hands, failed half-way or was executed by an administrator;
\* but for one copy of every mail the server took without the mailer's hearing of it.
THEOREM Once == Spec => []NoSecondCopy
  <1>1. IInv => NoSecondCopy
    BY DEF IInv, MailOK, Top, NoSecondCopy
  <1> QED
    BY Invariant, <1>1, PTL

\* sendSms: the SMS of a month, but for those that went out and were never counted,
\* keep to the limit of the user, unless two requests saved him at once.
THEOREM LimitIsKept == Spec => []LimitHolds
  <1>1. IInv => LimitHolds
    BY DEF IInv, SmsOK, LimitHolds
  <1> QED
    BY Invariant, <1>1, PTL

-----------------------------------------------------------------------------
(* Leaderboard: what its inductive invariant is made of                      *)

\* The orders the users may have been read in, and what may have been read.
Order == (UNION {Orders(S) : S \in SUBSET Users}) \cup {<<>>}
Gots  == UNION {[D -> Statistics] : D \in SUBSET Users}
Given == UNION {[D -> Names] : D \in SUBSET Users}
Run   == [at : Steps, order : Order, got : Gots, names : Given, todo : SUBSET Users,
          item : Users \cup {NoId}, held : Nat, gone : SUBSET Nat]

\* Those whose trades are read are among those who were read.
Read(order, saw) ==
  \E S \in SUBSET Users : order \in Orders(S) /\ DOMAIN saw \subseteq {order[i] : i \in 1 .. Cardinality(S)}

Writing == {"find", "write", "sweep", "delete"}

\* A name u may be given: his own, if nobody else comes by it.
Called(u, name) ==
  /\ \E n \in Numbers : name = Name(Base[u], n)
  /\ ~SharesName(u) => name = Name(Base[u], 1)

\* What a run holds fits how far it has come.
RunFits(r) ==
  /\ IsFiniteSet(r.gone)
  /\ DOMAIN r.names = DOMAIN r.got /\ \A u \in DOMAIN r.got : Called(u, r.names[u])
  /\ r.at # "idle" => Read(r.order, r.got)
  /\ r.at \in Writing => r.todo \subseteq Ranked(r.got)
  /\ r.at = "write" => r.item \in r.todo
  /\ r.at \in {"sweep", "delete"} => r.todo = {}

RankTyped ==
  /\ active \subseteq Users
  /\ stats \in [Users -> Statistics]
  /\ run \in [Runs -> Run] /\ \A p \in Runs : RunFits(run[p])
  /\ overlap \in BOOLEAN
  /\ starts \in 0 .. MaxStarts /\ changes \in 0 .. MaxChanges /\ crashes \in 0 .. MaxCrashes

\* Names and ids are unique, and every row goes by a name its user may be given.
TableFits ==
  /\ table \subseteq RankRows /\ IsFiniteSet(table)
  /\ \A r, s \in table : r.id = s.id => r = s
  /\ \A r, s \in table : r.name = s.name => r = s
  /\ \A r \in table : Called(r.user, r.name)

\* The row of u says what a run over order and saw makes of him.
Stands(order, saw, u) ==
  \E r \in table : /\ r.user = u /\ r.rank = Rank(order, saw, u)
                   /\ r.tier = Tier(Rank(order, saw, u), saw[u]) /\ r.stat = saw[u]

\* What a run that is alone knows of the table.
Knows(r) ==
  /\ r.at = "write" => IF r.held = NoId THEN RowsOf(r.item) = {} ELSE \E x \in RowsOf(r.item) : x.id = r.held
  /\ r.at \in Writing => \A u \in Ranked(r.got) \ r.todo : Stands(r.order, r.got, u)
  /\ r.at = "delete" => r.gone = Stale(r.got)

\* Runs that have never been under way together.
Alone ==
  /\ \A p, q \in Busy : p = q
  /\ \A r, s \in table : r.user = s.user => r = s
  /\ \A p \in Runs : Knows(run[p])
  /\ Busy # {} => last = Nothing
  /\ last.how = "done" => /\ Read(last.order, last.got) /\ last.got \in Gots
                          /\ \A u \in Ranked(last.got) : Stands(last.order, last.got, u)
                          /\ \A r \in table : r.user \in Ranked(last.got)
  /\ last.how = "failed" => SharesName(last.item)

RankInv ==
  /\ RankTyped /\ TableFits
  /\ overlap => last = Nothing
  /\ ~overlap => Alone

-----------------------------------------------------------------------------
(* Names and ranks                                                           *)

LEMMA NoIdIsZero == NoId = 0
  BY DEF NoId

LEMMA ReadOrder ==
  ASSUME NEW order, NEW saw, Read(order, saw)
  PROVE  \E n \in Nat : /\ DOMAIN order = 1 .. n
                        /\ \A i \in 1 .. n : order[i] \in Users
                        /\ \A i, j \in 1 .. n : order[i] = order[j] => i = j
                        /\ DOMAIN saw \subseteq {order[i] : i \in 1 .. n}
  <1> USE LeaderboardAssumption
  <1>1. PICK S \in SUBSET Users : order \in Orders(S) /\ DOMAIN saw \subseteq {order[i] : i \in 1 .. Cardinality(S)}
    BY DEF Read
  <1>2. IsFiniteSet(S) /\ Cardinality(S) \in Nat
    BY FS_Subset, FS_CardinalityType
  <1>3. order \in [1 .. Cardinality(S) -> S] /\ \A i, j \in 1 .. Cardinality(S) : order[i] = order[j] => i = j
    BY <1>1 DEF Orders
  <1>4. \A i \in 1 .. Cardinality(S) : order[i] \in Users
    BY <1>3
  <1>5. DOMAIN order = 1 .. Cardinality(S)
    BY <1>3
  <1> QED
    BY <1>1, <1>2, <1>3, <1>4, <1>5

\* Everybody who is ranked was read, and has one place in the order.
LEMMA PlaceOf ==
  ASSUME NEW order, NEW saw, Read(order, saw), NEW u \in DOMAIN saw
  PROVE  /\ u \in Users /\ Place(order, u) \in Nat \ {0}
         /\ Place(order, u) \in DOMAIN order /\ order[Place(order, u)] = u
         /\ \A i \in 1 .. Place(order, u) : i \in DOMAIN order /\ order[i] \in Users
         /\ \A i \in 1 .. Place(order, u) - 1 : order[i] # u
  <1>1. PICK n \in Nat : /\ DOMAIN order = 1 .. n
                         /\ \A i \in 1 .. n : order[i] \in Users
                         /\ \A i, j \in 1 .. n : order[i] = order[j] => i = j
                         /\ DOMAIN saw \subseteq {order[i] : i \in 1 .. n}
    BY ReadOrder
  <1>2. PICK i \in DOMAIN order : order[i] = u
    BY <1>1
  <1>3. Place(order, u) \in DOMAIN order /\ order[Place(order, u)] = u
    BY <1>2 DEF Place
  <1>4. PICK k \in 1 .. n : k = Place(order, u)
    BY <1>1, <1>3
  <1>5. u \in Users /\ order[k] = u
    BY <1>1, <1>3, <1>4
  <1>6. \A j \in 1 .. k : j \in 1 .. n
    OBVIOUS
  <1>7. \A j \in 1 .. k - 1 : order[j] # u
    BY <1>1, <1>5
  <1> QED
    BY <1>1, <1>3, <1>4, <1>5, <1>6, <1>7

LEMMA GroupFinite ==
  ASSUME NEW saw, DOMAIN saw \subseteq Users, NEW e
  PROVE  IsFiniteSet(Group(saw, e)) /\ Group(saw, e) \subseteq Users
  <1>1. Group(saw, e) \subseteq Users
    BY DEF Group
  <1> QED
    BY <1>1, LeaderboardAssumption, FS_Subset

\* The echelon of who is ranked.
LEMMA EchelonOf ==
  ASSUME NEW saw, NEW u \in Ranked(saw)
  PROVE  /\ u \in DOMAIN saw
         /\ Echelon(saw, u) \in 1 .. 6
         /\ Echelon(saw, u) = 6 <=> u \in Calibrating(saw)
         /\ u \notin Calibrating(saw) => Echelon(saw, u) \in 1 .. 5 /\ u \in Group(saw, Echelon(saw, u))
  <1>1. u \in DOMAIN saw
    BY DEF Ranked, Calibrating, Group
  <1>2. CASE u \in Calibrating(saw)
    BY <1>1, <1>2 DEF Echelon
  <1>3. CASE u \notin Calibrating(saw)
    <2>1. \E e \in 1 .. 5 : u \in Group(saw, e)
      BY <1>3 DEF Ranked
    <2>2. Echelon(saw, u) = CHOOSE e \in 1 .. 5 : u \in Group(saw, e)
      BY <1>3 DEF Echelon
    <2>3. Echelon(saw, u) \in 1 .. 5 /\ u \in Group(saw, Echelon(saw, u))
      BY <2>1, <2>2
    <2> QED
      BY <1>1, <1>3, <2>3
  <1> QED
    BY <1>2, <1>3

LEMMA RankType ==
  ASSUME NEW order, NEW saw, DOMAIN saw \subseteq Users, NEW u \in Ranked(saw)
  PROVE  Rank(order, saw, u) \in Nat
  <1> USE LeaderboardAssumption
  <1>1. CASE u \in Calibrating(saw)
    BY <1>1 DEF Rank
  <1>2. CASE u \notin Calibrating(saw)
    <2> DEFINE e == Echelon(saw, u)
               V == {v \in Group(saw, e) \ {u} : Before(order, saw, v, u)}
    <2>1. e \in 1 .. 5 /\ First[e] \in Nat
      BY <1>2, EchelonOf
    <2>2. IsFiniteSet(V) /\ Cardinality(V) \in Nat
      <3>1. IsFiniteSet(Group(saw, e)) /\ V \subseteq Group(saw, e)
        BY GroupFinite
      <3> QED
        BY <3>1, FS_Subset, FS_CardinalityType
    <2>3. Rank(order, saw, u) = First[e] + Cardinality(V)
      BY <1>2 DEF Rank
    <2> HIDE DEF e, V
    <2> QED
      BY <2>1, <2>2, <2>3
  <1> QED
    BY <1>1, <1>2

\* There is a first tier whose conditions hold.
LEMMA TierIs ==
  ASSUME NEW rank, NEW s
  PROVE  /\ Tier(rank, s) \in 1 .. 7
         /\ Qualifies(Tier(rank, s), rank, s)
         /\ \A t \in 1 .. 7 : Qualifies(t, rank, s) => Tier(rank, s) <= t
  <1> DEFINE Q(t) == Qualifies(t, rank, s)
             IsFirst(t) == Q(t) /\ \A b \in 1 .. t - 1 : ~Q(b)
  <1>1. Q(7)
    BY DEF Qualifies
  <1> HIDE DEF Q
  <1>2. \E t \in 1 .. 7 : IsFirst(t)
    <2>1. CASE Q(1)
      <3>1. IsFirst(1)
        BY <2>1
      <3> QED
        BY <3>1
    <2>2. CASE ~Q(1) /\ Q(2)
      <3>1. \A b \in 1 .. 2 - 1 : b = 1
        OBVIOUS
      <3>2. IsFirst(2)
        BY <2>2, <3>1
      <3> QED
        BY <3>2
    <2>3. CASE ~Q(1) /\ ~Q(2) /\ Q(3)
      <3>1. \A b \in 1 .. 3 - 1 : b = 1 \/ b = 2
        OBVIOUS
      <3>2. IsFirst(3)
        BY <2>3, <3>1
      <3> QED
        BY <3>2
    <2>4. CASE ~Q(1) /\ ~Q(2) /\ ~Q(3) /\ Q(4)
      <3>1. \A b \in 1 .. 4 - 1 : b = 1 \/ b = 2 \/ b = 3
        OBVIOUS
      <3>2. IsFirst(4)
        BY <2>4, <3>1
      <3> QED
        BY <3>2
    <2>5. CASE ~Q(1) /\ ~Q(2) /\ ~Q(3) /\ ~Q(4) /\ Q(5)
      <3>1. \A b \in 1 .. 5 - 1 : b = 1 \/ b = 2 \/ b = 3 \/ b = 4
        OBVIOUS
      <3>2. IsFirst(5)
        BY <2>5, <3>1
      <3> QED
        BY <3>2
    <2>6. CASE ~Q(1) /\ ~Q(2) /\ ~Q(3) /\ ~Q(4) /\ ~Q(5) /\ Q(6)
      <3>1. \A b \in 1 .. 6 - 1 : b = 1 \/ b = 2 \/ b = 3 \/ b = 4 \/ b = 5
        OBVIOUS
      <3>2. IsFirst(6)
        BY <2>6, <3>1
      <3> QED
        BY <3>2
    <2>7. CASE ~Q(1) /\ ~Q(2) /\ ~Q(3) /\ ~Q(4) /\ ~Q(5) /\ ~Q(6)
      <3>1. \A b \in 1 .. 7 - 1 : b = 1 \/ b = 2 \/ b = 3 \/ b = 4 \/ b = 5 \/ b = 6
        OBVIOUS
      <3>2. IsFirst(7)
        BY <1>1, <2>7, <3>1
      <3> QED
        BY <3>2
    <2> QED
      BY <2>1, <2>2, <2>3, <2>4, <2>5, <2>6, <2>7
  <1>3. Tier(rank, s) = CHOOSE t \in 1 .. 7 : IsFirst(t)
    BY DEF Tier, Q
  <1>4. Tier(rank, s) \in 1 .. 7 /\ IsFirst(Tier(rank, s))
    BY <1>2, <1>3
  <1>5. PICK t \in 1 .. 7 : t = Tier(rank, s) /\ Q(t) /\ \A b \in 1 .. t - 1 : ~Q(b)
    BY <1>4
  <1>6. \A b \in 1 .. 7 : Q(b) => t <= b
    BY <1>5
  <1> QED
    BY <1>5, <1>6 DEF Q

\* As many as the elements of S, or fewer, are what f makes of them.
LEMMA ImageFinite ==
  ASSUME NEW S, IsFiniteSet(S), NEW f, DOMAIN f = S
  PROVE  /\ IsFiniteSet({f[x] : x \in S}) /\ Cardinality({f[x] : x \in S}) \in Nat
         /\ Cardinality({f[x] : x \in S}) <= Cardinality(S) /\ Cardinality(S) \in Nat
  <1> DEFINE T == {f[x] : x \in S}
             g == [x \in S |-> f[x]]
  <1>1. g \in Surjection(S, T)
    BY DEF Surjection
  <1>2. IsFiniteSet(T) /\ Cardinality(T) <= Cardinality(S)
    BY <1>1, FS_Surjection
  <1> QED
    BY <1>2, FS_CardinalityType

\* The numbers from one to n are n.
LEMMA CountsTo == \A n \in Nat : n >= 1 => Cardinality(1 .. n) = n
<1> SUFFICES ASSUME NEW n \in Nat, n >= 1 PROVE Cardinality(1 .. n) = n
  OBVIOUS
<1>1. 1 \in Int /\ n \in Int
  OBVIOUS
<1>2. Cardinality(1 .. n) = IF 1 > n THEN 0 ELSE n - 1 + 1
  BY <1>1, FS_Interval
<1> QED
  BY <1>2

\* There is an id that is not in use.
LEMMA Fresh ==
  ASSUME RankTyped, TableFits
  PROVE  FreshId \in Nat \ {0} /\ \A r \in table : r.id # FreshId
  <1> USE LeaderboardAssumption
  <1> DEFINE ids == [r \in table |-> r.id]
             helds == [p \in Runs |-> run[p].held]
             gones == [p \in Runs |-> run[p].gone]
             A == {r.id : r \in table}
             B == {run[p].held : p \in Runs}
             C == UNION {run[p].gone : p \in Runs}
             N == Cardinality(table) + 1 + Cardinality(Runs) + Cardinality(C)
             Good(i) == /\ \A r \in table : r.id # i
                        /\ \A p \in Runs : run[p].held # i /\ i \notin run[p].gone
  <1>1. IsFiniteSet(A) /\ Cardinality(A) \in Nat /\ Cardinality(A) <= Cardinality(table) /\ Cardinality(table) \in Nat
    <2>1. {ids[r] : r \in table} = A
      OBVIOUS
    <2>2. IsFiniteSet(table) /\ DOMAIN ids = table
      BY DEF TableFits
    <2>3. /\ IsFiniteSet({ids[r] : r \in table}) /\ Cardinality({ids[r] : r \in table}) \in Nat
          /\ Cardinality({ids[r] : r \in table}) <= Cardinality(table) /\ Cardinality(table) \in Nat
      <3> HIDE DEF ids
      <3> QED
        BY <2>2, ImageFinite
    <2> QED
      BY <2>1, <2>3
  <1>2. IsFiniteSet(B) /\ Cardinality(B) \in Nat /\ Cardinality(B) <= Cardinality(Runs) /\ Cardinality(Runs) \in Nat
    <2>1. {helds[p] : p \in Runs} = B /\ DOMAIN helds = Runs
      OBVIOUS
    <2>2. /\ IsFiniteSet({helds[p] : p \in Runs}) /\ Cardinality({helds[p] : p \in Runs}) \in Nat
          /\ Cardinality({helds[p] : p \in Runs}) <= Cardinality(Runs) /\ Cardinality(Runs) \in Nat
      <3> HIDE DEF helds
      <3> QED
        BY <2>1, ImageFinite
    <2> QED
      BY <2>1, <2>2
  <1>3. IsFiniteSet(C) /\ Cardinality(C) \in Nat
    <2>1. {gones[p] : p \in Runs} = {run[p].gone : p \in Runs} /\ DOMAIN gones = Runs
      OBVIOUS
    <2>2. IsFiniteSet({gones[p] : p \in Runs})
      <3> HIDE DEF gones
      <3> QED
        BY <2>1, ImageFinite
    <2>3. \A T \in {run[p].gone : p \in Runs} : IsFiniteSet(T)
      BY DEF RankTyped, RunFits
    <2>4. IsFiniteSet(C)
      BY <2>1, <2>2, <2>3, FS_UNION
    <2> QED
      BY <2>4, FS_CardinalityType
  <1>4. N \in Nat
    BY <1>1, <1>2, <1>3
  <1>5. \E i \in 1 .. N : Good(i)
    <2> DEFINE U == (A \cup B) \cup C
    <2>1. IsFiniteSet(U) /\ Cardinality(U) \in Nat /\ Cardinality(U) < N
      <3>1. IsFiniteSet(A \cup B) /\ Cardinality(A \cup B) = Cardinality(A) + Cardinality(B) - Cardinality(A \cap B)
        BY <1>1, <1>2, FS_Union
      <3>2. Cardinality(A \cup B) \in Nat /\ Cardinality(A \cap B) \in Nat
        BY <1>1, <3>1, FS_Intersection, FS_CardinalityType
      <3>3. IsFiniteSet(U) /\ Cardinality(U) = Cardinality(A \cup B) + Cardinality(C) - Cardinality((A \cup B) \cap C)
        BY <1>3, <3>1, FS_Union
      <3>4. Cardinality(U) \in Nat /\ Cardinality((A \cup B) \cap C) \in Nat
        BY <3>1, <3>3, FS_Intersection, FS_CardinalityType
      <3> HIDE DEF A, B, C, U
      <3> QED
        BY <1>1, <1>2, <1>3, <3>1, <3>2, <3>3, <3>4
    <2>2. Cardinality(1 .. N) = N /\ N >= 1
      <3>1. N >= 1
        <4> HIDE DEF A, B, C, Good, ids, helds, gones, U
        <4> QED
          BY <1>1, <1>2, <1>3
      <3> HIDE DEF N, A, B, C, Good, ids, helds, gones, U
      <3>2. N >= 1 => Cardinality(1 .. N) = N
        BY <1>4, CountsTo
      <3> QED
        BY <3>1, <3>2
    <2>3. ~(1 .. N \subseteq U)
      <3>1. SUFFICES ASSUME 1 .. N \subseteq U PROVE FALSE
        OBVIOUS
      <3>2. Cardinality(1 .. N) <= Cardinality(U)
        BY <2>1, <3>1, FS_Subset
      <3> HIDE DEF N, U
      <3> QED
        BY <1>4, <2>1, <2>2, <3>2
    <2>4. PICK i \in 1 .. N : i \notin U
      BY <2>3
    <2>5. Good(i)
      BY <2>4
    <2> HIDE DEF N, Good
    <2> QED
      BY <2>5
  <1>6. FreshId = CHOOSE i \in 1 .. N : Good(i)
    BY DEF FreshId
  <1>7. FreshId \in 1 .. N /\ Good(FreshId)
    <2> HIDE DEF N, Good
    <2> QED
      BY <1>5, <1>6
  <1>8. FreshId \in 1 .. N => FreshId \in Nat \ {0}
    <2> HIDE DEF N
    <2> QED
      BY <1>4
  <1>9. \A r \in table : r.id # FreshId
    BY <1>7
  <1> QED
    BY <1>7, <1>8, <1>9

\* The row that is written.
LEMMA PutType ==
  ASSUME NEW r \in Run, RunFits(r), Read(r.order, r.got), NEW u \in Ranked(r.got), NEW id \in Nat \ {0}
  PROVE  LET x == Put(RowOf(r, u), id)
         IN  /\ x \in RankRows /\ x.id = id /\ x.user = u /\ x.name = r.names[u]
             /\ x.rank = Rank(r.order, r.got, u) /\ x.tier = Tier(Rank(r.order, r.got, u), r.got[u])
             /\ x.stat = r.got[u] /\ Called(u, x.name)
  <1> DEFINE rank == Rank(r.order, r.got, u)
             name == r.names[u]
             tier == Tier(rank, r.got[u])
  <1>0. r.got \in Gots
    BY DEF Run
  <1>1. u \in DOMAIN r.got /\ DOMAIN r.got \subseteq Users /\ r.got[u] \in Statistics
    BY <1>0, EchelonOf DEF Gots
  <1>2. rank \in Nat
    BY <1>0, <1>1, RankType
  <1>3. Called(u, name)
    BY <1>1 DEF RunFits
  <1>4. tier \in 1 .. 7
    BY TierIs
  <1>5. name \in Names
    BY <1>1, <1>3 DEF Called, Names
  <1>6. Put(RowOf(r, u), id) = [id |-> id, user |-> u, name |-> name, rank |-> rank, tier |-> tier, stat |-> r.got[u]]
    BY DEF Put, RowOf
  <1> HIDE DEF rank, name, tier
  <1>7. [id |-> id, user |-> u, name |-> name, rank |-> rank, tier |-> tier, stat |-> r.got[u]] \in RankRows
    BY <1>1, <1>2, <1>4, <1>5, NoIdIsZero DEF RankRows
  <1> QED
    BY <1>3, <1>6, <1>7 DEF rank, name, tier

-----------------------------------------------------------------------------
(* Steps of a recalculation                                                  *)

\* A run is replaced by another of its kind.
LEMMA RunSet ==
  ASSUME RankTyped, NEW p \in Runs, NEW e \in Run, RunFits(e), run' = [run EXCEPT ![p] = e]
  PROVE  /\ run' \in [Runs -> Run] /\ run'[p] = e
         /\ \A q \in Runs \ {p} : run'[q] = run[q]
         /\ \A q \in Runs : RunFits(run'[q])
  <1>1. run' \in [Runs -> Run] /\ run'[p] = e /\ \A q \in Runs \ {p} : run'[q] = run[q]
    BY DEF RankTyped
  <1>2. \A q \in Runs \ {p} : RunFits(run'[q])
    BY <1>1 DEF RankTyped
  <1> QED
    BY <1>1, <1>2

LEMMA RunHeld ==
  ASSUME RankTyped, NEW p \in Runs
  PROVE  /\ run[p] \in Run /\ RunFits(run[p])
         /\ run[p].at \in Steps /\ run[p].got \in Gots /\ run[p].todo \subseteq Users
         /\ run[p].item \in Users \cup {NoId} /\ run[p].held \in Nat /\ run[p].gone \subseteq Nat
  <1>1. run[p] \in Run /\ RunFits(run[p])
    BY DEF RankTyped
  <1> QED
    BY <1>1 DEF Run

LEMMA IdleFits == Idle \in Run /\ RunFits(Idle) /\ Idle.at = "idle" /\ Unread \in Gots /\ DOMAIN Unread = {}
  <1>1. Unread \in [{} -> Statistics] /\ DOMAIN Unread = {}
    BY DEF Unread
  <1>2. Unread \in Gots
    BY <1>1 DEF Gots
  <1>a. Unread \in Given
    BY <1>1 DEF Given, Unread
  <1>3. Idle \in Run
    BY <1>2, <1>a, NoIdIsZero DEF Idle, Run, Order, Steps
  <1>4. Idle.at = "idle" /\ Idle.gone = {} /\ Idle.names = Unread /\ Idle.got = Unread
    BY DEF Idle
  <1> QED
    BY <1>1, <1>2, <1>3, <1>4, FS_EmptySet DEF RunFits, Writing

\* Who is idle knows nothing.
LEMMA IdleKnows == ASSUME NEW r, r.at = "idle" PROVE Knows(r)'
  BY DEF Knows, Writing

\* A step of a run that goes on, alone.
LEMMA GoesOnAlone ==
  ASSUME RankInv, ~overlap, NEW p \in Runs, run[p].at # "idle", NEW e, run'[p] = e, e.at # "idle",
         \A q \in Runs \ {p} : run'[q] = run[q], last' = last,
         Knows(e)', \A r, s \in table' : r.user = s.user => r = s
  PROVE  Alone'
  <1>1. Alone /\ p \in Busy
    BY DEF RankInv, Busy
  <1>2. \A q \in Runs \ {p} : run'[q].at = "idle"
    BY <1>1 DEF Alone, Busy
  <1>3. last' = Nothing /\ Nothing.how = "nothing"
    BY <1>1 DEF Alone, Nothing
  <1>4. ASSUME NEW q \in Runs PROVE Knows(run[q])'
    <2>1. PICK k : k = run'[q]
      OBVIOUS
    <2>2. Knows(k)'
      BY <1>2, <2>1, IdleKnows
    <2> QED
      BY <2>1, <2>2
  <1>5. \A q \in Busy' : q = p
    BY <1>2 DEF Busy
  <1> QED
    BY <1>3, <1>4, <1>5 DEF Alone

\* A step of a run that goes on.
LEMMA StepOK ==
  ASSUME RankInv, NEW p \in Runs, NEW e \in Run, RunFits(e), run' = [run EXCEPT ![p] = e],
         run[p].at # "idle", e.at # "idle",
         UNCHANGED <<active, stats, last, overlap, starts, changes, crashes>>,
         TableFits',
         ~overlap => Knows(e)' /\ \A r, s \in table' : r.user = s.user => r = s
  PROVE  RankInv'
  <1>1. /\ run' \in [Runs -> Run] /\ run'[p] = e
        /\ \A q \in Runs \ {p} : run'[q] = run[q]
        /\ \A q \in Runs : RunFits(run'[q])
    BY RunSet DEF RankInv
  <1>2. RankTyped'
    BY <1>1 DEF RankInv, RankTyped
  <1>3. ASSUME ~overlap PROVE Alone'
    BY <1>1, <1>3, GoesOnAlone
  <1> QED
    BY <1>2, <1>3 DEF RankInv

LEMMA TableKept == ASSUME TableFits, table' = table PROVE TableFits'
  BY DEF TableFits

LEMMA AloneRows == ASSUME RankInv, ~overlap PROVE \A r, s \in table : r.user = s.user => r = s
  BY DEF RankInv, Alone

LEMMA BeginStep == ASSUME RankInv, NEW p \in Runs, Begin(p) PROVE RankInv'
  <1> USE LeaderboardAssumption
  <1>1. PICK order \in Orders(active) : run' = [run EXCEPT ![p] = [Idle EXCEPT !.at = "tally", !.order = order]]
    BY DEF Begin
  <1> DEFINE e == [Idle EXCEPT !.at = "tally", !.order = order]
  <1>2. order \in Order /\ active \subseteq Users
    BY DEF Order, RankInv, RankTyped
  <1>3. e \in Run /\ e.at = "tally" /\ e.order = order /\ e.got = Unread /\ e.names = Unread /\ e.gone = {}
    <2>1. Idle \in Run /\ Idle.got = Unread /\ Idle.names = Unread /\ Idle.gone = {}
      BY IdleFits DEF Idle
    <2>2. ASSUME NEW r \in Run PROVE [r EXCEPT !.at = "tally", !.order = order] \in Run
      BY <1>2 DEF Run, Steps
    <2> QED
      BY <2>1, <2>2 DEF Run
  <1>4. RunFits(e)
    <2>1. Read(order, Unread)
      BY <1>2, IdleFits DEF Read
    <2> HIDE DEF e
    <2> QED
      BY <1>3, <2>1, IdleFits, FS_EmptySet DEF RunFits, Writing
  <1>5. run' = [run EXCEPT ![p] = e]
    BY <1>1
  <1> HIDE DEF e
  <1>6. /\ run' \in [Runs -> Run] /\ run'[p] = e
        /\ \A q \in Runs \ {p} : run'[q] = run[q]
        /\ \A q \in Runs : RunFits(run'[q])
    BY <1>3, <1>4, <1>5, RunSet DEF RankInv
  <1>7. starts' \in 0 .. MaxStarts /\ overlap' \in BOOLEAN
    BY DEF Begin, RankInv, RankTyped
  <1>8. RankTyped'
    BY <1>6, <1>7 DEF Begin, RankInv, RankTyped
  <1>9. TableFits'
    BY TableKept DEF Begin, RankInv
  <1>10. ASSUME ~overlap' PROVE Alone'
    <2>1. ~overlap /\ Busy = {} /\ Alone
      BY <1>10 DEF Begin, RankInv
    <2>2. \A q \in Runs : run[q].at = "idle"
      BY <2>1 DEF Busy
    <2>3. Knows(e)'
      BY <1>3 DEF Knows, Writing
    <2>4. ASSUME NEW q \in Runs PROVE Knows(run[q])'
      <3>1. PICK k : k = run'[q]
        OBVIOUS
      <3>2. Knows(k)'
        BY <1>6, <2>2, <2>3, <3>1, IdleKnows
      <3> QED
        BY <3>1, <3>2
    <2>5. \A q \in Busy' : q = p
      BY <1>6, <2>2 DEF Busy
    <2>6. last' = Nothing /\ table' = table /\ Nothing.how = "nothing"
      BY DEF Begin, Nothing
    <2> QED
      BY <2>1, <2>4, <2>5, <2>6 DEF Alone
  <1>11. last' = Nothing
    BY DEF Begin
  <1> QED
    BY <1>8, <1>9, <1>10, <1>11 DEF RankInv

LEMMA TallyStep == ASSUME RankInv, NEW p \in Runs, Tally(p) PROVE RankInv'
  <1> USE LeaderboardAssumption
  <1>1. PICK r \in Run : r = run[p]
    BY RunHeld DEF RankInv
  <1>2. RunFits(r) /\ r.got \in Gots /\ r.at = "tally"
    BY <1>1, RunHeld DEF RankInv, Tally
  <1>n. PICK n : n = Cardinality(DOMAIN r.got) + 1
    OBVIOUS
  <1>u. PICK u : u = r.order[n]
    OBVIOUS
  <1>a. PICK k \in Numbers :
          /\ \A m \in 1 .. k - 1 : Used(r.names, Name(Base[u], m))
          /\ run' = [run EXCEPT ![p] = [@ EXCEPT !.got = Told(r.got, u, stats[u]),
                                                !.names = Told(r.names, u, Name(Base[u], k))]]
    BY <1>1, <1>n, <1>u DEF Tally
  <1> DEFINE D == DOMAIN r.got \cup {u}
  <1>3. PICK saw : saw = Told(r.got, u, stats[u])
    OBVIOUS
  <1>b. PICK given : given = Told(r.names, u, Name(Base[u], k))
    OBVIOUS
  <1> DEFINE e == [r EXCEPT !.got = saw, !.names = given]
  <1>4. n \in DOMAIN r.order /\ run' = [run EXCEPT ![p] = e]
    BY <1>1, <1>3, <1>a, <1>b, <1>n DEF Tally
  <1>5. PICK S \in SUBSET Users : r.order \in Orders(S) /\ DOMAIN r.got \subseteq {r.order[i] : i \in 1 .. Cardinality(S)}
    BY <1>2 DEF RunFits, Read
  <1>6. r.order \in [1 .. Cardinality(S) -> S]
    BY <1>5 DEF Orders
  <1>7. D \subseteq {r.order[i] : i \in 1 .. Cardinality(S)} /\ D \subseteq Users
    BY <1>4, <1>5, <1>6, <1>u
  <1>8. saw \in [D -> Statistics] /\ DOMAIN saw = D
    <2>1. r.got \in [DOMAIN r.got -> Statistics]
      BY <1>2 DEF Gots
    <2>2. saw = [v \in D |-> IF v \in DOMAIN r.got THEN r.got[v] ELSE stats[u]]
      BY <1>3 DEF Told
    <2>3. stats[u] \in Statistics
      BY <1>7 DEF RankInv, RankTyped
    <2> HIDE DEF D
    <2> QED
      BY <2>1, <2>2, <2>3
  <1>9. saw \in Gots
    <2> HIDE DEF D
    <2> QED
      BY <1>7, <1>8 DEF Gots
  <1>10. Read(r.order, saw)
    <2> HIDE DEF D
    <2> QED
      BY <1>5, <1>7, <1>8 DEF Read
  <1>c. given = [v \in D |-> IF v \in DOMAIN r.got THEN r.names[v] ELSE Name(Base[u], k)]
    BY <1>2, <1>b DEF Told, RunFits
  <1>d. ASSUME NEW v \in D PROVE Called(v, given[v])
    <2>1. CASE v \in DOMAIN r.got
      BY <1>2, <1>c, <2>1 DEF RunFits
    <2>2. CASE v \notin DOMAIN r.got
      <3>1. v = u /\ given[v] = Name(Base[v], k) /\ v \in Users
        BY <1>7, <1>c, <2>2
      <3>2. ASSUME k # 1 PROVE SharesName(v)
        <4>1. 1 \in 1 .. k - 1
          BY <3>2, LeaderboardAssumption, FS_CardinalityType DEF Numbers
        <4>2. PICK x \in DOMAIN r.got : r.names[x] = Name(Base[v], 1)
          BY <1>2, <1>a, <3>1, <4>1 DEF Used, RunFits
        <4>3. PICK m \in Numbers : r.names[x] = Name(Base[x], m)
          BY <1>2 DEF RunFits, Called
        <4>4. x \in Users \ {v}
          BY <1>7, <2>2
        <4> QED
          BY <4>2, <4>3, <4>4 DEF SharesName
      <3> QED
        BY <3>1, <3>2 DEF Called
    <2> QED
      BY <2>1, <2>2
  <1>e. given \in Given /\ DOMAIN given = D
    <2>1. \A v \in D : given[v] \in Names
      BY <1>7, <1>d DEF Called, Names
    <2> HIDE DEF D
    <2> QED
      BY <1>7, <1>c, <2>1 DEF Given
  <1>11. e \in Run /\ e.at = "tally" /\ e.order = r.order /\ e.got = saw /\ e.names = given /\ e.gone = r.gone
    BY <1>2, <1>9, <1>e DEF Run
  <1> HIDE DEF e
  <1>12. RunFits(e) /\ Knows(e)'
    <2> HIDE DEF D
    <2> QED
      BY <1>2, <1>8, <1>10, <1>11, <1>d, <1>e DEF RunFits, Knows, Writing
  <1> QED
    BY <1>1, <1>2, <1>4, <1>11, <1>12, StepOK, TableKept, AloneRows DEF Tally, RankInv

LEMMA ComputeStep == ASSUME RankInv, NEW p \in Runs, Compute(p) PROVE RankInv'
  <1>1. PICK r \in Run : r = run[p]
    BY RunHeld DEF RankInv
  <1>2. RunFits(r) /\ r.got \in Gots /\ r.at = "tally"
    BY <1>1, RunHeld DEF RankInv, Compute
  <1> DEFINE todo == Ranked(r.got)
             at == IF todo = {} THEN "sweep" ELSE "find"
             e == [r EXCEPT !.todo = todo, !.at = at]
  <1>3. run' = [run EXCEPT ![p] = e]
    BY <1>1 DEF Compute
  <1>4. todo \subseteq Users
    BY <1>2, EchelonOf DEF Gots
  <1>5. at \in Steps \ {"idle", "write", "delete"} /\ (at = "sweep" => todo = {})
    BY DEF Steps
  <1>6. /\ e \in Run /\ e.at = at /\ e.todo = todo
        /\ e.got = r.got /\ e.names = r.names /\ e.order = r.order /\ e.gone = r.gone
    <2> HIDE DEF todo, at
    <2> QED
      BY <1>2, <1>4, <1>5 DEF Run
  <1>7. Ranked(e.got) = todo
    BY <1>6
  <1> HIDE DEF e, at, todo
  <1>8. RunFits(e) /\ Knows(e)'
    <2>1. Read(r.order, r.got)
      BY <1>2 DEF RunFits
    <2> QED
      BY <1>2, <1>5, <1>6, <1>7, <2>1 DEF RunFits, Knows, Writing
  <1>9. run[p].at # "idle" /\ e.at # "idle"
    BY <1>1, <1>2, <1>5, <1>6
  <1> QED
    BY <1>3, <1>6, <1>8, <1>9, StepOK, TableKept, AloneRows DEF Compute, RankInv

LEMMA FindStep == ASSUME RankInv, NEW p \in Runs, Find(p) PROVE RankInv'
  <1>1. PICK r \in Run : r = run[p]
    BY RunHeld DEF RankInv
  <1>2. r.at = "find" /\ RunFits(r) /\ r.todo \subseteq Users
    BY <1>1, RunHeld DEF Find, RankInv
  <1>a. PICK u \in r.todo : \E id \in (IF RowsOf(u) = {} THEN {NoId} ELSE {x.id : x \in RowsOf(u)}) :
          run' = [run EXCEPT ![p] = [@ EXCEPT !.item = u, !.held = id, !.at = "write"]]
    BY <1>1 DEF Find
  <1>b. PICK id : /\ id \in (IF RowsOf(u) = {} THEN {NoId} ELSE {x.id : x \in RowsOf(u)})
                  /\ run' = [run EXCEPT ![p] = [@ EXCEPT !.item = u, !.held = id, !.at = "write"]]
    BY <1>a
  <1>3. id \in Nat /\ IF id = NoId THEN RowsOf(u) = {} ELSE \E x \in RowsOf(u) : x.id = id
    <2>1. CASE RowsOf(u) = {}
      BY <1>b, <2>1, NoIdIsZero
    <2>2. CASE RowsOf(u) # {}
      <3>1. PICK x \in RowsOf(u) : x.id = id
        BY <1>b, <2>2
      <3>2. x \in RankRows
        BY <3>1 DEF RowsOf, RankInv, TableFits
      <3>3. x.id \in Nat \ {NoId}
        BY <3>2 DEF RankRows
      <3> QED
        BY <3>1, <3>3
    <2> QED
      BY <2>1, <2>2
  <1> DEFINE e == [r EXCEPT !.item = u, !.held = id, !.at = "write"]
  <1>4. run' = [run EXCEPT ![p] = e]
    BY <1>1, <1>b
  <1>5. /\ e \in Run /\ e.at = "write" /\ e.item = u /\ e.held = id
        /\ e.todo = r.todo /\ e.got = r.got /\ e.names = r.names /\ e.order = r.order /\ e.gone = r.gone
    <2>1. u \in Users
      BY <1>2
    <2> QED
      BY <1>3, <2>1 DEF Run, Steps
  <1> HIDE DEF e
  <1>6. RunFits(e)
    BY <1>2, <1>5 DEF RunFits, Writing
  <1>7. ASSUME ~overlap PROVE Knows(e)'
    <2>1. Knows(r)
      BY <1>1, <1>7 DEF RankInv, Alone
    <2>2. \A v \in Ranked(e.got) \ e.todo : Stands(e.order, e.got, v)
      BY <1>2, <1>5, <2>1 DEF Knows, Writing
    <2>3. table' = table
      BY DEF Find
    <2>4. \A v \in Ranked(e.got) \ e.todo : Stands(e.order, e.got, v)'
      BY <2>2, <2>3 DEF Stands
    <2>5. (IF id = NoId THEN RowsOf(u) = {} ELSE \E x \in RowsOf(u) : x.id = id)'
      BY <1>3, <2>3 DEF RowsOf
    <2> QED
      BY <1>5, <2>4, <2>5 DEF Knows, Writing
  <1>8. run[p].at # "idle" /\ e.at # "idle"
    BY <1>1, <1>2, <1>5
  <1>9. TableFits' /\ (~overlap => \A r1, r2 \in table' : r1.user = r2.user => r1 = r2)
    BY TableKept, AloneRows DEF Find, RankInv
  <1>10. UNCHANGED <<active, stats, last, overlap, starts, changes, crashes>>
    BY DEF Find
  <1> QED
    BY <1>4, <1>5, <1>6, <1>7, <1>8, <1>9, <1>10, StepOK
\* A row is put where the one with its id was, or added.
LEMMA TablePut ==
  ASSUME TableFits, NEW x \in RankRows, Called(x.user, x.name),
         \A y \in table : y.name = x.name => y.id = x.id,
         table' = {y \in table : y.id # x.id} \cup {x}
  PROVE  TableFits'
  <1> DEFINE rest == {y \in table : y.id # x.id}
  <1>1. IsFiniteSet(table')
    <2>1. IsFiniteSet(rest)
      BY FS_Subset DEF TableFits
    <2>2. table' = rest \cup {x}
      OBVIOUS
    <2> HIDE DEF rest
    <2> QED
      BY <2>1, <2>2, FS_AddElement
  <1>2. \A y \in table' : y = x \/ (y \in table /\ y.id # x.id /\ y.name # x.name)
    OBVIOUS
  <1>3. table' \subseteq RankRows
    BY <1>2 DEF TableFits
  <1>4. \A y, z \in table' : y.id = z.id => y = z
    BY <1>2 DEF TableFits
  <1>5. \A y, z \in table' : y.name = z.name => y = z
    BY <1>2 DEF TableFits
  <1>6. \A y \in table' : Called(y.user, y.name)
    BY <1>2 DEF TableFits
  <1> QED
    BY <1>1, <1>3, <1>4, <1>5, <1>6 DEF TableFits, Called, SharesName

LEMMA WriteStep == ASSUME RankInv, NEW p \in Runs, Write(p) PROVE RankInv'
  <1>1. PICK r \in Run : r = run[p]
    BY RunHeld DEF RankInv
  <1>2. r.at = "write" /\ RunFits(r) /\ r.held \in Nat /\ r.item \in r.todo /\ r.todo \subseteq Users
    BY <1>1, RunHeld DEF Write, RankInv, RunFits
  <1> DEFINE row == RowOf(r, r.item)
             todo == r.todo \ {r.item}
             at == IF todo = {} THEN "sweep" ELSE "find"
             e == [r EXCEPT !.todo = todo, !.item = NoId, !.held = NoId, !.at = at]
             there == \E x \in table : x.id = r.held
  <1>3. run' = [run EXCEPT ![p] = e]
    BY <1>1 DEF Write
  <1>4. /\ (r.held = NoId \/ there) => ~Taken(row.name, r.held)
        /\ table' = IF r.held = NoId THEN table \cup {Put(row, FreshId)}
                    ELSE IF there THEN {x \in table : x.id # r.held} \cup {Put(row, r.held)}
                    ELSE table
    BY <1>1 DEF Write
  <1>5. at \in {"find", "sweep"} /\ todo \subseteq Users /\ (at = "sweep" => todo = {})
    BY <1>2
  <1>6. /\ e \in Run /\ e.at \in {"find", "sweep"} /\ e.at = at /\ e.todo = todo
        /\ e.got = r.got /\ e.names = r.names /\ e.order = r.order /\ e.gone = r.gone
    <2> HIDE DEF todo, at
    <2> QED
      BY <1>5, NoIdIsZero DEF Run, Steps
  <1>7. RunFits(e)
    <2>1. todo \subseteq r.todo
      OBVIOUS
    <2> HIDE DEF e, todo, at
    <2> QED
      BY <1>2, <1>5, <1>6, <2>1 DEF RunFits, Writing
  <1>8. \A id : Put(row, id).name = row.name
    BY DEF Put
  <1>9. UNCHANGED <<active, stats, last, overlap, starts, changes, crashes>>
    BY DEF Write
  <1>10. ASSUME ~overlap PROVE Knows(r)
    BY <1>1, <1>10 DEF RankInv, Alone
  <1>11. TableFits /\ RankTyped
    BY DEF RankInv
  <1>12. \A y \in table : y.id \in Nat \ {0}
    BY <1>11, NoIdIsZero DEF TableFits, RankRows
  <1> HIDE DEF row, e, at
  <1>13. ASSUME r.held = NoId \/ there
         PROVE  \E id \in Nat \ {0} : LET x == Put(row, id) IN
                  /\ table' = {y \in table : y.id # id} \cup {x}
                  /\ \A y \in table : y.name = row.name => y.id = id
                  /\ ~overlap => \A y \in table : y.user = r.item <=> y.id = id
    <2>1. CASE r.held = NoId
      <3>1. FreshId \in Nat \ {0} /\ \A y \in table : y.id # FreshId
        BY <1>11, Fresh
      <3>2. PICK id \in Nat \ {0} : id = FreshId
        BY <3>1
      <3>3. \A y \in table : y.name # row.name
        BY <1>4, <1>12, <2>1, NoIdIsZero DEF Taken
      <3>4. table' = {y \in table : y.id # id} \cup {Put(row, id)}
        BY <1>4, <2>1, <3>1, <3>2
      <3>5. ASSUME ~overlap PROVE \A y \in table : y.user = r.item <=> y.id = id
        <4>1. RowsOf(r.item) = {}
          BY <1>2, <1>10, <2>1, <3>5 DEF Knows
        <4> QED
          BY <3>1, <3>2, <4>1 DEF RowsOf
      <3> QED
        BY <3>3, <3>4, <3>5
    <2>2. CASE r.held # NoId /\ there
      <3>1. PICK id \in Nat \ {0} : id = r.held
        BY <1>2, <2>2, NoIdIsZero
      <3>2. \A y \in table : y.name = row.name => y.id = id
        BY <1>4, <2>2, <3>1 DEF Taken
      <3>3. table' = {y \in table : y.id # id} \cup {Put(row, id)}
        BY <1>4, <2>2, <3>1
      <3>4. ASSUME ~overlap PROVE \A y \in table : y.user = r.item <=> y.id = id
        <4>1. PICK z \in RowsOf(r.item) : z.id = id
          BY <1>2, <1>10, <2>2, <3>1, <3>4 DEF Knows
        <4>2. \A y \in table : y.user = r.item => y = z
          BY <3>4, <4>1, AloneRows DEF RowsOf
        <4>3. \A y \in table : y.id = id => y = z
          BY <1>11, <4>1 DEF RowsOf, TableFits
        <4> QED
          BY <4>1, <4>2, <4>3 DEF RowsOf
      <3> QED
        BY <3>2, <3>3, <3>4
    <2> QED
      BY <1>13, <2>1, <2>2
  <1>14. CASE r.held = NoId \/ there
    <2>1. PICK id \in Nat \ {0} :
            /\ table' = {y \in table : y.id # id} \cup {Put(row, id)}
            /\ \A y \in table : y.name = row.name => y.id = id
            /\ ~overlap => \A y \in table : y.user = r.item <=> y.id = id
      BY <1>13, <1>14
    <2>2. PICK x : x = Put(row, id)
      OBVIOUS
    <2>3. Read(r.order, r.got) /\ r.item \in Ranked(r.got) /\ r.got \in Gots
      BY <1>1, <1>2, RunHeld DEF RankInv, RunFits, Writing
    <2>4. /\ x \in RankRows /\ x.id = id /\ x.user = r.item /\ x.name = row.name
          /\ x.rank = Rank(r.order, r.got, r.item) /\ x.tier = Tier(Rank(r.order, r.got, r.item), r.got[r.item])
          /\ x.stat = r.got[r.item] /\ Called(r.item, x.name)
      <3>1. x = Put(RowOf(r, r.item), id)
        BY <2>2 DEF row
      <3>2. x.name = row.name
        BY <1>8, <2>2
      <3> QED
        BY <1>2, <2>3, <3>1, <3>2, PutType
    <2>5. table' = {y \in table : y.id # x.id} \cup {x}
      BY <2>1, <2>2, <2>4
    <2>6. TableFits'
      BY <1>11, <2>1, <2>4, <2>5, TablePut
    <2>7. ASSUME ~overlap PROVE \A y, z \in table' : y.user = z.user => y = z
      <3>1. \A y, z \in table : y.user = z.user => y = z
        BY <2>7, AloneRows
      <3>2. \A y \in table' : y = x \/ (y \in table /\ y.user # x.user)
        BY <2>1, <2>4, <2>5, <2>7
      <3> QED
        BY <3>1, <3>2
    <2>8. ASSUME ~overlap PROVE Knows(e)'
      <3>1. \A u \in Ranked(r.got) \ r.todo : Stands(r.order, r.got, u)
        BY <1>2, <1>10, <2>8 DEF Knows, Writing
      <3>2. ASSUME NEW u \in Ranked(e.got) \ e.todo PROVE Stands(e.order, e.got, u)'
        <4>1. CASE u = r.item
          <5>1. x \in table'
            BY <2>5
          <5> QED
            BY <1>6, <2>4, <4>1, <5>1 DEF Stands
        <4>2. CASE u # r.item
          <5>1. PICK y \in table : /\ y.user = u /\ y.rank = Rank(r.order, r.got, u)
                                   /\ y.tier = Tier(Rank(r.order, r.got, u), r.got[u]) /\ y.stat = r.got[u]
            BY <1>6, <3>1, <3>2, <4>2 DEF Stands
          <5>2. y \in table'
            BY <2>1, <2>8, <4>2, <5>1
          <5> QED
            BY <1>6, <5>1, <5>2 DEF Stands
        <4> QED
          BY <4>1, <4>2
      <3> QED
        BY <1>6, <3>2 DEF Knows, Writing
    <2>9. run[p].at # "idle" /\ e.at # "idle"
      BY <1>1, <1>2, <1>6
    <2> QED
      BY <1>3, <1>6, <1>7, <1>9, <2>6, <2>7, <2>8, <2>9, StepOK
  <1>15. CASE r.held # NoId /\ ~there
    <2>1. table' = table
      BY <1>4, <1>15
    <2>2. TableFits'
      BY <1>11, <2>1, TableKept
    <2>3. ~overlap => FALSE
      BY <1>2, <1>10, <1>15 DEF Knows, RowsOf
    <2>4. run[p].at # "idle" /\ e.at # "idle"
      BY <1>1, <1>2, <1>6
    <2> QED
      BY <1>3, <1>6, <1>7, <1>9, <2>2, <2>3, <2>4, StepOK
  <1> QED
    BY <1>14, <1>15

\* A run that ends leaves nobody busy, if it was alone.
LEMMA EndOK ==
  ASSUME RankInv, NEW p \in Runs, NEW r, r = run[p], r.at # "idle", NEW how \in {"done", "failed"}, Ended(p, how),
         TableFits', UNCHANGED <<active, stats, overlap, starts, changes, crashes>>,
         ~overlap => /\ \A y, z \in table' : y.user = z.user => y = z
                     /\ how = "failed" => SharesName(r.item)
                     /\ how = "done" => /\ \A u \in Ranked(r.got) : Stands(r.order, r.got, u)'
                                        /\ \A y \in table' : y.user \in Ranked(r.got)
  PROVE  RankInv'
  <1>1. Idle \in Run /\ RunFits(Idle) /\ Idle.at = "idle"
    BY IdleFits
  <1>2. run' = [run EXCEPT ![p] = Idle]
    BY DEF Ended
  <1>3. /\ run' \in [Runs -> Run] /\ run'[p] = Idle
        /\ \A q \in Runs \ {p} : run'[q] = run[q]
        /\ \A q \in Runs : RunFits(run'[q])
    <2> HIDE DEF Idle
    <2> QED
      BY <1>1, <1>2, RunSet DEF RankInv
  <1>4. RankTyped'
    BY <1>3 DEF RankInv, RankTyped
  <1>5. overlap => last' = Nothing
    BY DEF Ended
  <1>6. ASSUME ~overlap PROVE Alone'
    <2>1. \A q \in Runs : run'[q].at = "idle"
      BY <1>1, <1>3, <1>6 DEF RankInv, Alone, Busy
    <2>2. ASSUME NEW q \in Runs PROVE Knows(run[q])'
      <3>1. PICK k : k = run'[q]
        OBVIOUS
      <3>2. Knows(k)'
        BY <2>1, <3>1, IdleKnows
      <3> QED
        BY <3>1, <3>2
    <2>3. PICK l : l = [how |-> how, order |-> r.order, got |-> r.got, item |-> r.item]
      OBVIOUS
    <2>4. last' = l /\ l.how = how /\ l.order = r.order /\ l.got = r.got /\ l.item = r.item
      BY <1>6, <2>3 DEF Ended
    <2>5. Read(r.order, r.got) /\ r.got \in Gots
      BY RunHeld DEF RankInv, RunFits
    <2>6. l.how = "done" => /\ Read(l.order, l.got) /\ l.got \in Gots
                            /\ \A u \in Ranked(l.got) : Stands(l.order, l.got, u)'
                            /\ \A y \in table' : y.user \in Ranked(l.got)
      BY <1>6, <2>4, <2>5
    <2>7. (last.how = "done" => /\ Read(last.order, last.got) /\ last.got \in Gots
                                /\ \A u \in Ranked(last.got) : Stands(last.order, last.got, u)
                                /\ \A y \in table : y.user \in Ranked(last.got))'
      BY <2>4, <2>6
    <2>8. Busy' = {}
      BY <2>1 DEF Busy
    <2>9. (last.how = "failed" => SharesName(last.item))'
      BY <1>6, <2>4 DEF SharesName
    <2>10. \A y, z \in table' : y.user = z.user => y = z
      BY <1>6
    <2> QED
      BY <2>2, <2>7, <2>8, <2>9, <2>10 DEF Alone
  <1> QED
    BY <1>4, <1>5, <1>6 DEF RankInv

LEMMA NameTakenStep == ASSUME RankInv, NEW p \in Runs, NameTaken(p) PROVE RankInv'
  <1>1. PICK r \in Run : r = run[p]
    BY RunHeld DEF RankInv
  <1>2. r.at = "write" /\ Read(r.order, r.got) /\ r.item \in Ranked(r.got) /\ r.got \in Gots
    BY <1>1, RunHeld DEF NameTaken, RankInv, RunFits, Writing
  <1>3. TableFits /\ TableFits' /\ table' = table
    BY TableKept DEF NameTaken, RankInv
  <1>4. ASSUME ~overlap PROVE \A y, z \in table' : y.user = z.user => y = z
    BY <1>3, <1>4, AloneRows
  <1>5. ASSUME ~overlap PROVE SharesName(r.item)
    <2>1. SUFFICES ASSUME ~SharesName(r.item) PROVE FALSE
      OBVIOUS
    <2>2. Knows(r)
      BY <1>1, <1>5 DEF RankInv, Alone
    <2>3. r.item \in DOMAIN r.got /\ r.item \in Users
      BY <1>2, EchelonOf DEF Gots
    <2>4. r.names[r.item] = Name(Base[r.item], 1)
      BY <1>1, <2>1, <2>3, RunHeld DEF RankInv, RunFits, Called
    <2>5. PICK y \in table : y.name = Name(Base[r.item], 1) /\ y.id # r.held
      BY <1>1, <2>4 DEF NameTaken, Taken
    <2>6. y.user \in Users /\ \E n \in Numbers : y.name = Name(Base[y.user], n)
      BY <1>3 DEF TableFits, RankRows, Called
    <2>7. y.user = r.item
      BY <2>1, <2>5, <2>6 DEF SharesName
    <2>8. PICK z \in RowsOf(r.item) : z.id = r.held
      BY <1>2, <2>2, <2>7 DEF Knows, RowsOf
    <2> QED
      BY <1>3, <1>4, <1>5, <2>5, <2>7, <2>8 DEF RowsOf
  <1>6. Ended(p, "failed") /\ UNCHANGED <<active, stats, overlap, starts, changes, crashes>>
    BY DEF NameTaken
  <1> QED
    BY <1>1, <1>2, <1>3, <1>4, <1>5, <1>6, EndOK

LEMMA SweepStep == ASSUME RankInv, NEW p \in Runs, Sweep(p) PROVE RankInv'
  <1>1. PICK r \in Run : r = run[p]
    BY RunHeld DEF RankInv
  <1>2. r.at = "sweep" /\ RunFits(r)
    BY <1>1, RunHeld DEF Sweep, RankInv
  <1>3. PICK gone : gone = Stale(r.got)
    OBVIOUS
  <1> DEFINE e == [r EXCEPT !.at = "delete", !.gone = gone]
  <1>4. run' = [run EXCEPT ![p] = e]
    BY <1>1, <1>3 DEF Sweep
  <1>5. TableFits /\ table' = table /\ TableFits'
    BY TableKept DEF RankInv, Sweep
  <1>6. gone \in SUBSET Nat
    BY <1>3, <1>5, NoIdIsZero DEF Stale, TableFits, RankRows
  <1>7. IsFiniteSet(gone)
    <2> DEFINE Y == {y \in table : y.user \notin Ranked(r.got)}
               ids == [y \in Y |-> y.id]
    <2>1. IsFiniteSet(Y)
      BY <1>5, FS_Subset DEF TableFits
    <2>2. gone = {ids[y] : y \in Y} /\ DOMAIN ids = Y
      BY <1>3 DEF Stale
    <2> HIDE DEF ids, Y
    <2> QED
      BY <2>1, <2>2, ImageFinite
  <1>8. /\ e \in Run /\ e.at = "delete" /\ e.gone = gone
        /\ e.todo = r.todo /\ e.got = r.got /\ e.names = r.names /\ e.order = r.order
    BY <1>6 DEF Run, Steps
  <1> HIDE DEF e
  <1>9. RunFits(e)
    BY <1>2, <1>7, <1>8 DEF RunFits, Writing
  <1>10. ASSUME ~overlap PROVE Knows(e)'
    <2>1. Knows(r)
      BY <1>1, <1>10 DEF RankInv, Alone
    <2>2. \A v \in Ranked(e.got) \ e.todo : Stands(e.order, e.got, v)
      BY <1>2, <1>8, <2>1 DEF Knows, Writing
    <2>3. \A v \in Ranked(e.got) \ e.todo : Stands(e.order, e.got, v)'
      BY <1>5, <2>2 DEF Stands
    <2>4. gone = Stale(r.got)'
      BY <1>3, <1>5 DEF Stale
    <2> QED
      BY <1>8, <2>3, <2>4 DEF Knows, Writing
  <1>11. run[p].at # "idle" /\ e.at # "idle"
    BY <1>1, <1>2, <1>8
  <1>12. ~overlap => \A y, z \in table' : y.user = z.user => y = z
    BY <1>5, AloneRows
  <1>13. UNCHANGED <<active, stats, last, overlap, starts, changes, crashes>>
    BY DEF Sweep
  <1> QED
    BY <1>4, <1>5, <1>8, <1>9, <1>10, <1>11, <1>12, <1>13, StepOK

LEMMA DeleteStep == ASSUME RankInv, NEW p \in Runs, Delete(p) PROVE RankInv'
  <1>1. PICK r \in Run : r = run[p]
    BY RunHeld DEF RankInv
  <1>2. r.at = "delete" /\ RunFits(r) /\ r.todo = {}
    BY <1>1, RunHeld DEF Delete, RankInv, RunFits
  <1>3. PICK id \in r.gone : /\ table' = {x \in table : x.id # id}
                            /\ run' = [run EXCEPT ![p] = [@ EXCEPT !.gone = run[p].gone \ {id}]]
    BY <1>1 DEF Delete
  <1> DEFINE e == [r EXCEPT !.gone = r.gone \ {id}]
  <1>4. run' = [run EXCEPT ![p] = e]
    BY <1>1, <1>3
  <1>5. TableFits /\ TableFits'
    <2>1. table' \subseteq table /\ TableFits
      BY <1>3 DEF RankInv
    <2>2. IsFiniteSet(table')
      BY <2>1, FS_Subset DEF TableFits
    <2> QED
      BY <2>1, <2>2 DEF TableFits, Called, SharesName
  <1>6. IsFiniteSet(r.gone \ {id})
    BY <1>2, FS_Subset DEF RunFits
  <1>7. /\ e \in Run /\ e.at = "delete" /\ e.gone = r.gone \ {id}
        /\ e.todo = r.todo /\ e.got = r.got /\ e.names = r.names /\ e.order = r.order
    BY <1>2 DEF Run, Steps
  <1> HIDE DEF e
  <1>8. RunFits(e)
    BY <1>2, <1>6, <1>7 DEF RunFits, Writing
  <1>9. ASSUME ~overlap PROVE Knows(e)'
    <2>1. r.gone = Stale(r.got) /\ \A u \in Ranked(r.got) : Stands(r.order, r.got, u)
      BY <1>1, <1>2, <1>9 DEF RankInv, Alone, Knows, Writing
    <2>2. \A y \in table : y.id \in r.gone <=> y.user \notin Ranked(r.got)
      BY <1>5, <2>1 DEF Stale, TableFits
    <2>3. ASSUME NEW u \in Ranked(r.got) PROVE Stands(r.order, r.got, u)'
      <3>1. PICK y \in table : /\ y.user = u /\ y.rank = Rank(r.order, r.got, u)
                               /\ y.tier = Tier(Rank(r.order, r.got, u), r.got[u]) /\ y.stat = r.got[u]
        BY <2>1 DEF Stands
      <3>2. y \in table'
        BY <1>3, <2>2, <3>1
      <3> QED
        BY <3>1, <3>2 DEF Stands
    <2>4. e.gone = Stale(e.got)'
      <3>1. Stale(r.got)' = Stale(r.got) \ {id}
        BY <1>3 DEF Stale
      <3> QED
        BY <1>7, <2>1, <3>1
    <2> QED
      BY <1>7, <2>3, <2>4 DEF Knows, Writing
  <1>10. ASSUME ~overlap PROVE \A y, z \in table' : y.user = z.user => y = z
    BY <1>3, <1>10, AloneRows
  <1>11. run[p].at # "idle" /\ e.at # "idle"
    BY <1>1, <1>2, <1>7
  <1>12. UNCHANGED <<active, stats, last, overlap, starts, changes, crashes>>
    BY DEF Delete
  <1> QED
    BY <1>4, <1>5, <1>7, <1>8, <1>9, <1>10, <1>11, <1>12, StepOK

LEMMA ConcludeStep == ASSUME RankInv, NEW p \in Runs, Conclude(p) PROVE RankInv'
  <1>1. PICK r \in Run : r = run[p]
    BY RunHeld DEF RankInv
  <1>2. r.at = "delete" /\ RunFits(r) /\ r.todo = {} /\ r.gone = {}
    BY <1>1, RunHeld DEF Conclude, RankInv, RunFits
  <1>3. TableFits /\ TableFits' /\ table' = table
    BY TableKept DEF Conclude, RankInv
  <1>4. ASSUME ~overlap
        PROVE  /\ \A y, z \in table' : y.user = z.user => y = z
               /\ \A u \in Ranked(r.got) : Stands(r.order, r.got, u)'
               /\ \A y \in table' : y.user \in Ranked(r.got)
    <2>1. Stale(r.got) = {} /\ \A u \in Ranked(r.got) : Stands(r.order, r.got, u)
      BY <1>1, <1>2, <1>4 DEF RankInv, Alone, Knows, Writing
    <2>2. \A y \in table : y.user \in Ranked(r.got)
      BY <2>1 DEF Stale
    <2>3. \A u \in Ranked(r.got) : Stands(r.order, r.got, u)'
      BY <1>3, <2>1 DEF Stands
    <2> QED
      BY <1>3, <1>4, <2>2, <2>3, AloneRows
  <1>5. Ended(p, "done") /\ UNCHANGED <<active, stats, overlap, starts, changes, crashes>>
    BY DEF Conclude
  <1> QED
    BY <1>1, <1>2, <1>3, <1>4, <1>5, EndOK
-----------------------------------------------------------------------------
(* The other steps, and the invariant                                        *)

LEMMA AloneKept == ASSUME Alone, UNCHANGED <<table, run, last>> PROVE Alone'
  <1>1. ASSUME NEW p \in Runs PROVE Knows(run[p])'
    <2>1. Knows(run[p])
      BY DEF Alone
    <2>2. run' = run /\ table' = table
      OBVIOUS
    <2> QED
      BY <2>1, <2>2 DEF Knows, Stands, RowsOf, Stale
  <1> QED
    BY <1>1 DEF Alone, Busy, Stands

LEMMA ElseStep ==
  ASSUME RankInv, UNCHANGED <<table, run, last, overlap>>, active' \subseteq Users, stats' \in [Users -> Statistics],
         starts' \in 0 .. MaxStarts, changes' \in 0 .. MaxChanges, crashes' \in 0 .. MaxCrashes
  PROVE  RankInv'
  <1>1. RankTyped' /\ TableFits'
    BY TableKept DEF RankInv, RankTyped
  <1> QED
    BY <1>1, AloneKept DEF RankInv

LEMMA TradeStep == ASSUME RankInv, NEW u \in Users, NEW s \in Statistics, Trade(u, s) PROVE RankInv'
  <1>1. /\ active' \subseteq Users /\ stats' \in [Users -> Statistics]
        /\ starts' \in 0 .. MaxStarts /\ crashes' \in 0 .. MaxCrashes
    BY DEF Trade, RankInv, RankTyped
  <1>2. changes' \in 0 .. MaxChanges
    BY LeaderboardAssumption DEF Trade, RankInv, RankTyped
  <1> QED
    BY <1>1, <1>2, ElseStep DEF Trade

LEMMA BlockStep == ASSUME RankInv, NEW u \in Users, BlockOrUnblock(u) PROVE RankInv'
  <1>1. /\ active' \subseteq Users /\ stats' \in [Users -> Statistics]
        /\ starts' \in 0 .. MaxStarts /\ crashes' \in 0 .. MaxCrashes
    BY DEF BlockOrUnblock, RankInv, RankTyped
  <1>2. changes' \in 0 .. MaxChanges
    BY LeaderboardAssumption DEF BlockOrUnblock, RankInv, RankTyped
  <1> QED
    BY <1>1, <1>2, ElseStep DEF BlockOrUnblock

\* All runs are idle, so what was known of the table does not matter.
LEMMA AllIdle ==
  (\A p \in Runs : run[p] = Idle) /\ last = Nothing /\ (\A r, s \in table : r.user = s.user => r = s) => Alone
  <1> SUFFICES ASSUME \A p \in Runs : run[p] = Idle, last = Nothing, \A r, s \in table : r.user = s.user => r = s
               PROVE  Alone
    OBVIOUS
  <1>1. \A p \in Runs : run[p].at = "idle"
    BY DEF Idle
  <1>2. Busy = {}
    BY <1>1 DEF Busy
  <1>3. \A p \in Runs : Knows(run[p])
    BY <1>1 DEF Knows, Writing
  <1>4. last.how = "nothing"
    BY DEF Nothing
  <1> QED
    BY <1>2, <1>3, <1>4 DEF Alone

LEMMA RankCrashStep == ASSUME RankInv, RankCrash PROVE RankInv'
  <1>1. Idle \in Run /\ RunFits(Idle)
    BY IdleFits
  <1>2. run' = [p \in Runs |-> Idle] /\ last' = Nothing
    BY DEF RankCrash
  <1>3. run' \in [Runs -> Run] /\ \A p \in Runs : run'[p] = Idle /\ RunFits(run'[p])
    <2> HIDE DEF Idle
    <2> QED
      BY <1>1, <1>2
  <1>4. crashes' \in 0 .. MaxCrashes
    BY LeaderboardAssumption DEF RankCrash, RankInv, RankTyped
  <1>5. RankTyped' /\ TableFits'
    BY <1>3, <1>4, TableKept DEF RankCrash, RankInv, RankTyped
  <1>6. ASSUME ~overlap' PROVE Alone'
    <2>1. ~overlap /\ table' = table
      BY <1>6 DEF RankCrash
    <2>2. \A r, s \in table' : r.user = s.user => r = s
      BY <2>1, AloneRows
    <2>3. (\A p \in Runs : run[p] = Idle)' /\ (last = Nothing)' /\ (\A r, s \in table : r.user = s.user => r = s)'
      <3> HIDE DEF Idle, Nothing
      <3> QED
        BY <1>2, <1>3, <2>2
    <2> QED
      BY <2>3, AllIdle, PTL
  <1> QED
    BY <1>2, <1>5, <1>6 DEF RankInv

LEMMA RankInitOK == ASSUME RankInit PROVE RankInv
  <1> USE LeaderboardAssumption
  <1>1. Idle \in Run /\ RunFits(Idle)
    BY IdleFits
  <1>2. run \in [Runs -> Run] /\ \A p \in Runs : run[p] = Idle /\ RunFits(run[p])
    <2> HIDE DEF Idle
    <2> QED
      BY <1>1 DEF RankInit
  <1>3. RankTyped
    <2>1. starts \in 0 .. MaxStarts /\ changes \in 0 .. MaxChanges /\ crashes \in 0 .. MaxCrashes
      BY DEF RankInit
    <2>2. active \subseteq Users /\ stats \in [Users -> Statistics] /\ overlap \in BOOLEAN
      BY DEF RankInit
    <2> QED
      BY <1>2, <2>1, <2>2 DEF RankTyped
  <1>4. TableFits
    BY FS_EmptySet DEF RankInit, TableFits
  <1>5. Alone
    BY <1>2, AllIdle DEF RankInit
  <1> QED
    BY <1>3, <1>4, <1>5 DEF RankInit, RankInv

LEMMA RankStep == ASSUME RankInv, [RankNext]_rankVars PROVE RankInv'
  <1>1. ASSUME NEW p \in Runs, Begin(p) PROVE RankInv'
    BY <1>1, BeginStep
  <1>2. ASSUME NEW p \in Runs, Tally(p) PROVE RankInv'
    BY <1>2, TallyStep
  <1>3. ASSUME NEW p \in Runs, Compute(p) PROVE RankInv'
    BY <1>3, ComputeStep
  <1>4. ASSUME NEW p \in Runs, Find(p) PROVE RankInv'
    BY <1>4, FindStep
  <1>5. ASSUME NEW p \in Runs, Write(p) PROVE RankInv'
    BY <1>5, WriteStep
  <1>6. ASSUME NEW p \in Runs, NameTaken(p) PROVE RankInv'
    BY <1>6, NameTakenStep
  <1>7. ASSUME NEW p \in Runs, Sweep(p) PROVE RankInv'
    BY <1>7, SweepStep
  <1>8. ASSUME NEW p \in Runs, Delete(p) \/ Conclude(p) PROVE RankInv'
    BY <1>8, DeleteStep, ConcludeStep
  <1>9. ASSUME NEW u \in Users, BlockOrUnblock(u) PROVE RankInv'
    BY <1>9, BlockStep
  <1>10. ASSUME NEW u \in Users, NEW s \in Statistics, Trade(u, s) PROVE RankInv'
    BY <1>10, TradeStep
  <1>11. CASE RankCrash
    BY <1>11, RankCrashStep
  <1>12. CASE UNCHANGED rankVars
    BY <1>12, ElseStep DEF rankVars, RankInv, RankTyped
  <1> QED
    BY <1>1, <1>2, <1>3, <1>4, <1>5, <1>6, <1>7, <1>8, <1>9, <1>10, <1>11, <1>12 DEF RankNext

\* Every reachable state satisfies the inductive invariant: what the rows and
\* the runs hold fits together, and as long as two recalculations have never
\* been under way at once, the one that is knows what stands in the table.
THEOREM RankInvariant == RankSpec => []RankInv
  <1>1. RankInit => RankInv
    BY RankInitOK
  <1>2. RankInv /\ [RankNext]_rankVars => RankInv'
    BY RankStep
  <1> QED
    BY <1>1, <1>2, PTL DEF RankSpec

\* Every variable keeps its type: no row without an id, no rank that is not a
\* number, no tier but the seven (getTierAndRankInfo always finds one).
THEOREM RankTypeCorrect == RankSpec => []RankTypeOK
  <1>1. RankInv => RankTypeOK
    BY RunHeld DEF RankInv, RankTyped, TableFits, RankTypeOK
  <1> QED
    BY <1>1, RankInvariant, PTL

\* Who has a name nobody else can come by, not with a number behind it either,
\* never has two rows, however many recalculations run at once: the row that
\* find-then-insert would double goes by the same name, and the unique column
\* refuses it.
THEOREM OneRow == RankSpec => []OneRowEach
  <1>1. RankInv => OneRowEach
    BY DEF RankInv, TableFits, Called, OneRowEach, RowsOf
  <1> QED
    BY <1>1, RankInvariant, PTL

\* As long as recalculations have never overlapped, each that ends well leaves
\* one row for each trader it ranked, with the rank it gave him, whatever
\* crashed or failed before it; and one fails only at the row of a user whose
\* name another may come by.
THEOREM TableStands == RankSpec => []TableIsRanking
  <1>1. ASSUME RankInv PROVE TableIsRanking
    <2>1. ASSUME Done PROVE /\ {<<r.user, r.rank>> : r \in table}
                                 = {<<u, Rank(last.order, last.got, u)>> : u \in Ranked(last.got)}
                            /\ Cardinality(table) = Cardinality(Ranked(last.got))
      <3>1. Alone /\ TableFits /\ last.how = "done"
        BY <1>1, <2>1 DEF RankInv, Done, Nothing
      <3>2. /\ \A u \in Ranked(last.got) : Stands(last.order, last.got, u)
            /\ \A r \in table : r.user \in Ranked(last.got)
            /\ \A r, s \in table : r.user = s.user => r = s
        BY <3>1 DEF Alone
      <3>3. \A r \in table : r.rank = Rank(last.order, last.got, r.user)
        BY <3>2 DEF Stands
      <3>4. \A u \in Ranked(last.got) : \E r \in table : r.user = u
        BY <3>2 DEF Stands
      <3>5. {<<r.user, r.rank>> : r \in table} = {<<u, Rank(last.order, last.got, u)>> : u \in Ranked(last.got)}
        BY <3>2, <3>3, <3>4
      <3> DEFINE f == [r \in table |-> r.user]
      <3>6. f \in Bijection(table, Ranked(last.got))
        BY <3>2, <3>4 DEF Bijection, Injection, Surjection, IsInjective
      <3>7. ExistsBijection(table, Ranked(last.got)) /\ IsFiniteSet(table)
        BY <3>1, <3>6 DEF ExistsBijection, TableFits
      <3> QED
        BY <3>5, <3>7, FS_Bijection
    <2>2. last.how = "failed" => SharesName(last.item)
      BY <1>1 DEF RankInv, Alone, Nothing
    <2> QED
      BY <2>1, <2>2 DEF TableIsRanking
  <1> QED
    BY <1>1, RankInvariant, PTL
-----------------------------------------------------------------------------
(* The order of the traders is fair                                          *)

LEMMA StatType ==
  ASSUME NEW s \in Statistics
  PROVE  /\ s \in [Fields -> Int] /\ s.trades \in Nat /\ s.pnl \in Int /\ s.days \in Int /\ s.age \in Int
         /\ s.winRate \in Int /\ s.factor \in Int /\ s.reward \in Int /\ s.streak \in Int
  <1>1. s \in [Fields -> Int] /\ s.trades >= 0
    BY LeaderboardAssumption
  <1> QED
    BY <1>1 DEF Fields

LEMMA RoundDivInt == ASSUME NEW a \in Int, NEW b \in Nat \ {0} PROVE RoundDiv(a, b) \in Int
  <1>1. 2 * b \in Nat \ {0} /\ 2 * a + b \in Int
    OBVIOUS
  <1> QED
    BY <1>1 DEF RoundDiv

LEMMA AtMostInt == ASSUME NEW a \in Int, NEW b \in Int PROVE AtMost(a, b) \in Int
  BY DEF AtMost

LEMMA ScoreInt == ASSUME NEW s \in Statistics PROVE Score(s) \in Int
  <1> DEFINE volume == RoundDiv(2500 * AtMost(s.trades, 1000) + 150 * AtMost(s.trades, 25000), 25000)
             profit == IF s.pnl > 0
                       THEN RoundDiv(150 * AtMost(s.pnl, 500), 500) + RoundDiv(100 * AtMost(s.factor, 200), 200)
                       ELSE RoundDiv(50 * AtMost(s.factor, 100), 200)
             steady == RoundDiv(150 * AtMost(s.days, 20), 20) + RoundDiv(50 * AtMost(s.age, 90), 90)
             skill  == RoundDiv(150 * s.winRate, 1000) + RoundDiv(100 * AtMost(s.reward, 200), 200)
                         + RoundDiv(50 * AtMost(s.streak, 5), 5)
  <1>1. /\ s.trades \in Int /\ s.pnl \in Int /\ s.days \in Int /\ s.age \in Int
        /\ s.winRate \in Int /\ s.factor \in Int /\ s.reward \in Int /\ s.streak \in Int
    BY StatType
  <1>2. volume \in Int
    <2>1. AtMost(s.trades, 1000) \in Int /\ AtMost(s.trades, 25000) \in Int
      BY <1>1 DEF AtMost
    <2>2. 2500 * AtMost(s.trades, 1000) + 150 * AtMost(s.trades, 25000) \in Int
      BY <2>1
    <2> QED
      BY <2>2, RoundDivInt
  <1>3. profit \in Int
    <2>1. AtMost(s.pnl, 500) \in Int /\ AtMost(s.factor, 200) \in Int /\ AtMost(s.factor, 100) \in Int
      BY <1>1 DEF AtMost
    <2>2. 150 * AtMost(s.pnl, 500) \in Int /\ 100 * AtMost(s.factor, 200) \in Int /\ 50 * AtMost(s.factor, 100) \in Int
      BY <2>1
    <2>3. /\ RoundDiv(150 * AtMost(s.pnl, 500), 500) \in Int /\ RoundDiv(100 * AtMost(s.factor, 200), 200) \in Int
          /\ RoundDiv(50 * AtMost(s.factor, 100), 200) \in Int
      BY <2>2, RoundDivInt
    <2> QED
      BY <2>3
  <1>4. steady \in Int
    <2>0. AtMost(s.days, 20) \in Int /\ AtMost(s.age, 90) \in Int
      BY <1>1 DEF AtMost
    <2>1. 150 * AtMost(s.days, 20) \in Int /\ 50 * AtMost(s.age, 90) \in Int
      BY <2>0
    <2>2. RoundDiv(150 * AtMost(s.days, 20), 20) \in Int /\ RoundDiv(50 * AtMost(s.age, 90), 90) \in Int
      BY <2>1, RoundDivInt
    <2> QED
      BY <2>2
  <1>5. skill \in Int
    <2>0. AtMost(s.reward, 200) \in Int /\ AtMost(s.streak, 5) \in Int
      BY <1>1 DEF AtMost
    <2>1. 150 * s.winRate \in Int /\ 100 * AtMost(s.reward, 200) \in Int /\ 50 * AtMost(s.streak, 5) \in Int
      BY <1>1, <2>0
    <2>a. PICK rate \in Int : rate = 150 * s.winRate
      BY <2>1
    <2>b. RoundDiv(rate, 1000) \in Int
      BY RoundDivInt
    <2>c. RoundDiv(100 * AtMost(s.reward, 200), 200) \in Int /\ RoundDiv(50 * AtMost(s.streak, 5), 5) \in Int
      BY <2>1, RoundDivInt
    <2>2. /\ RoundDiv(150 * s.winRate, 1000) \in Int /\ RoundDiv(100 * AtMost(s.reward, 200), 200) \in Int
          /\ RoundDiv(50 * AtMost(s.streak, 5), 5) \in Int
      BY <2>a, <2>b, <2>c
    <2> QED
      BY <2>2
  <1>6. Score(s) = AtMost(1000, volume + profit + steady + skill)
    BY DEF Score
  <1> HIDE DEF volume, profit, steady, skill
  <1>7. volume + profit + steady + skill \in Int
    BY <1>2, <1>3, <1>4, <1>5
  <1> QED
    BY <1>6, <1>7, AtMostInt

\* The comparison of two traders, one merit after the other.
LEMMA AheadIs ==
  ASSUME NEW s \in Statistics, NEW t \in Statistics
  PROVE  Ahead(s, t) <=> \/ Score(s) > Score(t)
                         \/ Score(s) = Score(t) /\ s.pnl > t.pnl
                         \/ Score(s) = Score(t) /\ s.pnl = t.pnl /\ s.trades > t.trades
                         \/ Score(s) = Score(t) /\ s.pnl = t.pnl /\ s.trades = t.trades /\ s.winRate > t.winRate
  <1> DEFINE m == Merits(s)
             n == Merits(t)
  <1>1. /\ m[1] = Score(s) /\ m[2] = s.pnl /\ m[3] = s.trades /\ m[4] = s.winRate
        /\ n[1] = Score(t) /\ n[2] = t.pnl /\ n[3] = t.trades /\ n[4] = t.winRate
    BY DEF Merits
  <1> HIDE DEF m, n
  <1>2. Ahead(s, t) <=> \E i \in 1 .. 4 : m[i] > n[i] /\ \A j \in 1 .. i - 1 : m[j] = n[j]
    BY DEF Ahead, m, n
  <1>3. /\ (\A j \in 1 .. 1 - 1 : m[j] = n[j]) <=> TRUE
        /\ (\A j \in 1 .. 2 - 1 : m[j] = n[j]) <=> m[1] = n[1]
        /\ (\A j \in 1 .. 3 - 1 : m[j] = n[j]) <=> m[1] = n[1] /\ m[2] = n[2]
        /\ (\A j \in 1 .. 4 - 1 : m[j] = n[j]) <=> m[1] = n[1] /\ m[2] = n[2] /\ m[3] = n[3]
    <2>1. /\ \A j \in 1 .. 1 - 1 : FALSE
          /\ \A j : j \in 1 .. 2 - 1 <=> j = 1
          /\ \A j : j \in 1 .. 3 - 1 <=> (j = 1 \/ j = 2)
          /\ \A j : j \in 1 .. 4 - 1 <=> (j = 1 \/ j = 2 \/ j = 3)
      OBVIOUS
    <2> QED
      BY <2>1
  <1>4. \A i : i \in 1 .. 4 <=> (i = 1 \/ i = 2 \/ i = 3 \/ i = 4)
    OBVIOUS
  <1>5. Ahead(s, t) <=> \/ m[1] > n[1]
                        \/ m[2] > n[2] /\ m[1] = n[1]
                        \/ m[3] > n[3] /\ m[1] = n[1] /\ m[2] = n[2]
                        \/ m[4] > n[4] /\ m[1] = n[1] /\ m[2] = n[2] /\ m[3] = n[3]
    BY <1>2, <1>3, <1>4
  <1> QED
    BY <1>1, <1>5

\* To come before another is a strict total order of those who were read.
LEMMA BeforeOrder ==
  ASSUME NEW order, NEW saw \in Gots, Read(order, saw),
         NEW u \in DOMAIN saw, NEW v \in DOMAIN saw, NEW w \in DOMAIN saw
  PROVE  /\ u # v => Before(order, saw, u, v) \/ Before(order, saw, v, u)
         /\ ~(Before(order, saw, u, v) /\ Before(order, saw, v, u))
         /\ Before(order, saw, u, v) /\ Before(order, saw, v, w) => Before(order, saw, u, w)
  <1>1. saw[u] \in Statistics /\ saw[v] \in Statistics /\ saw[w] \in Statistics
    BY DEF Gots
  <1>2. PICK a1 \in Int, b1 \in Int, c1 \in Int :
          a1 = Score(saw[u]) /\ b1 = Score(saw[v]) /\ c1 = Score(saw[w])
    BY <1>1, ScoreInt
  <1>3. PICK a2 \in Int, b2 \in Int, c2 \in Int : a2 = saw[u].pnl /\ b2 = saw[v].pnl /\ c2 = saw[w].pnl
    BY <1>1, StatType
  <1>4. PICK a3 \in Int, b3 \in Int, c3 \in Int : a3 = saw[u].trades /\ b3 = saw[v].trades /\ c3 = saw[w].trades
    BY <1>1, StatType
  <1>5. PICK a4 \in Int, b4 \in Int, c4 \in Int : a4 = saw[u].winRate /\ b4 = saw[v].winRate /\ c4 = saw[w].winRate
    BY <1>1, StatType
  <1>6. PICK a5 \in Nat, b5 \in Nat, c5 \in Nat :
          /\ a5 = Place(order, u) /\ b5 = Place(order, v) /\ c5 = Place(order, w)
          /\ u # v => a5 # b5
    BY PlaceOf
  <1> DEFINE Lex(x1, x2, x3, x4, y1, y2, y3, y4) ==
               \/ x1 > y1
               \/ x1 = y1 /\ (\/ x2 > y2
                              \/ x2 = y2 /\ (x3 > y3 \/ (x3 = y3 /\ x4 > y4)))
  <1>7. Ahead(saw[u], saw[v]) <=> Lex(a1, a2, a3, a4, b1, b2, b3, b4)
    BY <1>1, <1>2, <1>3, <1>4, <1>5, AheadIs
  <1>8. Ahead(saw[v], saw[u]) <=> Lex(b1, b2, b3, b4, a1, a2, a3, a4)
    BY <1>1, <1>2, <1>3, <1>4, <1>5, AheadIs
  <1>9. Ahead(saw[v], saw[w]) <=> Lex(b1, b2, b3, b4, c1, c2, c3, c4)
    BY <1>1, <1>2, <1>3, <1>4, <1>5, AheadIs
  <1>10. Ahead(saw[w], saw[v]) <=> Lex(c1, c2, c3, c4, b1, b2, b3, b4)
    BY <1>1, <1>2, <1>3, <1>4, <1>5, AheadIs
  <1>11. Ahead(saw[u], saw[w]) <=> Lex(a1, a2, a3, a4, c1, c2, c3, c4)
    BY <1>1, <1>2, <1>3, <1>4, <1>5, AheadIs
  <1>12. Ahead(saw[w], saw[u]) <=> Lex(c1, c2, c3, c4, a1, a2, a3, a4)
    BY <1>1, <1>2, <1>3, <1>4, <1>5, AheadIs
  <1>13. Before(order, saw, u, v) <=> \/ Lex(a1, a2, a3, a4, b1, b2, b3, b4)
                                      \/ ~Lex(b1, b2, b3, b4, a1, a2, a3, a4) /\ a5 < b5
    BY <1>6, <1>7, <1>8 DEF Before
  <1>14. Before(order, saw, v, u) <=> \/ Lex(b1, b2, b3, b4, a1, a2, a3, a4)
                                      \/ ~Lex(a1, a2, a3, a4, b1, b2, b3, b4) /\ b5 < a5
    BY <1>6, <1>7, <1>8 DEF Before
  <1>15. Before(order, saw, v, w) <=> \/ Lex(b1, b2, b3, b4, c1, c2, c3, c4)
                                      \/ ~Lex(c1, c2, c3, c4, b1, b2, b3, b4) /\ b5 < c5
    BY <1>6, <1>9, <1>10 DEF Before
  <1>16. Before(order, saw, u, w) <=> \/ Lex(a1, a2, a3, a4, c1, c2, c3, c4)
                                      \/ ~Lex(c1, c2, c3, c4, a1, a2, a3, a4) /\ a5 < c5
    BY <1>6, <1>11, <1>12 DEF Before
  <1>17. u # v => Before(order, saw, u, v) \/ Before(order, saw, v, u)
    BY <1>6, <1>13, <1>14
  <1>18. ~(Before(order, saw, u, v) /\ Before(order, saw, v, u))
    BY <1>13, <1>14
  <1>19. Before(order, saw, u, v) /\ Before(order, saw, v, w) => Before(order, saw, u, w)
    BY <1>13, <1>15, <1>16
  <1> QED
    BY <1>17, <1>18, <1>19
\* Those of the echelon of u that come before him.
InFront(order, saw, u) == {v \in Group(saw, Echelon(saw, u)) \ {u} : Before(order, saw, v, u)}

LEMMA InFrontFinite ==
  ASSUME NEW order, NEW saw \in Gots, NEW u \in Ranked(saw), u \notin Calibrating(saw)
  PROVE  LET e == Echelon(saw, u)
         IN  /\ e \in 1 .. 5 /\ u \in Group(saw, e)
             /\ IsFiniteSet(Group(saw, e)) /\ Cardinality(Group(saw, e)) \in Nat
             /\ IsFiniteSet(InFront(order, saw, u)) /\ Cardinality(InFront(order, saw, u)) \in Nat
             /\ Cardinality(InFront(order, saw, u)) + 1 <= Cardinality(Group(saw, e))
             /\ Rank(order, saw, u) = First[e] + Cardinality(InFront(order, saw, u))
  <1>1. PICK e : e = Echelon(saw, u)
    OBVIOUS
  <1>2. e \in 1 .. 5 /\ u \in Group(saw, e)
    BY <1>1, EchelonOf
  <1>3. IsFiniteSet(Group(saw, e)) /\ Cardinality(Group(saw, e)) \in Nat
    BY GroupFinite, FS_CardinalityType DEF Gots
  <1>4. InFront(order, saw, u) \subseteq Group(saw, e) \ {u}
    BY <1>1 DEF InFront
  <1>5. IsFiniteSet(Group(saw, e) \ {u}) /\ Cardinality(Group(saw, e) \ {u}) = Cardinality(Group(saw, e)) - 1
    BY <1>2, <1>3, FS_RemoveElement
  <1>6. /\ IsFiniteSet(InFront(order, saw, u)) /\ Cardinality(InFront(order, saw, u)) \in Nat
        /\ Cardinality(InFront(order, saw, u)) <= Cardinality(Group(saw, e) \ {u})
    BY <1>4, <1>5, FS_Subset, FS_CardinalityType
  <1>7. Rank(order, saw, u) = First[e] + Cardinality(InFront(order, saw, u))
    BY <1>1 DEF Rank, InFront
  <1>8. Cardinality(InFront(order, saw, u)) + 1 <= Cardinality(Group(saw, e))
    BY <1>3, <1>5, <1>6
  <1> QED
    BY <1>1, <1>2, <1>3, <1>6, <1>7, <1>8

\* Of two in the same echelon the one that comes first has the lower rank.
LEMMA FirstComesFirst ==
  ASSUME NEW order, NEW saw \in Gots, Read(order, saw),
         NEW u \in Ranked(saw), u \notin Calibrating(saw), NEW v \in Ranked(saw), v \notin Calibrating(saw),
         Echelon(saw, u) = Echelon(saw, v), Before(order, saw, u, v)
  PROVE  Rank(order, saw, u) < Rank(order, saw, v)
  <1> DEFINE A == InFront(order, saw, u)
             B == InFront(order, saw, v)
  <1>1. PICK e \in 1 .. 5 : e = Echelon(saw, u)
    BY InFrontFinite
  <1>2. u \in Group(saw, e) /\ \A w \in Group(saw, e) : w \in DOMAIN saw
    BY <1>1, InFrontFinite DEF Group
  <1>3. v \in DOMAIN saw
    BY EchelonOf
  <1>4. u \notin A /\ A \cup {u} \subseteq B
    <2>1. u \in B
      <3>1. u # v
        BY <1>2, BeforeOrder
      <3> QED
        BY <1>1, <1>2, <3>1 DEF InFront
    <2>2. ASSUME NEW w \in A PROVE w \in B
      <3>1. w \in Group(saw, e) /\ w # u /\ Before(order, saw, w, u)
        BY <1>1, <2>2 DEF InFront
      <3>2. Before(order, saw, w, v) /\ w # v
        BY <1>2, <1>3, <3>1, BeforeOrder
      <3> QED
        BY <1>1, <3>1, <3>2 DEF InFront
    <2> QED
      BY <2>1, <2>2 DEF InFront
  <1>5. /\ IsFiniteSet(A) /\ Cardinality(A) \in Nat /\ Rank(order, saw, u) = First[e] + Cardinality(A)
        /\ IsFiniteSet(B) /\ Cardinality(B) \in Nat /\ Rank(order, saw, v) = First[e] + Cardinality(B)
    BY <1>1, InFrontFinite
  <1> HIDE DEF A, B
  <1>6. Cardinality(A \cup {u}) = Cardinality(A) + 1 /\ Cardinality(A \cup {u}) <= Cardinality(B)
    BY <1>4, <1>5, FS_AddElement, FS_Subset
  <1>7. First[e] \in Nat
    BY <1>1, LeaderboardAssumption
  <1> QED
    BY <1>5, <1>6, <1>7

\* More are in an echelon than it has ranks for.
Overfull(saw) == \E e \in 1 .. 4 : Cardinality(Group(saw, e)) > First[e + 1] - First[e]

\* Unless one is overfull, the ranks of an echelon end before the next begins.
LEMMA EchelonsApart ==
  ASSUME NEW saw \in Gots, ~Overfull(saw), NEW e \in 1 .. 5, NEW f \in 1 .. 5, e < f
  PROVE  First[e] + Cardinality(Group(saw, e)) <= First[f]
  <1> USE LeaderboardAssumption
  <1>1. \A i \in 1 .. 5 : Cardinality(Group(saw, i)) \in Nat /\ First[i] \in Nat
    <2> TAKE i \in 1 .. 5
    <2>1. IsFiniteSet(Group(saw, i))
      BY GroupFinite DEF Gots
    <2> QED
      BY <2>1, FS_CardinalityType
  <1>2. \A i \in 1 .. 4 : ~(Cardinality(Group(saw, i)) > First[i + 1] - First[i])
    BY DEF Overfull
  <1>3. \A i \in 1 .. 4 : Cardinality(Group(saw, i)) <= First[i + 1] - First[i]
    BY <1>1, <1>2
  <1>4. /\ First[1] + Cardinality(Group(saw, 1)) <= First[2] /\ First[2] + Cardinality(Group(saw, 2)) <= First[3]
        /\ First[3] + Cardinality(Group(saw, 3)) <= First[4] /\ First[4] + Cardinality(Group(saw, 4)) <= First[5]
    BY <1>1, <1>3
  <1>5. /\ Cardinality(Group(saw, 1)) \in Nat /\ Cardinality(Group(saw, 2)) \in Nat
        /\ Cardinality(Group(saw, 3)) \in Nat /\ Cardinality(Group(saw, 4)) \in Nat
        /\ First[1] \in Nat /\ First[2] \in Nat /\ First[3] \in Nat /\ First[4] \in Nat /\ First[5] \in Nat
    BY <1>1
  <1>6. /\ First[1] <= First[2] /\ First[2] <= First[3] /\ First[3] <= First[4] /\ First[4] <= First[5]
    BY <1>4, <1>5
  <1>7. e = 1 \/ e = 2 \/ e = 3 \/ e = 4
    OBVIOUS
  <1>8. f = 2 \/ f = 3 \/ f = 4 \/ f = 5
    OBVIOUS
  <1>9. CASE e = 1
    BY <1>4, <1>5, <1>6, <1>8, <1>9
  <1>10. CASE e = 2
    BY <1>4, <1>5, <1>6, <1>8, <1>10
  <1>11. CASE e = 3
    BY <1>4, <1>5, <1>6, <1>8, <1>11
  <1>12. CASE e = 4
    BY <1>4, <1>5, <1>6, <1>8, <1>12
  <1> QED
    BY <1>7, <1>9, <1>10, <1>11, <1>12

\* So who is in a lower echelon has a rank below all of the next.
LEMMA EchelonFirst ==
  ASSUME NEW order, NEW saw \in Gots, ~Overfull(saw),
         NEW u \in Ranked(saw), u \notin Calibrating(saw), NEW v \in Ranked(saw), v \notin Calibrating(saw),
         Echelon(saw, u) < Echelon(saw, v)
  PROVE  Rank(order, saw, u) < Rank(order, saw, v)
  <1>1. PICK e \in 1 .. 5 : /\ e = Echelon(saw, u) /\ Cardinality(Group(saw, e)) \in Nat
                            /\ Cardinality(InFront(order, saw, u)) \in Nat
                            /\ Cardinality(InFront(order, saw, u)) + 1 <= Cardinality(Group(saw, e))
                            /\ Rank(order, saw, u) = First[e] + Cardinality(InFront(order, saw, u))
    BY InFrontFinite
  <1>2. PICK f \in 1 .. 5 : /\ f = Echelon(saw, v) /\ Cardinality(InFront(order, saw, v)) \in Nat
                            /\ Rank(order, saw, v) = First[f] + Cardinality(InFront(order, saw, v))
    BY InFrontFinite
  <1>3. First[e] + Cardinality(Group(saw, e)) <= First[f]
    BY <1>1, <1>2, EchelonsApart
  <1>4. First[e] \in Nat /\ First[f] \in Nat
    BY LeaderboardAssumption
  <1> QED
    BY <1>1, <1>2, <1>3, <1>4

\* What an echelon asks of who is in it.
LEMMA EchelonAsks ==
  ASSUME NEW s, NEW e \in 1 .. 5, InEchelon(s, e)
  PROVE  \/ e = 1 /\ s.trades >= 25000 /\ s.pnl > 0
         \/ e = 2 /\ s.trades >= 10000 /\ s.trades < 25000 /\ s.pnl > 0
         \/ e = 3 /\ s.trades >= 5000 /\ s.trades < 10000
         \/ e = 4 /\ s.trades >= 1000 /\ s.trades < 5000
         \/ e = 5 /\ s.trades > 0 /\ s.trades < 1000
  <1>1. CASE e = 1
    BY <1>1 DEF InEchelon
  <1>2. CASE e = 2
    BY <1>2 DEF InEchelon
  <1>3. CASE e = 3
    BY <1>3 DEF InEchelon
  <1>4. CASE e = 4
    BY <1>4 DEF InEchelon
  <1>5. CASE e = 5
    BY <1>5 DEF InEchelon
  <1> QED
    BY <1>1, <1>2, <1>3, <1>4, <1>5

\* Nobody who is at least as good is in a lower echelon.
LEMMA BetterEchelon ==
  ASSUME NEW saw \in Gots, NEW u \in Ranked(saw), NEW v \in Ranked(saw), v \notin Calibrating(saw),
         AtLeastAsGood(saw[u], saw[v])
  PROVE  u \notin Calibrating(saw) /\ Echelon(saw, u) <= Echelon(saw, v)
  <1>1. u \in DOMAIN saw /\ v \in DOMAIN saw
    BY EchelonOf
  <1>2. saw[u] \in Statistics /\ saw[v] \in Statistics
    BY <1>1 DEF Gots
  <1>3. PICK a \in Nat, b \in Int, c \in Nat, d \in Int :
          a = saw[u].trades /\ b = saw[u].pnl /\ c = saw[v].trades /\ d = saw[v].pnl
    BY <1>2, StatType
  <1>4. a >= c /\ b >= d
    BY <1>3 DEF AtLeastAsGood, Fields
  <1>5. c # 0 /\ a # 0
    BY <1>1, <1>3, <1>4 DEF Calibrating
  <1>6. u \notin Calibrating(saw)
    BY <1>3, <1>5 DEF Calibrating
  <1>7. PICK e \in 1 .. 5 : e = Echelon(saw, u) /\ InEchelon(saw[u], e)
    BY <1>6, EchelonOf DEF Group
  <1>8. PICK f \in 1 .. 5 : f = Echelon(saw, v) /\ InEchelon(saw[v], f)
    BY EchelonOf DEF Group
  <1>9. \/ e = 1 /\ a >= 25000 /\ b > 0
        \/ e = 2 /\ a >= 10000 /\ a < 25000 /\ b > 0
        \/ e = 3 /\ a >= 5000 /\ a < 10000
        \/ e = 4 /\ a >= 1000 /\ a < 5000
        \/ e = 5 /\ a > 0 /\ a < 1000
    BY <1>3, <1>7, EchelonAsks
  <1>10. \/ f = 1 /\ c >= 25000 /\ d > 0
         \/ f = 2 /\ c >= 10000 /\ c < 25000 /\ d > 0
         \/ f = 3 /\ c >= 5000 /\ c < 10000
         \/ f = 4 /\ c >= 1000 /\ c < 5000
         \/ f = 5 /\ c > 0 /\ c < 1000
    BY <1>3, <1>8, EchelonAsks
  <1>11. e <= f
    BY <1>4, <1>9, <1>10
  <1> QED
    BY <1>6, <1>7, <1>8, <1>11

\* Two who have traded never share a rank.
LEMMA RanksDiffer ==
  ASSUME NEW order, NEW saw \in Gots, Read(order, saw), ~Overfull(saw),
         NEW u \in Ranked(saw), NEW v \in Ranked(saw), u # v, Rank(order, saw, u) = Rank(order, saw, v)
  PROVE  Rank(order, saw, u) = Unranked
  <1>1. CASE u \in Calibrating(saw) \/ v \in Calibrating(saw)
    BY <1>1 DEF Rank
  <1>2. CASE u \notin Calibrating(saw) /\ v \notin Calibrating(saw)
    <2>1. Echelon(saw, u) \in 1 .. 5 /\ Echelon(saw, v) \in 1 .. 5
      BY <1>2, EchelonOf
    <2>2. Rank(order, saw, u) \in Nat /\ Rank(order, saw, v) \in Nat
      BY RankType DEF Gots
    <2>3. Echelon(saw, u) = Echelon(saw, v)
      <3>1. ~(Echelon(saw, u) < Echelon(saw, v))
        BY <1>2, <2>2, EchelonFirst
      <3>2. ~(Echelon(saw, v) < Echelon(saw, u))
        BY <1>2, <2>2, EchelonFirst
      <3> QED
        BY <2>1, <3>1, <3>2
    <2>4. Before(order, saw, u, v) \/ Before(order, saw, v, u)
      BY EchelonOf, BeforeOrder
    <2>5. ~Before(order, saw, u, v)
      BY <1>2, <2>2, <2>3, FirstComesFirst
    <2>6. ~Before(order, saw, v, u)
      BY <1>2, <2>2, <2>3, FirstComesFirst
    <2> QED
      BY <2>4, <2>5, <2>6
  <1> QED
    BY <1>1, <1>2

\* The last echelon ends before the rank of those who have not traded.
Roomy == First[5] + Cardinality(Users) <= Unranked + 1

\* Who is at least as good and scores higher is ranked as high, or higher.
LEMMA BetterRank ==
  ASSUME NEW order, NEW saw \in Gots, Read(order, saw), ~Overfull(saw), Roomy,
         NEW u \in Ranked(saw), NEW v \in Ranked(saw),
         AtLeastAsGood(saw[u], saw[v]), Score(saw[u]) > Score(saw[v])
  PROVE  Rank(order, saw, u) <= Rank(order, saw, v)
  <1> USE LeaderboardAssumption
  <1>1. Rank(order, saw, u) \in Nat /\ Rank(order, saw, v) \in Nat /\ u \in DOMAIN saw /\ v \in DOMAIN saw
    BY RankType, EchelonOf DEF Gots
  <1>2. saw[u] \in Statistics /\ saw[v] \in Statistics
    BY <1>1 DEF Gots
  <1>3. CASE v \in Calibrating(saw)
    <2>1. Rank(order, saw, v) = Unranked
      BY <1>3 DEF Rank
    <2>2. CASE u \in Calibrating(saw)
      BY <1>1, <2>1, <2>2 DEF Rank
    <2>3. CASE u \notin Calibrating(saw)
      <3>1. PICK e \in 1 .. 5 : /\ e = Echelon(saw, u) /\ Cardinality(Group(saw, e)) \in Nat
                                /\ Cardinality(InFront(order, saw, u)) \in Nat
                                /\ Cardinality(InFront(order, saw, u)) + 1 <= Cardinality(Group(saw, e))
                                /\ Rank(order, saw, u) = First[e] + Cardinality(InFront(order, saw, u))
        BY <2>3, InFrontFinite
      <3>2. Cardinality(Group(saw, e)) <= Cardinality(Users) /\ Cardinality(Users) \in Nat
        BY GroupFinite, FS_Subset, FS_CardinalityType DEF Gots
      <3>3. First[e] <= First[5]
        <4>1. CASE e = 5
          BY <4>1
        <4>2. CASE e # 5
          <5>1. First[e] + Cardinality(Group(saw, e)) <= First[5]
            BY <4>2, EchelonsApart
          <5> QED
            BY <3>1, <5>1
        <4> QED
          BY <4>1, <4>2
      <3>4. First[e] \in Nat /\ First[5] \in Nat
        OBVIOUS
      <3> QED
        BY <2>1, <3>1, <3>2, <3>3, <3>4 DEF Roomy
    <2> QED
      BY <2>2, <2>3
  <1>4. CASE v \notin Calibrating(saw)
    <2>1. u \notin Calibrating(saw) /\ Echelon(saw, u) <= Echelon(saw, v)
      BY <1>4, BetterEchelon
    <2>2. Echelon(saw, u) \in 1 .. 5 /\ Echelon(saw, v) \in 1 .. 5
      BY <1>4, <2>1, EchelonOf
    <2>3. CASE Echelon(saw, u) < Echelon(saw, v)
      BY <1>1, <1>4, <2>1, <2>3, EchelonFirst
    <2>4. CASE Echelon(saw, u) = Echelon(saw, v)
      <3>1. Before(order, saw, u, v)
        BY <1>2, AheadIs DEF Before
      <3> QED
        BY <1>1, <1>4, <2>1, <2>4, <3>1, FirstComesFirst
    <2> QED
      BY <2>1, <2>2, <2>3, <2>4
  <1> QED
    BY <1>3, <1>4

\* And is not shown in a lower tier.
LEMMA BetterTier ==
  ASSUME NEW order, NEW saw \in Gots, Read(order, saw), ~Overfull(saw), Roomy,
         NEW u \in Ranked(saw), NEW v \in Ranked(saw),
         AtLeastAsGood(saw[u], saw[v]), Score(saw[u]) > Score(saw[v])
  PROVE  Tier(Rank(order, saw, u), saw[u]) <= Tier(Rank(order, saw, v), saw[v])
  <1> USE LeaderboardAssumption
  <1>1. u \in DOMAIN saw /\ v \in DOMAIN saw
    BY EchelonOf
  <1>2. PICK s \in Statistics, t \in Statistics : s = saw[u] /\ t = saw[v]
    BY <1>1 DEF Gots
  <1>3. PICK m \in Nat, n \in Nat : m = Rank(order, saw, u) /\ n = Rank(order, saw, v)
    BY RankType DEF Gots
  <1>4. m <= n
    BY <1>3, BetterRank
  <1>5. PICK k \in 1 .. 7 : k = Tier(n, t) /\ Qualifies(k, n, t)
    BY TierIs
  <1>6. s.trades \in Nat /\ t.trades \in Nat /\ s.pnl \in Int /\ t.pnl \in Int /\ s.winRate \in Int
        /\ t.winRate \in Int /\ s.factor \in Int /\ t.factor \in Int
    BY StatType
  <1>7. s.trades >= t.trades /\ s.pnl >= t.pnl /\ s.winRate >= t.winRate /\ s.factor >= t.factor
    BY <1>2 DEF AtLeastAsGood, Fields
  <1>8. First[2] \in Nat /\ First[3] \in Nat
    OBVIOUS
  <1>9. Qualifies(k, m, s)
    <2>1. CASE k = 1
      <3>1. t.trades >= 25000 /\ n = 1 /\ t.pnl > 0 /\ t.winRate >= 550 /\ t.factor >= 150
        BY <1>5, <2>1 DEF Qualifies
      <3>2. u \notin Calibrating(saw)
        BY <1>2, <1>6, <1>7, <3>1 DEF Calibrating
      <3>3. PICK e \in 1 .. 5 : m = First[e] + Cardinality(InFront(order, saw, u))
                                /\ Cardinality(InFront(order, saw, u)) \in Nat
        BY <1>3, <3>2, InFrontFinite
      <3>4. First[e] \in Nat \ {0}
        OBVIOUS
      <3>5. m = 1
        BY <1>4, <3>1, <3>3, <3>4
      <3>6. s.trades >= 25000 /\ s.pnl > 0 /\ s.winRate >= 550 /\ s.factor >= 150
        BY <1>6, <1>7, <3>1
      <3> QED
        BY <2>1, <3>5, <3>6 DEF Qualifies
    <2>2. CASE k = 2
      <3>1. t.trades >= 10000 /\ n < First[2] /\ t.pnl > 0
        BY <1>5, <2>2 DEF Qualifies
      <3>2. s.trades >= 10000 /\ m < First[2] /\ s.pnl > 0
        BY <1>4, <1>6, <1>7, <1>8, <3>1
      <3> QED
        BY <2>2, <3>2 DEF Qualifies
    <2>3. CASE k = 3
      <3>1. t.trades >= 10000 /\ n < First[3] /\ t.pnl > 0
        BY <1>5, <2>3 DEF Qualifies
      <3>2. s.trades >= 10000 /\ m < First[3] /\ s.pnl > 0
        BY <1>4, <1>6, <1>7, <1>8, <3>1
      <3> QED
        BY <2>3, <3>2 DEF Qualifies
    <2>4. CASE k = 4
      <3>1. t.trades >= 5000 /\ t.pnl >= 0
        BY <1>5, <2>4 DEF Qualifies
      <3>2. s.trades >= 5000 /\ s.pnl >= 0
        BY <1>6, <1>7, <3>1
      <3> QED
        BY <2>4, <3>2 DEF Qualifies
    <2>5. CASE k = 5
      <3>1. t.trades >= 2500
        BY <1>5, <2>5 DEF Qualifies
      <3>2. s.trades >= 2500
        BY <1>6, <1>7, <3>1
      <3> QED
        BY <2>5, <3>2 DEF Qualifies
    <2>6. CASE k = 6
      <3>1. t.trades >= 1000
        BY <1>5, <2>6 DEF Qualifies
      <3>2. s.trades >= 1000
        BY <1>6, <1>7, <3>1
      <3> QED
        BY <2>6, <3>2 DEF Qualifies
    <2>7. CASE k = 7
      BY <2>7 DEF Qualifies
    <2>8. k = 1 \/ k = 2 \/ k = 3 \/ k = 4 \/ k = 5 \/ k = 6 \/ k = 7
      OBVIOUS
    <2> QED
      BY <2>1, <2>2, <2>3, <2>4, <2>5, <2>6, <2>7, <2>8
  <1>10. Tier(m, s) <= k
    BY <1>9, TierIs
  <1> QED
    BY <1>2, <1>3, <1>5, <1>10

\* Who was read and is not ranked has many trades and no profit.
LEMMA NotRanked ==
  ASSUME NEW saw \in Gots, NEW u \in DOMAIN saw, u \notin Ranked(saw)
  PROVE  saw[u].trades >= 10000 /\ saw[u].pnl <= 0
  <1>1. saw[u] \in Statistics
    BY DEF Gots
  <1>2. PICK a \in Nat, b \in Int : a = saw[u].trades /\ b = saw[u].pnl
    BY <1>1, StatType
  <1>3. a # 0 /\ \A e \in 1 .. 5 : ~InEchelon(saw[u], e)
    BY <1>2 DEF Ranked, Calibrating, Group
  <1>4. /\ ~InEchelon(saw[u], 1) /\ ~InEchelon(saw[u], 2) /\ ~InEchelon(saw[u], 3)
        /\ ~InEchelon(saw[u], 4) /\ ~InEchelon(saw[u], 5)
    BY <1>3
  <1>5. /\ ~(a >= 25000 /\ b > 0) /\ ~(a >= 10000 /\ a < 25000 /\ b > 0) /\ ~(a >= 5000 /\ a < 10000)
        /\ ~(a >= 1000 /\ a < 5000) /\ ~(a > 0 /\ a < 1000)
    BY <1>2, <1>4 DEF InEchelon
  <1> QED
    BY <1>2, <1>3, <1>5

\* Who was read is ranked, but for those with ten thousand trades and no
\* profit; and unless an echelon is overfull no two who have traded share a
\* rank, and nobody is ranked or shown below one he is as good as and
\* outscores, as long as there are no more users than ranks before 999: with
\* more, the last of the last echelon comes after those who never traded.
THEOREM RankingFair ==
  ASSUME Roomy
  PROVE  RankSpec => []RankingIsFair
  <1>1. ASSUME RankInv PROVE RankingIsFair
    <2>1. SUFFICES ASSUME Done
                   PROVE /\ \A u \in DOMAIN last.got :
                              \/ \E r \in table : r.user = u
                              \/ last.got[u].trades >= 10000 /\ last.got[u].pnl <= 0
                         /\ Crowded \/
                            \A r, s \in table :
                              /\ r # s /\ r.rank = s.rank => r.rank = Unranked
                              /\ AtLeastAsGood(r.stat, s.stat) /\ Score(r.stat) > Score(s.stat)
                                   => r.rank <= s.rank /\ r.tier <= s.tier
      BY DEF RankingIsFair
    <2>2. Alone /\ last.how = "done"
      BY <1>1, <2>1 DEF RankInv, Done, Nothing
    <2>3. PICK order, saw : order = last.order /\ saw = last.got
      OBVIOUS
    <2>4. /\ Read(order, saw) /\ saw \in Gots
          /\ \A u \in Ranked(saw) : Stands(order, saw, u)
          /\ \A r \in table : r.user \in Ranked(saw)
          /\ \A r, s \in table : r.user = s.user => r = s
      BY <2>2, <2>3 DEF Alone
    <2>5. \A r \in table : /\ r.rank = Rank(order, saw, r.user) /\ r.stat = saw[r.user]
                           /\ r.tier = Tier(Rank(order, saw, r.user), saw[r.user])
      BY <2>4 DEF Stands
    <2>6. ASSUME NEW u \in DOMAIN saw
          PROVE  (\E r \in table : r.user = u) \/ (saw[u].trades >= 10000 /\ saw[u].pnl <= 0)
      <3>1. CASE u \in Ranked(saw)
        BY <2>4, <3>1 DEF Stands
      <3>2. CASE u \notin Ranked(saw)
        BY <2>4, <3>2, NotRanked
      <3> QED
        BY <3>1, <3>2
    <2>7. ASSUME ~Crowded, NEW r \in table, NEW s \in table
          PROVE  /\ r # s /\ r.rank = s.rank => r.rank = Unranked
                 /\ AtLeastAsGood(r.stat, s.stat) /\ Score(r.stat) > Score(s.stat)
                      => r.rank <= s.rank /\ r.tier <= s.tier
      <3>1. ~Overfull(saw)
        BY <2>3, <2>7 DEF Overfull, Crowded
      <3>2. r.user \in Ranked(saw) /\ s.user \in Ranked(saw)
        BY <2>4
      <3>3. ASSUME r # s, r.rank = s.rank PROVE r.rank = Unranked
        BY <2>4, <2>5, <3>1, <3>2, <3>3, RanksDiffer
      <3>4. ASSUME AtLeastAsGood(r.stat, s.stat), Score(r.stat) > Score(s.stat)
            PROVE  r.rank <= s.rank /\ r.tier <= s.tier
        <4>1. AtLeastAsGood(saw[r.user], saw[s.user]) /\ Score(saw[r.user]) > Score(saw[s.user])
          BY <2>5, <3>4
        <4> QED
          BY <2>4, <2>5, <3>1, <3>2, <4>1, BetterRank, BetterTier
      <3> QED
        BY <3>3, <3>4
    <2> QED
      BY <2>3, <2>6, <2>7
  <1> QED
    BY <1>1, RankInvariant, PTL
=============================================================================
