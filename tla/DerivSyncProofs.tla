-------------------------- MODULE DerivSyncProofs --------------------------
(***************************************************************************)
(* What a trade says is true, and where it is booked, for any number of    *)
(* accounts, contracts, drops and changes of account.                      *)
(*                                                                         *)
(* The invariant says of every place a contract passes through, the        *)
(* transactions, the queue, the cache, the history and the consolidations  *)
(* in hand, that what it knows was once so, and whose contract it holds.   *)
(***************************************************************************)
EXTENDS DerivSync, TLAPS, FiniteSetTheorems

Begun(c) == world[c] \in {"open", "sold"}

\* What is known of a contract, wherever it is known, is so.
KnownOK ==
  /\ \A x \in txs \cup saving : Begun(x[1]) /\ (x[2] = "sell" => world[x[1]] = "sold")
  /\ \A w \in writing : Begun(w.c) /\ (w.details = "sold" \/ w.sold => world[w.c] = "sold")
  /\ \A i \in 1..Len(queue) : Begun(queue[i])
  /\ worker.at # "idle" => /\ Begun(worker.c)
                           /\ worker.details = "sold" \/ worker.sold => world[worker.c] = "sold"
  /\ \A c \in Contracts : cache[c] = "sold" => world[c] = "sold"
  /\ \A a \in Accounts : \A c \in hist[a].found : Begun(c)

\* A client finds the contracts of its account; the one listened to is authorised.
ClientsOK ==
  /\ \A a \in Accounts : \A c \in hist[a].found : Owner[c] = a
  /\ stream # None => link[stream].at = "ready"

\* A contract at work under another account than its own has crossed.
BookedOK ==
  /\ \A c \in InWork : account # None /\ account # Owner[c] => c \in crossed
  /\ \A w \in writing : w.acc = Owner[w.c] \/ w.c \in crossed
  /\ worker.at # "idle" => worker.acc = Owner[worker.c] \/ worker.c \in crossed

\* The dedupe set is the queue, but for the contracts the history names; the
\* loop has the head of the queue in hand.
QueueOK ==
  /\ worker.at # "idle" => queue # <<>> /\ Head(queue) = worker.c
  /\ \A c \in Contracts \ (skipped \cup crossed) :
       /\ \A k \in pending : k[2] = c => k[1] = Owner[c]
       /\ Waiting(c) => <<Owner[c], c>> \in pending
       /\ <<Owner[c], c>> \in pending => Once(c, queue)

IInv == TypeOK /\ KnownOK /\ ClientsOK /\ BookedOK /\ QueueOK /\ TradesAreTrue /\ OwnAccount

-----------------------------------------------------------------------------
(* The queue.                                                              *)

LEMMA TailFacts ==
  ASSUME NEW q \in Seq(Contracts), q # <<>>
  PROVE  /\ Len(q) \in Nat \ {0} /\ Head(q) = q[1] /\ Head(q) \in Contracts
         /\ Tail(q) \in Seq(Contracts) /\ Len(Tail(q)) = Len(q) - 1
         /\ \A i \in 1..Len(Tail(q)) : i + 1 \in 1..Len(q) /\ Tail(q)[i] = q[i + 1]
  OBVIOUS

\* A contract that is not the head waits on as it did; the head, if it was
\* there once, is gone.
LEMMA TailOnce ==
  ASSUME NEW q \in Seq(Contracts), q # <<>>, NEW c \in Contracts, Once(c, q)
  PROVE  IF c = Head(q) THEN \A i \in 1..Len(Tail(q)) : Tail(q)[i] # c ELSE Once(c, Tail(q))
  <1>1. PICK i \in 1..Len(q) : \A j \in 1..Len(q) : q[j] = c <=> j = i
    BY DEF Once
  <1>2. CASE c = Head(q)
    <2>1. i = 1
      BY <1>1, <1>2, TailFacts
    <2> QED
      BY <1>1, <1>2, <2>1, TailFacts
  <1>3. CASE c # Head(q)
    <2>1. i # 1 /\ i - 1 \in 1..Len(Tail(q))
      BY <1>1, <1>3, TailFacts
    <2>2. \A j \in 1..Len(Tail(q)) : Tail(q)[j] = c <=> j = i - 1
      BY <1>1, <2>1, TailFacts
    <2> QED
      BY <1>3, <2>1, <2>2 DEF Once
  <1> QED
    BY <1>2, <1>3

LEMMA OrderFacts ==
  ASSUME NEW S \in SUBSET Contracts, NEW s \in Orders(S)
  PROVE  s \in Seq(S) /\ s \in Seq(Contracts) /\ \A c \in S : Once(c, s)
  <1>1. Cardinality(S) \in Nat
    BY DerivAssumption, FS_Subset, FS_CardinalityType
  <1>2. s \in [1..Cardinality(S) -> S] /\ \A c \in S : Once(c, s)
    BY DEF Orders
  <1>3. s \in Seq(S)
    BY <1>1, <1>2
  <1> QED
    BY <1>2, <1>3

LEMMA JoinFacts ==
  ASSUME NEW q \in Seq(Contracts), NEW S \in SUBSET Contracts, NEW s \in Seq(S), s \in Seq(Contracts)
  PROVE  /\ q \o s \in Seq(Contracts) /\ Len(q \o s) = Len(q) + Len(s)
         /\ \A i \in 1..Len(q) : (q \o s)[i] = q[i]
         /\ \A i \in 1..Len(s) : (q \o s)[Len(q) + i] = s[i] /\ s[i] \in S
         /\ \A i \in 1..Len(q \o s) : i \in 1..Len(q) \/ (i - Len(q) \in 1..Len(s) /\ (q \o s)[i] = s[i - Len(q)])
  OBVIOUS

\* A contract that waits once goes on waiting once when others join; one that
\* did not wait and joins, waits once.
LEMMA JoinOnce ==
  ASSUME NEW q \in Seq(Contracts), NEW S \in SUBSET Contracts, NEW s \in Orders(S), NEW c \in Contracts,
         (c \notin S /\ Once(c, q)) \/ (c \in S /\ \A i \in 1..Len(q) : q[i] # c)
  PROVE  Once(c, q \o s)
  <1> DEFINE r == q \o s
  <1>1. s \in Seq(S) /\ s \in Seq(Contracts) /\ \A d \in S : Once(d, s)
    BY OrderFacts
  <1>2. /\ r \in Seq(Contracts) /\ Len(r) = Len(q) + Len(s) /\ Len(q) \in Nat /\ Len(s) \in Nat
        /\ \A i \in 1..Len(q) : r[i] = q[i]
        /\ \A i \in 1..Len(s) : r[Len(q) + i] = s[i] /\ s[i] \in S
        /\ \A i \in 1..Len(r) : i \in 1..Len(q) \/ (i - Len(q) \in 1..Len(s) /\ r[i] = s[i - Len(q)])
    BY <1>1, JoinFacts
  <1> HIDE DEF r
  <1>3. CASE c \notin S /\ Once(c, q)
    <2>1. PICK i \in 1..Len(q) : \A j \in 1..Len(q) : q[j] = c <=> j = i
      BY <1>3 DEF Once
    <2>2. i \in 1..Len(r) /\ \A j \in 1..Len(r) : r[j] = c <=> j = i
      <3>1. i \in 1..Len(r) /\ r[i] = c
        BY <1>2, <2>1
      <3>2. ASSUME NEW j \in 1..Len(r), r[j] = c PROVE j = i
        <4>1. j \in 1..Len(q)
          BY <1>2, <1>3, <3>2
        <4> QED
          BY <1>2, <2>1, <3>2, <4>1
      <3> QED
        BY <3>1, <3>2
    <2> QED
      BY <2>2 DEF Once, r
  <1>4. CASE c \in S /\ \A i \in 1..Len(q) : q[i] # c
    <2>1. PICK i \in 1..Len(s) : \A j \in 1..Len(s) : s[j] = c <=> j = i
      BY <1>1, <1>4 DEF Once
    <2>2. Len(q) + i \in 1..Len(r) /\ r[Len(q) + i] = c
      BY <1>2, <2>1
    <2>3. ASSUME NEW j \in 1..Len(r), r[j] = c PROVE j = Len(q) + i
      <3>1. j - Len(q) \in 1..Len(s) /\ r[j] = s[j - Len(q)]
        BY <1>2, <1>4, <2>3
      <3>2. j - Len(q) = i
        BY <3>1, <2>1, <2>3
      <3> QED
        BY <1>2, <2>1, <3>2
    <2> QED
      BY <2>2, <2>3 DEF Once, r
  <1> QED
    BY <1>3, <1>4

-----------------------------------------------------------------------------
(* What the operators of the model keep.                                   *)

LEMMA SmallFacts ==
  /\ MaxFaults \in Nat /\ MaxActs \in Nat /\ Owner \in [Contracts -> Accounts]
  /\ None \notin Accounts /\ None \notin Row
  BY DerivAssumption DEF Row

LEMMA FaultTyped == ASSUME faults \in 0..MaxFaults, Fault PROVE faults' \in 0..MaxFaults
  BY SmallFacts DEF Fault

LEMMA ActTyped == ASSUME acts \in 0..MaxActs, Act PROVE acts' \in 0..MaxActs
  BY SmallFacts DEF Act

\* A true trade stays true, and one written from true knowledge is true.
LEMMA WriteTrue ==
  ASSUME rows \in [Accounts \X Contracts -> Row \cup {None}], TradesAreTrue, OwnAccount,
         NEW acc \in Accounts, NEW c \in Contracts, NEW details \in Details, NEW sold \in BOOLEAN,
         Write(acc, c, details, sold), UNCHANGED <<world, crossed>>, Begun(c),
         details = "sold" \/ sold => world[c] = "sold", acc = Owner[c] \/ c \in crossed
  PROVE  rows' \in [Accounts \X Contracts -> Row \cup {None}] /\ TradesAreTrue' /\ OwnAccount'
  <1>0. rows' \in [Accounts \X Contracts -> Row \cup {None}]
    BY DEF Write, Consolidated, Row
  <1>1. \A a \in Accounts, d \in Contracts :
          rows'[a, d] = rows[a, d] \/ (a = acc /\ d = c /\ rows'[a, d] = Consolidated(details, sold))
    BY DEF Write
  <1>2. Consolidated(details, sold).status = "CLOSED" => details = "sold" \/ sold
    BY DEF Consolidated
  <1>3. Consolidated(details, sold).profit = "final" => details = "sold"
    BY DEF Consolidated
  <1>4. TradesAreTrue'
    BY <1>1, <1>2, <1>3 DEF TradesAreTrue, Begun
  <1>5. OwnAccount'
    BY <1>1 DEF OwnAccount
  <1> QED
    BY <1>0, <1>4, <1>5

\* Who is enqueued waits, others wait as before; and the queue stays in step
\* with the dedupe set when who joins has not crossed unless recorded.
LEMMA EnqueueFacts ==
  ASSUME TypeOK, KnownOK, QueueOK, NEW S \in SUBSET Contracts, Enqueue(S), UNCHANGED <<worker, crossed, skipped>>,
         \A c \in S : account # None /\ account # Owner[c] => c \in crossed
  PROVE  /\ queue' \in Seq(Contracts) /\ pending' \subseteq Accounts \X Contracts
         /\ \A i \in 1..Len(queue') : queue'[i] \in S \/ \E j \in 1..Len(queue) : queue'[i] = queue[j]
         /\ QueueOK'
  <1> DEFINE new == {c \in S : <<account, c>> \notin pending}
  <1>0. queue \in Seq(Contracts) /\ pending \subseteq Accounts \X Contracts /\ Len(queue) \in Nat
    BY DEF TypeOK
  <1>1. CASE client = None \/ account = None
    <2>1. UNCHANGED <<queue, pending>>
      BY <1>1 DEF Enqueue
    <2>2. QueueOK'
      BY <2>1 DEF QueueOK, Waiting
    <2> QED
      BY <1>0, <2>1, <2>2
  <1>2. CASE client # None /\ account # None
    <2>1. account \in Accounts
      BY <1>2 DEF TypeOK
    <2>2. PICK s \in Orders(new) : queue' = queue \o s
      BY <1>2 DEF Enqueue
    <2>3. pending' = pending \cup ({account} \X new) /\ new \in SUBSET Contracts
      BY <1>2 DEF Enqueue
    <2>4. s \in Seq(new) /\ s \in Seq(Contracts) /\ \A c \in new : Once(c, s)
      BY <2>2, <2>3, OrderFacts
    <2>5. /\ queue' \in Seq(Contracts) /\ Len(queue') = Len(queue) + Len(s) /\ Len(s) \in Nat
          /\ \A i \in 1..Len(queue) : queue'[i] = queue[i]
          /\ \A i \in 1..Len(queue') : i \in 1..Len(queue) \/ (i - Len(queue) \in 1..Len(s) /\ queue'[i] = s[i - Len(queue)])
          /\ \A i \in 1..Len(s) : s[i] \in new
      BY <1>0, <2>2, <2>3, <2>4, JoinFacts
    <2>6. \A i \in 1..Len(queue') : queue'[i] \in new \/ \E j \in 1..Len(queue) : queue'[i] = queue[j]
      BY <2>5
    <2>7. worker'.at # "idle" => queue' # <<>> /\ Head(queue') = worker'.c
      BY <1>0, <2>5, TailFacts DEF QueueOK
    <2>8. ASSUME NEW c \in Contracts \ (skipped \cup crossed)
          PROVE  /\ \A k \in pending' : k[2] = c => k[1] = Owner[c]
                 /\ Waiting(c)' => <<Owner[c], c>> \in pending'
                 /\ <<Owner[c], c>> \in pending' => Once(c, queue')
      <3>1. c \in new => account = Owner[c] /\ <<Owner[c], c>> \in pending' /\ ~Waiting(c)
        BY <1>2, <2>3, <2>8 DEF QueueOK
      <3>2. \A k \in pending' : k[2] = c => k[1] = Owner[c]
        BY <2>3, <2>8, <3>1 DEF QueueOK
      <3>3. Waiting(c)' => <<Owner[c], c>> \in pending'
        <4>1. Waiting(c)' => c \in new \/ Waiting(c)
          BY <2>6 DEF Waiting
        <4>2. Waiting(c) => <<Owner[c], c>> \in pending
          BY <2>8 DEF QueueOK
        <4> QED
          BY <2>3, <3>1, <4>1, <4>2
      <3>4. ASSUME <<Owner[c], c>> \in pending' PROVE Once(c, queue')
        <4>1. CASE c \in new
          BY <1>0, <2>2, <2>3, <3>1, <4>1, JoinOnce DEF Waiting
        <4>2. CASE c \notin new
          <5>1. <<Owner[c], c>> \in pending
            BY <2>3, <3>4, <4>2
          <5>2. Once(c, queue)
            BY <2>8, <5>1 DEF QueueOK
          <5> QED
            BY <1>0, <2>2, <2>3, <4>2, <5>2, JoinOnce
        <4> QED
          BY <4>1, <4>2
      <3> QED
        BY <3>2, <3>3, <3>4
    <2>9. QueueOK'
      BY <2>7, <2>8 DEF QueueOK
    <2>10. pending' \subseteq Accounts \X Contracts
      BY <1>0, <2>1, <2>3
    <2> QED
      BY <2>5, <2>6, <2>9, <2>10
  <1> QED
    BY <1>1, <1>2

\* The head goes, with its mark.
LEMMA DequeueFacts ==
  ASSUME TypeOK, QueueOK, queue # <<>>, NEW a, Dequeue(<<a, Head(queue)>>), worker'.at = "idle",
         UNCHANGED crossed, skipped \subseteq skipped',
         a = Owner[Head(queue)] \/ Head(queue) \in skipped' \cup crossed
  PROVE  /\ queue' \in Seq(Contracts) /\ pending' \subseteq Accounts \X Contracts
         /\ \A i \in 1..Len(queue') : \E j \in 1..Len(queue) : queue'[i] = queue[j]
         /\ QueueOK'
  <1>0. queue \in Seq(Contracts) /\ pending \subseteq Accounts \X Contracts
    BY DEF TypeOK
  <1>1. queue' = Tail(queue) /\ pending' = pending \ {<<a, Head(queue)>>}
    BY DEF Dequeue
  <1>2. /\ Len(queue) \in Nat /\ queue' \in Seq(Contracts) /\ Head(queue) \in Contracts
        /\ \A i \in 1..Len(queue') : i + 1 \in 1..Len(queue) /\ queue'[i] = queue[i + 1]
    BY <1>0, <1>1, TailFacts
  <1>3. \A i \in 1..Len(queue') : \E j \in 1..Len(queue) : queue'[i] = queue[j]
    BY <1>2
  <1>4. ASSUME NEW c \in Contracts \ (skipped' \cup crossed)
        PROVE  /\ \A k \in pending' : k[2] = c => k[1] = Owner[c]
               /\ Waiting(c)' => <<Owner[c], c>> \in pending'
               /\ <<Owner[c], c>> \in pending' => Once(c, queue')
    <2>1. /\ \A k \in pending : k[2] = c => k[1] = Owner[c]
          /\ Waiting(c) => <<Owner[c], c>> \in pending
          /\ <<Owner[c], c>> \in pending => Once(c, queue)
      BY <1>4 DEF QueueOK
    <2>2. Waiting(c)' => Waiting(c)
      BY <1>3 DEF Waiting
    <2>3. CASE c = Head(queue)
      <3>1. <<Owner[c], c>> \notin pending'
        BY <1>1, <1>4, <2>3
      <3>2. ~Waiting(c)'
        BY <1>0, <1>1, <1>2, <2>1, <2>2, <2>3, TailOnce DEF Waiting
      <3> QED
        BY <1>1, <2>1, <3>1, <3>2
    <2>4. CASE c # Head(queue)
      <3>1. <<Owner[c], c>> \in pending <=> <<Owner[c], c>> \in pending'
        BY <1>1, <2>4
      <3>2. Once(c, queue) => Once(c, queue')
        BY <1>0, <1>1, <2>4, TailOnce
      <3> QED
        BY <1>1, <2>1, <2>2, <3>1, <3>2
    <2> QED
      BY <2>3, <2>4
  <1>5. QueueOK'
    BY <1>4 DEF QueueOK
  <1> QED
    BY <1>0, <1>1, <1>2, <1>3, <1>5

-----------------------------------------------------------------------------
(* Initially, and step by step.                                            *)

LEMMA IdleTyped ==
  ASSUME NEW c \in Contracts
  PROVE  /\ Idle(c) \in [at : {"idle", "asked", "read"}, acc : Accounts, c : Contracts, details : Details, sold : BOOLEAN]
         /\ Idle(c).at = "idle"
  BY SmallFacts DEF Idle, Details

THEOREM InitOK == Init => IInv
  <1> SUFFICES ASSUME Init PROVE IInv
    OBVIOUS
  <1>1. (CHOOSE c \in Contracts : TRUE) \in Contracts
    BY DerivAssumption
  <1>2. worker.at = "idle"
    BY DEF Init, Idle
  <1>3. worker \in [at : {"idle", "asked", "read"}, acc : Accounts, c : Contracts, details : Details, sold : BOOLEAN]
    BY <1>1, IdleTyped DEF Init
  <1>4. TypeOK
    <2>1. /\ link \in [Accounts -> Link] /\ hist \in [Accounts -> [at : {"idle", "run", "found"}, found : SUBSET Contracts]]
          /\ cache \in [Contracts -> Details] /\ rows \in [Accounts \X Contracts -> Row \cup {None}]
      BY DEF Init, Gone, Link, NoSync, Details
    <2>2. /\ world \in [Contracts -> {"never", "future", "open", "sold"}]
          /\ connecting \in [Accounts -> {"never", "no", "user", "stored"}]
          /\ queue \in Seq(Contracts) /\ faults \in 0..MaxFaults /\ acts \in 0..MaxActs
      BY DEF Init
    <2> QED
      BY <1>3, <2>1, <2>2 DEF Init, TypeOK
  <1>5. worker.at = "idle" /\ hist = [a \in Accounts |-> NoSync] /\ queue = <<>> /\ pending = {}
    BY <1>2 DEF Init
  <1>6. KnownOK /\ ClientsOK /\ QueueOK
    BY <1>5 DEF Init, KnownOK, ClientsOK, QueueOK, NoSync, Waiting
  <1>7. BookedOK /\ TradesAreTrue /\ OwnAccount
    BY <1>5 DEF Init, BookedOK, TradesAreTrue, OwnAccount
  <1> QED
    BY <1>4, <1>6, <1>7 DEF IInv

LEMMA TakeStep == IInv /\ WorkerTake => IInv'
  <1> SUFFICES ASSUME IInv, WorkerTake PROVE IInv'
    OBVIOUS
  <1> USE DEF IInv
  <1> DEFINE c == Head(queue)
  <1>0. /\ queue \in Seq(Contracts) /\ queue # <<>> /\ c \in Contracts /\ c = queue[1] /\ 1 \in 1..Len(queue)
        /\ worker.at = "idle" /\ Begun(c) /\ c \in InWork
    <2>1. queue \in Seq(Contracts) /\ queue # <<>> /\ worker.at = "idle"
      BY DEF TypeOK, WorkerTake
    <2>2. c \in Contracts /\ c = queue[1] /\ 1 \in 1..Len(queue)
      BY <2>1, TailFacts
    <2> QED
      BY <2>1, <2>2 DEF KnownOK, InWork, Waiting
  <1>1. /\ UNCHANGED <<world, txs, rows, active, connecting, link, client, account, stream, leaving,
                      saving, writing, cache, hist, faults, acts, crossed>>
        /\ skipped' = IF <<account, c>> \in pending THEN skipped ELSE skipped \cup {c}
        /\ skipped' \subseteq Contracts /\ skipped \subseteq skipped'
    BY <1>0 DEF WorkerTake, TypeOK
  <1>2. account = None \/ account = Owner[c] \/ c \in crossed
    BY <1>0 DEF BookedOK
  <1>3. CASE account = None \/ client = None
    <2>1. Dequeue(<<account, c>>) /\ worker' = worker
      BY <1>3 DEF WorkerTake
    <2>2. account = Owner[c] \/ c \in skipped' \cup crossed
      BY <1>1, <1>2, SmallFacts DEF TypeOK
    <2>3. /\ queue' \in Seq(Contracts) /\ pending' \subseteq Accounts \X Contracts
          /\ \A i \in 1..Len(queue') : \E j \in 1..Len(queue) : queue'[i] = queue[j]
          /\ QueueOK'
      BY <1>0, <1>1, <2>1, <2>2, DequeueFacts
    <2>4. TypeOK'
      BY <1>1, <2>1, <2>3 DEF TypeOK
    <2>5. InWork' \subseteq InWork
      BY <1>1, <2>1, <2>3 DEF InWork, Waiting
    <2>6. KnownOK' /\ ClientsOK'
      BY <1>1, <2>1, <2>3 DEF KnownOK, ClientsOK, Begun
    <2>7. BookedOK' /\ TradesAreTrue' /\ OwnAccount'
      BY <1>1, <2>1, <2>5 DEF BookedOK, TradesAreTrue, OwnAccount
    <2> QED
      BY <2>3, <2>4, <2>6, <2>7
  <1>4. CASE account # None /\ client # None
    <2>1. /\ worker'.at # "idle" /\ worker'.acc = account /\ worker'.c = c
          /\ worker'.details = cache[c] /\ worker'.sold = Sold(c) /\ UNCHANGED <<queue, pending>>
          /\ worker' \in [at : {"asked", "read"}, acc : {account}, c : {c}, details : {cache[c]}, sold : {Sold(c)}]
      BY <1>4 DEF WorkerTake
    <2>2. account \in Accounts /\ cache[c] \in Details /\ Sold(c) \in BOOLEAN
      BY <1>0, <1>4 DEF TypeOK, Sold
    <2>3. worker' \in [at : {"idle", "asked", "read"}, acc : Accounts, c : Contracts, details : Details, sold : BOOLEAN]
      BY <1>0, <2>1, <2>2
    <2>4. TypeOK'
      BY <1>1, <2>1, <2>3 DEF TypeOK
    <2>5. KnownOK'
      <3>1. cache[c] = "sold" \/ Sold(c) => world[c] = "sold"
        BY <1>0 DEF KnownOK, Sold
      <3>2. worker'.details = "sold" \/ worker'.sold => world[c] = "sold"
        BY <2>1, <3>1
      <3> QED
        BY <1>0, <1>1, <2>1, <3>2 DEF KnownOK, Begun
    <2>6. InWork' \subseteq InWork
      BY <1>0, <1>1, <2>1 DEF InWork, Waiting
    <2>7. BookedOK' /\ ClientsOK' /\ TradesAreTrue' /\ OwnAccount'
      BY <1>1, <1>2, <1>4, <2>1, <2>6 DEF BookedOK, ClientsOK, TradesAreTrue, OwnAccount
    <2>8. QueueOK'
      BY <1>0, <1>1, <2>1 DEF QueueOK, Waiting
    <2> QED
      BY <2>4, <2>5, <2>7, <2>8
  <1> QED
    BY <1>3, <1>4

LEMMA AnswerStep == IInv /\ WorkerAnswer => IInv'
  <1> SUFFICES ASSUME IInv, WorkerAnswer PROVE IInv'
    OBVIOUS
  <1> USE DEF IInv
  <1>0. /\ worker.at = "asked" /\ worker.c \in Contracts /\ worker.acc \in Accounts /\ Begun(worker.c)
        /\ world[worker.c] \in Details /\ Sold(worker.c) \in BOOLEAN
    BY DEF WorkerAnswer, TypeOK, KnownOK, Begun, Details, Sold
  <1>1. UNCHANGED <<world, txs, rows, active, connecting, link, client, account, stream, leaving,
                    saving, writing, queue, pending, hist, acts, crossed, skipped>>
    BY DEF WorkerAnswer, history
  <1>2. /\ worker'.at = "read" /\ worker'.c = worker.c /\ worker'.acc = worker.acc
        /\ worker'.sold = Sold(worker.c) /\ worker'.details \in {world[worker.c], worker.details}
        /\ worker' \in [at : {"idle", "asked", "read"}, acc : Accounts, c : Contracts, details : Details, sold : BOOLEAN]
    <2>1. worker' = [worker EXCEPT !.at = "read", !.details = world[worker.c], !.sold = Sold(worker.c)]
            \/ worker' = [worker EXCEPT !.at = "read", !.sold = Sold(worker.c)]
      BY DEF WorkerAnswer
    <2>2. worker \in [at : {"idle", "asked", "read"}, acc : Accounts, c : Contracts, details : Details, sold : BOOLEAN]
      BY DEF TypeOK
    <2>3. CASE worker' = [worker EXCEPT !.at = "read", !.details = world[worker.c], !.sold = Sold(worker.c)]
      BY <1>0, <2>2, <2>3
    <2>4. CASE worker' = [worker EXCEPT !.at = "read", !.sold = Sold(worker.c)]
      BY <1>0, <2>2, <2>4
    <2> QED
      BY <2>1, <2>3, <2>4
  <1>3. /\ cache' \in [Contracts -> Details]
        /\ \A c \in Contracts : cache'[c] = cache[c] \/ cache'[c] = world[c]
    <2>1. cache' = cache \/ cache' = [cache EXCEPT ![worker.c] = world[worker.c]]
      BY DEF WorkerAnswer
    <2>2. cache \in [Contracts -> Details]
      BY DEF TypeOK
    <2> QED
      BY <1>0, <2>1, <2>2
  <1>4. faults' \in 0..MaxFaults
    BY FaultTyped DEF WorkerAnswer, TypeOK
  <1>5. TypeOK'
    BY <1>1, <1>2, <1>3, <1>4 DEF TypeOK
  <1>6. KnownOK'
    BY <1>0, <1>1, <1>2, <1>3 DEF KnownOK, Begun, Sold
  <1>7. InWork' = InWork
    BY <1>0, <1>1, <1>2 DEF InWork, Waiting
  <1>8. BookedOK' /\ ClientsOK' /\ TradesAreTrue' /\ OwnAccount'
    BY <1>0, <1>1, <1>2, <1>7 DEF BookedOK, ClientsOK, TradesAreTrue, OwnAccount
  <1>9. QueueOK'
    BY <1>0, <1>1, <1>2 DEF QueueOK, Waiting
  <1> QED
    BY <1>5, <1>6, <1>8, <1>9

LEMMA TimeoutStep == IInv /\ WorkerTimeout => IInv'
  <1> SUFFICES ASSUME IInv, WorkerTimeout PROVE IInv'
    OBVIOUS
  <1> USE DEF IInv
  <1>1. UNCHANGED <<world, txs, rows, active, connecting, link, client, account, stream, leaving,
                    saving, writing, queue, pending, cache, hist, faults, acts, crossed, skipped>>
    BY DEF WorkerTimeout, history
  <1>2. /\ worker'.at = "idle"
        /\ worker' \in [at : {"idle", "asked", "read"}, acc : Accounts, c : Contracts, details : Details, sold : BOOLEAN]
    BY IdleTyped DEF WorkerTimeout, TypeOK
  <1>3. TypeOK'
    BY <1>1, <1>2 DEF TypeOK
  <1>4. InWork' \subseteq InWork
    BY <1>1, <1>2 DEF InWork, Waiting
  <1>5. BookedOK' /\ ClientsOK' /\ TradesAreTrue' /\ OwnAccount'
    BY <1>1, <1>2, <1>4 DEF BookedOK, ClientsOK, TradesAreTrue, OwnAccount
  <1>6. KnownOK' /\ QueueOK'
    BY <1>1, <1>2 DEF KnownOK, Begun, QueueOK, Waiting
  <1> QED
    BY <1>3, <1>5, <1>6

LEMMA WriteStep == IInv /\ WorkerWrite => IInv'
  <1> SUFFICES ASSUME IInv, WorkerWrite PROVE IInv'
    OBVIOUS
  <1> USE DEF IInv
  <1>0. /\ worker.at # "idle" /\ worker.c \in Contracts /\ worker.acc \in Accounts /\ Begun(worker.c)
        /\ worker.details \in Details /\ worker.sold \in BOOLEAN /\ queue # <<>> /\ worker.c = Head(queue)
        /\ worker.acc = Owner[worker.c] \/ worker.c \in crossed
        /\ worker.details = "sold" \/ worker.sold \/ Sold(worker.c) => world[worker.c] = "sold"
    BY DEF WorkerWrite, TypeOK, KnownOK, QueueOK, BookedOK, Sold
  <1>1. /\ UNCHANGED <<world, txs, active, connecting, link, client, account, stream, leaving,
                      saving, writing, cache, hist, acts, crossed, skipped>>
        /\ Dequeue(<<worker.acc, Head(queue)>>) /\ worker' = Idle(worker.c)
    BY <1>0 DEF WorkerWrite, history
  <1>2. /\ worker'.at = "idle"
        /\ worker' \in [at : {"idle", "asked", "read"}, acc : Accounts, c : Contracts, details : Details, sold : BOOLEAN]
    BY <1>0, <1>1, IdleTyped
  <1>3. /\ queue' \in Seq(Contracts) /\ pending' \subseteq Accounts \X Contracts
        /\ \A i \in 1..Len(queue') : \E j \in 1..Len(queue) : queue'[i] = queue[j]
        /\ QueueOK'
    BY <1>0, <1>1, <1>2, DequeueFacts
  <1>4. rows' \in [Accounts \X Contracts -> Row \cup {None}] /\ TradesAreTrue' /\ OwnAccount'
    <2>1. rows \in [Accounts \X Contracts -> Row \cup {None}] /\ "none" \in Details /\ Sold(worker.c) \in BOOLEAN
      BY DEF TypeOK, Details, Sold
    <2>2. CASE Write(worker.acc, worker.c, worker.details, worker.sold)
      <3>1. worker.details = "sold" \/ worker.sold => world[worker.c] = "sold"
        BY <1>0
      <3> QED
        BY <1>0, <1>1, <2>1, <2>2, <3>1, WriteTrue, Zenon
    <2>3. CASE Write(worker.acc, worker.c, "none", Sold(worker.c))
      <3>1. "none" = "sold" \/ Sold(worker.c) => world[worker.c] = "sold"
        BY <1>0
      <3> QED
        BY <1>0, <1>1, <2>1, <2>3, <3>1, WriteTrue, Zenon
    <2>4. CASE UNCHANGED rows
      BY <1>1, <2>1, <2>4 DEF TradesAreTrue, OwnAccount
    <2> QED
      BY <2>2, <2>3, <2>4 DEF WorkerWrite
  <1>5. faults' \in 0..MaxFaults
    BY FaultTyped DEF WorkerWrite, TypeOK
  <1>6. TypeOK'
    BY <1>1, <1>2, <1>3, <1>4, <1>5 DEF TypeOK
  <1>7. InWork' \subseteq InWork
    BY <1>1, <1>2, <1>3 DEF InWork, Waiting
  <1>8. BookedOK' /\ ClientsOK' /\ KnownOK'
    BY <1>1, <1>2, <1>3, <1>7 DEF BookedOK, ClientsOK, KnownOK, Begun
  <1> QED
    BY <1>3, <1>4, <1>6, <1>8

LEMMA ExpireStep == IInv /\ (\E c \in Contracts : CacheExpires(c)) => IInv'
  <1> SUFFICES ASSUME IInv, NEW c \in Contracts, CacheExpires(c) PROVE IInv'
    OBVIOUS
  <1> USE DEF IInv
  <1>1. UNCHANGED <<world, txs, rows, active, connecting, link, client, account, stream, leaving,
                    saving, writing, queue, pending, worker, hist, faults, acts, crossed, skipped>>
    BY DEF CacheExpires, history
  <1>2. /\ cache' \in [Contracts -> Details]
        /\ \A d \in Contracts : cache'[d] = "sold" => cache[d] = "sold"
    BY DEF CacheExpires, TypeOK, Details
  <1>3. TypeOK' /\ KnownOK'
    BY <1>1, <1>2 DEF TypeOK, KnownOK, Begun
  <1>4. BookedOK' /\ ClientsOK' /\ TradesAreTrue' /\ OwnAccount' /\ QueueOK'
    BY <1>1 DEF BookedOK, InWork, Waiting, ClientsOK, TradesAreTrue, OwnAccount, QueueOK
  <1> QED
    BY <1>3, <1>4

\* What a change of the world adds to what is known never takes anything away.
LEMMA TradeStep == IInv /\ (\E c \in Contracts : Trade(c)) => IInv'
  <1> SUFFICES ASSUME IInv, NEW c \in Contracts, Trade(c) PROVE IInv'
    OBVIOUS
  <1> USE DEF IInv
  <1> DEFINE act == IF world[c] = "future" THEN "buy" ELSE "sell"
             new == IF act = "buy" THEN "open" ELSE "sold"
  <1>1. /\ UNCHANGED <<txs, rows, active, connecting, link, client, account, stream, leaving,
                       queue, pending, worker, cache, hist, faults, acts, crossed, skipped>>
        /\ world[c] \in {"future", "open"} /\ world' = [world EXCEPT ![c] = new]
        /\ saving' = saving \/ (saving' = saving \cup {<<c, act>>} /\ Heard(c))
        /\ writing' = writing \/ (writing' = writing \cup {Live(c, new)} /\ Heard(c) /\ act = "sell")
    BY DEF Trade, history
  <1>2. /\ world' \in [Contracts -> {"never", "future", "open", "sold"}]
        /\ world'[c] = new /\ \A d \in Contracts : d # c => world'[d] = world[d]
    BY <1>1 DEF TypeOK
  <1>3. \A d \in Contracts : (Begun(d) => Begun(d)') /\ (world[d] = "sold" => world'[d] = "sold")
    BY <1>1, <1>2 DEF Begun
  <1>4. Begun(c)' /\ (act = "sell" => world'[c] = "sold")
    BY <1>1, <1>2 DEF Begun
  <1>5. Heard(c) => account \in Accounts /\ c \in InWork /\ (account = Owner[c] \/ c \in crossed)
    <2>1. Heard(c) => account \in Accounts /\ stream = Owner[c] /\ stream # None
      BY SmallFacts DEF Heard, TypeOK
    <2>2. Heard(c) => c \in InWork
      BY <2>1 DEF ClientsOK, InWork
    <2> QED
      BY <2>1, <2>2, SmallFacts DEF BookedOK
  <1> HIDE DEF act, new
  <1>6. /\ Live(c, new).acc = account /\ Live(c, new).c = c
        /\ new \in Details /\ (Heard(c) => Live(c, new) \in Writing)
    BY <1>5 DEF Live, Writing, Details, Sold, act, new
  <1>7. TypeOK'
    <2>1. <<c, act>> \in Contracts \X {"buy", "sell"}
      BY DEF act
    <2>2. saving' \subseteq Contracts \X {"buy", "sell"} /\ writing' \subseteq Writing
      BY <1>1, <1>6, <2>1 DEF TypeOK
    <2> QED
      BY <1>1, <1>2, <2>2 DEF TypeOK
  <1>8. KnownOK'
    <2>1. \A x \in txs' \cup saving' : Begun(x[1])' /\ (x[2] = "sell" => world'[x[1]] = "sold")
      BY <1>1, <1>3, <1>4 DEF KnownOK, TypeOK
    <2>2. \A w \in writing' : Begun(w.c)' /\ (w.details = "sold" \/ w.sold => world'[w.c] = "sold")
      BY <1>1, <1>3, <1>4, <1>6 DEF KnownOK, TypeOK, Writing
    <2>3. \A i \in 1..Len(queue') : Begun(queue[i])'
      <3>1. \A i \in 1..Len(queue) : queue[i] \in Contracts /\ Begun(queue[i])
        BY DEF KnownOK, TypeOK
      <3> QED
        BY <1>1, <1>3, <3>1
    <2>4. worker'.at # "idle" => /\ Begun(worker.c)'
                                 /\ worker'.details = "sold" \/ worker'.sold => world'[worker'.c] = "sold"
      <3>1. worker.c \in Contracts
        BY DEF TypeOK
      <3>2. worker.at # "idle" => /\ Begun(worker.c)
                                  /\ worker.details = "sold" \/ worker.sold => world[worker.c] = "sold"
        BY DEF KnownOK
      <3>3. worker' = worker
        BY <1>1
      <3> QED
        BY <1>3, <3>1, <3>2, <3>3
    <2>5. /\ \A d \in Contracts : (cache[d] = "sold" => world[d] = "sold")'
          /\ \A a \in Accounts : \A d \in hist[a].found' : Begun(d)'
      BY <1>1, <1>3 DEF KnownOK, TypeOK
    <2> QED
      BY <2>1, <2>2, <2>3, <2>4, <2>5, Zenon DEF KnownOK, Begun
  <1>9. BookedOK'
    <2>1. InWork' \subseteq InWork \cup (IF Heard(c) THEN {c} ELSE {})
      BY <1>1 DEF InWork, Waiting
    <2> QED
      BY <1>1, <1>5, <1>6, <2>1 DEF BookedOK
  <1>10. ClientsOK' /\ QueueOK' /\ OwnAccount'
    BY <1>1 DEF ClientsOK, QueueOK, Waiting, OwnAccount
  <1>11. TradesAreTrue'
    BY <1>1, <1>3 DEF TradesAreTrue, Begun
  <1> QED
    BY <1>7, <1>8, <1>9, <1>10, <1>11

LEMMA DetailsStep == IInv /\ (\E c \in Contracts : LiveDetails(c)) => IInv'
  <1> SUFFICES ASSUME IInv, NEW c \in Contracts, LiveDetails(c) PROVE IInv'
    OBVIOUS
  <1> USE DEF IInv
  <1>1. /\ UNCHANGED <<world, txs, rows, active, connecting, link, client, account, stream, leaving,
                       saving, queue, pending, worker, cache, hist, faults, acts, crossed, skipped>>
        /\ writing' = writing \cup {Live(c, "open")} /\ Heard(c) /\ world[c] = "open"
    BY DEF LiveDetails, history
  <1>2. account \in Accounts /\ c \in InWork /\ (account = Owner[c] \/ c \in crossed)
    <2>1. account \in Accounts /\ stream = Owner[c] /\ stream # None
      BY <1>1, SmallFacts DEF Heard, TypeOK
    <2>2. c \in InWork
      BY <2>1 DEF ClientsOK, InWork
    <2> QED
      BY <2>1, <2>2, SmallFacts DEF BookedOK
  <1>3. /\ Live(c, "open").acc = account /\ Live(c, "open").c = c /\ Live(c, "open").details = "open"
        /\ Live(c, "open").sold = Sold(c) /\ Live(c, "open") \in Writing
    BY <1>2 DEF Live, Writing, Details, Sold
  <1>4. Sold(c) => world[c] = "sold"
    BY DEF KnownOK, Sold
  <1>5. TypeOK' /\ KnownOK'
    BY <1>1, <1>3, <1>4 DEF TypeOK, KnownOK, Begun
  <1>6. InWork' = InWork
    BY <1>1 DEF InWork, Waiting
  <1>7. BookedOK' /\ ClientsOK' /\ QueueOK' /\ OwnAccount' /\ TradesAreTrue'
    <2>1. BookedOK'
      BY <1>1, <1>2, <1>3, <1>6 DEF BookedOK
    <2>2. QueueOK'
      BY <1>1 DEF QueueOK, Waiting
    <2>3. ClientsOK' /\ OwnAccount' /\ TradesAreTrue'
      BY <1>1 DEF ClientsOK, OwnAccount, TradesAreTrue
    <2> QED
      BY <2>1, <2>2, <2>3
  <1> QED
    BY <1>5, <1>7

LEMMA LiveWriteStep == IInv /\ (\E w \in writing : LiveWrite(w)) => IInv'
  <1> SUFFICES ASSUME IInv, NEW w \in writing, LiveWrite(w) PROVE IInv'
    OBVIOUS
  <1> USE DEF IInv
  <1>1. /\ UNCHANGED <<world, txs, active, connecting, link, client, account, stream, leaving,
                       saving, queue, pending, worker, cache, hist, acts, crossed, skipped>>
        /\ writing' = writing \ {w}
        /\ Write(w.acc, w.c, w.details, w.sold) \/ UNCHANGED rows
    BY DEF LiveWrite, history
  <1>2. /\ w.acc \in Accounts /\ w.c \in Contracts /\ w.details \in Details /\ w.sold \in BOOLEAN /\ Begun(w.c)
        /\ w.acc = Owner[w.c] \/ w.c \in crossed
    BY DEF TypeOK, Writing, KnownOK, BookedOK
  <1>3. w.details = "sold" \/ w.sold => world[w.c] = "sold"
    BY DEF KnownOK
  <1>4. rows' \in [Accounts \X Contracts -> Row \cup {None}] /\ TradesAreTrue' /\ OwnAccount'
    <2>1. rows \in [Accounts \X Contracts -> Row \cup {None}]
      BY DEF TypeOK
    <2>2. CASE Write(w.acc, w.c, w.details, w.sold)
      BY <1>1, <1>2, <1>3, <2>1, <2>2, WriteTrue, Zenon
    <2>3. CASE UNCHANGED rows
      BY <1>1, <2>1, <2>3 DEF TradesAreTrue, OwnAccount
    <2> QED
      BY <1>1, <2>2, <2>3
  <1>5. faults' \in 0..MaxFaults
    BY FaultTyped DEF LiveWrite, TypeOK
  <1>6. TypeOK'
    BY <1>1, <1>4, <1>5 DEF TypeOK
  <1>7. InWork' = InWork
    BY <1>1 DEF InWork, Waiting
  <1>8. KnownOK' /\ BookedOK'
    BY <1>1, <1>7 DEF KnownOK, Begun, BookedOK
  <1>9. ClientsOK' /\ QueueOK'
    BY <1>1 DEF ClientsOK, QueueOK, Waiting
  <1> QED
    BY <1>4, <1>6, <1>8, <1>9

LEMMA SaveStep == IInv /\ (\E x \in saving : SaveTransaction(x)) => IInv'
  <1> SUFFICES ASSUME IInv, NEW x \in saving, SaveTransaction(x) PROVE IInv'
    OBVIOUS
  <1> USE DEF IInv
  <1>1. /\ UNCHANGED <<world, rows, active, connecting, link, client, account, stream, leaving,
                       writing, worker, cache, hist, faults, acts, crossed, skipped>>
        /\ saving' = saving \ {x} /\ txs' = txs \cup {x} /\ Enqueue({x[1]})
    BY DEF SaveTransaction, history
  <1>2. x \in Contracts \X {"buy", "sell"} /\ x[1] \in Contracts /\ x[1] \in InWork /\ Begun(x[1])
    BY DEF TypeOK, KnownOK, InWork
  <1>3. /\ queue' \in Seq(Contracts) /\ pending' \subseteq Accounts \X Contracts
        /\ \A i \in 1..Len(queue') : queue'[i] \in {x[1]} \/ \E j \in 1..Len(queue) : queue'[i] = queue[j]
        /\ QueueOK'
    <2>1. \A c \in {x[1]} : account # None /\ account # Owner[c] => c \in crossed
      BY <1>2 DEF BookedOK
    <2> QED
      BY <1>1, <1>2, <2>1, EnqueueFacts
  <1>4. TypeOK'
    BY <1>1, <1>2, <1>3 DEF TypeOK
  <1>5. KnownOK'
    BY <1>1, <1>2, <1>3 DEF KnownOK, Begun
  <1>6. InWork' \subseteq InWork
    BY <1>1, <1>2, <1>3 DEF InWork, Waiting
  <1>7. BookedOK' /\ ClientsOK' /\ OwnAccount' /\ TradesAreTrue'
    BY <1>1, <1>6 DEF BookedOK, ClientsOK, OwnAccount, TradesAreTrue
  <1> QED
    BY <1>3, <1>4, <1>5, <1>7

LEMMA FetchStep == IInv /\ (\E a \in Accounts : HistFetch(a)) => IInv'
  <1> SUFFICES ASSUME IInv, NEW a \in Accounts, HistFetch(a) PROVE IInv'
    OBVIOUS
  <1> USE DEF IInv
  <1> DEFINE mine == {c \in Contracts : Owner[c] = a}
  <1>1. /\ UNCHANGED <<world, rows, active, connecting, link, client, account, stream, leaving,
                       saving, writing, queue, pending, worker, cache, acts, crossed, skipped>>
    BY DEF HistFetch, history
  <1>2. PICK got \in SUBSET mine :
          /\ \A c \in got : Begun(c) /\ link[a].at = "ready"
          /\ txs' = txs \cup (got \X {"buy"}) \cup ((got \cap {c \in mine : world[c] = "sold"}) \X {"sell"})
          /\ hist' = [hist EXCEPT ![a] = [at |-> "found", found |-> got]]
    <2> DEFINE open == {c \in mine : world[c] = "open"}
               sold == {c \in mine : world[c] = "sold"}
               Got(parts) == (IF parts \cap {"portfolio", "statement"} # {} THEN open ELSE {})
                               \cup (IF parts \cap {"statement", "profit"} # {} THEN sold ELSE {})
    <2>1. PICK parts \in SUBSET {"portfolio", "statement", "profit"} :
            LET got == IF link[a].at = "ready" THEN Got(parts) ELSE {}
            IN  /\ txs' = txs \cup (got \X {"buy"}) \cup ((got \cap sold) \X {"sell"})
                /\ hist' = [hist EXCEPT ![a] = [at |-> "found", found |-> got]]
      BY DEF HistFetch
    <2>2. Got(parts) \subseteq open \cup sold
      OBVIOUS
    <2> QED
      BY <2>1, <2>2 DEF Begun
  <1>3. faults' \in 0..MaxFaults
    <2>1. UNCHANGED faults \/ Fault
      BY DEF HistFetch
    <2> QED
      BY <2>1, FaultTyped DEF TypeOK
  <1>4. /\ hist' \in [Accounts -> [at : {"idle", "run", "found"}, found : SUBSET Contracts]]
        /\ hist'[a].found = got /\ \A b \in Accounts : b # a => hist'[b].found = hist[b].found
    BY <1>2 DEF TypeOK
  <1>5. TypeOK'
    BY <1>1, <1>2, <1>3, <1>4 DEF TypeOK
  <1>6. KnownOK'
    <2>1. \A x \in txs' \cup saving' : Begun(x[1]) /\ (x[2] = "sell" => world[x[1]] = "sold")
      BY <1>1, <1>2 DEF KnownOK
    <2> QED
      BY <1>1, <1>2, <1>4, <2>1 DEF KnownOK, Begun
  <1>7. ClientsOK'
    BY <1>1, <1>2, <1>4 DEF ClientsOK
  <1>8. InWork' \subseteq InWork
    <2>1. \A c \in got : link[Owner[c]].at # "gone"
      BY <1>2
    <2> QED
      BY <1>1, <1>4, <2>1, SmallFacts DEF InWork, Waiting
  <1>9. BookedOK' /\ QueueOK' /\ OwnAccount' /\ TradesAreTrue'
    BY <1>1, <1>8 DEF BookedOK, QueueOK, Waiting, OwnAccount, TradesAreTrue
  <1> QED
    BY <1>5, <1>6, <1>7, <1>9

LEMMA HistEnqueueStep == IInv /\ (\E a \in Accounts : HistEnqueue(a)) => IInv'
  <1> SUFFICES ASSUME IInv, NEW a \in Accounts, HistEnqueue(a) PROVE IInv'
    OBVIOUS
  <1> USE DEF IInv
  <1>1. /\ UNCHANGED <<world, txs, rows, active, connecting, link, client, account, stream, leaving,
                       saving, writing, worker, cache, faults, acts, crossed, skipped>>
        /\ Enqueue(hist[a].found) /\ hist' = [hist EXCEPT ![a] = NoSync]
    BY DEF HistEnqueue, history
  <1>2. /\ hist[a].found \subseteq Contracts /\ hist[a].found \subseteq InWork
        /\ \A c \in hist[a].found : Begun(c)
    BY DEF TypeOK, KnownOK, ClientsOK, InWork
  <1>3. /\ queue' \in Seq(Contracts) /\ pending' \subseteq Accounts \X Contracts
        /\ \A i \in 1..Len(queue') : queue'[i] \in hist[a].found \/ \E j \in 1..Len(queue) : queue'[i] = queue[j]
        /\ QueueOK'
    <2>1. \A c \in hist[a].found : account # None /\ account # Owner[c] => c \in crossed
      BY <1>2 DEF BookedOK
    <2> QED
      BY <1>1, <1>2, <2>1, EnqueueFacts
  <1>4. /\ hist' \in [Accounts -> [at : {"idle", "run", "found"}, found : SUBSET Contracts]]
        /\ \A b \in Accounts : hist'[b].found \subseteq hist[b].found
    BY <1>1 DEF TypeOK, NoSync
  <1>5. TypeOK'
    BY <1>1, <1>3, <1>4 DEF TypeOK
  <1>6. KnownOK'
    BY <1>1, <1>2, <1>3, <1>4 DEF KnownOK, Begun
  <1>7. InWork' \subseteq InWork
    BY <1>1, <1>2, <1>3, <1>4, SmallFacts, SMTT(30) DEF InWork, Waiting
  <1>8. BookedOK' /\ ClientsOK' /\ OwnAccount' /\ TradesAreTrue'
    BY <1>1, <1>4, <1>7 DEF BookedOK, ClientsOK, OwnAccount, TradesAreTrue
  <1> QED
    BY <1>3, <1>5, <1>6, <1>8

-----------------------------------------------------------------------------
(* Connections leave the work as it is.                                    *)

Work == <<world, txs, rows, saving, writing, queue, pending, worker, cache, crossed, skipped>>

LEMMA LinkFrame ==
  ASSUME IInv, UNCHANGED Work, \A a \in Accounts : hist'[a].found = hist[a].found
  PROVE  /\ KnownOK' /\ QueueOK' /\ OwnAccount' /\ TradesAreTrue'
         /\ \A a \in Accounts : \A c \in hist[a].found' : Owner[c] = a
         /\ \A w \in writing' : w.acc = Owner[w.c] \/ w.c \in crossed'
         /\ worker'.at # "idle" => worker'.acc = Owner[worker'.c] \/ worker'.c \in crossed'
         /\ (\A a \in Accounts : link[a]'.at # "gone" => link[a].at # "gone") => InWork' \subseteq InWork
  <1>1. KnownOK' /\ QueueOK'
    BY DEF IInv, Work, KnownOK, Begun, QueueOK, Waiting
  <1>2. OwnAccount' /\ TradesAreTrue'
    BY DEF IInv, Work, OwnAccount, TradesAreTrue
  <1>3. /\ \A a \in Accounts : \A c \in hist[a].found' : Owner[c] = a
        /\ \A w \in writing' : w.acc = Owner[w.c] \/ w.c \in crossed'
        /\ worker'.at # "idle" => worker'.acc = Owner[worker'.c] \/ worker'.c \in crossed'
    BY DEF IInv, Work, ClientsOK, BookedOK
  <1>4. (\A a \in Accounts : link[a]'.at # "gone" => link[a].at # "gone") => InWork' \subseteq InWork
    BY SmallFacts DEF Work, InWork, Waiting
  <1> QED
    BY <1>1, <1>2, <1>3, <1>4

\* A client that goes is listened to no more.
LEMMA GoneFacts ==
  ASSUME TypeOK, ClientsOK, client # None, link' = [link EXCEPT ![client] = Gone],
         stream' = (IF stream = client THEN None ELSE stream) \/ stream' = None
  PROVE  /\ link' \in [Accounts -> Link] /\ stream' \in Accounts \cup {None}
         /\ stream' # None => link'[stream'].at = "ready"
         /\ \A a \in Accounts : link'[a].at # "gone" => link[a].at # "gone"
  BY SmallFacts DEF TypeOK, ClientsOK, Gone, Link

LEMMA SyncStep == IInv /\ Sync => IInv'
  <1> SUFFICES ASSUME IInv, Sync PROVE IInv'
    OBVIOUS
  <1> USE DEF IInv
  <1>1. UNCHANGED <<world, txs, rows, active, leaving, saving, writing, queue, pending, worker, cache, faults, acts,
                    crossed, skipped>>
    BY DEF Sync, history
  <1>2. CASE UNCHANGED <<connecting, link, client, account, stream>> /\ hist' = Started(hist, client) /\ client \in Accounts
    <2>1. /\ hist' \in [Accounts -> [at : {"idle", "run", "found"}, found : SUBSET Contracts]]
          /\ \A a \in Accounts : hist'[a].found = hist[a].found
      BY <1>2, SMTT(30) DEF Started, TypeOK
    <2>2. TypeOK'
      BY <1>1, <1>2, <2>1 DEF TypeOK
    <2>3. InWork' \subseteq InWork
      BY <1>1, <1>2, <2>1, LinkFrame DEF Work
    <2> QED
      BY <1>1, <1>2, <2>1, <2>2, <2>3, LinkFrame DEF Work, ClientsOK, BookedOK
  <1>3. ASSUME NEW a \in active, connecting' = [connecting EXCEPT ![a] = "stored"],
               link' = (IF client = None THEN link ELSE [link EXCEPT ![client] = Gone]),
               stream' = (IF stream = client THEN None ELSE stream), client' = None,
               account' = (IF client = None THEN account ELSE None), UNCHANGED hist
        PROVE  IInv'
    <2>1. /\ link' \in [Accounts -> Link] /\ stream' \in Accounts \cup {None}
          /\ stream' # None => link'[stream'].at = "ready"
          /\ \A b \in Accounts : link'[b].at # "gone" => link[b].at # "gone"
      <3>1. CASE client = None
        BY <1>3, <3>1 DEF TypeOK, ClientsOK
      <3>2. CASE client # None
        BY <1>3, <3>2, GoneFacts
      <3> QED
        BY <3>1, <3>2
    <2>2. connecting' \in [Accounts -> {"never", "no", "user", "stored"}] /\ account' \in {account, None}
      BY <1>3 DEF TypeOK
    <2>3. TypeOK'
      BY <1>1, <1>3, <2>1, <2>2 DEF TypeOK
    <2>4. InWork' \subseteq InWork
      BY <1>1, <1>3, <2>1, LinkFrame DEF Work
    <2>5. ClientsOK' /\ BookedOK'
      BY <1>1, <1>3, <2>1, <2>2, <2>4, LinkFrame DEF Work, ClientsOK, BookedOK
    <2> QED
      BY <1>1, <1>3, <2>3, <2>5, LinkFrame DEF Work
  <1> QED
    BY <1>2, <1>3 DEF Sync, TypeOK

LEMMA ConnectStep == IInv /\ (\E a \in Accounts : Connect(a)) => IInv'
  <1> SUFFICES ASSUME IInv, NEW a \in Accounts, Connect(a) PROVE IInv'
    OBVIOUS
  <1> USE DEF IInv
  <1>1. UNCHANGED <<world, txs, rows, active, leaving, saving, writing, queue, pending, worker, cache,
                    hist, faults, crossed, skipped>>
    BY DEF Connect, history
  <1>2. /\ link' \in [Accounts -> Link] /\ stream' \in Accounts \cup {None}
        /\ stream' # None => link'[stream'].at = "ready"
        /\ \A b \in Accounts : link'[b].at # "gone" => link[b].at # "gone"
    <2>1. CASE client = None
      BY <2>1 DEF Connect, TypeOK, ClientsOK
    <2>2. CASE client # None
      BY <2>2, GoneFacts DEF Connect
    <2> QED
      BY <2>1, <2>2
  <1>3. /\ connecting' \in [Accounts -> {"never", "no", "user", "stored"}] /\ client' = None
        /\ account' \in {account, None} /\ acts' \in 0..MaxActs
    BY ActTyped DEF Connect, TypeOK
  <1>4. TypeOK'
    BY <1>1, <1>2, <1>3 DEF TypeOK
  <1>5. InWork' \subseteq InWork
    BY <1>1, <1>2, LinkFrame DEF Work
  <1>6. ClientsOK' /\ BookedOK'
    BY <1>1, <1>2, <1>3, <1>5, LinkFrame DEF Work, ClientsOK, BookedOK
  <1> QED
    BY <1>1, <1>4, <1>6, LinkFrame DEF Work

\* Who is in work under another account is recorded as the account changes.
LEMMA ConnectedStep == IInv /\ (\E a \in Accounts : Connected(a)) => IInv'
  <1> SUFFICES ASSUME IInv, NEW a \in Accounts, Connected(a) PROVE IInv'
    OBVIOUS
  <1> USE DEF IInv
  <1>1. UNCHANGED <<world, txs, rows, leaving, saving, writing, queue, pending, worker, cache, faults, acts, skipped>>
    BY DEF Connected
  <1>2. /\ crossed' = crossed \cup {c \in InWork : Owner[c] # a}
        /\ client' = a /\ account' = a /\ stream' = a /\ hist' = Started(hist, a)
        /\ link' = [link EXCEPT ![a] = [at |-> "ready", rejoins |-> connecting[a] = "stored"]]
    BY DEF Connected
  <1>3. /\ hist' \in [Accounts -> [at : {"idle", "run", "found"}, found : SUBSET Contracts]]
        /\ \A b \in Accounts : hist'[b].found = hist[b].found
    BY <1>2 DEF Started, TypeOK
  <1>4. /\ link' \in [Accounts -> Link] /\ link'[a].at = "ready"
        /\ \A b \in Accounts : b # a => link'[b] = link[b]
    BY <1>2 DEF TypeOK, Link
  <1>5. active' \subseteq Accounts /\ connecting' \in [Accounts -> {"never", "no", "user", "stored"}]
    BY DEF Connected, TypeOK
  <1>6. TypeOK'
    BY <1>1, <1>2, <1>3, <1>4, <1>5 DEF TypeOK, InWork
  <1>7. KnownOK' /\ ClientsOK'
    BY <1>1, <1>2, <1>3, <1>4 DEF KnownOK, Begun, ClientsOK
  <1>8. BookedOK'
    <2>1. \A c \in InWork' : c \in InWork \/ Owner[c] = a
      BY <1>1, <1>3, <1>4, SmallFacts DEF InWork, Waiting
    <2>2. InWork' \subseteq Contracts
      BY DEF InWork
    <2> QED
      BY <1>1, <1>2, <2>1, <2>2 DEF BookedOK
  <1>9. QueueOK' /\ OwnAccount' /\ TradesAreTrue'
    BY <1>1, <1>2 DEF QueueOK, Waiting, OwnAccount, TradesAreTrue
  <1> QED
    BY <1>6, <1>7, <1>8, <1>9

LEMMA FailsStep == IInv /\ (\E a \in Accounts : ConnectFails(a)) => IInv'
  <1> SUFFICES ASSUME IInv, NEW a \in Accounts, ConnectFails(a) PROVE IInv'
    OBVIOUS
  <1> USE DEF IInv
  <1>1. UNCHANGED <<world, txs, rows, link, client, account, stream, leaving, saving, writing, queue,
                    pending, worker, cache, hist, acts, crossed, skipped>>
    BY DEF ConnectFails, history
  <1>2. /\ active' \subseteq Accounts /\ connecting' \in [Accounts -> {"never", "no", "user", "stored"}]
        /\ faults' \in 0..MaxFaults
    BY FaultTyped DEF ConnectFails, TypeOK
  <1>3. TypeOK'
    BY <1>1, <1>2 DEF TypeOK
  <1>4. InWork' \subseteq InWork
    BY <1>1, LinkFrame DEF Work
  <1>5. ClientsOK' /\ BookedOK'
    BY <1>1, <1>4, LinkFrame DEF Work, ClientsOK, BookedOK
  <1> QED
    BY <1>1, <1>3, <1>5, LinkFrame DEF Work

LEMMA DropStep == IInv /\ (\E a \in Accounts : Drop(a) \/ Reconnect(a)) => IInv'
  <1> SUFFICES ASSUME IInv, NEW a \in Accounts, Drop(a) \/ Reconnect(a) PROVE IInv'
    OBVIOUS
  <1> USE DEF IInv
  <1>1. UNCHANGED <<world, txs, rows, active, connecting, client, account, leaving, saving, writing,
                    queue, pending, worker, cache, hist, acts, crossed, skipped>>
    BY DEF Drop, Reconnect, history
  <1>2. /\ link[a].at # "gone"
        /\ \/ link' = [link EXCEPT ![a].at = "down"] /\ stream' = (IF stream = a THEN None ELSE stream)
           \/ link' = [link EXCEPT ![a].at = "ready"] /\ stream' = a
           \/ /\ \E at \in {"up", "ready"} : link' = [link EXCEPT ![a].at = at]
              /\ UNCHANGED stream /\ link[a].at = "down"
    BY DEF Drop, Reconnect
  <1>3. /\ link' \in [Accounts -> Link] /\ stream' \in Accounts \cup {None}
        /\ stream' # None => link'[stream'].at = "ready"
        /\ \A b \in Accounts : link'[b].at # "gone" => link[b].at # "gone"
    <2>1. /\ link \in [Accounts -> Link] /\ stream \in Accounts \cup {None}
          /\ stream # None => link[stream].at = "ready"
      BY DEF TypeOK, ClientsOK
    <2>2. CASE link' = [link EXCEPT ![a].at = "down"] /\ stream' = (IF stream = a THEN None ELSE stream)
      BY <1>2, <2>1, <2>2 DEF Link
    <2>3. CASE link' = [link EXCEPT ![a].at = "ready"] /\ stream' = a
      BY <1>2, <2>1, <2>3 DEF Link
    <2>4. CASE (\E at \in {"up", "ready"} : link' = [link EXCEPT ![a].at = at]) /\ UNCHANGED stream /\ link[a].at = "down"
      BY <1>2, <2>1, <2>4 DEF Link
    <2> QED
      BY <1>2, <2>2, <2>3, <2>4
  <1>4. faults' \in 0..MaxFaults
    <2>1. UNCHANGED faults \/ Fault
      BY DEF Drop, Reconnect
    <2> QED
      BY <2>1, FaultTyped DEF TypeOK
  <1>5. TypeOK'
    BY <1>1, <1>3, <1>4 DEF TypeOK
  <1>6. InWork' \subseteq InWork
    BY <1>1, <1>3, LinkFrame DEF Work
  <1>7. ClientsOK' /\ BookedOK'
    BY <1>1, <1>3, <1>6, LinkFrame DEF Work, ClientsOK, BookedOK
  <1> QED
    BY <1>1, <1>5, <1>7, LinkFrame DEF Work

LEMMA DisconnectStep == IInv /\ (Disconnect \/ Disconnected) => IInv'
  <1> SUFFICES ASSUME IInv, Disconnect \/ Disconnected PROVE IInv'
    OBVIOUS
  <1> USE DEF IInv
  <1>1. /\ UNCHANGED <<world, txs, rows, connecting, saving, writing, queue, pending, worker, cache,
                       hist, faults, crossed, skipped>>
        /\ leaving' \in BOOLEAN /\ account' \in {account, None} /\ active' \subseteq active
        /\ client' \in {client, None}
    BY DEF Disconnect, Disconnected, history
  <1>2. acts' \in 0..MaxActs
    BY ActTyped DEF Disconnect, Disconnected, TypeOK
  <1>3. /\ link' \in [Accounts -> Link] /\ stream' \in Accounts \cup {None}
        /\ stream' # None => link'[stream'].at = "ready"
        /\ \A b \in Accounts : link'[b].at # "gone" => link[b].at # "gone"
    <2>1. CASE Disconnect /\ client # None
      BY <2>1, GoneFacts DEF Disconnect
    <2>2. CASE Disconnect /\ client = None
      BY <2>2 DEF Disconnect, TypeOK
    <2>3. CASE Disconnected
      BY <2>3 DEF Disconnected, TypeOK, ClientsOK
    <2> QED
      BY <2>1, <2>2, <2>3
  <1>4. TypeOK'
    BY <1>1, <1>2, <1>3 DEF TypeOK
  <1>5. InWork' \subseteq InWork
    BY <1>1, <1>3, LinkFrame DEF Work
  <1>6. ClientsOK' /\ BookedOK'
    BY <1>1, <1>3, <1>5, LinkFrame DEF Work, ClientsOK, BookedOK
  <1> QED
    BY <1>1, <1>4, <1>6, LinkFrame DEF Work

LEMMA RestartStep == IInv /\ Restart => IInv'
  <1> SUFFICES ASSUME IInv, Restart PROVE IInv'
    OBVIOUS
  <1> USE DEF IInv
  <1>1. /\ UNCHANGED <<world, txs, rows, active, acts, crossed, skipped>>
        /\ client' = None /\ account' = None /\ stream' = None /\ leaving' = FALSE
        /\ saving' = {} /\ writing' = {} /\ queue' = <<>> /\ pending' = {}
        /\ cache' = [c \in Contracts |-> "none"] /\ hist' = [a \in Accounts |-> NoSync]
        /\ link' = [a \in Accounts |-> Gone]
    BY DEF Restart, history
  <1>2. /\ worker'.at = "idle"
        /\ worker' \in [at : {"idle", "asked", "read"}, acc : Accounts, c : Contracts, details : Details, sold : BOOLEAN]
    BY IdleTyped DEF Restart, TypeOK
  <1>3. connecting' \in [Accounts -> {"never", "no", "user", "stored"}] /\ faults' \in 0..MaxFaults
    BY FaultTyped DEF Restart, TypeOK
  <1>4. /\ link' \in [Accounts -> Link] /\ cache' \in [Contracts -> Details]
        /\ hist' \in [Accounts -> [at : {"idle", "run", "found"}, found : SUBSET Contracts]]
        /\ \A a \in Accounts : hist'[a].found = {}
    BY <1>1 DEF Gone, Link, NoSync, Details
  <1>5. TypeOK'
    <2>1. queue' \in Seq(Contracts) /\ pending' \subseteq Accounts \X Contracts
      BY <1>1
    <2>2. {client', account', stream'} \subseteq Accounts \cup {None} /\ leaving' \in BOOLEAN
      BY <1>1
    <2>3. /\ world' \in [Contracts -> {"never", "future", "open", "sold"}]
          /\ txs' \subseteq Contracts \X {"buy", "sell"} /\ rows' \in [Accounts \X Contracts -> Row \cup {None}]
          /\ active' \subseteq Accounts /\ acts' \in 0..MaxActs /\ crossed' \subseteq Contracts /\ skipped' \subseteq Contracts
      BY <1>1 DEF TypeOK
    <2>4. saving' \subseteq Contracts \X {"buy", "sell"} /\ writing' \subseteq Writing
      BY <1>1
    <2> QED
      BY <1>2, <1>3, <1>4, <2>1, <2>2, <2>3, <2>4 DEF TypeOK
  <1>6. KnownOK' /\ ClientsOK' /\ QueueOK'
    BY <1>1, <1>2, <1>4 DEF KnownOK, ClientsOK, QueueOK, Waiting, Begun
  <1>7. BookedOK' /\ OwnAccount' /\ TradesAreTrue'
    BY <1>1, <1>2 DEF BookedOK, OwnAccount, TradesAreTrue
  <1> QED
    BY <1>5, <1>6, <1>7

THEOREM NextOK == IInv /\ [Next]_vars => IInv'
  <1> SUFFICES ASSUME IInv, [Next]_vars PROVE IInv'
    OBVIOUS
  <1>1. CASE Working
    BY <1>1, TakeStep, AnswerStep, TimeoutStep, WriteStep, ExpireStep DEF Working
  <1>2. CASE Listening
    BY <1>2, TradeStep, DetailsStep, LiveWriteStep, SaveStep DEF Listening
  <1>3. CASE Syncing
    BY <1>3, SyncStep, FetchStep, HistEnqueueStep DEF Syncing
  <1>4. CASE Linking
    BY <1>4, ConnectStep, ConnectedStep, FailsStep, DropStep, DisconnectStep, RestartStep DEF Linking
  <1>5. CASE UNCHANGED vars
    <2>1. UNCHANGED <<active, connecting, link, client, account, stream, leaving, hist, faults, acts>> /\ UNCHANGED Work
      BY <1>5 DEF vars, memory, history, Work
    <2>2. TypeOK'
      BY <2>1 DEF IInv, TypeOK, Work
    <2>3. ClientsOK' /\ BookedOK'
      BY <2>1 DEF IInv, ClientsOK, BookedOK, InWork, Waiting, Work
    <2> QED
      BY <2>1, <2>2, <2>3, LinkFrame DEF IInv
  <1> QED
    BY <1>1, <1>2, <1>3, <1>4, <1>5 DEF Next

THEOREM Invariant == Spec => []IInv
  BY InitOK, NextOK, PTL DEF Spec

\* Every state is one of the types the module declares.
THEOREM TypeCorrect == Spec => []TypeOK
  <1>1. IInv => TypeOK
    BY DEF IInv
  <1> QED
    BY <1>1, Invariant, PTL

\* A trade is closed, or has its final profit, only once its contract is sold.
THEOREM TradesTell == Spec => []TradesAreTrue
  <1>1. IInv => TradesAreTrue
    BY DEF IInv
  <1> QED
    BY <1>1, Invariant, PTL

\* A contract is booked under another account only if it was in work when the
\* user changed to it.
THEOREM BookedWhereOwned == Spec => []OwnAccount
  <1>1. IInv => OwnAccount
    BY DEF IInv
  <1> QED
    BY <1>1, Invariant, PTL

\* A contract marked as pending waits in the queue, once.
THEOREM PendingWaits == Spec => []MarkedWaits
  <1>1. ASSUME IInv PROVE MarkedWaits
    <2>1. ASSUME NEW k \in pending, k[2] \notin skipped \cup crossed
          PROVE  Once(k[2], queue)
      <3>1. k = <<k[1], k[2]>> /\ k[2] \in Contracts
        BY <1>1 DEF IInv, TypeOK
      <3>2. k[1] = Owner[k[2]]
        BY <1>1, <2>1, <3>1 DEF IInv, QueueOK
      <3> QED
        BY <1>1, <2>1, <3>1, <3>2 DEF IInv, QueueOK
    <2> QED
      BY <2>1 DEF MarkedWaits
  <1> QED
    BY <1>1, Invariant, PTL
=============================================================================
