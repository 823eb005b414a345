----------------------------- MODULE DerivSync -----------------------------
(***************************************************************************)
(* The synchronisation of one user with Deriv: connections, the live       *)
(* stream, the sync of the history, the enrichment queue and the           *)
(* consolidation of transactions and contract details into trades.         *)
(*                                                                         *)
(* A trade is its status and what its profit was taken from: the final     *)
(* result ("final"), the quote of an open contract ("quote"), or nothing,  *)
(* when only transactions were known ("zero").                             *)
(***************************************************************************)
EXTENDS Naturals, Sequences, FiniteSets

CONSTANTS
  Accounts,   \* Deriv accounts of the user; each has a token and an AccountEntity
  Contracts,
  Owner,      \* the account a contract belongs to
  MaxFaults,  \* bound on drops, refusals, failures and restarts
  MaxActs,    \* bound on what the user connects and disconnects
  MaxLive,    \* bound on consolidations of live details at once
  None

ASSUME DerivAssumption ==
  /\ Owner \in [Contracts -> Accounts] /\ IsFiniteSet(Contracts) /\ Contracts # {}
  /\ None \notin Accounts /\ None \notin [status : {"OPEN", "CLOSED"}, profit : {"zero", "quote", "final"}]
  /\ {MaxFaults, MaxActs, MaxLive} \subseteq Nat

VARIABLES
  world,      \* Deriv: what became of a contract
  txs,        \* table deriv_transactions
  rows,       \* table trades, by account and contract
  active,     \* deriv_auth rows that are active
  connecting, \* attempts to connect: "user" stores the token, "stored" uses it
  link,       \* the last client made for an account
  client, account, stream, \* of the user: client in use, account id, client listened to
  leaving,    \* disconnect is between its two halves
  saving,     \* transactions received and not yet saved
  writing,    \* consolidations of live details between read and write
  queue, pending, \* enrichment queue and its dedupe set
  worker,     \* the loop of the queue
  cache,      \* contract details, for five minutes
  hist,       \* syncHistory, by account of its client
  faults, acts,
  crossed,    \* history: contracts whose work or client outlived a change of account
  skipped     \* history: contracts whose turn came without the account of their key

memory == <<connecting, link, client, account, stream, leaving, saving, writing,
            queue, pending, worker, cache, hist>>
history == <<crossed, skipped>>
vars == <<world, txs, rows, active, memory, faults, acts, history>>

Row     == [status : {"OPEN", "CLOSED"}, profit : {"zero", "quote", "final"}]
Details == {"none", "open", "sold"}
Writing == [acc : Accounts, c : Contracts, details : Details, sold : BOOLEAN]
Link    == [at : {"gone", "down", "up", "ready"}, rejoins : BOOLEAN]
Gone    == [at |-> "gone", rejoins |-> FALSE]
NoSync  == [at |-> "idle", found |-> {}]
Waiting(c) == \E i \in 1..Len(queue) : queue[i] = c
Fault   == faults < MaxFaults /\ faults' = faults + 1
Act     == acts < MaxActs /\ acts' = acts + 1

Idle(c) == [at |-> "idle", acc |-> Owner[c], c |-> c, details |-> "none", sold |-> FALSE]

Init ==
  /\ world \in [Contracts -> {"never", "future", "open", "sold"}]
  /\ connecting \in [Accounts -> {"no", "never"}]
  /\ txs = {} /\ rows = [p \in Accounts \X Contracts |-> None]
  /\ active = {} /\ link = [a \in Accounts |-> Gone]
  /\ client = None /\ account = None /\ stream = None /\ leaving = FALSE
  /\ saving = {} /\ writing = {} /\ queue = <<>> /\ pending = {}
  /\ worker = Idle(CHOOSE c \in Contracts : TRUE)
  /\ cache = [c \in Contracts |-> "none"]
  /\ hist = [a \in Accounts |-> NoSync]
  /\ faults \in 0..MaxFaults /\ acts \in 0..MaxActs \* what is left of the bounds
  /\ crossed = {} /\ skipped = {}

-----------------------------------------------------------------------------
(* Consolidation and the queue.                                            *)

Sold(c) == <<c, "sell">> \in txs

\* Mutant: a contract that has an expiry is taken for closed.
ConsolidatedByExpiry(details, sold) ==
  [status |-> IF details # "none" \/ sold THEN "CLOSED" ELSE "OPEN",
   profit |-> CASE details = "sold" -> "final" [] details = "open" -> "quote" [] OTHER -> "zero"]

\* A trade is closed when its details or a sale say so; without details its
\* profit comes out as nothing.
Consolidated(details, sold) ==
  [status |-> IF details = "sold" \/ sold THEN "CLOSED" ELSE "OPEN",
   profit |-> CASE details = "sold" -> "final" [] details = "open" -> "quote" [] OTHER -> "zero"]

\* What a consolidation writes over the row, whatever the row says.
Write(acc, c, details, sold) ==
  rows' = IF details = "none" /\ ~\E act \in {"buy", "sell"} : <<c, act>> \in txs
          THEN rows
          ELSE [rows EXCEPT ![<<acc, c>>] = Consolidated(details, sold)]

Once(c, s) == \E i \in 1..Len(s) : \A j \in 1..Len(s) : s[j] = c <=> j = i
Orders(S)  == {s \in [1..Cardinality(S) -> S] : \A c \in S : Once(c, s)}

\* processTradeSync for each of S.
Enqueue(S) ==
  IF client = None \/ account = None
  THEN UNCHANGED <<queue, pending>>
  ELSE LET new == {c \in S : <<account, c>> \notin pending}
       IN  /\ pending' = pending \cup ({account} \X new)
           /\ \E s \in Orders(new) : queue' = queue \o s

\* Mutant: the mark is left when the item goes.
DequeueMarked(key) ==
  /\ queue' = Tail(queue)
  /\ pending' = pending

Dequeue(key) ==
  /\ queue' = Tail(queue)
  /\ pending' = pending \ {key}

\* The loop takes the head up, with the account the user has now.
WorkerTake ==
  /\ worker.at = "idle" /\ queue # <<>>
  /\ LET c    == Head(queue)
         take == [at |-> "read", acc |-> account, c |-> c, details |-> cache[c], sold |-> Sold(c)]
     IN  /\ IF account = None \/ client = None
            THEN Dequeue(<<account, c>>) /\ UNCHANGED worker
            ELSE /\ worker' = IF cache[c] = "none" /\ link[client].at = "ready"
                              THEN [take EXCEPT !.at = "asked"] ELSE take
                 /\ UNCHANGED <<queue, pending>>
         /\ skipped' = IF <<account, c>> \in pending THEN skipped ELSE skipped \cup {c}
  /\ UNCHANGED <<world, txs, rows, active, connecting, link, client, account, stream, leaving,
                 saving, writing, cache, hist, faults, acts, crossed>>

\* The answer, and the read of the transactions that follows.  A token sees
\* the contracts of its own account; of others the answer is an error.
WorkerAnswer ==
  /\ worker.at = "asked" /\ link[worker.acc].at = "ready"
  /\ \/ /\ Owner[worker.c] = worker.acc
        /\ worker' = [worker EXCEPT !.at = "read", !.details = world[worker.c], !.sold = Sold(worker.c)]
        /\ cache' = [cache EXCEPT ![worker.c] = world[worker.c]]
        /\ UNCHANGED faults
     \/ /\ worker' = [worker EXCEPT !.at = "read", !.sold = Sold(worker.c)]
        /\ UNCHANGED cache
        /\ IF Owner[worker.c] = worker.acc THEN Fault ELSE UNCHANGED faults
  /\ UNCHANGED <<world, txs, rows, active, connecting, link, client, account, stream, leaving,
                 saving, writing, queue, pending, hist, acts, history>>

\* A rate limit, or a socket that closed (which a request does not notice):
\* the item stays at the head.
WorkerTimeout ==
  /\ worker.at = "asked"
  /\ worker' = Idle(worker.c)
  /\ UNCHANGED <<world, txs, rows, active, connecting, link, client, account, stream, leaving,
                 saving, writing, queue, pending, cache, hist, faults, acts, history>>

\* When the write fails, it is tried once more without details.
WorkerWrite ==
  /\ worker.at = "read"
  /\ \/ Write(worker.acc, worker.c, worker.details, worker.sold) /\ UNCHANGED faults
     \/ (UNCHANGED rows \/ Write(worker.acc, worker.c, "none", Sold(worker.c))) /\ Fault
  /\ Dequeue(<<worker.acc, worker.c>>)
  /\ worker' = Idle(worker.c)
  /\ UNCHANGED <<world, txs, active, connecting, link, client, account, stream, leaving,
                 saving, writing, cache, hist, acts, history>>

CacheExpires(c) ==
  /\ cache[c] # "none"
  /\ cache' = [cache EXCEPT ![c] = "none"]
  /\ UNCHANGED <<world, txs, rows, active, connecting, link, client, account, stream, leaving,
                 saving, writing, queue, pending, worker, hist, faults, acts, history>>

-----------------------------------------------------------------------------
(* The live stream.                                                        *)

\* Does a message about c reach a handler that knows an account?
Heard(c) == stream = Owner[c] /\ account # None

Live(c, details) == [acc |-> account, c |-> c, details |-> details, sold |-> Sold(c)]

\* A contract is bought or sold: a transaction, and at the sale its details.
Trade(c) ==
  /\ world[c] \in {"future", "open"}
  /\ LET act == IF world[c] = "future" THEN "buy" ELSE "sell"
         new == IF act = "buy" THEN "open" ELSE "sold"
     IN  /\ world' = [world EXCEPT ![c] = new]
         /\ saving' = IF Heard(c) THEN saving \cup {<<c, act>>} ELSE saving
         /\ writing' = IF Heard(c) /\ act = "sell" THEN writing \cup {Live(c, new)} ELSE writing
  /\ UNCHANGED <<txs, rows, active, connecting, link, client, account, stream, leaving,
                 queue, pending, worker, cache, hist, faults, acts, history>>

\* The details of an open contract arrive with every tick.
LiveDetails(c) ==
  /\ world[c] = "open" /\ Heard(c) /\ Cardinality(writing) < MaxLive
  /\ writing' = writing \cup {Live(c, "open")}
  /\ UNCHANGED <<world, txs, rows, active, connecting, link, client, account, stream, leaving,
                 saving, queue, pending, worker, cache, hist, faults, acts, history>>

LiveWrite(w) ==
  /\ w \in writing
  /\ writing' = writing \ {w}
  /\ \/ Write(w.acc, w.c, w.details, w.sold) /\ UNCHANGED faults
     \/ UNCHANGED rows /\ Fault
  /\ UNCHANGED <<world, txs, active, connecting, link, client, account, stream, leaving,
                 saving, queue, pending, worker, cache, hist, acts, history>>

\* handleTransaction after its upsert.
SaveTransaction(x) ==
  /\ x \in saving
  /\ saving' = saving \ {x}
  /\ txs' = txs \cup {x}
  /\ Enqueue({x[1]})
  /\ UNCHANGED <<world, rows, active, connecting, link, client, account, stream, leaving,
                 writing, worker, cache, hist, faults, acts, history>>

-----------------------------------------------------------------------------
(* The sync of the history.                                                *)

Started(h, a) == [h EXCEPT ![a].at = IF h[a].at = "idle" THEN "run" ELSE @]

\* triggerSync: a client that is not authorised is replaced first.
Sync ==
  /\ active # {}
  /\ IF client # None /\ link[client].at = "ready"
     THEN /\ account # None
          /\ hist[client].at = "idle"
          /\ hist' = Started(hist, client)
          /\ UNCHANGED <<connecting, link, client, account, stream>>
     ELSE \E a \in active :
          /\ connecting[a] = "no"
          /\ connecting' = [connecting EXCEPT ![a] = "stored"]
          /\ link' = IF client = None THEN link ELSE [link EXCEPT ![client] = Gone]
          /\ stream' = IF stream = client THEN None ELSE stream
          /\ client' = None
          /\ account' = IF client = None THEN account ELSE None
          /\ UNCHANGED hist
  /\ UNCHANGED <<world, txs, rows, active, leaving, saving, writing, queue, pending, worker, cache, faults, acts, history>>

\* Mutant: only the portfolio is fetched.
HistFetchOpen(a) ==
  /\ hist[a].at = "run"
  /\ LET got == IF link[a].at = "ready" THEN {c \in Contracts : Owner[c] = a /\ world[c] = "open"} ELSE {}
     IN  /\ txs' = txs \cup (got \X {"buy"})
         /\ hist' = [hist EXCEPT ![a] = [at |-> "found", found |-> got]]
  /\ UNCHANGED <<world, rows, active, connecting, link, client, account, stream, leaving,
                 saving, writing, queue, pending, worker, cache, faults, acts, history>>

\* Portfolio, statement and profit table; each may fail on its own.
HistFetch(a) ==
  /\ hist[a].at = "run"
  /\ LET mine == {c \in Contracts : Owner[c] = a}
         open == {c \in mine : world[c] = "open"}
         sold == {c \in mine : world[c] = "sold"}
         Got(parts) == (IF parts \cap {"portfolio", "statement"} # {} THEN open ELSE {})
                         \cup (IF parts \cap {"statement", "profit"} # {} THEN sold ELSE {})
     IN  \E parts \in SUBSET {"portfolio", "statement", "profit"} :
           LET got == IF link[a].at = "ready" THEN Got(parts) ELSE {}
           IN  /\ txs' = txs \cup (got \X {"buy"}) \cup ((got \cap sold) \X {"sell"})
               /\ hist' = [hist EXCEPT ![a] = [at |-> "found", found |-> got]]
               /\ IF got = open \cup sold \/ link[a].at # "ready" THEN UNCHANGED faults ELSE Fault
  /\ UNCHANGED <<world, rows, active, connecting, link, client, account, stream, leaving,
                 saving, writing, queue, pending, worker, cache, acts, history>>

\* Mutant: all contracts of the user are enqueued, whatever their account.
HistEnqueueUser(a) ==
  /\ hist[a].at = "found"
  /\ Enqueue({x[1] : x \in txs})
  /\ hist' = [hist EXCEPT ![a] = NoSync]
  /\ UNCHANGED <<world, txs, rows, active, connecting, link, client, account, stream, leaving,
                 saving, writing, worker, cache, faults, acts, history>>

HistEnqueue(a) ==
  /\ hist[a].at = "found"
  /\ Enqueue(hist[a].found)
  /\ hist' = [hist EXCEPT ![a] = NoSync]
  /\ UNCHANGED <<world, txs, rows, active, connecting, link, client, account, stream, leaving,
                 saving, writing, worker, cache, faults, acts, history>>

-----------------------------------------------------------------------------
(* Connections.                                                            *)

\* connect: the client in use goes at once, the new one comes after awaits.
Connect(a) ==
  /\ connecting[a] = "no" /\ Act
  /\ connecting' = [connecting EXCEPT ![a] = "user"]
  /\ link' = IF client = None THEN link ELSE [link EXCEPT ![client] = Gone]
  /\ stream' = IF stream = client THEN None ELSE stream
  /\ account' = IF client = None THEN account ELSE None
  /\ client' = None
  /\ UNCHANGED <<world, txs, rows, active, leaving, saving, writing, queue, pending, worker, cache,
                 hist, faults, history>>

\* Contracts still in work, or whose client is still there.
InWork == {c \in Contracts :
             \/ Waiting(c) \/ (worker.at # "idle" /\ worker.c = c)
             \/ \E x \in saving : x[1] = c
             \/ c \in hist[Owner[c]].found
             \/ link[Owner[c]].at # "gone"}

Connected(a) ==
  /\ connecting[a] \in {"user", "stored"}
  /\ connecting' = [connecting EXCEPT ![a] = "no"]
  /\ link' = [link EXCEPT ![a] = [at |-> "ready", rejoins |-> connecting[a] = "stored"]]
  /\ client' = a /\ account' = a /\ stream' = a
  /\ active' = IF connecting[a] = "user" THEN active \cup {a} ELSE active
  /\ hist' = Started(hist, a)
  /\ crossed' = crossed \cup {c \in InWork : Owner[c] # a}
  /\ UNCHANGED <<world, txs, rows, leaving, saving, writing, queue, pending, worker, cache, faults, acts, skipped>>

\* A stored token that is refused is never tried again.
ConnectFails(a) ==
  /\ connecting[a] \in {"user", "stored"} /\ Fault
  /\ connecting' = [connecting EXCEPT ![a] = "no"]
  /\ active' \in {active, IF connecting[a] = "stored" THEN active \ {a} ELSE active}
  /\ UNCHANGED <<world, txs, rows, link, client, account, stream, leaving, saving, writing, queue,
                 pending, worker, cache, hist, acts, history>>

Drop(a) ==
  /\ link[a].at \in {"up", "ready"} /\ Fault
  /\ link' = [link EXCEPT ![a].at = "down"]
  /\ stream' = IF stream = a THEN None ELSE stream
  /\ UNCHANGED <<world, txs, rows, active, connecting, client, account, leaving, saving, writing,
                 queue, pending, worker, cache, hist, acts, history>>

\* Only a client of a stored token authorises and subscribes again; another
\* one is authorised at most by its address.
Reconnect(a) ==
  /\ link[a].at = "down"
  /\ IF link[a].rejoins
     THEN \/ link' = [link EXCEPT ![a].at = "ready"] /\ stream' = a /\ UNCHANGED faults
          \/ link' = [link EXCEPT ![a].at = "up"] /\ UNCHANGED stream /\ Fault
     ELSE /\ \E at \in {"up", "ready"} : link' = [link EXCEPT ![a].at = at]
          /\ UNCHANGED <<stream, faults>>
  /\ UNCHANGED <<world, txs, rows, active, connecting, client, account, leaving, saving, writing,
                 queue, pending, worker, cache, hist, acts, history>>

\* disconnect, before and after it tells the account that it is offline.
Disconnect ==
  /\ ~leaving /\ Act
  /\ leaving' = TRUE
  /\ link' = IF client = None THEN link ELSE [link EXCEPT ![client] = Gone]
  /\ stream' = None /\ client' = None
  /\ UNCHANGED <<world, txs, rows, active, connecting, account, saving, writing, queue, pending,
                 worker, cache, hist, faults, history>>

Disconnected ==
  /\ leaving
  /\ leaving' = FALSE
  /\ account' = None /\ active' = {}
  /\ UNCHANGED <<world, txs, rows, connecting, link, client, stream, saving, writing, queue, pending,
                 worker, cache, hist, faults, acts, history>>

\* All but the tables is lost; onModuleInit connects every active account.
Restart ==
  /\ Fault
  /\ connecting' = [a \in Accounts |-> IF a \in active THEN "stored"
                                       ELSE IF connecting[a] = "never" THEN "never" ELSE "no"]
  /\ link' = [a \in Accounts |-> Gone]
  /\ client' = None /\ account' = None /\ stream' = None /\ leaving' = FALSE
  /\ saving' = {} /\ writing' = {} /\ queue' = <<>> /\ pending' = {}
  /\ worker' = Idle(worker.c) /\ cache' = [c \in Contracts |-> "none"]
  /\ hist' = [a \in Accounts |-> NoSync]
  /\ UNCHANGED <<world, txs, rows, active, acts, history>>

-----------------------------------------------------------------------------
Working ==
  \/ WorkerTake \/ WorkerAnswer \/ WorkerTimeout \/ WorkerWrite
  \/ \E c \in Contracts : CacheExpires(c)

Listening ==
  \/ \E c \in Contracts : Trade(c) \/ LiveDetails(c)
  \/ \E w \in writing : LiveWrite(w)
  \/ \E x \in saving : SaveTransaction(x)

Syncing == Sync \/ \E a \in Accounts : HistFetch(a) \/ HistEnqueue(a)

Linking ==
  \/ \E a \in Accounts : Connect(a) \/ Connected(a) \/ ConnectFails(a) \/ Drop(a) \/ Reconnect(a)
  \/ Disconnect \/ Disconnected \/ Restart

Next == Working \/ Listening \/ Syncing \/ Linking

Spec == Init /\ [][Next]_vars

\* The process goes on; the user asks for a sync again and again; a request
\* that is repeated is answered in the end.
Fairness ==
  /\ WF_vars(WorkerTake) /\ SF_vars(WorkerAnswer) /\ WF_vars(WorkerWrite) /\ WF_vars(WorkerTimeout)
  /\ \A c \in Contracts : WF_vars(CacheExpires(c))
  /\ WF_vars(\E w \in writing : LiveWrite(w)) /\ WF_vars(\E x \in saving : SaveTransaction(x))
  /\ SF_vars(Sync)
  /\ \A a \in Accounts : WF_vars(HistFetch(a)) /\ WF_vars(HistEnqueue(a)) /\ WF_vars(Connected(a))
  /\ WF_vars(Disconnected)

FairSpec == Spec /\ Fairness

-----------------------------------------------------------------------------
TypeOK ==
  /\ world \in [Contracts -> {"never", "future", "open", "sold"}]
  /\ txs \subseteq Contracts \X {"buy", "sell"}
  /\ rows \in [Accounts \X Contracts -> Row \cup {None}]
  /\ active \subseteq Accounts
  /\ connecting \in [Accounts -> {"never", "no", "user", "stored"}]
  /\ link \in [Accounts -> Link]
  /\ {client, account, stream} \subseteq Accounts \cup {None} /\ leaving \in BOOLEAN
  /\ saving \subseteq Contracts \X {"buy", "sell"} /\ writing \subseteq Writing
  /\ queue \in Seq(Contracts) /\ pending \subseteq Accounts \X Contracts
  /\ worker \in [at : {"idle", "asked", "read"}, acc : Accounts, c : Contracts, details : Details, sold : BOOLEAN]
  /\ cache \in [Contracts -> Details]
  /\ hist \in [Accounts -> [at : {"idle", "run", "found"}, found : SUBSET Contracts]]
  /\ faults \in 0..MaxFaults /\ acts \in 0..MaxActs
  /\ crossed \subseteq Contracts /\ skipped \subseteq Contracts

\* What a trade says of its contract is true of it: it is closed, or has its
\* final profit, only once the contract is sold, whichever of stream, history,
\* cache and queue the consolidation drew on and however old it was.
TradesAreTrue ==
  \A a \in Accounts, c \in Contracts : rows[a, c] # None =>
    /\ world[c] \in {"open", "sold"}
    /\ (rows[a, c].status = "CLOSED" \/ rows[a, c].profit = "final") => world[c] = "sold"

\* A contract is booked under an account that is not its own only if, at a
\* change of account, it was still in work or its client was still there.
OwnAccount ==
  \A a \in Accounts, c \in Contracts : rows[a, c] # None => a = Owner[c] \/ c \in crossed

\* The dedupe set stands for the queue: a contract that is marked as pending
\* waits in the queue, once, unless its turn came when the user had no account
\* (then the mark stays until the process ends), or it crossed to another one.
MarkedWaits ==
  \A k \in pending : k[2] \in skipped \cup crossed \/ Once(k[2], queue)

\* A contract that is sold comes to be shown closed and with its final profit
\* for good, whatever was lost, late or out of order before, if from some time
\* on its account stays connected, authorised and active and the contract was
\* not skipped.
SoldSettles ==
  \A c \in Contracts :
    <>[](/\ Owner[c] \in active /\ client = Owner[c] /\ account = client
         /\ link[client].at = "ready" /\ c \notin skipped)
    => <>[](world[c] = "sold" => rows[Owner[c], c] = Consolidated("sold", TRUE))
=============================================================================
