------------------------------ MODULE DealSync ------------------------------
(***************************************************************************)
(* The path of a closed deal of one MT5 account into the trade table:      *)
(*                                                                         *)
(*   broker history --fetch--> worker --POST /sync/trades--> backend       *)
(*                               |  ^                           |          *)
(*                     offline buffer (SQLite)             trades (PG)     *)
(*                                                                         *)
(* The worker (mt5-server) is one loop, so it has at most one request it   *)
(* waits for; it gives up after 10 s, but the backend goes on with what it *)
(* received, so several imports of the same deals may run at once. An      *)
(* import first reads which deals the table already holds and only later,  *)
(* in one transaction, upserts the others. The worker keeps a checkpoint   *)
(* (highest ticket, time of the latest deal) in memory and in a file, and  *)
(* moves it only when the backend has answered.                            *)
(*                                                                         *)
(* The worker sends a deal with the id of its position, but on its way     *)
(* through the generic adapter its contract becomes its ticket again, so   *)
(* a row of the table is known by the ticket alone.                        *)
(***************************************************************************)
EXTENDS Naturals, FiniteSets

CONSTANTS
  Deals,          \* tickets of the account's deals
  Kind,           \* Kind[d]: "in" opens, "out" closes, "balance" is no trade
  Deposit,        \* the first deal of the account, which funds it
  Slack,          \* days looked back before the latest known deal (7)
  Grace,          \* days looked back when no deal time is known (14)
  Slots,          \* requests the backend can have in hand at a time (bound)
  Items,          \* rows the offline buffer can hold at a time (bound)
  MaxDay,         \* last day of the model (bound)
  MaxFaults,      \* faults of network, backend and worker (bound)
  Nowhere,        \* not a slot: the request was lost on its way
  Empty           \* not a batch: the buffer row does not exist

ASSUME DealSyncAssumption ==
  /\ Deals \subseteq Nat \ {0}
  /\ Kind \in [Deals -> {"in", "out", "balance"}]
  /\ Deposit \in Deals /\ Kind[Deposit] = "balance"
  /\ \A d \in Deals : Deposit <= d
  /\ Slack \in Nat /\ Grace \in Nat /\ MaxDay \in Nat /\ MaxFaults \in Nat
  /\ Nowhere \notin Slots

VARIABLES
  history,        \* deals the terminal reports (external)
  time,           \* time[d]: day deal d was made (external)
  day,            \* the clock
  memory,         \* the worker's checkpoint [ticket, time] in memory
  disk,           \* the checkpoint accounts_pool.json holds
  buffer,         \* offline_buffer: item -> batch, or Empty
  waiting,        \* the request the worker's loop is blocked on
  handler,        \* the backend's requests in hand
  ledger,         \* tickets of the rows of the table trades
  faults          \* faults so far

vars == <<history, time, day, memory, disk, buffer, waiting, handler, ledger,
          faults>>

NoTime == 0
Batch == [deals : SUBSET Deals, top : Nat, latest : Nat]
ASSUME EmptyAssumption == Empty \notin Batch
Checkpoint == [ticket : Nat, time : Nat]
Fresh == [ticket |-> 0, time |-> NoTime]
Free == [phase |-> "free", deals |-> {}]
Idle == [for |-> "nothing", slot |-> Nowhere]

TypeOK ==
  /\ history \subseteq Deals
  /\ time \in [Deals -> Nat]
  /\ day \in Nat
  /\ memory \in Checkpoint
  /\ disk \in Checkpoint
  /\ buffer \in [Items -> Batch \cup {Empty}]
  /\ waiting \in {Idle}
       \cup [for : {"sync"}, batch : Batch, slot : Slots \cup {Nowhere}]
       \cup [for : {"flush"}, item : Items, slot : Slots \cup {Nowhere}]
  /\ handler \in [Slots ->
       [phase : {"free", "received", "checked", "done", "failed", "refused"},
        deals : SUBSET Deals]]
  /\ ledger \subseteq Deals
  /\ faults \in Nat

-----------------------------------------------------------------------------
(***************************************************************************)
(* The broker (external): deals get increasing tickets.                    *)
(***************************************************************************)

NewDeal(d) ==
  /\ d \in Deals \ history
  /\ \A e \in history : e < d
  /\ \A e \in Deals \ history : d <= e
  /\ history' = history \cup {d}
  /\ time' = [time EXCEPT ![d] = day]
  /\ UNCHANGED <<day, memory, disk, buffer, waiting, handler, ledger, faults>>

NextDay ==
  /\ day < MaxDay
  /\ day' = day + 1
  /\ UNCHANGED <<history, time, memory, disk, buffer, waiting, handler,
                 ledger, faults>>

-----------------------------------------------------------------------------
(***************************************************************************)
(* What a fetch returns. `since' is the checkpoint it starts from: the     *)
(* account's, or Fresh for a full synchronisation.                         *)
(***************************************************************************)

\* Mutant: the deals of the checkpoint's last moment count as known.
WindowStrict(since) ==
  {d \in history : since.ticket = 0 \/ time[d] + Slack > since.time}

\* Deals in the time window of history_deals_get.
Window(since) ==
  {d \in history :
     \/ since.ticket = 0
     \/ since.ticket > 0 /\ since.time # NoTime /\ time[d] + Slack >= since.time
     \/ since.ticket > 0 /\ since.time = NoTime /\ time[d] + Grace >= day}

\* Opening deals are not sent: they are positions still.
Fetched(since) == {d \in Window(since) : d > since.ticket /\ Kind[d] # "in"}

\* The greatest element of S, if it has one.
Greatest(S) == {m \in S : \A x \in S : x <= m}

\* The checkpoint only grows.
Advance(cp, ticket, t) ==
  [ticket |-> IF ticket > cp.ticket THEN ticket ELSE cp.ticket,
   time   |-> IF t > cp.time THEN t ELSE cp.time]

\* Saving the pool file may fail; the worker goes on with what is in memory.
SaveCheckpoint(cp) ==
  /\ memory' = cp
  /\ \/ /\ disk' = cp
        /\ UNCHANGED faults
     \/ /\ faults < MaxFaults
        /\ faults' = faults + 1
        /\ UNCHANGED disk

-----------------------------------------------------------------------------
(***************************************************************************)
(* The worker's loop.                                                      *)
(***************************************************************************)

\* A POST reaches a free handler of the backend, or is lost on its way.
Post(deals, slot) ==
  \/ /\ slot \in Slots
     /\ handler[slot].phase = "free"
     /\ handler' = [handler EXCEPT ![slot] = [phase |-> "received", deals |-> deals]]
     /\ UNCHANGED faults
  \/ /\ slot = Nowhere
     /\ faults < MaxFaults
     /\ faults' = faults + 1
     /\ UNCHANGED handler

\* Mutant: the checkpoint moves before the answer is there.
SyncEager(full, slot) ==
  LET since == IF full THEN Fresh ELSE memory
      deals == Fetched(since)
  IN  /\ waiting = Idle
      /\ deals # {}
      /\ Post(deals, slot)
      /\ \E top \in Greatest(Window(since) \cup {since.ticket}),
            latest \in Greatest({time[d] : d \in deals}) :
              /\ memory' = Advance(memory, top, latest)
              /\ waiting' = [for |-> "sync", slot |-> slot,
                             batch |-> [deals |-> deals, top |-> top, latest |-> latest]]
      /\ UNCHANGED <<history, time, day, disk, buffer, ledger>>

\* One synchronisation with something to send: the loop blocks on the answer.
Sync(full, slot) ==
  LET since == IF full THEN Fresh ELSE memory
      deals == Fetched(since)
  IN  /\ waiting = Idle
      /\ deals # {}
      /\ \E i \in Items : buffer[i] = Empty
      /\ Post(deals, slot)
      /\ \E top \in Greatest(Window(since) \cup {since.ticket}),
            latest \in Greatest({time[d] : d \in deals}) :
              waiting' = [for |-> "sync", slot |-> slot,
                          batch |-> [deals |-> deals, top |-> top, latest |-> latest]]
      /\ UNCHANGED <<history, time, day, memory, disk, buffer, ledger>>

\* Nothing to send: the checkpoint still passes the opening deals.
SyncNothing(full) ==
  LET since == IF full THEN Fresh ELSE memory
  IN  /\ waiting = Idle
      /\ Fetched(since) = {}
      /\ \E top \in Greatest(Window(since) \cup {since.ticket}) :
              SaveCheckpoint(Advance(memory, top, NoTime))
      /\ UNCHANGED <<history, time, day, buffer, waiting, handler, ledger>>

\* The terminal shows another login or no history at all: nothing is fetched,
\* and the checkpoint is saved as it is.
FetchFails ==
  /\ waiting = Idle
  /\ SaveCheckpoint(memory)
  /\ UNCHANGED <<history, time, day, buffer, waiting, handler, ledger>>

\* A buffered batch is sent again. Back-off makes any of them the next one.
Flush(i, slot) ==
  /\ waiting = Idle
  /\ buffer[i] # Empty
  /\ Post(buffer[i].deals, slot)
  /\ waiting' = [for |-> "flush", item |-> i, slot |-> slot]
  /\ UNCHANGED <<history, time, day, memory, disk, buffer, ledger>>

\* The handler that answers the worker is free again.
Hear(phase) ==
  /\ waiting # Idle
  /\ waiting.slot \in Slots
  /\ handler[waiting.slot].phase = phase
  /\ handler' = [handler EXCEPT ![waiting.slot] = Free]
  /\ waiting' = Idle

\* 200 and success: the checkpoint moves, or the buffered batch is removed.
Accepted ==
  /\ Hear("done")
  /\ \/ /\ waiting.for = "sync"
        /\ SaveCheckpoint(Advance(memory, waiting.batch.top, waiting.batch.latest))
        /\ UNCHANGED buffer
     \/ /\ waiting.for = "flush"
        /\ buffer' = [buffer EXCEPT ![waiting.item] = Empty]
        /\ UNCHANGED <<memory, disk, faults>>
  /\ UNCHANGED <<history, time, day, ledger>>

\* Mutant: every 200 counts as success.
RefusedMoves ==
  /\ Hear("refused")
  /\ \/ /\ waiting.for = "sync"
        /\ SaveCheckpoint(Advance(memory, waiting.batch.top, waiting.batch.latest))
        /\ UNCHANGED buffer
     \/ /\ waiting.for = "flush"
        /\ buffer' = [buffer EXCEPT ![waiting.item] = Empty]
        /\ UNCHANGED <<memory, disk, faults>>
  /\ UNCHANGED <<history, time, day, ledger>>

\* 200 but "Account not found": nothing is kept of a direct batch, and a
\* buffered one takes every pending batch of the account with it.
Refused ==
  /\ Hear("refused")
  /\ \/ waiting.for = "sync" /\ UNCHANGED buffer
     \/ waiting.for = "flush" /\ buffer' = [i \in Items |-> Empty]
  /\ UNCHANGED <<history, time, day, memory, disk, ledger, faults>>

\* No usable answer: a direct batch is buffered, a buffered one is kept for
\* later or, after its last attempt, dead-lettered and never sent again.
KeepForLater ==
  \/ /\ waiting.for = "sync"
     /\ \E i \in Items : /\ buffer[i] = Empty
                         /\ buffer' = [buffer EXCEPT ![i] = waiting.batch]
  \/ /\ waiting.for = "flush"
     /\ \/ UNCHANGED buffer
        \/ buffer' = [buffer EXCEPT ![waiting.item] = Empty]

\* The backend answered with an error.
Errored ==
  /\ Hear("failed")
  /\ KeepForLater
  /\ UNCHANGED <<history, time, day, memory, disk, ledger, faults>>

\* The request was lost; the worker hears nothing.
Unheard ==
  /\ waiting # Idle
  /\ waiting.slot = Nowhere
  /\ KeepForLater
  /\ waiting' = Idle
  /\ UNCHANGED <<history, time, day, memory, disk, handler, ledger, faults>>

\* Ten seconds are over, or the answer was lost: the worker gives the request
\* up, while the backend finishes what it has in hand.
GiveUp ==
  /\ waiting # Idle
  /\ waiting.slot \in Slots
  /\ handler[waiting.slot].phase \in {"received", "checked", "done"}
  /\ faults < MaxFaults
  /\ faults' = faults + 1
  /\ KeepForLater
  /\ waiting' = Idle
  /\ handler' = IF handler[waiting.slot].phase = "done"
                THEN [handler EXCEPT ![waiting.slot] = Free]
                ELSE handler
  /\ UNCHANGED <<history, time, day, memory, disk, ledger>>

\* The worker dies and restarts from its files.
Crash ==
  /\ faults < MaxFaults
  /\ faults' = faults + 1
  /\ memory' = disk
  /\ waiting' = Idle
  /\ handler' = [s \in Slots |-> IF handler[s].phase \in {"received", "checked"}
                                 THEN handler[s] ELSE Free]
  /\ UNCHANGED <<history, time, day, disk, buffer, ledger>>

\* The account leaves the pool and is connected anew, without a checkpoint.
Reconnect ==
  /\ waiting = Idle
  /\ faults < MaxFaults
  /\ faults' = faults + 1
  /\ memory' = Fresh
  /\ disk' = Fresh
  /\ UNCHANGED <<history, time, day, buffer, waiting, handler, ledger>>

-----------------------------------------------------------------------------
(***************************************************************************)
(* The backend's import of the deals of one request.                       *)
(***************************************************************************)

\* Is the worker's loop still blocked on this handler?
Awaited(s) == waiting # Idle /\ waiting.slot = s

Finish(s, phase) ==
  handler' = [handler EXCEPT ![s] = IF Awaited(s)
                                    THEN [phase |-> phase, deals |-> {}]
                                    ELSE Free]

\* The transaction reads the table: what is no trade, or is there, is left out.
Check(s) ==
  /\ handler[s].phase = "received"
  /\ handler' = [handler EXCEPT ![s] =
       [phase |-> "checked",
        deals |-> {d \in handler[s].deals : Kind[d] # "balance" /\ d \notin ledger}]]
  /\ UNCHANGED <<history, time, day, memory, disk, buffer, waiting, ledger, faults>>

\* It upserts the others and commits.
Commit(s) ==
  /\ handler[s].phase = "checked"
  /\ ledger' = ledger \cup handler[s].deals
  /\ Finish(s, "done")
  /\ UNCHANGED <<history, time, day, memory, disk, buffer, waiting, faults>>

\* It fails and is rolled back (500).
Abort(s) ==
  /\ handler[s].phase \in {"received", "checked"}
  /\ faults < MaxFaults
  /\ faults' = faults + 1
  /\ Finish(s, "failed")
  /\ UNCHANGED <<history, time, day, memory, disk, buffer, waiting, ledger>>

\* The account cannot be resolved.
Refuse(s) ==
  /\ handler[s].phase = "received"
  /\ faults < MaxFaults
  /\ faults' = faults + 1
  /\ Finish(s, "refused")
  /\ UNCHANGED <<history, time, day, memory, disk, buffer, waiting, ledger>>

-----------------------------------------------------------------------------

Init ==
  /\ history = {}
  /\ time = [d \in Deals |-> NoTime]
  /\ day = 1
  /\ memory = Fresh
  /\ disk = Fresh
  /\ buffer = [i \in Items |-> Empty]
  /\ waiting = Idle
  /\ handler = [s \in Slots |-> Free]
  /\ ledger = {}
  /\ faults = 0

Broker == NextDay \/ \E d \in Deals : NewDeal(d)

Request ==
  \/ FetchFails
  \/ \E full \in BOOLEAN : SyncNothing(full)
  \/ \E slot \in Slots \cup {Nowhere} :
       \/ \E full \in BOOLEAN : Sync(full, slot)
       \/ \E i \in Items : Flush(i, slot)

Worker ==
  Request \/ Accepted \/ Refused \/ Errored \/ Unheard \/ GiveUp \/ Crash \/ Reconnect

Backend == \E s \in Slots : Check(s) \/ Commit(s) \/ Abort(s) \/ Refuse(s)

Next == Broker \/ Worker \/ Backend

Spec == Init /\ [][Next]_vars

\* The loop comes round to each of its steps again (a synchronisation every
\* 10 s, a flush every 15 s), which is strong fairness since it waits for one
\* request at a time. A handler carries its import on, a worker that is
\* answered hears it.
Fairness ==
  /\ SF_vars(\E slot \in Slots : Sync(FALSE, slot))
  /\ \A i \in Items : SF_vars(\E slot \in Slots : Flush(i, slot))
  /\ WF_vars(Accepted) /\ WF_vars(Refused) /\ WF_vars(Errored) /\ WF_vars(Unheard)
  /\ \A s \in Slots : WF_vars(Check(s)) /\ WF_vars(Commit(s))

FairSpec == Spec /\ Fairness

-----------------------------------------------------------------------------
(***************************************************************************)
(* Properties.                                                             *)
(***************************************************************************)

Out == {d \in Deals : Kind[d] = "out"}

\* No checkpoint, in memory or on disk, passes a closing deal that is not in the
\* table: neither a lost answer, an import the worker gave up, a refusal, a
\* dead-lettered batch, a crash between two saves nor two imports at once make
\* the worker forget a trade.
NoHole ==
  \A d \in history \cap Out :
    d <= memory.ticket \/ d <= disk.ticket => d \in ledger

\* Every closing deal gets into the table, whatever is lost, times out, is
\* refused or fails on the way, as long as faults come to an end.
EventuallyBooked == \A d \in Out : d \in history ~> d \in ledger

\* The synchronisation keeps the promise of TradeLedger: what is booked stays,
\* and no checkpoint passes an unbooked deal.
Promise == INSTANCE TradeLedger
             WITH Trades <- Out, closed <- history \cap Out, booked <- ledger,
                  mark <- memory.ticket
KeepsPromise == Promise!Spec

-----------------------------------------------------------------------------
(***************************************************************************)
(* The inductive invariant behind NoHole.                                  *)
(***************************************************************************)

\* Deals come in the order of their tickets, from the deposit on.
Ordered ==
  /\ \A d \in history, e \in Deals : e <= d => e \in history
  /\ \A d \in history : time[d] > NoTime /\ time[d] <= day
  /\ \A d, e \in history : d <= e => time[d] <= time[e]
  /\ day > NoTime

\* A checkpoint [ticket, time] is that of deals that exist.
Grounded(ticket, t) ==
  /\ ticket = 0 \/ ticket \in history
  /\ ticket > 0 => t > NoTime
  /\ t > NoTime => \E e \in history : e <= ticket /\ time[e] = t

Passed(ticket) == \A d \in history \cap Out : d <= ticket => d \in ledger

CheckpointInv(cp) == Grounded(cp.ticket, cp.time) /\ Passed(cp.ticket)

TableInv == ledger \subseteq history \cap Out

\* Deals the worker may send.
Sendable(D) == D \subseteq history /\ \A d \in D : Kind[d] # "in"

\* A deal of the awaited batch will be in the table when the handler is done.
Underway(d) ==
  LET h == handler[waiting.slot]
  IN  \/ h.phase = "received" /\ d \in h.deals
      \/ h.phase = "checked" /\ (d \in h.deals \/ d \in ledger)
      \/ h.phase = "done" /\ d \in ledger
      \/ h.phase \in {"failed", "refused"}

HandlerInv(s) ==
  /\ Sendable(handler[s].deals)
  /\ handler[s].phase = "checked" => handler[s].deals \subseteq Out
  /\ Awaited(s) \/ handler[s].phase \in {"free", "received", "checked"}

BufferInv(i) == buffer[i] # Empty => Sendable(buffer[i].deals)

WaitingInv ==
  waiting.for = "sync" =>
    LET b == waiting.batch
    IN  /\ Sendable(b.deals)
        /\ b.top \in history /\ Grounded(b.top, b.latest)
        /\ \A d \in history \cap Out : d <= b.top => d \in ledger \cup b.deals
        /\ waiting.slot \in Slots => \A d \in b.deals \cap Out : Underway(d)

IInv ==
  /\ TypeOK
  /\ Ordered
  /\ CheckpointInv(memory) /\ CheckpointInv(disk)
  /\ TableInv
  /\ \A s \in Slots : HandlerInv(s)
  /\ \A i \in Items : BufferInv(i)
  /\ WaitingInv

=============================================================================
