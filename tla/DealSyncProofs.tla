--------------------------- MODULE DealSyncProofs ---------------------------
(***************************************************************************)
(* Proofs about DealSync for every history of deals, every number of       *)
(* concurrent imports, buffered batches, days and faults.                  *)
(***************************************************************************)
EXTENDS DealSync, TLAPS

-----------------------------------------------------------------------------
(***************************************************************************)
(* Type correctness.                                                       *)
(***************************************************************************)

LEMMA FetchedType ==
  ASSUME TypeOK, NEW since \in Checkpoint
  PROVE  /\ Fetched(since) \subseteq Deals
         /\ \A top \in Greatest(Window(since) \cup {since.ticket}) : top \in Nat
         /\ \A t \in Greatest({time[d] : d \in Fetched(since)}) : t \in Nat
<1>1. Window(since) \subseteq Deals
  BY DEF Window, TypeOK
<1>2. Fetched(since) \subseteq Deals
  BY <1>1 DEF Fetched
<1>3. \A d \in Fetched(since) : time[d] \in Nat
  BY <1>2 DEF TypeOK
<1>4. \A top \in Greatest(Window(since) \cup {since.ticket}) : top \in Nat
  BY <1>1, DealSyncAssumption DEF Greatest, Checkpoint
<1>5. \A t \in Greatest({time[d] : d \in Fetched(since)}) : t \in Nat
  BY <1>3 DEF Greatest
<1>. QED  BY <1>2, <1>4, <1>5

LEMMA AdvanceType ==
  ASSUME NEW cp \in Checkpoint, NEW ticket \in Nat, NEW t \in Nat
  PROVE  Advance(cp, ticket, t) \in Checkpoint
BY DEF Advance, Checkpoint

LEMMA FreshType == Fresh \in Checkpoint
BY DEF Fresh, Checkpoint, NoTime

LEMMA SaveType ==
  ASSUME TypeOK, NEW cp \in Checkpoint, SaveCheckpoint(cp)
  PROVE  memory' \in Checkpoint /\ disk' \in Checkpoint /\ faults' \in Nat
BY DealSyncAssumption DEF TypeOK, SaveCheckpoint

HandlerType ==
  [phase : {"free", "received", "checked", "done", "failed", "refused"},
   deals : SUBSET Deals]

LEMMA PostType ==
  ASSUME TypeOK, NEW deals \in SUBSET Deals, NEW slot \in Slots \cup {Nowhere},
         Post(deals, slot)
  PROVE  handler' \in [Slots -> HandlerType] /\ faults' \in Nat
BY DEF TypeOK, Post, HandlerType

LEMMA KeepType ==
  ASSUME TypeOK, waiting # Idle, KeepForLater
  PROVE  buffer' \in [Items -> Batch \cup {Empty}]
BY DEF TypeOK, KeepForLater, Idle

LEMMA HearType ==
  ASSUME TypeOK, NEW phase, Hear(phase)
  PROVE  handler' \in [Slots -> HandlerType] /\ waiting' = Idle
BY DEF TypeOK, Hear, HandlerType, Free

LEMMA FinishType ==
  ASSUME TypeOK, NEW s \in Slots, NEW phase \in {"done", "failed", "refused"},
         Finish(s, phase)
  PROVE  handler' \in [Slots -> HandlerType]
BY DEF TypeOK, Finish, HandlerType, Free

LEMMA TypeInductive ==
  ASSUME TypeOK, [Next]_vars
  PROVE  TypeOK'
<1>1. ASSUME NEW d \in Deals, NewDeal(d)  PROVE TypeOK'
  BY <1>1 DEF TypeOK, NewDeal
<1>2. CASE NextDay
  BY <1>2, DealSyncAssumption DEF TypeOK, NextDay
<1>3. ASSUME NEW full \in BOOLEAN, NEW slot \in Slots \cup {Nowhere}, Sync(full, slot)
      PROVE  TypeOK'
  <2>. DEFINE since == IF full THEN Fresh ELSE memory
  <2>1. since \in Checkpoint
    BY FreshType DEF TypeOK
  <2>2. Fetched(since) \in SUBSET Deals
    BY <2>1, FetchedType
  <2>3. Post(Fetched(since), slot)
    BY <1>3 DEF Sync
  <2>4. handler' \in [Slots -> HandlerType] /\ faults' \in Nat
    BY <2>2, <2>3, PostType
  <2>5. waiting' \in [for : {"sync"}, batch : Batch, slot : Slots \cup {Nowhere}]
    BY <1>3, <2>1, <2>2, FetchedType DEF Sync, Batch
  <2>. QED  BY <1>3, <2>4, <2>5 DEF Sync, TypeOK, HandlerType
<1>4. ASSUME NEW full \in BOOLEAN, SyncNothing(full)  PROVE TypeOK'
  <2>. DEFINE since == IF full THEN Fresh ELSE memory
  <2>1. since \in Checkpoint /\ memory \in Checkpoint
    BY FreshType DEF TypeOK
  <2>2. PICK top \in Greatest(Window(since) \cup {since.ticket}) :
           SaveCheckpoint(Advance(memory, top, NoTime))
    BY <1>4 DEF SyncNothing
  <2>3. top \in Nat
    BY <2>1, FetchedType
  <2>4. Advance(memory, top, NoTime) \in Checkpoint
    BY <2>1, <2>3, AdvanceType DEF NoTime
  <2>. QED  BY <1>4, <2>2, <2>4, SaveType DEF SyncNothing, TypeOK
<1>5. ASSUME NEW i \in Items, NEW slot \in Slots \cup {Nowhere}, Flush(i, slot)
      PROVE  TypeOK'
  <2>1. buffer[i].deals \in SUBSET Deals
    BY <1>5 DEF Flush, TypeOK, Batch
  <2>2. handler' \in [Slots -> HandlerType] /\ faults' \in Nat
    BY <1>5, <2>1, PostType DEF Flush
  <2>. QED  BY <1>5, <2>2 DEF Flush, TypeOK, HandlerType
<1>6. CASE Accepted
  <2>1. handler' \in [Slots -> HandlerType] /\ waiting' = Idle
    BY <1>6, HearType DEF Accepted
  <2>2. CASE waiting.for = "sync"
    <3>1. waiting.batch \in Batch
      BY <1>6, <2>2 DEF Accepted, Hear, TypeOK, Idle
    <3>2. Advance(memory, waiting.batch.top, waiting.batch.latest) \in Checkpoint
      BY <3>1, AdvanceType DEF TypeOK, Batch
    <3>3. SaveCheckpoint(Advance(memory, waiting.batch.top, waiting.batch.latest))
      BY <1>6, <2>2 DEF Accepted
    <3>4. memory' \in Checkpoint /\ disk' \in Checkpoint /\ faults' \in Nat
      BY <3>2, <3>3, SaveType
    <3>. QED  BY <1>6, <2>1, <2>2, <3>4 DEF Accepted, TypeOK, HandlerType
  <2>3. CASE waiting.for = "flush"
    BY <1>6, <2>1, <2>3 DEF Accepted, TypeOK, HandlerType
  <2>. QED  BY <1>6, <2>2, <2>3 DEF Accepted
<1>7. CASE Refused
  BY <1>7, HearType DEF Refused, TypeOK, HandlerType
<1>8. CASE Errored
  <2>1. waiting # Idle
    BY <1>8 DEF Errored, Hear
  <2>. QED  BY <1>8, <2>1, KeepType, HearType DEF Errored, TypeOK, HandlerType
<1>9. CASE Unheard
  BY <1>9, KeepType DEF Unheard, TypeOK
<1>10. CASE GiveUp
  <2>1. handler' \in [Slots -> HandlerType]
    BY <1>10 DEF GiveUp, TypeOK, HandlerType, Free
  <2>. QED  BY <1>10, <2>1, KeepType DEF GiveUp, TypeOK, HandlerType
<1>11. CASE Crash
  <2>1. handler' \in [Slots -> HandlerType]
    BY <1>11 DEF Crash, TypeOK, HandlerType, Free
  <2>. QED  BY <1>11, <2>1 DEF Crash, TypeOK, HandlerType
<1>12. CASE Reconnect
  BY <1>12, FreshType DEF Reconnect, TypeOK
<1>13. ASSUME NEW s \in Slots, Check(s)  PROVE TypeOK'
  BY <1>13 DEF Check, TypeOK
<1>14. ASSUME NEW s \in Slots, Commit(s)  PROVE TypeOK'
  <2>1. handler' \in [Slots -> HandlerType]
    BY <1>14, FinishType DEF Commit
  <2>2. ledger' \subseteq Deals
    BY <1>14 DEF Commit, TypeOK
  <2>. QED  BY <1>14, <2>1, <2>2 DEF Commit, TypeOK, HandlerType
<1>15. ASSUME NEW s \in Slots, Abort(s)  PROVE TypeOK'
  <2>1. handler' \in [Slots -> HandlerType]
    BY <1>15, FinishType DEF Abort
  <2>. QED  BY <1>15, <2>1 DEF Abort, TypeOK, HandlerType
<1>16. ASSUME NEW s \in Slots, Refuse(s)  PROVE TypeOK'
  <2>1. handler' \in [Slots -> HandlerType]
    BY <1>16, FinishType DEF Refuse
  <2>. QED  BY <1>16, <2>1 DEF Refuse, TypeOK, HandlerType
<1>17. CASE FetchFails
  <2>1. memory \in Checkpoint
    BY DEF TypeOK
  <2>. QED  BY <1>17, <2>1, SaveType DEF FetchFails, TypeOK
<1>18. CASE UNCHANGED vars
  BY <1>18 DEF TypeOK, vars
<1>. QED
  BY <1>1, <1>2, <1>3, <1>4, <1>5, <1>6, <1>7, <1>8, <1>9, <1>10, <1>11, <1>12,
     <1>13, <1>14, <1>15, <1>16, <1>17, <1>18
  DEF Next, Broker, Worker, Request, Backend

\* Every state has the type its variables are declared with: in particular the
\* worker never waits on a request that does not exist.
THEOREM TypeCorrect == Spec => []TypeOK
<1>1. Init => TypeOK
  BY FreshType, DealSyncAssumption DEF Init, TypeOK, NoTime, Free, Idle
<1>. QED  BY <1>1, TypeInductive, PTL DEF Spec
-----------------------------------------------------------------------------
(***************************************************************************)
(* What a fetch finds.                                                     *)
(***************************************************************************)

\* Whatever the slack, no deal above a checkpoint is outside the time window:
\* the checkpoint's time is that of a deal, and time grows with the tickets.
LEMMA WindowComplete ==
  ASSUME TypeOK, Ordered, NEW since \in Checkpoint,
         Grounded(since.ticket, since.time),
         NEW d \in history, since.ticket < d
  PROVE  d \in Window(since)
<1>1. CASE since.ticket = 0
  BY <1>1 DEF Window
<1>2. CASE since.ticket > 0
  <2>1. PICK e \in history : e <= since.ticket /\ time[e] = since.time
    BY <1>2 DEF Grounded
  <2>2. e \in Nat /\ d \in Nat /\ since.ticket \in Nat /\ since.time \in Nat
    BY DealSyncAssumption DEF TypeOK, Checkpoint
  <2>3. time[e] <= time[d] /\ time[d] \in Nat
    BY <2>1, <2>2 DEF Ordered, TypeOK
  <2>. QED  BY <1>2, <2>1, <2>2, <2>3, DealSyncAssumption DEF Window, Grounded
<1>. QED  BY <1>1, <1>2 DEF Checkpoint

LEMMA FetchedComplete ==
  ASSUME TypeOK, Ordered, NEW since \in Checkpoint,
         Grounded(since.ticket, since.time),
         NEW d \in history, since.ticket < d, Kind[d] # "in"
  PROVE  d \in Fetched(since)
<1>1. d \in Window(since)
  BY WindowComplete
<1>2. d > since.ticket
  BY DealSyncAssumption DEF Checkpoint, TypeOK
<1>. QED  BY <1>1, <1>2 DEF Fetched

LEMMA TopGrounded ==
  ASSUME TypeOK, Ordered, NEW since \in Checkpoint,
         NEW top \in Greatest(Window(since) \cup {since.ticket}),
         NEW latest \in Greatest({time[d] : d \in Fetched(since)})
  PROVE  top \in history /\ Grounded(top, latest)
<1>1. PICK d \in Fetched(since) : latest = time[d]
  BY DEF Greatest
<1>2. d \in Window(since) /\ d > since.ticket
  BY DEF Fetched
<1>3. Window(since) \subseteq history /\ history \subseteq Deals
  BY DEF Window, TypeOK
<1>4. d <= top /\ top \in Window(since) \cup {since.ticket}
  BY <1>2 DEF Greatest
<1>5. d \in Nat /\ since.ticket \in Nat
  BY <1>2, <1>3, DealSyncAssumption DEF Checkpoint
<1>6. top \in history
  BY <1>2, <1>3, <1>4, <1>5
<1>. QED  BY <1>1, <1>2, <1>3, <1>4, <1>6 DEF Grounded, Ordered

\* A checkpoint that moves onto another is as good as both.
LEMMA AdvanceGood ==
  ASSUME TypeOK, NEW cp \in Checkpoint, NEW ticket \in Nat, NEW t \in Nat,
         Grounded(cp.ticket, cp.time), Passed(cp.ticket),
         Grounded(ticket, t) \/ (t = NoTime /\ ticket = 0)
           \/ (t = NoTime /\ ticket \in history /\ cp.ticket > 0),
         Passed(ticket)
  PROVE  LET a == Advance(cp, ticket, t)
         IN  a \in Checkpoint /\ Grounded(a.ticket, a.time) /\ Passed(a.ticket)
<1>. DEFINE a == Advance(cp, ticket, t)
<1>1. a \in Checkpoint
  BY AdvanceType
<1>2. Passed(a.ticket)
  BY DEF Advance
<1>3. history \subseteq Nat
  BY DealSyncAssumption DEF TypeOK
<1>4. Grounded(a.ticket, a.time)
  BY <1>3 DEF Advance, Grounded, Checkpoint, NoTime
<1>. QED  BY <1>1, <1>2, <1>4
-----------------------------------------------------------------------------
(***************************************************************************)
(* The inductive invariant, by what a step leaves alone.                   *)
(***************************************************************************)

World == <<history, time, day, ledger>>

\* Steps of the worker between the broker and the table disturb neither.
LEMMA WorldStays ==
  ASSUME IInv, UNCHANGED World
  PROVE  Ordered' /\ TableInv'
<1>1. Ordered'
  BY DEF IInv, World, Ordered
<1>2. TableInv'
  BY DEF IInv, World, TableInv, Out
<1>. QED  BY <1>1, <1>2

LEMMA CheckpointsStay ==
  ASSUME IInv, UNCHANGED World, UNCHANGED <<memory, disk>>
  PROVE  CheckpointInv(memory)' /\ CheckpointInv(disk)'
BY DEF IInv, World, CheckpointInv, Grounded, Passed

LEMMA BuffersStay ==
  ASSUME IInv, UNCHANGED <<history, buffer>>
  PROVE  \A i \in Items : BufferInv(i)'
BY DEF IInv, BufferInv, Sendable, Out

LEMMA WaitingStays ==
  ASSUME IInv, UNCHANGED World, UNCHANGED <<waiting, handler>>
  PROVE  WaitingInv'
BY DEF IInv, World, WaitingInv, Sendable, Out,
       Grounded, Underway

LEMMA HandlersStay ==
  ASSUME IInv, UNCHANGED <<history, waiting, handler>>
  PROVE  \A s \in Slots : HandlerInv(s)'
BY DEF IInv, HandlerInv, Sendable, Out, Awaited

\* A checkpoint that is saved is good, in memory and on disk.
LEMMA SaveGood ==
  ASSUME IInv, UNCHANGED World, NEW cp, CheckpointInv(cp), SaveCheckpoint(cp)
  PROVE  CheckpointInv(memory)' /\ CheckpointInv(disk)'
BY DEF IInv, World, SaveCheckpoint, CheckpointInv, Grounded, Passed

\* The worker that stops waiting leaves every handler but its own as it was.
LEMMA HearGood ==
  ASSUME IInv, NEW phase, Hear(phase), UNCHANGED history
  PROVE  (\A s \in Slots : HandlerInv(s)') /\ WaitingInv'
<1>1. WaitingInv'
  BY DEF Hear, WaitingInv, Idle
<1>2. ASSUME NEW s \in Slots  PROVE HandlerInv(s)'
  BY <1>2 DEF IInv, TypeOK, Hear, HandlerInv, Sendable, Out, Awaited, Free, Idle
<1>. QED  BY <1>1, <1>2

LEMMA KeepGood ==
  ASSUME IInv, waiting # Idle, KeepForLater, UNCHANGED history
  PROVE  \A i \in Items : BufferInv(i)'
<1>. SUFFICES ASSUME NEW i \in Items  PROVE BufferInv(i)'
  OBVIOUS
<1>1. CASE buffer'[i] = buffer[i]
  BY <1>1 DEF IInv, BufferInv, Sendable, Out
<1>2. CASE buffer'[i] = Empty
  BY <1>2 DEF BufferInv
<1>3. CASE waiting.for = "sync" /\ buffer'[i] = waiting.batch
  BY <1>3 DEF IInv, WaitingInv, BufferInv, Sendable, Out
<1>. QED  BY <1>1, <1>2, <1>3 DEF KeepForLater, IInv, TypeOK

-----------------------------------------------------------------------------
(***************************************************************************)
(* The inductive invariant, action by action.                              *)
(***************************************************************************)

TypeStep == TypeOK'

LEMMA NewDealGood ==
  ASSUME IInv, NEW d \in Deals, NewDeal(d), TypeStep
  PROVE  IInv'
<1>. USE DEF NewDeal
<1>1. history' = history \cup {d} /\ d \notin history /\ history \subseteq Deals
  BY DEF IInv, TypeOK
<1>2. \A e \in history : e < d
  OBVIOUS
<1>3. \A e \in history : time'[e] = time[e]
  BY <1>2, DealSyncAssumption DEF IInv, TypeOK
<1>4. time'[d] = day
  BY DEF IInv, TypeOK
<1>5. Ordered'
  BY <1>1, <1>2, <1>3, <1>4, DealSyncAssumption DEF IInv, Ordered, TypeOK, NoTime
<1>6. ASSUME NEW ticket \in Nat, NEW t \in Nat, Grounded(ticket, t)
      PROVE  ticket < d /\ (ticket = 0 \/ ticket \in history')
               /\ (t > NoTime => \E e \in history' : e <= ticket /\ time'[e] = t)
  BY <1>1, <1>2, <1>3, <1>6, DealSyncAssumption DEF Grounded
<1>7. ASSUME NEW ticket \in Nat, Passed(ticket), ticket < d
      PROVE  \A e \in history' \cap Out : e <= ticket =>
               e \in ledger'
  BY <1>1, <1>7, DealSyncAssumption DEF Passed
<1>8. CheckpointInv(memory)'
  BY <1>6, <1>7 DEF IInv, TypeOK, Checkpoint, CheckpointInv, Grounded, Passed
<1>9. CheckpointInv(disk)'
  BY <1>6, <1>7 DEF IInv, TypeOK, Checkpoint, CheckpointInv, Grounded, Passed
<1>10. TableInv'
  BY <1>1 DEF IInv, TableInv, Out
<1>11. \A s \in Slots : HandlerInv(s)'
  BY <1>1 DEF IInv, HandlerInv, Sendable, Out, Awaited
<1>12. \A i \in Items : BufferInv(i)'
  BY <1>1 DEF IInv, BufferInv, Sendable, Out
<1>13. WaitingInv'
  <2>. SUFFICES ASSUME waiting.for = "sync"  PROVE WaitingInv'
    BY DEF WaitingInv
  <2>. DEFINE b == waiting.batch
  <2>1. b \in Batch
    BY DEF IInv, TypeOK, Idle
  <2>2. Grounded(b.top, b.latest) /\ b.top \in history
    BY DEF IInv, WaitingInv
  <2>3. b.top < d /\ Grounded(b.top, b.latest)'
    BY <1>1, <1>6, <2>1, <2>2 DEF Batch, Grounded
  <2>4. Sendable(b.deals)'
    BY <1>1 DEF IInv, WaitingInv, Sendable, Out
  <2>5. ASSUME NEW e \in history' \cap Out, e <= b.top
        PROVE  e \in ledger' \cup b.deals
    <3>1. e # d /\ e \in history \cap Out
      BY <1>1, <2>1, <2>3, <2>5, DealSyncAssumption DEF Batch
    <3>. QED  BY <2>5, <3>1 DEF IInv, WaitingInv
  <2>6. waiting.slot \in Slots => \A e \in b.deals \cap Out : Underway(e)'
    BY DEF IInv, WaitingInv, Underway
  <2>. QED  BY <1>1, <2>2, <2>3, <2>4, <2>5, <2>6 DEF WaitingInv
<1>. QED  BY <1>5, <1>8, <1>9, <1>10, <1>11, <1>12, <1>13 DEF IInv, TypeStep

LEMMA NextDayGood ==
  ASSUME IInv, NextDay, TypeStep
  PROVE  IInv'
<1>. USE DEF NextDay
<1>1. Ordered'
  BY DEF IInv, TypeOK, Ordered, NoTime
<1>2. CheckpointInv(memory)' /\ CheckpointInv(disk)'
  BY DEF IInv, CheckpointInv, Grounded, Passed
<1>3. TableInv'
  BY DEF IInv, TableInv, Out
<1>4. WaitingInv'
  BY DEF IInv, WaitingInv, Sendable, Out,
         Grounded, Underway
<1>. QED  BY <1>1, <1>2, <1>3, <1>4, HandlersStay, BuffersStay DEF IInv, TypeStep

LEMMA SinceGood ==
  ASSUME IInv, NEW full \in BOOLEAN
  PROVE  LET since == IF full THEN Fresh ELSE memory
         IN  since \in Checkpoint /\ CheckpointInv(since)
<1>1. Fresh \in Checkpoint /\ CheckpointInv(Fresh)
  BY FreshType, DealSyncAssumption
  DEF IInv, TypeOK, CheckpointInv, Grounded, Passed, Fresh, NoTime
<1>. QED  BY <1>1 DEF IInv, TypeOK

LEMMA SyncGood ==
  ASSUME IInv, NEW full \in BOOLEAN, NEW slot \in Slots \cup {Nowhere},
         Sync(full, slot), TypeStep
  PROVE  IInv'
<1>. DEFINE since == IF full THEN Fresh ELSE memory
            deals == Fetched(since)
<1>1. /\ waiting = Idle /\ deals # {} /\ Post(deals, slot)
      /\ UNCHANGED World /\ UNCHANGED <<memory, disk, buffer>>
  BY DEF Sync, World
<1>2. since \in Checkpoint /\ Grounded(since.ticket, since.time) /\ Passed(since.ticket)
  BY SinceGood DEF CheckpointInv
<1>3. PICK top \in Greatest(Window(since) \cup {since.ticket}),
           latest \in Greatest({time[d] : d \in deals}) :
             waiting' = [for |-> "sync", slot |-> slot,
                         batch |-> [deals |-> deals, top |-> top, latest |-> latest]]
  BY DEF Sync
<1>4. Sendable(deals)
  BY DEF Sendable, Fetched, Window
<1>5. top \in history /\ Grounded(top, latest)
  BY <1>1, <1>2, <1>3, TopGrounded DEF IInv
<1>6. ASSUME NEW d \in history \cap Out  PROVE d \in ledger \cup deals
  <2>1. d \in Nat /\ since.ticket \in Nat
    BY <1>2, DealSyncAssumption DEF Checkpoint, Out
  <2>2. CASE d <= since.ticket
    BY <1>2, <2>2 DEF Passed
  <2>3. CASE since.ticket < d
    BY <1>2, <2>3, FetchedComplete DEF IInv, Out
  <2>. QED  BY <2>1, <2>2, <2>3
<1>7. \A s \in Slots : s # slot => handler'[s] = handler[s]
  BY <1>1 DEF Post, IInv, TypeOK
<1>8. slot \in Slots => handler'[slot] = [phase |-> "received", deals |-> deals]
  BY <1>1, DealSyncAssumption DEF Post, IInv, TypeOK
<1>9. \A s \in Slots : HandlerInv(s)'
  <2>. SUFFICES ASSUME NEW s \in Slots  PROVE HandlerInv(s)'
    OBVIOUS
  <2>1. CASE s = slot
    BY <1>1, <1>4, <1>8, <2>1 DEF World, HandlerInv, Sendable
  <2>2. CASE s # slot
    BY <1>1, <1>7, <2>2 DEF IInv, World, HandlerInv, Sendable, Out, Awaited
  <2>. QED  BY <2>1, <2>2
<1>10. WaitingInv'
  <2>1. /\ waiting'.batch = [deals |-> deals, top |-> top, latest |-> latest]
        /\ waiting'.slot = slot
    BY <1>3
  <2>2. Sendable(waiting.batch.deals)'
    BY <1>1, <1>4, <2>1 DEF World, Sendable
  <2>3. top \in history' /\ Grounded(top, latest)'
    BY <1>1, <1>5 DEF World, Grounded
  <2>4. \A d \in history' \cap Out : d \in ledger' \cup waiting'.batch.deals
    BY <1>1, <1>6, <2>1 DEF World
  <2>5. slot \in Slots => \A d \in waiting'.batch.deals : Underway(d)'
    BY <1>8, <2>1 DEF Underway
  <2>. QED  BY <2>1, <2>2, <2>3, <2>4, <2>5 DEF WaitingInv, Grounded
<1>. QED  BY <1>1, <1>9, <1>10, WorldStays, CheckpointsStay, BuffersStay
          DEF IInv, TypeStep, World

\* With nothing to send every closing deal up to the new checkpoint was below
\* the old one.
LEMMA SyncNothingGood ==
  ASSUME IInv, NEW full \in BOOLEAN, SyncNothing(full), TypeStep
  PROVE  IInv'
<1>. DEFINE since == IF full THEN Fresh ELSE memory
<1>1. /\ Fetched(since) = {} /\ UNCHANGED World
      /\ UNCHANGED <<history, buffer, waiting, handler>>
  BY DEF SyncNothing, World
<1>2. since \in Checkpoint /\ Grounded(since.ticket, since.time) /\ Passed(since.ticket)
  BY SinceGood DEF CheckpointInv
<1>3. PICK top \in Greatest(Window(since) \cup {since.ticket}) :
         SaveCheckpoint(Advance(memory, top, NoTime))
  BY DEF SyncNothing
<1>4. top \in Nat /\ memory \in Checkpoint
  BY <1>2, FetchedType DEF IInv, TypeOK
<1>5. ASSUME NEW d \in history, since.ticket < d  PROVE Kind[d] = "in"
  BY <1>1, <1>2, <1>5, FetchedComplete DEF IInv
<1>6. Passed(top)
  BY <1>2, <1>5, DealSyncAssumption DEF Passed, Out, IInv, TypeOK, Checkpoint
<1>7. top = 0 \/ top \in history
  BY <1>2, <1>3 DEF Greatest, Window, Grounded
<1>8. ASSUME top \in history, memory.ticket = 0  PROVE FALSE
  <2>1. since.ticket = 0
    BY <1>8 DEF Fresh
  <2>2. Deposit \in history /\ Kind[Deposit] # "in" /\ Deposit > 0
    BY <1>8, DealSyncAssumption DEF IInv, Ordered, TypeOK
  <2>. QED  BY <1>5, <2>1, <2>2
<1>9. CheckpointInv(Advance(memory, top, NoTime))
  <2>1. memory.ticket \in Nat /\ (memory.ticket = 0 \/ memory.ticket > 0)
    BY <1>4 DEF Checkpoint
  <2>. QED  BY <1>4, <1>6, <1>7, <1>8, <2>1, AdvanceGood DEF IInv, CheckpointInv, NoTime
<1>10. CheckpointInv(memory)' /\ CheckpointInv(disk)'
  BY <1>1, <1>3, <1>9, SaveGood
<1>. QED  BY <1>1, <1>10, WorldStays, HandlersStay, BuffersStay, WaitingStays
          DEF IInv, TypeStep

LEMMA FetchFailsGood ==
  ASSUME IInv, FetchFails, TypeStep
  PROVE  IInv'
<1>1. UNCHANGED World /\ UNCHANGED <<history, buffer, waiting, handler>>
  BY DEF FetchFails, World
<1>2. CheckpointInv(memory)' /\ CheckpointInv(disk)'
  BY <1>1, SaveGood DEF FetchFails, IInv
<1>. QED  BY <1>1, <1>2, WorldStays, HandlersStay, BuffersStay, WaitingStays
          DEF IInv, TypeStep

LEMMA FlushGood ==
  ASSUME IInv, NEW i \in Items, NEW slot \in Slots \cup {Nowhere}, Flush(i, slot),
         TypeStep
  PROVE  IInv'
<1>1. /\ waiting = Idle /\ UNCHANGED World /\ UNCHANGED <<history, memory, disk, buffer>>
      /\ Sendable(buffer[i].deals)
      /\ waiting' = [for |-> "flush", item |-> i, slot |-> slot]
  BY DEF Flush, World, IInv, BufferInv
<1>2. WaitingInv'
  BY <1>1 DEF WaitingInv
<1>3. ASSUME NEW s \in Slots  PROVE HandlerInv(s)'
  <2>1. CASE s = slot
    <3>1. handler'[s] = [phase |-> "received", deals |-> buffer[i].deals]
      BY <2>1, DealSyncAssumption DEF Flush, Post, IInv, TypeOK
    <3>. QED  BY <1>1, <3>1
              DEF HandlerInv, Sendable, Out
  <2>2. CASE s # slot
    <3>1. handler'[s] = handler[s]
      BY <2>2 DEF Flush, Post, IInv, TypeOK
    <3>. QED  BY <1>1, <3>1
              DEF IInv, HandlerInv, Sendable, Out, Awaited
  <2>. QED  BY <2>1, <2>2
<1>. QED  BY <1>1, <1>2, <1>3, WorldStays, CheckpointsStay, BuffersStay
          DEF IInv, TypeStep, World

\* An accepted batch is in the table, so its checkpoint may be taken.
LEMMA AcceptedGood ==
  ASSUME IInv, Accepted, TypeStep
  PROVE  IInv'
<1>1. Hear("done") /\ UNCHANGED World /\ UNCHANGED history
  BY DEF Accepted, World
<1>2. CASE waiting.for = "sync"
  <2>. DEFINE b == waiting.batch
  <2>1. b \in Batch /\ memory \in Checkpoint
    BY <1>1, <1>2 DEF IInv, TypeOK, Hear, Idle
  <2>2. Grounded(b.top, b.latest)
    BY <1>2 DEF IInv, WaitingInv
  <2>3. b.deals \cap Out \subseteq ledger
    BY <1>1, <1>2 DEF IInv, WaitingInv, Underway, Hear
  <2>4. Passed(b.top)
    BY <1>2, <2>3 DEF IInv, WaitingInv, Passed, Out
  <2>5. CheckpointInv(Advance(memory, b.top, b.latest))
    BY <2>1, <2>2, <2>4, AdvanceGood DEF IInv, CheckpointInv, Batch
  <2>6. CheckpointInv(memory)' /\ CheckpointInv(disk)'
    BY <1>1, <1>2, <2>5, SaveGood DEF Accepted
  <2>7. UNCHANGED buffer
    BY <1>2 DEF Accepted
  <2>. QED  BY <1>1, <2>6, <2>7, WorldStays, HearGood, BuffersStay DEF IInv, TypeStep
<1>3. CASE waiting.for = "flush"
  <2>1. UNCHANGED <<memory, disk>> /\ buffer' = [buffer EXCEPT ![waiting.item] = Empty]
    BY <1>3 DEF Accepted
  <2>2. \A i \in Items : BufferInv(i)'
    BY <1>1, <2>1 DEF IInv, TypeOK, BufferInv, Sendable, Out
  <2>. QED  BY <1>1, <2>1, <2>2, WorldStays, HearGood, CheckpointsStay DEF IInv, TypeStep
<1>. QED  BY <1>2, <1>3 DEF Accepted

LEMMA RefusedGood ==
  ASSUME IInv, Refused, TypeStep
  PROVE  IInv'
<1>1. /\ Hear("refused") /\ UNCHANGED World /\ UNCHANGED history
      /\ UNCHANGED <<memory, disk>>
  BY DEF Refused, World
<1>2. \A i \in Items : BufferInv(i)'
  BY <1>1 DEF Refused, IInv, BufferInv, Sendable, Out
<1>. QED  BY <1>1, <1>2, WorldStays, HearGood, CheckpointsStay DEF IInv, TypeStep

LEMMA ErroredGood ==
  ASSUME IInv, Errored, TypeStep
  PROVE  IInv'
<1>1. /\ Hear("failed") /\ waiting # Idle /\ KeepForLater
      /\ UNCHANGED World /\ UNCHANGED history /\ UNCHANGED <<memory, disk>>
  BY DEF Errored, Hear, World
<1>. QED  BY <1>1, KeepGood, WorldStays, HearGood, CheckpointsStay DEF IInv, TypeStep

LEMMA UnheardGood ==
  ASSUME IInv, Unheard, TypeStep
  PROVE  IInv'
<1>1. /\ waiting # Idle /\ waiting.slot = Nowhere /\ waiting' = Idle /\ KeepForLater
      /\ UNCHANGED World /\ UNCHANGED <<history, handler>> /\ UNCHANGED <<memory, disk>>
  BY DEF Unheard, World
<1>2. WaitingInv'
  BY <1>1 DEF WaitingInv, Idle
<1>3. \A s \in Slots : HandlerInv(s)'
  BY <1>1, DealSyncAssumption
  DEF IInv, HandlerInv, Sendable, Out,
      Awaited
<1>. QED  BY <1>1, <1>2, <1>3, KeepGood, WorldStays, CheckpointsStay DEF IInv, TypeStep

LEMMA GiveUpGood ==
  ASSUME IInv, GiveUp, TypeStep
  PROVE  IInv'
<1>1. /\ waiting # Idle /\ waiting' = Idle /\ KeepForLater /\ UNCHANGED history
      /\ UNCHANGED World /\ UNCHANGED <<memory, disk>>
      /\ handler[waiting.slot].phase \in {"received", "checked", "done"}
  BY DEF GiveUp, World
<1>2. WaitingInv'
  BY <1>1 DEF WaitingInv, Idle
<1>3. ASSUME NEW s \in Slots  PROVE HandlerInv(s)'
  <2>1. \/ handler'[s] = Free
        \/ /\ handler'[s] = handler[s]
           /\ handler[s].phase \in {"free", "received", "checked"}
    BY <1>1 DEF GiveUp, IInv, TypeOK, HandlerInv, Awaited
  <2>. QED  BY <1>1, <2>1
            DEF IInv, HandlerInv, Sendable, Out, Free
<1>. QED  BY <1>1, <1>2, <1>3, KeepGood, WorldStays, CheckpointsStay DEF IInv, TypeStep

LEMMA CrashGood ==
  ASSUME IInv, Crash, TypeStep
  PROVE  IInv'
<1>1. /\ waiting' = Idle /\ memory' = disk /\ disk' = disk /\ UNCHANGED World
      /\ UNCHANGED <<history, buffer>>
  BY DEF Crash, World
<1>2. WaitingInv'
  BY <1>1 DEF WaitingInv, Idle
<1>3. CheckpointInv(memory)' /\ CheckpointInv(disk)'
  BY <1>1 DEF IInv, World, CheckpointInv, Grounded, Passed
<1>4. ASSUME NEW s \in Slots  PROVE HandlerInv(s)'
  BY <1>1 DEF Crash, IInv, HandlerInv, Sendable, Out, Free
<1>. QED  BY <1>1, <1>2, <1>3, <1>4, BuffersStay, WorldStays DEF IInv, TypeStep

LEMMA ReconnectGood ==
  ASSUME IInv, Reconnect, TypeStep
  PROVE  IInv'
<1>1. /\ memory' = Fresh /\ disk' = Fresh /\ UNCHANGED World
      /\ UNCHANGED <<history, buffer, waiting, handler>>
  BY DEF Reconnect, World
<1>2. CheckpointInv(memory)' /\ CheckpointInv(disk)'
  BY <1>1, DealSyncAssumption
  DEF IInv, World, TypeOK, CheckpointInv, Grounded, Passed, Fresh, NoTime
<1>. QED  BY <1>1, <1>2, HandlersStay, BuffersStay, WorldStays, WaitingStays
          DEF IInv, TypeStep
LEMMA CheckGood ==
  ASSUME IInv, NEW s \in Slots, Check(s), TypeStep
  PROVE  IInv'
<1>. DEFINE kept == {d \in handler[s].deals : Kind[d] # "balance" /\ d \notin ledger}
<1>1. /\ UNCHANGED World /\ UNCHANGED <<history, buffer, waiting>>
      /\ UNCHANGED <<memory, disk>>
      /\ handler[s].phase = "received"
      /\ handler' = [handler EXCEPT ![s] = [phase |-> "checked", deals |-> kept]]
  BY DEF Check, World
<1>2. Sendable(handler[s].deals)
  BY DEF IInv, HandlerInv
<1>3. kept \subseteq Out
  BY <1>2, DealSyncAssumption DEF Sendable, IInv, TypeOK, Out
<1>4. handler'[s] = [phase |-> "checked", deals |-> kept]
  BY <1>1 DEF IInv, TypeOK
<1>5. ASSUME NEW t \in Slots  PROVE HandlerInv(t)'
  <2>1. CASE t = s
    BY <1>1, <1>2, <1>3, <1>4, <2>1 DEF HandlerInv, Sendable, Out
  <2>2. CASE t # s
    BY <1>1, <2>2 DEF IInv, HandlerInv, Sendable, Out, Awaited
  <2>. QED  BY <2>1, <2>2
<1>6. WaitingInv'
  <2>. SUFFICES ASSUME waiting.for = "sync"  PROVE WaitingInv'
    BY <1>1 DEF WaitingInv
  <2>. DEFINE b == waiting.batch
  <2>1. ASSUME waiting.slot \in Slots, NEW d \in b.deals \cap Out  PROVE Underway(d)'
    <3>1. Underway(d)
      BY <2>1 DEF IInv, WaitingInv
    <3>2. CASE waiting.slot # s
      BY <1>1, <3>1, <3>2 DEF World, Underway
    <3>3. CASE waiting.slot = s
      BY <1>1, <1>4, <3>1, <3>3 DEF World, Underway, Out
    <3>. QED  BY <3>2, <3>3
  <2>. QED  BY <1>1, <2>1 DEF IInv, World, WaitingInv, Sendable, Out, Grounded
<1>. QED  BY <1>1, <1>5, <1>6, WorldStays, CheckpointsStay, BuffersStay DEF IInv, TypeStep

\* An import that ends leaves its answer to the worker that waits for it.
LEMMA FinishGood ==
  ASSUME IInv, NEW s \in Slots, NEW phase \in {"done", "failed", "refused"},
         Finish(s, phase), UNCHANGED <<history, waiting>>
  PROVE  \A t \in Slots : HandlerInv(t)'
<1>. SUFFICES ASSUME NEW t \in Slots  PROVE HandlerInv(t)'
  OBVIOUS
<1>1. CASE t # s
  BY <1>1 DEF Finish, IInv, HandlerInv, Sendable, Out, Awaited
<1>2. CASE t = s
  <2>1. /\ handler'[t].deals = {}
        /\ handler'[t].phase # "checked"
        /\ Awaited(t) \/ handler'[t].phase = "free"
    BY <1>2 DEF Finish, Free, IInv, TypeOK
  <2>. QED  BY <2>1 DEF HandlerInv, Sendable, Awaited
<1>. QED  BY <1>1, <1>2

LEMMA CommitGood ==
  ASSUME IInv, NEW s \in Slots, Commit(s), TypeStep
  PROVE  IInv'
<1>1. /\ UNCHANGED <<history, time, day>> /\ UNCHANGED <<history, waiting>>
      /\ UNCHANGED <<memory, disk>> /\ UNCHANGED <<history, buffer>>
      /\ Finish(s, "done") /\ handler[s].phase = "checked"
      /\ ledger' = ledger \cup handler[s].deals
  BY DEF Commit
<1>2. Ordered'
  BY <1>1 DEF IInv, Ordered
<1>3. CheckpointInv(memory)' /\ CheckpointInv(disk)'
  BY <1>1 DEF IInv, CheckpointInv, Grounded, Passed
<1>4. TableInv'
  BY <1>1 DEF IInv, TableInv, HandlerInv, Sendable, Out
<1>5. \A t \in Slots : HandlerInv(t)'
  BY <1>1, FinishGood
<1>6. WaitingInv'
  <2>. SUFFICES ASSUME waiting.for = "sync"  PROVE WaitingInv'
    BY <1>1 DEF WaitingInv
  <2>. DEFINE b == waiting.batch
  <2>1. ASSUME waiting.slot \in Slots, NEW d \in b.deals \cap Out  PROVE Underway(d)'
    <3>1. Underway(d)
      BY <2>1 DEF IInv, WaitingInv
    <3>2. CASE waiting.slot # s
      BY <1>1, <2>1, <3>1, <3>2 DEF Finish, Underway, IInv, TypeOK
    <3>3. CASE waiting.slot = s
      BY <1>1, <3>1, <3>3 DEF Finish, Underway, Awaited, IInv, TypeOK, Idle
    <3>. QED  BY <3>2, <3>3
  <2>. QED  BY <1>1, <2>1 DEF IInv, WaitingInv, Sendable, Out, Grounded
<1>. QED  BY <1>1, <1>2, <1>3, <1>4, <1>5, <1>6, BuffersStay DEF IInv, TypeStep

\* An import that is given up or refused only stops being under way.
LEMMA EndGood ==
  ASSUME IInv, NEW s \in Slots, NEW phase \in {"failed", "refused"}, Finish(s, phase),
         UNCHANGED <<history, time, day, ledger, memory, disk, buffer, waiting>>, TypeStep
  PROVE  IInv'
<1>1. /\ UNCHANGED World /\ UNCHANGED <<history, waiting>> /\ UNCHANGED <<memory, disk>>
      /\ UNCHANGED <<history, buffer>>
  BY DEF World
<1>2. \A t \in Slots : HandlerInv(t)'
  BY <1>1, FinishGood
<1>3. WaitingInv'
  <2>. SUFFICES ASSUME waiting.for = "sync"  PROVE WaitingInv'
    BY <1>1 DEF WaitingInv
  <2>1. ASSUME waiting.slot \in Slots, NEW r, Underway(r)  PROVE Underway(r)'
    <3>1. CASE waiting.slot # s
      BY <1>1, <2>1, <3>1 DEF Finish, Underway, World
    <3>2. CASE waiting.slot = s
      BY <1>1, <3>2 DEF Finish, Underway, Awaited, IInv, TypeOK, Idle
    <3>. QED  BY <3>1, <3>2
  <2>. QED  BY <1>1, <2>1
            DEF IInv, World, WaitingInv, Sendable, Out, Grounded
<1>. QED  BY <1>1, <1>2, <1>3, WorldStays, CheckpointsStay, BuffersStay DEF IInv, TypeStep
LEMMA Inductive ==
  ASSUME IInv, [Next]_vars
  PROVE  IInv'
<1>0. TypeStep
  BY TypeInductive DEF IInv, TypeStep
<1>1. ASSUME NEW d \in Deals, NewDeal(d)  PROVE IInv'
  BY <1>0, <1>1, NewDealGood
<1>2. CASE NextDay
  BY <1>0, <1>2, NextDayGood
<1>3. ASSUME NEW full \in BOOLEAN, NEW slot \in Slots \cup {Nowhere}, Sync(full, slot)
      PROVE  IInv'
  BY <1>0, <1>3, SyncGood
<1>4. ASSUME NEW full \in BOOLEAN, SyncNothing(full)  PROVE IInv'
  BY <1>0, <1>4, SyncNothingGood
<1>5. CASE FetchFails
  BY <1>0, <1>5, FetchFailsGood
<1>6. ASSUME NEW i \in Items, NEW slot \in Slots \cup {Nowhere}, Flush(i, slot)
      PROVE  IInv'
  BY <1>0, <1>6, FlushGood
<1>7. CASE Accepted
  BY <1>0, <1>7, AcceptedGood
<1>8. CASE Refused
  BY <1>0, <1>8, RefusedGood
<1>9. CASE Errored
  BY <1>0, <1>9, ErroredGood
<1>10. CASE Unheard
  BY <1>0, <1>10, UnheardGood
<1>11. CASE GiveUp
  BY <1>0, <1>11, GiveUpGood
<1>12. CASE Crash
  BY <1>0, <1>12, CrashGood
<1>13. CASE Reconnect
  BY <1>0, <1>13, ReconnectGood
<1>14. ASSUME NEW s \in Slots, Check(s)  PROVE IInv'
  BY <1>0, <1>14, CheckGood
<1>15. ASSUME NEW s \in Slots, Commit(s)  PROVE IInv'
  BY <1>0, <1>15, CommitGood
<1>16. ASSUME NEW s \in Slots, Abort(s)  PROVE IInv'
  BY <1>0, <1>16, EndGood DEF Abort
<1>17. ASSUME NEW s \in Slots, Refuse(s)  PROVE IInv'
  BY <1>0, <1>17, EndGood DEF Refuse
<1>18. CASE UNCHANGED vars
  <2>1. /\ UNCHANGED World /\ UNCHANGED <<history, buffer, waiting, handler>>
        /\ UNCHANGED <<memory, disk>>
    BY <1>18 DEF vars, World
  <2>. QED  BY <1>0, <2>1, WorldStays, CheckpointsStay, HandlersStay, BuffersStay,
               WaitingStays
            DEF IInv, TypeStep
<1>. QED
  BY <1>1, <1>2, <1>3, <1>4, <1>5, <1>6, <1>7, <1>8, <1>9, <1>10, <1>11, <1>12, <1>13,
     <1>14, <1>15, <1>16, <1>17, <1>18
  DEF Next, Broker, Worker, Request, Backend

LEMMA Initial == Init => IInv
<1>. SUFFICES ASSUME Init  PROVE IInv
  OBVIOUS
<1>. USE DEF Init
<1>1. TypeOK
  BY FreshType, DealSyncAssumption DEF TypeOK, NoTime, Free, Idle
<1>2. Ordered /\ TableInv /\ WaitingInv
  BY DEF Ordered, TableInv, WaitingInv, Idle, NoTime
<1>3. CheckpointInv(memory) /\ CheckpointInv(disk)
  BY DEF CheckpointInv, Grounded, Passed, Fresh, NoTime
<1>4. (\A s \in Slots : HandlerInv(s)) /\ (\A i \in Items : BufferInv(i))
  BY DEF HandlerInv, BufferInv, Sendable, Free
<1>. QED  BY <1>1, <1>2, <1>3, <1>4 DEF IInv

LEMMA Invariant == Spec => []IInv
BY Initial, Inductive, PTL DEF Spec

-----------------------------------------------------------------------------
(***************************************************************************)
(* What follows.                                                           *)
(***************************************************************************)

\* No checkpoint, in memory or on disk, passes a closing deal the table does not
\* hold: whatever is lost, resent, refused or imported at once.
THEOREM NeverPassed == Spec => []NoHole
<1>1. IInv => NoHole
  BY DEF IInv, CheckpointInv, Passed, NoHole
<1>. QED  BY <1>1, Invariant, PTL

LEMMA PromiseKeptByStep ==
  ASSUME IInv, IInv', [Next]_vars
  PROVE  [Promise!Next]_(Promise!vars)
<1>. DEFINE closed == history \cap Out
<1>1. history \subseteq Deals /\ Deals \subseteq Nat \ {0} /\ memory.ticket \in Nat
  BY DealSyncAssumption DEF IInv, TypeOK, Checkpoint
<1>2. CASE UNCHANGED <<history, ledger>>
  <2>1. memory'.ticket \in Nat
    BY DEF IInv, TypeOK, Checkpoint
  <2>2. Promise!Safe(memory'.ticket, ledger)
    BY <1>2 DEF Promise!Safe, IInv, CheckpointInv, Passed
  <2>3. UNCHANGED <<closed, ledger>>
    BY <1>2
  <2>. QED  BY <2>1, <2>2, <2>3 DEF Promise!Next, Promise!Move
<1>3. ASSUME NEW d \in Deals, NewDeal(d)  PROVE [Promise!Next]_(Promise!vars)
  <2>1. UNCHANGED <<ledger, memory.ticket>>
    BY <1>3 DEF NewDeal
  <2>2. history' = history \cup {d} /\ d \notin history /\ \A e \in history : e < d
    BY <1>3 DEF NewDeal
  <2>3. CASE d \notin Out
    <3>1. UNCHANGED closed
      BY <2>2, <2>3
    <3>. QED  BY <2>1, <3>1 DEF Promise!vars
  <2>4. CASE d \in Out
    <3>1. d > memory.ticket
      BY <1>1, <2>2 DEF IInv, CheckpointInv, Grounded
    <3>2. d \notin closed /\ (\A u \in closed : u < d) /\ closed' = closed \cup {d}
      BY <2>2, <2>4
    <3>. QED  BY <2>1, <2>4, <3>1, <3>2 DEF Promise!Next, Promise!Close
  <2>. QED  BY <2>3, <2>4
<1>4. ASSUME NEW s \in Slots, Commit(s)  PROVE [Promise!Next]_(Promise!vars)
  <2>1. UNCHANGED <<closed, memory.ticket>>
    BY <1>4 DEF Commit
  <2>2. handler[s].deals \subseteq closed
    BY <1>4 DEF Commit, IInv, HandlerInv, Sendable
  <2>3. ledger' = ledger \cup handler[s].deals
    BY <1>4 DEF Commit
  <2>. QED  BY <2>1, <2>2, <2>3 DEF Promise!Next, Promise!Book
<1>5. (\E d \in Deals : NewDeal(d)) \/ (\E s \in Slots : Commit(s))
        \/ UNCHANGED <<history, ledger>>
  BY DEF Next, Broker, Worker, Request, Backend, NextDay, Sync, SyncNothing, FetchFails, Flush,
         Accepted, Refused, Errored, Unheard, GiveUp, Crash, Reconnect, Check, Abort,
         Refuse, vars
<1>. QED  BY <1>2, <1>3, <1>4, <1>5

\* The synchronisation implements TradeLedger: a booked deal stays booked, and
\* the checkpoint passes no deal that is not.
THEOREM PromiseKept == Spec => KeepsPromise
<1>1. Init => Promise!Init
  BY DEF Init, Promise!Init, Fresh
<1>2. IInv /\ IInv' /\ [Next]_vars => [Promise!Next]_(Promise!vars)
  BY PromiseKeptByStep
<1>. QED  BY <1>1, <1>2, Invariant, PTL DEF Spec, KeepsPromise, Promise!Spec

=============================================================================
