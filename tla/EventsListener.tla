--------------------------- MODULE EventsListener ---------------------------
(***************************************************************************)
(* The events-listening engine of the blockchain client                    *)
(* (src/blockchain/pallets/ddcclusters.go, package blockchain, from line   *)
(* 127): one live subscription to System.Events whose dispatcher fans each *)
(* decoded block out to every registered listener, and per listener a      *)
(* wrapper callback, a pending queue and a backfill goroutine that replays *)
(* the blocks between the listener's `begin` and the first live block it   *)
(* observed.                                                               *)
(*                                                                         *)
(* Data is abstracted to block heights: an event batch is identified by    *)
(* the height of its block.  Every goroutine the code starts is a separate *)
(* actor: the dispatcher loop, one backfill goroutine per listener, one    *)
(* wrapper goroutine per (listener, block) started by `go callback(...)`.  *)
(* Each action is one atomic region of the code: a mutex-protected section *)
(* or a single atomic operation, with the unsynchronised reads kept as     *)
(* separate steps where the code races.                                    *)
(*                                                                         *)
(* The subscription is already open (lifecycle: EventsLifecycle.tla).      *)
(***************************************************************************)
EXTENDS Naturals, Sequences, FiniteSets

CONSTANTS
  Listeners,   \* callers of RegisterEventsListener (model values)
  NIds,        \* size of the listener id space (math.MaxInt + 1 in the code)
  Begins,      \* the `begin` arguments a caller may pass
  InitHead,    \* chain head when the subscription was opened
  MaxHeight,   \* last block the chain produces in a run
  Faults,      \* whether RPC and decode calls may fail
  NoListener   \* marks a free slot of eventsListeners

ASSUME ConstantsAssumption ==
  /\ IsFiniteSet(Listeners)
  /\ NIds \in Nat \ {0}
  /\ Begins \subseteq Nat
  /\ InitHead \in Nat
  /\ MaxHeight \in Nat
  /\ InitHead <= MaxHeight
  /\ Faults \in BOOLEAN
  /\ NoListener \notin Listeners

Ids == 0 .. NIds - 1
Heights == 0 .. MaxHeight

\* How a batch reached the user callback.
Vias == {"backfill", "pending", "direct"}

\* Program counters.  regPc: RegisterEventsListener; bfPc: its goroutine.
RegPcs == {"idle", "scanned", "registered", "failed"}
BfPcs == {"none", "wait", "meta", "loop", "call", "drain", "exit", "end"}

VARIABLES
  head,        \* latest block of the chain
  next,        \* next block the live subscription hands to the dispatcher
  reg,         \* c.eventsListeners: id -> listener whose wrapper is stored
  regPc,       \* progress of each RegisterEventsListener call
  idx,         \* the id chosen by the scan of each call
  begin,       \* the `begin` argument of each call
  startBlock,  \* subscriptionStartBlock of each listener (0 = unset)
  started,     \* subscriptionStarted closed
  pending,     \* pendingEvents.list (heights, oldest first)
  done,        \* pendingEvents.done
  cancelled,   \* the `cancelled` flag of each listener
  bfPc,        \* program counter of each backfill goroutine
  cur,         \* currentBlock of the backfill loop
  skipped,     \* history: heights the backfill skipped on a decode error
  casTasks,    \* wrapper goroutines about to run the CAS on startBlock
  pushTasks,   \* wrapper goroutines about to TryPush or call back
  delivered,   \* history: calls of each user callback, in order
  crashed      \* the process panicked

vars == <<head, next, reg, regPc, idx, begin, startBlock, started, pending,
          done, cancelled, bfPc, cur, skipped, casTasks, pushTasks,
          delivered, crashed>>

-----------------------------------------------------------------------------
(* Faulty variants of the guards below, each a plausible slip in the code; *)
(* substituted for the original they must make a property fail.           *)

\* The backfill loop stops one block early.
BackfillContinuesShort(l) == cur[l] + 1 < startBlock[l]

\* The backfill loop also replays the first live block.
BackfillContinuesLong(l) == cur[l] <= startBlock[l]

\* TryPush that ignores the done flag.
TryPushAcceptsAlways(l) == TRUE

\* TryPush that buffers only until the first live block is known.
TryPushAcceptsUntilStart(l) == ~started[l]

\* The id scan without its capacity check: it may hand out an id past the
\* last one the registry can hold.
FreeIdsUnchecked == {i \in 0 .. NIds : i = NIds \/ reg[i] = NoListener}

\* The replay loop without its `if cancelled { return }`.
StopsOnCancelNever(l) == FALSE

-----------------------------------------------------------------------------
(* Views of the state.                                                     *)

\* Heights handed to the user callback of l.
DeliveredHeights(l) == {delivered[l][i].h : i \in DOMAIN delivered[l]}

\* Listeners whose wrapper is stored in the registry.
Registered == {reg[i] : i \in Ids} \ {NoListener}

\* Ids the scan in RegisterEventsListener finds free.
FreeIds == {i \in Ids : reg[i] = NoListener}

\* The loop condition `currentBlock < subscriptionStartBlock`.
BackfillContinues(l) == cur[l] < startBlock[l]

\* The early return `begin >= subscriptionStartBlock`.
SkipsBackfill(l) == begin[l] >= startBlock[l]

\* `if cancelled { return }` in the replay loop, a read of the variable
\* the cancel function sets.
StopsOnCancel(l) == cancelled[l]

\* pendingEvents.TryPush accepts the batch while the queue is not done.
TryPushAccepts(l) == ~done[l]

\* pendingEvents.Do closes the queue when it finds it empty.
DrainCloses(l) == pending[l] = <<>>

\* One call of the user callback of l with block h; the history notes
\* whether the cancel function of l had already run.
Deliver(l, h, via) ==
  delivered' = [delivered EXCEPT ![l] =
                  Append(@, [h |-> h, via |-> via, late |-> cancelled[l]])]

-----------------------------------------------------------------------------
Init ==
  /\ head = InitHead
  /\ next = InitHead
  /\ reg = [i \in Ids |-> NoListener]
  /\ regPc = [l \in Listeners |-> "idle"]
  /\ idx = [l \in Listeners |-> 0]
  /\ begin = [l \in Listeners |-> 0]
  /\ startBlock = [l \in Listeners |-> 0]
  /\ started = [l \in Listeners |-> FALSE]
  /\ pending = [l \in Listeners |-> <<>>]
  /\ done = [l \in Listeners |-> FALSE]
  /\ cancelled = [l \in Listeners |-> FALSE]
  /\ bfPc = [l \in Listeners |-> "none"]
  /\ cur = [l \in Listeners |-> 0]
  /\ skipped = [l \in Listeners |-> {}]
  /\ casTasks = {}
  /\ pushTasks = {}
  /\ delivered = [l \in Listeners |-> <<>>]
  /\ crashed = FALSE

-----------------------------------------------------------------------------
(* The chain and the dispatcher.                                           *)

\* The chain produces a block; the storage subscription will report it.
NewBlock ==
  /\ head < MaxHeight
  /\ head' = head + 1
  /\ UNCHANGED <<next, reg, regPc, idx, begin, startBlock, started, pending,
                 done, cancelled, bfPc, cur, skipped, casTasks, pushTasks,
                 delivered, crashed>>

\* The loop of StartEventsListening receives the change set of block `next`
\* and processSystemEventsStorageChanges handles it: on a header or decode
\* error the block is skipped; otherwise, holding c.mu, one goroutine per
\* stored wrapper is started.
Dispatch ==
  /\ next <= head
  /\ next' = next + 1
  /\ \/ /\ casTasks' = casTasks \cup {<<l, next>> : l \in Registered}
     \/ /\ Faults
        /\ UNCHANGED casTasks
  /\ UNCHANGED <<head, reg, regPc, idx, begin, startBlock, started, pending,
                 done, cancelled, bfPc, cur, skipped, pushTasks, delivered, crashed>>

-----------------------------------------------------------------------------
(* RegisterEventsListener.                                                 *)

\* The id scan reads c.eventsListeners without holding c.mu; a call finding
\* every id taken returns "too many events listeners".
RegisterScan(l) ==
  /\ regPc[l] = "idle"
  /\ \E b \in Begins :
       /\ begin' = [begin EXCEPT ![l] = b]
       /\ IF FreeIds # {}
            THEN \E i \in FreeIds :
                   /\ \A j \in FreeIds : i <= j
                   /\ idx' = [idx EXCEPT ![l] = i]
                   /\ regPc' = [regPc EXCEPT ![l] = "scanned"]
            ELSE /\ regPc' = [regPc EXCEPT ![l] = "failed"]
                 /\ UNCHANGED idx
  /\ UNCHANGED <<head, next, reg, startBlock, started, pending, done,
                 cancelled, bfPc, cur, skipped, casTasks, pushTasks,
                 delivered, crashed>>

\* Under c.mu the wrapper is stored at the scanned id; then the backfill
\* goroutine is started and the cancel function returned.
RegisterInstall(l) ==
  /\ regPc[l] = "scanned"
  /\ reg' = [reg EXCEPT ![idx[l]] = l]
  /\ regPc' = [regPc EXCEPT ![l] = "registered"]
  /\ bfPc' = [bfPc EXCEPT ![l] = "wait"]
  /\ UNCHANGED <<head, next, idx, begin, startBlock, started, pending, done,
                 cancelled, cur, skipped, casTasks, pushTasks, delivered, crashed>>

\* The cancel function (its first call; once.Do makes later calls no-ops):
\* under c.mu, set `cancelled` and delete the entry at the listener's id.
Cancel(l) ==
  /\ regPc[l] = "registered"
  /\ ~cancelled[l]
  /\ cancelled' = [cancelled EXCEPT ![l] = TRUE]
  /\ reg' = [reg EXCEPT ![idx[l]] = NoListener]
  /\ UNCHANGED <<head, next, regPc, idx, begin, startBlock, started, pending,
                 done, bfPc, cur, skipped, casTasks, pushTasks, delivered, crashed>>

-----------------------------------------------------------------------------
(* callbackWrapper, run by the goroutine `go callback(...)`.               *)

\* CompareAndSwapUint32(&subscriptionStartBlock, 0, blockNumber), and on
\* success close(subscriptionStarted); closing it a second time panics.
WrapperCAS(l, h) ==
  /\ <<l, h>> \in casTasks
  /\ casTasks' = casTasks \ {<<l, h>>}
  /\ pushTasks' = pushTasks \cup {<<l, h>>}
  /\ IF startBlock[l] = 0
       THEN /\ startBlock' = [startBlock EXCEPT ![l] = h]
            /\ started' = [started EXCEPT ![l] = TRUE]
            /\ crashed' = started[l]
       ELSE UNCHANGED <<startBlock, started, crashed>>
  /\ UNCHANGED <<head, next, reg, regPc, idx, begin, pending, done,
                 cancelled, bfPc, cur, skipped, delivered>>

\* pendingEvents.TryPush under pe.mu; when it refuses, the user callback
\* is called directly.
WrapperPush(l, h) ==
  /\ <<l, h>> \in pushTasks
  /\ pushTasks' = pushTasks \ {<<l, h>>}
  /\ IF TryPushAccepts(l)
       THEN /\ pending' = [pending EXCEPT ![l] = Append(@, h)]
            /\ UNCHANGED delivered
       ELSE /\ Deliver(l, h, "direct")
            /\ UNCHANGED pending
  /\ UNCHANGED <<head, next, reg, regPc, idx, begin, startBlock, started,
                 done, cancelled, bfPc, cur, skipped, casTasks, crashed>>

-----------------------------------------------------------------------------
(* The backfill goroutine of RegisterEventsListener.                       *)

\* <-subscriptionStarted, then the early return when begin is not below
\* the first live block.
BackfillWait(l) ==
  /\ bfPc[l] = "wait"
  /\ started[l]
  /\ bfPc' = [bfPc EXCEPT ![l] = IF SkipsBackfill(l) THEN "exit" ELSE "meta"]
  /\ cur' = [cur EXCEPT ![l] = begin[l]]
  /\ UNCHANGED <<head, next, reg, regPc, idx, begin, startBlock, started,
                 pending, done, cancelled, skipped, casTasks, pushTasks,
                 delivered, crashed>>

\* GetMetadataLatest and CreateStorageKey; an error is reported and the
\* goroutine returns.
BackfillMeta(l) ==
  /\ bfPc[l] = "meta"
  /\ \/ bfPc' = [bfPc EXCEPT ![l] = "loop"]
     \/ /\ Faults
        /\ bfPc' = [bfPc EXCEPT ![l] = "exit"]
  /\ UNCHANGED <<head, next, reg, regPc, idx, begin, startBlock, started,
                 pending, done, cancelled, cur, skipped, casTasks, pushTasks,
                 delivered, crashed>>

\* One iteration for block cur[l] up to the callback: GetBlockHash,
\* QueryStorageAt and GetHeader may fail (report, return); a decode error
\* is reported and the block skipped; after a decode the `cancelled` check
\* returns.  Nothing orders the check with the cancel function, which may
\* run before the callback that follows it.
BackfillBlock(l) ==
  /\ bfPc[l] = "loop"
  /\ BackfillContinues(l)
  /\ \/ /\ Faults
        /\ bfPc' = [bfPc EXCEPT ![l] = "exit"]
        /\ UNCHANGED <<cur, skipped>>
     \/ /\ Faults
        /\ skipped' = [skipped EXCEPT ![l] = @ \cup {cur[l]}]
        /\ cur' = [cur EXCEPT ![l] = @ + 1]
        /\ UNCHANGED bfPc
     \/ /\ StopsOnCancel(l)
        /\ bfPc' = [bfPc EXCEPT ![l] = "exit"]
        /\ UNCHANGED <<cur, skipped>>
     \/ /\ ~StopsOnCancel(l)
        /\ bfPc' = [bfPc EXCEPT ![l] = "call"]
        /\ UNCHANGED <<cur, skipped>>
  /\ UNCHANGED <<head, next, reg, regPc, idx, begin, startBlock, started,
                 pending, done, cancelled, casTasks, pushTasks, delivered,
                 crashed>>

\* `callback(events, header.Number, set.Block)` for block cur[l], then
\* `currentBlock++`.
BackfillCall(l) ==
  /\ bfPc[l] = "call"
  /\ Deliver(l, cur[l], "backfill")
  /\ cur' = [cur EXCEPT ![l] = @ + 1]
  /\ bfPc' = [bfPc EXCEPT ![l] = "loop"]
  /\ UNCHANGED <<head, next, reg, regPc, idx, begin, startBlock, started,
                 pending, done, cancelled, skipped, casTasks, pushTasks,
                 crashed>>

\* The loop ends; pendingEvents.Do follows.
BackfillFinish(l) ==
  /\ bfPc[l] = "loop"
  /\ ~BackfillContinues(l)
  /\ bfPc' = [bfPc EXCEPT ![l] = "drain"]
  /\ UNCHANGED <<head, next, reg, regPc, idx, begin, startBlock, started,
                 pending, done, cancelled, cur, skipped, casTasks, pushTasks,
                 delivered, crashed>>

\* One iteration of pendingEvents.Do under pe.mu: on an empty list set
\* done and stop, otherwise call back with the oldest batch and drop it.
Drain(l) ==
  /\ bfPc[l] = "drain"
  /\ IF DrainCloses(l)
       THEN /\ done' = [done EXCEPT ![l] = TRUE]
            /\ bfPc' = [bfPc EXCEPT ![l] = "end"]
            /\ UNCHANGED <<pending, delivered>>
       ELSE /\ Deliver(l, Head(pending[l]), "pending")
            /\ pending' = [pending EXCEPT ![l] = Tail(@)]
            /\ UNCHANGED <<done, bfPc>>
  /\ UNCHANGED <<head, next, reg, regPc, idx, begin, startBlock, started,
                 cancelled, cur, skipped, casTasks, pushTasks, crashed>>

-----------------------------------------------------------------------------
Next ==
  /\ ~crashed
  /\ \/ NewBlock
     \/ Dispatch
     \/ \E l \in Listeners :
          \/ RegisterScan(l)
          \/ RegisterInstall(l)
          \/ Cancel(l)
          \/ BackfillWait(l)
          \/ BackfillMeta(l)
          \/ BackfillBlock(l)
          \/ BackfillCall(l)
          \/ BackfillFinish(l)
          \/ Drain(l)
     \/ \E t \in casTasks : WrapperCAS(t[1], t[2])
     \/ \E t \in pushTasks : WrapperPush(t[1], t[2])

Spec == Init /\ [][Next]_vars

\* Every goroutine the code starts is scheduled by the Go runtime and keeps
\* running while it can: the dispatcher, the chain, each wrapper goroutine,
\* each backfill goroutine and the rest of a RegisterEventsListener call
\* once its scan is done.  Callers are not forced to register or cancel.
Fairness ==
  /\ WF_vars(~crashed /\ NewBlock)
  /\ WF_vars(~crashed /\ Dispatch)
  /\ \A l \in Listeners :
       /\ WF_vars(~crashed /\ RegisterInstall(l))
       /\ WF_vars(~crashed /\ BackfillWait(l))
       /\ WF_vars(~crashed /\ BackfillMeta(l))
       /\ WF_vars(~crashed /\ BackfillBlock(l))
       /\ WF_vars(~crashed /\ BackfillCall(l))
       /\ WF_vars(~crashed /\ BackfillFinish(l))
       /\ WF_vars(~crashed /\ Drain(l))
       /\ \A h \in Heights :
            /\ WF_vars(~crashed /\ WrapperCAS(l, h))
            /\ WF_vars(~crashed /\ WrapperPush(l, h))

LiveSpec == Spec /\ Fairness

-----------------------------------------------------------------------------
(* Properties.                                                             *)

\* The type invariant, in parts that the steps of the engine touch apart.
ChainTypeOK ==
  /\ head \in Heights
  /\ next \in 0 .. MaxHeight + 1

FlagsTypeOK ==
  /\ started \in [Listeners -> BOOLEAN]
  /\ done \in [Listeners -> BOOLEAN]
  /\ cancelled \in [Listeners -> BOOLEAN]
  /\ crashed \in BOOLEAN

RegistryTypeOK ==
  /\ reg \in [Ids -> Listeners \cup {NoListener}]
  /\ regPc \in [Listeners -> RegPcs]
  /\ idx \in [Listeners -> Ids]
  /\ begin \in [Listeners -> Begins \cup {0}]

QueueTypeOK ==
  /\ startBlock \in [Listeners -> Heights]
  /\ pending \in [Listeners -> Seq(Heights)]

BackfillTypeOK ==
  /\ bfPc \in [Listeners -> BfPcs]
  /\ cur \in [Listeners -> Nat]
  /\ skipped \in [Listeners -> SUBSET Nat]

TaskTypeOK ==
  /\ casTasks \subseteq Listeners \X Heights
  /\ pushTasks \subseteq Listeners \X Heights

HistoryTypeOK ==
  delivered \in [Listeners -> Seq([h : Nat, via : Vias, late : BOOLEAN])]

TypeOK ==
  /\ ChainTypeOK
  /\ FlagsTypeOK
  /\ RegistryTypeOK
  /\ QueueTypeOK
  /\ BackfillTypeOK
  /\ TaskTypeOK
  /\ HistoryTypeOK

\* pendingEvents: once Do has closed a listener's queue, no batch is left in
\* it, whatever the wrapper goroutines racing with Do did (TryPush and Do
\* both decide under pe.mu).
NoStrandedPending ==
  \A l \in Listeners : done[l] => pending[l] = <<>>

\* Every batch the backfill goroutine replays reaches the user callback
\* before any batch delivered from the pending queue or directly by the
\* wrapper: the switch to live delivery happens only after the replay.
BackfillPrecedesLive ==
  \A l \in Listeners : \A i, j \in DOMAIN delivered[l] :
    (i < j /\ delivered[l][j].via = "backfill") =>
      delivered[l][i].via = "backfill"

\* A backfill that ran to its end (not cut short by an RPC error or by the
\* cancel function) replayed every block from `begin` up to the block
\* before the first live one, except those whose events failed to decode.
BackfillCoversGap ==
  \A l \in Listeners : bfPc[l] \in {"drain", "end"} =>
    \A h \in begin[l] .. startBlock[l] - 1 :
      h \notin skipped[l] =>
        \E i \in DOMAIN delivered[l] :
          delivered[l][i].h = h /\ delivered[l][i].via = "backfill"

\* No block at or after the first live block of a listener reaches its
\* callback twice: the replay stops below it and each live block is fanned
\* out to a listener once.
NoDuplicateFromStart ==
  \A l \in Listeners : started[l] =>
    \A i, j \in DOMAIN delivered[l] :
      (i # j /\ delivered[l][i].h = delivered[l][j].h) =>
        delivered[l][i].h < startBlock[l]

\* Sections 4.2 and 5: cancelling stops the replay between iterations; the
\* block whose `cancelled` check already passed still reaches the callback,
\* but no later one does.  So at most one replayed block reaches the
\* callback of a listener after its cancel function ran.
ReplayStopsAfterCancel ==
  \A l \in Listeners : \A i, j \in DOMAIN delivered[l] :
    (/\ delivered[l][i].via = "backfill" /\ delivered[l][i].late
     /\ delivered[l][j].via = "backfill" /\ delivered[l][j].late) => i = j

-----------------------------------------------------------------------------
(* Claims of the specification (spec.md) that the code does not keep; the *)
(* runs that check them expect a counterexample.                          *)

\* P1: no block reaches a listener's callback twice, whichever of the
\* backfill, pending-queue and direct paths delivers it.
NoDuplicateDelivery ==
  \A l \in Listeners : \A i, j \in DOMAIN delivered[l] :
    i # j => delivered[l][i].h # delivered[l][j].h

\* P2: the heights a listener's callback receives strictly increase.
DeliveryOrdered ==
  \A l \in Listeners : \A i, j \in DOMAIN delivered[l] :
    i < j => delivered[l][i].h < delivered[l][j].h

\* P4 and section 4.3: a live block buffered for a listener that is not
\* cancelled is eventually delivered to it, also when `begin` is at or past
\* the first live block and no replay is needed.
BufferedEventuallyDelivered ==
  \A l \in Listeners : \A h \in Heights :
    (h \in {pending[l][i] : i \in DOMAIN pending[l]} /\ ~cancelled[l])
      ~> (h \in DeliveredHeights(l) \/ cancelled[l])

\* Section 4.2: a registered listener stays in the fan-out set until its
\* own cancel function removes it.
RegisteredUntilCancelled ==
  \A l \in Listeners :
    (regPc[l] = "registered" /\ ~cancelled[l]) => l \in Registered

\* Section 5: the live-start height is captured exactly once per listener,
\* even when several notifications race to be first; no race makes the
\* wrapper close subscriptionStarted twice and panic.
StartCapturedOnce == ~crashed

=============================================================================
