# Formal models of the cere-ddc-sdk-go events engine

This directory holds TLA+ models of the Go SDK under `src/`, TLC configurations
that check them on small instances, and TLAPS proofs that hold for every
instance. The SDK's one concurrent component is the chain-event engine in
`src/blockchain/pallets/ddcclusters.go` (the `Client` of package `blockchain`).
That engine is the focus here, with two modules: `EventsListener` for the
listeners and `EventsLifecycle` for the subscription. A third module,
`BucketContract`, models the constructor of the smart-contract client. The
rest of the SDK is RPC wrappers and pure functions (see "Not modelled").

## 1. Inventory of the system

### Components and their state

| Component (spec name) | Code | State |
|---|---|---|
| SubscriptionLifecycle | `StartEventsListening` (180-227) and its cancel closure | `isListening`, `cancelListening`, `errsListening`, the `done` channel, the subscription |
| Dispatcher | the goroutine of `StartEventsListening` (201-215) and `processSystemEventsStorageChanges` (343-373) | reads `eventsListeners` under `c.mu` |
| ListenerRegistry | the id scan (233-242), install (260-262), cancel (330-338) | `eventsListeners map[int]EventsListener`, `c.mu` |
| callbackWrapper | 248-258, run as `go callback(...)` per block and listener | per listener: `subscriptionStartBlock`, `subscriptionStarted` |
| BackfillCoordinator | the goroutine at 266-328 | `currentBlock`, reads `cancelled` |
| PendingQueue | `pendingEvents.TryPush` (387-400), `Do` (402-417) | `list`, `done`, `pe.mu` |

### Operations and interactions

- `RegisterEventsListener(begin, cb)` runs four steps:
  1. It scans for the lowest free id *without* `c.mu`.
  2. It builds a wrapper and stores it under `c.mu`.
  3. It starts the backfill goroutine.
  4. It returns a `once`-guarded cancel function.
- For each live block, the dispatcher starts one goroutine per stored wrapper.
- A wrapper first does a CAS on `subscriptionStartBlock` from 0. The first one to succeed closes `subscriptionStarted`. The wrapper then calls `TryPush`. If the queue is already done, it calls the user callback directly.
- The backfill goroutine runs after the wrapper's CAS:
  - It waits for `subscriptionStarted`.
  - It returns early when `begin >= subscriptionStartBlock`.
  - Otherwise it replays the blocks `begin .. start-1`:
    - an RPC error reports and returns;
    - a decode error reports and skips the block;
    - a `cancelled` flag returns.
  - Finally it runs `pendingEvents.Do`, which drains the queue under `pe.mu` and sets `done` when the queue is empty.

### Hard behaviours

- **Per-block goroutines.** The fan-out starts one goroutine per block and listener. Wrappers of consecutive blocks therefore run in any order.
- **Unlocked id scan.** The id scan is not under the mutex, so two registrations can interleave around it.
- **TryPush against Do.** `TryPush` races with `Do` closing the queue.
- **Sentinel 0.** The value 0 marks an unset start block, but 0 is also block 0, the genesis.
- **Error paths.** RPC and decode faults take different paths. Several of them return before `Do`.
- **Cancel.** Cancellation races with the backfill loop and with goroutines already in flight.
- **Lifecycle.**
  - `isListening` is set before the setup calls, and a failed setup never resets it.
  - Cancel's send on `done` is a blocking handshake.
  - The error channel is unbuffered.

### Properties each component needs

- **Registry:** ids are unique, and a registered listener stays in the fan-out until its own cancel.
- **Wrapper and backfill:**
  - the start block is captured once;
  - the replay covers `[begin, start)` except blocks that failed to decode;
  - no replayed block follows a live delivery;
  - no block at or after the start is delivered twice.
- **Queue:**
  - a closed queue is empty;
  - every buffered block is eventually delivered.
- **Spec claims:** spec.md P1 (no duplicates) and P2 (ordering), P4 (late registration), 4.2 (ids) and 5 (single capture).

## 2. Modules

### `EventsListener.tla`: the engine

It models the registry, the dispatcher, the wrappers, the backfill goroutines and the pending queues. The dispatcher is assumed started and is never stopped.

**Constants**

| Constant | Meaning |
|---|---|
| `Listeners` | the `RegisterEventsListener` calls, one per listener |
| `NIds` | the size of the id space (the code's `0..math.MaxInt`) |
| `Begins` | the `begin` arguments |
| `InitHead`, `MaxHeight` | the chain's head at start and its bound |
| `Faults` | whether RPC and decode errors happen |
| `NoListener` | an empty registry slot |

**Variables**

| Variable | Code |
|---|---|
| `reg` | `c.eventsListeners` |
| `regPc`, `idx`, `begin` | the progress, chosen id and argument of each registration |
| `startBlock`, `started` | `subscriptionStartBlock`, `subscriptionStarted` |
| `pending`, `done` | `pendingEvents.list` and `.done` (heights only) |
| `cancelled` | the `cancelled` flag |
| `bfPc`, `cur` | the backfill goroutine's program counter and `currentBlock` |
| `casTasks`, `pushTasks` | wrapper goroutines started by the fan-out and not yet past the CAS, or past the CAS and not yet past TryPush |
| `delivered` | a history of user-callback calls, with the path each took |
| `skipped` | a history of blocks skipped on decode errors |
| `crashed` | the process panicked |

Event payloads, hashes, metadata and storage keys are abstracted away. A block is its height.

**Actions**

Each action is one atomic step of a goroutine between synchronisation points.

| Action | Code |
|---|---|
| `NewBlock` | the chain (environment) |
| `Dispatch` | the dispatcher handles block `next`; on a header or decode fault it skips the block, otherwise it fans out to the current registry |
| `RegisterScan` | the id scan and the capacity error |
| `RegisterInstall` | install under `c.mu` and start the backfill |
| `Cancel` | the first call of the cancel function |
| `WrapperCAS` | the CAS and `close` of the wrapper; a second close sets `crashed` |
| `WrapperPush` | `TryPush`, or the direct callback |
| `BackfillWait` | the wait and the early return |
| `BackfillMeta` | metadata and storage key, which may fail |
| `BackfillBlock` | one iteration up to the `cancelled` check (286-320): an RPC fault, a decode skip, a cancelled return, or on to the callback |
| `BackfillCall` | the replayed `callback(...)` at 322 and the loop increment |
| `BackfillFinish` | the loop exits |
| `Drain` | one iteration of `Do` under `pe.mu` |

**Properties**

- `TypeOK`, in seven parts that the proofs handle separately.
- `NoStrandedPending`: once a queue is done, it holds no batch.
- `BackfillPrecedesLive`: a backfill call never follows a pending or direct call.
- `BackfillCoversGap`: a backfill that reached `Do` replayed every block of `[begin, start)` except decode-skipped ones.
- `NoDuplicateFromStart`: only heights below the start block can be delivered twice.
- `ReplayStopsAfterCancel`: at most one replayed callback happens after the listener was cancelled. Each history record carries `late`, the value of `cancelled` at the call.
- The spec's claims, which the code breaks: `NoDuplicateDelivery`, `DeliveryOrdered`, `BufferedEventuallyDelivered`, `RegisteredUntilCancelled` and `StartCapturedOnce`.

**The `cancelled` read (line 318).** The flag is a plain `bool` written by the cancel function and read by the backfill goroutine without synchronisation. The model lets the read see the current value. The goroutine reloads the flag after the RPC calls of each iteration, and no build keeps it in a register across them. The window that matters is elsewhere: the check at 318 and the callback at 322 are two steps, `BackfillBlock` and `BackfillCall`, and a cancel can fall between them. `ReplayStopsAfterCancel` says this window costs at most one callback.

**Mutants.** The guards `FreeIds`, `BackfillContinues`, `TryPushAccepts` and `StopsOnCancel` are named definitions, and the module defines a plausible faulty variant of each before it.

### `MCEventsListener.tla`

It instantiates the engine with the model values `l1` and `l2`, and a symmetry set over them for the passing run.

### `EventsListenerProofs.tla`

It holds the TLAPS proofs (section 5).

### `EventsDeliveryProofs.tla`

It extends `EventsListenerProofs` and proves the engine's two delivery invariants, `BackfillCoversGap` and `NoDuplicateFromStart` (section 5).

### `EventsLifecycle.tla`: `StartEventsListening` and its cancel function

It models the lifecycle of the storage subscription, lines 180-226 of
`ddcclusters.go`, with the dispatcher's error sends at 349-364. Its constants are
`Callers` (the goroutines that call `StartEventsListening`), `MaxCalls` (a bound
on the calls, which also bounds the subscriptions), `Faults` (setup and
notification errors on or off) and `None` (a nil handle).

- **State.**
  - `isListening`, `cancelListening` and `errsListening` are the `Client` fields. A handle is the number `g` of the subscription whose cancel closure or error channel it is, or `None`.
  - Subscription `g` has `subOpen[g]`, the state `dispPc[g]` of its dispatcher goroutine, and `oncePc[g]`, the progress of its `once.Do` body (0 not started, 1-3 before the send, the unsubscribe and the reset, 4 done).
  - Each caller has a program counter `pc[c]`, the subscription `mine[c]` it is setting up, and the handles `hCancel[c]` and `hErrs[c]` it received.
- **Actions.**
  - `StartCAS` is the CAS at 181. The loser returns the fields as they are (182). That read is not synchronised with the winner's writes, which the model represents by letting the read happen at any point of the winner's progress.
  - `StartSetup` covers the three setup calls (185-197). Each may fail, returning with `isListening` still 1.
  - `StartSpawn` creates `errsListening` and the dispatcher (198-216). `StartReturn` assigns `cancelListening` and returns it (217-226).
  - `DispFault` is a notification whose processing fails. The dispatcher then blocks on the unbuffered `errsListening` send, and `ReadErr` is a caller receiving it.
  - `CallCancel` enters `once.Do`: a nil handle panics; the first caller starts the body; later callers wait. `CancelSend`, `CancelUnsub` and `CancelReset` are the three statements of the body. The send on `done` is a rendezvous with the dispatcher's `select`, so it needs the dispatcher in its loop. `CancelReturn` is `Do` returning once the body has finished.
- **Fairness** (`LiveSpec`) is weak fairness on the steps the runtime schedules once they are enabled: setup, spawn and return of a started call, the once body, `Do` returning, and a caller that holds the error channel reading it. Whether a caller starts or cancels is its own choice.

### `SubscriptionFeed.tla`: what the lifecycle promises

The abstract specification of the lifecycle (spec sections 4.1 and 5, invariant I3, property P6). Each subscription `s` has a `stage`, which goes once through `"unused"`, `"live"` and `"stopped"`. The other variables:
- `opened` counts the subscriptions opened so far;
- `requested[s]` says a call of `s`'s cancel function has begun;
- `returned[c]` is the subscription whose cancel call returned to caller `c`.

The actions:
- `Open` makes subscription `opened + 1` live, and only while no subscription is live.
- `RequestCancel(s)` is the first call of an opened subscription's cancel.
- `Stop(s)` stops a live subscription, and only once its cancel was requested.
- `Return(c, s)` hands a returned cancel call to `c`, and only once `s` has stopped.
- `Forget(c)` lets the caller go on.

`EventsLifecycle` implements it under this mapping:
- `stage <- StageOf`: unused above `gen`, live while `Live(g)` (subscribed, or its dispatcher in its loop or reporting), stopped otherwise;
- `opened <- gen`;
- `requested <- RequestedOf`: the once body has begun;
- `returned <- ReturnedOf`: `hCancel[c]` when the caller is at `"finished"`.

`FeedRefined` is `Feed!Spec`. Its steps map as follows:
- A successful `StartSetup` is `Open`.
- `CallCancel`, when it starts the once body, is `RequestCancel`.
- `CancelSend` or `CancelUnsub` is `Stop`, whichever of them ends `Live(g)`.
- `CancelReturn` is `Return`.
- `Restart` after a cancel is `Forget`.
- Every other step is a stutter of the feed.

The refinement is stronger than `OneLiveFeed`. It implies that property, and it also says things about steps that no state invariant can: a subscription opens fresh and in order, stops only at the request of its own cancel, never serves again, and a cancel call returns only after the stop.

### `MCEventsLifecycle.tla` and `EventsLifecycleProofs.tla`

The first gives two callers as model values, with symmetry. The second holds the TLAPS proofs of section 5.

### `BucketContract.tla`: `CreateDdcBucketContract`

It models the constructor of the bucket smart-contract client (`src/contract/pkg/bucket/ddc_bucket_contract.go`, 266-606):
- `DecodeSelector` is one of the 54 hex decodes of a method selector (267-535). Each decode is followed by `log.Fatal` on an error.
- `AddEvent` is one iteration of the range loop over `eventDispatchTable` (538-544). The iterations run in Go's unspecified map order.
- `Return` builds and returns the client.

A hex text is abstracted to its length and whether all its characters are hex digits, which is all `hex.DecodeString` and `NewHashFromHexString` look at. `DecodeOrder` lists the texts in the order the code decodes them. The module has no constants, because it models one fixed table.

## 3. Runs

| Run | cfg | Expect | What it shows |
|---|---|---|---|
| engine | `MCEventsListener.cfg` | pass | `TypeOK`, `NoStrandedPending`, `BackfillPrecedesLive`, `BackfillCoversGap`, `NoDuplicateFromStart`, `ReplayStopsAfterCancel` hold |
| duplicate_delivery | `MCEventsListener_dup.cfg` | violation | P1 fails: block 2's wrapper wins the CAS, the replay covers block 1, and block 1 also comes through the queue |
| delivery_order | `MCEventsListener_order.cfg` | violation | P2 fails: the fan-out goroutines of blocks 1 and 2 reach the queue out of order |
| id_race | `MCEventsListener_ids.cfg` | violation | two registrations take id 0; the first listener leaves the fan-out without being cancelled |
| genesis_start | `MCEventsListener_genesis.cfg` | violation | the first live block is 0; a second CAS from 0 succeeds, and `close` panics |
| late_registration | `MCEventsListener_late.cfg` | violation | `begin >= start` returns before `Do`; buffered live blocks are never delivered (checked under `LiveSpec`, with faults on) |

| lifecycle | `MCEventsLifecycle.cfg` | pass | `OneLiveFeed` and `StoppedAfterCancel` hold, and the lifecycle refines `SubscriptionFeed` (`FeedRefined`); 634 distinct states |
| lifecycle_live | `MCEventsLifecycle_live.cfg` | pass | under `LiveSpec` and without faults, every cancel call returns unless a nil cancel handle panicked (`CancelReturnsUnlessPanic`) |
| lifecycle_handles | `MCEventsLifecycle_handles.cfg` | violation | P5 fails: a caller that loses the CAS while the winner is in setup gets nil handles |
| lifecycle_retry | `MCEventsLifecycle_retry.cfg` | violation | a failed setup leaves `isListening` at 1, so no later call can start listening |
| lifecycle_cancel | `MCEventsLifecycle_cancel.cfg` | violation | under `LiveSpec` a cancel call can block forever: the dispatcher is stuck sending an error to the caller that is itself stuck sending on `done` |

| contract_constructor | `BucketContract_fatal.cfg` | violation | `CreateDdcBucketContract` always exits: the 33rd selector, `accountDepositMethod = "1"`, has odd length, so the `log.Fatal` at line 429 ends the process |

**Bounds in the lifecycle run.** There are two callers and three calls, with faults on (634 distinct states). Three calls are enough for two subscriptions one after the other, plus a third call that races the first cancel. They also allow a CAS loser next to a winner in setup, and a failed setup. With four calls there are 1,954 states and the same verdicts. The violation runs use the smallest instance that shows each failure: one caller for the retry and the cancel runs.

**Bounds in the engine run**

- Two listeners and one id. This makes both the id race and the capacity error happen.
- The chain starts at block 1, with block 0 the genesis below it, and grows to block 2.
- `Begins = {0, 2}`: a replay from the genesis, and a registration at or past the first live block.
- Faults are on.

These bounds cover the following cases:
- a replay of one or two blocks;
- two live blocks whose wrappers race each other and the drain;
- a cancel during the replay;
- each error path.

The run covers 32,015 distinct states in a few seconds. With two ids the same questions give about 580,000 states and the same verdicts.

**Deadlock** is not checked in this run. The bounded chain stops at `MaxHeight`, and after a panic (`crashed`) the process has stopped.

**The violation runs** use `Faults = FALSE`, except `late_registration`, so each counterexample needs no injected error. `late_registration` turns faults on so that its state space also holds the backfill's RPC-error returns. The shortest counterexample TLC reports is still the early return at line 270.

**Error paths against the spec.** Two error behaviours differ from the spec without a run of their own. First, the error returns at lines 277-303 skip `Do` just as the late registration does, while section 7 says the queue is still drained. `late_registration` checks its property over these returns as well, but the counterexample it reports is the one at line 270. The same cfg with `Begins = {0}`, where that return cannot happen, finds the property violated by an RPC error return instead. That is a manual variant, not one of the runs. Second, a decode error at line 315 is reported and the replay goes on, while sections 4.3 and 7(c) say it aborts; `BackfillCoversGap` exempts the skipped blocks for this reason.

**Fairness** (`LiveSpec`) is weak fairness on every goroutine the code starts and the runtime schedules: the dispatcher, the chain, the wrappers, the backfill goroutines and the rest of a registration whose scan is done. Registering and cancelling are caller choices and have no fairness. Even under this fairness, the late-registration run finds a behaviour in which a buffered block is never delivered.

**The `lifecycle_live` run** uses the lifecycle's `LiveSpec` with `Faults = FALSE` and two callers making three calls (873 states, no symmetry, because symmetry is unsound for liveness). With faults on, a dispatcher error needs a reader, and `lifecycle_cancel` shows that a cancel can then block forever. Without them, `CancelReturnsUnlessPanic` holds. It therefore says nothing about the blocking report at line 351; that hazard is `lifecycle_cancel`'s. It is stated with `crashed` because a caller that received nil handles and calls cancel panics. Deadlock is not checked, because the calls are bounded and the program stops when they run out.

## 4. Mutants

Each property of the engine run has a mutant of a mapped guard that TLC must find violated:

| Mutant | Property it breaks |
|---|---|
| `FreeIdsUnchecked` (the capacity check dropped) | `TypeOK` |
| `BackfillContinuesShort` (the replay stops one block early) | `BackfillCoversGap` |
| `BackfillContinuesLong` (the replay includes the start block) | `NoDuplicateFromStart` |
| `TryPushAcceptsAlways` (done ignored) | `NoStrandedPending` |
| `TryPushAcceptsUntilStart` (buffering only until the start is known) | `BackfillPrecedesLive` |
| `OnceBodyResetFirst` (the once body resets `isListening` before stopping the dispatcher) | `OneLiveFeed` |
| `OnceFinishedEarly` (a second cancel caller returns as soon as the body has started) | `StoppedAfterCancel` |
| `StopsOnCancelNever` (the `cancelled` check dropped) | `ReplayStopsAfterCancel` |
| `CasWinsUnguarded` (`StartEventsListening` without its `isListening` guard: every call subscribes anew) | `FeedRefined`: a second start opens a subscription while the first is live |
| `CallCancelNoOnce` (no `sync.Once`: every call reruns the body) | `CancelReturnsUnlessPanic`: a second body blocks on `done`, because the dispatcher has already returned |

## 5. Proofs

`EventsListenerProofs.tla` proves four theorems for every value of the constants. Its one assumption is `ConstantsAssumption`: a finite listener set, `NIds > 0`, `Begins ⊆ Nat`, `InitHead ≤ MaxHeight`, and a `NoListener` outside `Listeners`.

- **`TypeCorrect`: `Spec => []TypeOK`.**
  - It follows from `TypeInit` and `TypeStep`.
  - `TypeStep` has one step per action, with one sub-step per part of `TypeOK` that the action changes.
  - Boolean and arithmetic parts are kept apart so that each backend handles its own.
  - `DeliverKeepsType` covers appending a record to the history.
- **`ReplayBeforeLive`: `Spec => []BackfillPrecedesLive`** and **`PendingNeverStranded`: `Spec => []NoStrandedPending`.**
  - Neither property is inductive by itself. For example, the wrapper's direct call is live-ordered only because the queue is done *only* after `Do` has run.
  - The inductive invariant `IInv` is `TypeOK` and, for each listener:
    - `ReplayOnly`: before the backfill reaches `Do`, all of its calls were backfill calls;
    - `ClosedDrained`: `done` implies the backfill is at its end and the queue is empty;
    - `BackfillRegistered`: a backfill goroutine exists only for a call that installed its wrapper;
    - `HistoryPrecedes` of its history.
  - TLC checked `IInv` as an invariant of the engine run with one and with two ids.
  - The step proof splits into three cases:
    - steps that leave a listener alone (`FrameSteps`, `OtherListener`, through `LocalFrame`);
    - the listener's own steps, one lemma each: `ScanKeeps`, `InstallKeeps`, `PhaseKeeps`, `CallKeeps`, `DrainKeeps` and `PushKeeps`;
    - two sequence lemmas, `AppendAllBackfill` and `AppendPrecedes`.
- **`CancelStopsReplay`: `Spec => []ReplayStopsAfterCancel`.**
  - The property is not inductive: a backfill step that has passed the check but not yet called back may call back after a cancel.
  - `LateInv(l)` strengthens it. Late replays appear only once `cancelled` is set (`LateOnlyAfterCancel`), there is at most one of them (`OneLateReplay`), and while the goroutine is at `call` with the flag set there are none yet.
  - `LateAll` is `IInv` together with `LateInv` for every listener. `LateInvariant` proves `Spec => []LateAll` with one lemma per step that can change it: `LateCancel`, `LateBlock`, `LateCall` and `LateLive`, plus `LateFrame` for the rest. `LateAppend` covers appending one record to a history.

`EventsDeliveryProofs.tla` proves the two delivery invariants of the engine, under the same `ConstantsAssumption`.

- **`ReplayCoversGap`: `Spec => []BackfillCoversGap`.** When the backfill reaches `Do`, every block of `[begin, startBlock)` was replayed unless its decode failed.
- **`LiveDeliveredOnce`: `Spec => []NoDuplicateFromStart`.** A block at or past the start block reaches a callback at most once.
- Neither property is inductive. Both follow from `DInv`, which is `IInv` together with three more conjuncts.
  - `TasksInv`: no block is both in a CAS task and in a push task, and every task's height is below `next`, the next block the chain will produce.
  - `GapInv(m)`: once past the wait, `begin < startBlock` (so the start block is fixed and non-zero). While the loop runs, every block of `[begin, cur)` is covered, that is, replayed or in `skipped`. At the drain and the end, `[begin, startBlock)` is covered.
  - `OnceInv(m)`: every live block of a listener is in exactly one place: a wrapper task, the pending queue or one live callback record. All of them are below `next`. Every replayed record is below `startBlock`.
- `NoDuplicateFromStart` then follows: two live records differ by `LiveDistinct`, and a replayed record is below the start block.
- TLC checked `DInv` as an invariant of the engine with one id, `Faults = TRUE` and `MaxHeight = 2`. It checked two starts: `InitHead = 0` with `Begins = {0, 1}` (the genesis case, where the first block seen is 0), and `InitHead = 1` with `Begins = {0, 2}`.
- The proof works on generic operators with explicit arguments (`CoveredIn`, `LiveOnce`, `ReplayIn`), with one lemma per way a history or queue changes:
  - `CoveredAppend`, `CoveredSkip`, `CoveredNext`;
  - `LiveOncePush`, `LiveOnceDirect`, `LiveOnceDrain`, `LiveOnceReplay`, `LiveOnceFrame`.
- The state lemmas take one action each: `GapCAS` ... `GapLive` and `OnceDispatch`, `OnceCAS`, `OncePush`, `OnceDrain`, `OnceCall`. `OnceQuiet` covers the steps that leave the listener's delivery alone. `DInvStep` combines them.

`EventsLifecycleProofs.tla` proves four more theorems, for every number of callers and calls. They rest on `LifecycleAssumption`: `Callers` is finite, `MaxCalls ∈ Nat`, and `None` is not a number.

- **`LifecycleTypeCorrect`: `Spec => []TypeOK`.**
- **`SingleFeed`: `Spec => []OneLiveFeed`.**
- **`CancelStops`: `Spec => []StoppedAfterCancel`.**
- **`ImplementsFeed`: `Spec => FeedRefined`.** Initial states map to `Feed!Init`: `gen = 0`, so every subscription is unused, no once body has begun and nobody is at `"finished"`. `FeedStep` shows that every step is a `Feed!Next` step or a stutter, with one lemma per kind of step:
  - `FeedSetup`: a successful setup is `Open`. By `NoneLiveInSetup`, every subscription opened so far has run its once body to the end (`SetupAfterStop`, `OldGensCancelled`), so by `OnceOrder` none is live.
  - `FeedCallCancel`: the first call is `RequestCancel`, and `HandlesIssued` gives that its handle names an opened subscription.
  - `FeedCancelSend` and `FeedCancelUnsub`: each is `Stop` or a stutter. The stopped subscription's cancel was requested, since its once body is running.
  - `FeedCancelReturn`: `CancelReturn` is `Return`; `CancelHeld` and `OnceOrder` give that the subscription has stopped.
  - `FeedRestart`: `Restart` is `Forget` or a stutter.
  - `FeedSpawn` and `FeedQuiet`: stutters.
  - `FeedSpawn` needs one fact beyond `IInv`: `SpawnOpen`, which says a start at its spawn holds a subscribed subscription. Without it, spawning the dispatcher could look like a stopped subscription coming back to life.
  - `FInv` is `IInv /\ SpawnOpen`, and `FInvInvariant` proves it invariant.

The first three, and `ImplementsFeed` with `SpawnOpen` added, follow from one inductive invariant, `IInv`. Its conjuncts:
- `FreshGens`: subscriptions after the current one `gen` were never opened.
- `OldGensCancelled`: every earlier one has run its once body to the end.
- `OnceOrder`: the body's steps mean what they say; after the send the dispatcher has returned, and after the unsubscribe the subscription is closed.
- `IdleStopped`: `isListening = 0` only when the current subscription is stopped and no start is under way.
- `SetupAfterStop` and `SpawnOwnsCurrent`: a start in setup follows a stopped subscription; past setup it owns the current one, whose handle nobody holds yet.
- `HandlesIssued`, `OneStarter` and `GenBound`.
- `CancelHeld`: a caller in or past its cancel call holds an opened subscription whose body has started, and has finished when the call returned.

`OneLiveFeed` alone is not inductive. It says nothing about the flag that keeps a second start out, and the proof needs to know that a start only opens a new subscription after the old one's body has reset the flag. `LiveIsCurrent` derives from `IInv` that only the current subscription can be live. `FS_Subset` and `FS_Singleton` then bound the count. There is one lemma per action (`StartCASKeeps` ... `CancelResetKeeps`) with one step per conjunct. TLC checked `IInv` as an invariant of the lifecycle run with three and with four calls.

**Only model-checked.** The liveness properties (`BufferedEventuallyDelivered`, `CancelReturns`, `CancelReturnsUnlessPanic`), and the spec claims that fail are checked by TLC only. TLAPS cannot handle liveness under fairness or `ENABLED`. Every safety invariant of the passing runs has a theorem.

## 6. Not modelled

- **Error channel in the engine.** `EventsLifecycle` models the blocking error send of the dispatcher. `EventsListener` still treats the backfill goroutine's error reports as non-blocking. The two modules are not yet composed. A hazard follows from this: a backfill error sent when nobody reads the channel (line 276 and the other sends) blocks that goroutine forever, and the listener's queue then grows without bound. Spec section 7 leaves reading the channel to the caller.
- **Bucket contract methods.** The methods of `ddcBucketContract` are not modelled. They are RPC wrappers around `callToRead`, and most of the write methods are TODO stubs. Their only state is `lastAccessTime` and the handler table. Since the constructor always exits, no client exists to call them.
- **RPC readers.** `GetClustersNodes`, the DdcCustomers readers and the bucket contract's call wrappers are RPC and decoding with no state of their own. Their stubs return "not implemented".
- **Bucket access checks.** The rules in `src/unnamed/part_000` are pure predicates over bucket status, with no state or concurrency. A model would restate each boolean expression, and a unit test covers them.
- **CID builder.** It is a library hashing call.

## 7. Plan for the next steps

1. Compose the lifecycle with the engine, so that a stopped dispatcher and a blocked error send interact with pending backfills.
2. An abstract per-listener delivery spec (like `SubscriptionFeed` for the lifecycle): a listener receives a subsequence of the chain's blocks, replay first. Show a refinement from the engine when the start is unique and the fan-out is ordered.
3. Prove the ordering of live deliveries (heights increase along a listener's live records) from `OnceInv`.
