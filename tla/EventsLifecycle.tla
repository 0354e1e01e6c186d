--------------------------- MODULE EventsLifecycle ---------------------------
(***************************************************************************)
(* The subscription lifecycle of the events engine of the Go SDK           *)
(* (src/blockchain/pallets/ddcclusters.go): Client.StartEventsListening,   *)
(* the dispatcher goroutine it starts, and the cancel function it returns. *)
(*                                                                         *)
(* Each successful start opens one storage subscription, a "generation"   *)
(* g, with its own dispatcher goroutine, `done` channel and sync.Once.     *)
(* The callers of StartEventsListening keep the handles it returns: the   *)
(* generation of the cancel function and of the error channel, or None for *)
(* a nil handle.  The fan-out of a notification to the listeners is the    *)
(* business of EventsListener; here a notification matters only when its  *)
(* handling fails and the dispatcher reports on the unbuffered error       *)
(* channel.                                                                *)
(***************************************************************************)
EXTENDS Naturals, FiniteSets

CONSTANTS
  Callers,    \* goroutines that call StartEventsListening
  MaxCalls,   \* bound on the number of StartEventsListening calls
  Faults,     \* whether setup calls and notification handling may fail
  None        \* a nil handle

ASSUME LifecycleAssumption ==
  /\ IsFiniteSet(Callers)
  /\ MaxCalls \in Nat
  /\ Faults \in BOOLEAN
  /\ None \notin Nat

\* Subscriptions a run can open: at most one per call.
Gens == 1 .. MaxCalls

Handles == Gens \cup {None}

\* Progress of a caller: a StartEventsListening call ("setup", "spawn",
\* "ret"), the use of its result, or a call of the cancel function.
CallerPcs == {"idle", "setup", "spawn", "ret", "failed", "active",
              "cancelling", "finished"}

\* The dispatcher goroutine: not started, in its select, blocked sending
\* an error on errsListening, or returned.
DispPcs == {"none", "loop", "report", "exited"}

VARIABLES
  isListening,      \* c.isListening
  cancelListening,  \* c.cancelListening (generation of the closure)
  errsListening,    \* c.errsListening (generation of the channel)
  calls,            \* StartEventsListening calls made so far
  gen,              \* subscriptions opened so far
  subOpen,          \* subscription g is subscribed and not unsubscribed
  dispPc,           \* dispatcher goroutine of generation g
  oncePc,           \* progress of the once.Do body of generation g
  pc,               \* progress of each caller
  mine,             \* the generation a caller's start opened
  hCancel,          \* cancel handle a caller received
  hErrs,            \* error channel a caller received
  crashed           \* the process panicked

vars == <<isListening, cancelListening, errsListening, calls, gen, subOpen,
          dispPc, oncePc, pc, mine, hCancel, hErrs, crashed>>

-----------------------------------------------------------------------------
(* Faulty variants, each a plausible slip in the code.                     *)

\* The cancel body resets the flag before stopping the dispatcher.
OnceBodyResetFirst == <<"reset", "send", "unsub">>

\* A hand-rolled once whose later callers return as soon as the body began.
OnceFinishedEarly(g) == oncePc[g] # 0

\* StartEventsListening without its guard: every call subscribes anew.
CasWinsUnguarded == TRUE

\* A cancel function without sync.Once: every call runs the body again.
CallCancelNoOnce(c) ==
  /\ pc[c] = "active"
  /\ hCancel[c] # None
  /\ pc' = [pc EXCEPT ![c] = "cancelling"]
  /\ oncePc' = [oncePc EXCEPT ![hCancel[c]] = 1]
  /\ UNCHANGED <<isListening, cancelListening, errsListening, calls, gen,
                 subOpen, dispPc, mine, hCancel, hErrs, crashed>>

-----------------------------------------------------------------------------
\* The body of once.Do in the cancel function: `done <- struct{}{}`, then
\* sub.Unsubscribe(), then `c.isListening = 0`.  oncePc[g] = i in 1..3
\* means step OnceBody[i] is next; 0 is not called, 4 is returned.
OnceBody == <<"send", "unsub", "reset">>

OnceNext(g, step) ==
  /\ oncePc[g] \in 1 .. 3
  /\ OnceBody[oncePc[g]] = step
  /\ oncePc' = [oncePc EXCEPT ![g] = @ + 1]

\* once.Do returns to every caller only when the body has returned.
OnceFinished(g) == oncePc[g] = 4

\* atomic.CompareAndSwapUint32(&c.isListening, 0, 1) succeeds.
CasWins == isListening = 0

Live(g) == subOpen[g] \/ dispPc[g] \in {"loop", "report"}

Init ==
  /\ isListening = 0
  /\ cancelListening = None
  /\ errsListening = None
  /\ calls = 0
  /\ gen = 0
  /\ subOpen = [g \in Gens |-> FALSE]
  /\ dispPc = [g \in Gens |-> "none"]
  /\ oncePc = [g \in Gens |-> 0]
  /\ pc = [c \in Callers |-> "idle"]
  /\ mine = [c \in Callers |-> None]
  /\ hCancel = [c \in Callers |-> None]
  /\ hErrs = [c \in Callers |-> None]
  /\ crashed = FALSE

-----------------------------------------------------------------------------
(* StartEventsListening.                                                   *)

\* The CAS on isListening; a caller that loses it returns the handles
\* currently stored in the Client, whatever they are.
StartCAS(c) ==
  /\ pc[c] = "idle"
  /\ calls < MaxCalls
  /\ calls' = calls + 1
  /\ IF CasWins
       THEN /\ isListening' = 1
            /\ pc' = [pc EXCEPT ![c] = "setup"]
            /\ UNCHANGED <<hCancel, hErrs>>
       ELSE /\ pc' = [pc EXCEPT ![c] = "active"]
            /\ hCancel' = [hCancel EXCEPT ![c] = cancelListening]
            /\ hErrs' = [hErrs EXCEPT ![c] = errsListening]
            /\ UNCHANGED isListening
  /\ UNCHANGED <<cancelListening, errsListening, gen, subOpen, dispPc,
                 oncePc, mine, crashed>>

\* GetMetadataLatest, CreateStorageKey and SubscribeStorageRaw: each may
\* fail, and the call then returns the error with isListening still 1.
StartSetup(c) ==
  /\ pc[c] = "setup"
  /\ \/ /\ Faults
        /\ pc' = [pc EXCEPT ![c] = "failed"]
        /\ UNCHANGED <<gen, subOpen, mine>>
     \/ /\ gen' = gen + 1
        /\ subOpen' = [subOpen EXCEPT ![gen + 1] = TRUE]
        /\ mine' = [mine EXCEPT ![c] = gen + 1]
        /\ pc' = [pc EXCEPT ![c] = "spawn"]
  /\ UNCHANGED <<isListening, cancelListening, errsListening, calls, dispPc,
                 oncePc, hCancel, hErrs, crashed>>

\* c.errsListening = make(chan error), and the dispatcher goroutine starts.
StartSpawn(c) ==
  /\ pc[c] = "spawn"
  /\ errsListening' = mine[c]
  /\ dispPc' = [dispPc EXCEPT ![mine[c]] = "loop"]
  /\ pc' = [pc EXCEPT ![c] = "ret"]
  /\ UNCHANGED <<isListening, cancelListening, calls, gen, subOpen, oncePc,
                 mine, hCancel, hErrs, crashed>>

\* c.cancelListening is set and both fields are returned.
StartReturn(c) ==
  /\ pc[c] = "ret"
  /\ cancelListening' = mine[c]
  /\ hCancel' = [hCancel EXCEPT ![c] = mine[c]]
  /\ hErrs' = [hErrs EXCEPT ![c] = errsListening]
  /\ pc' = [pc EXCEPT ![c] = "active"]
  /\ UNCHANGED <<isListening, errsListening, calls, gen, subOpen, dispPc,
                 oncePc, mine, crashed>>

\* A caller whose start failed, or whose cancel returned, may start again.
Restart(c) ==
  /\ pc[c] \in {"failed", "finished"}
  /\ pc' = [pc EXCEPT ![c] = "idle"]
  /\ UNCHANGED <<isListening, cancelListening, errsListening, calls, gen,
                 subOpen, dispPc, oncePc, mine, hCancel, hErrs, crashed>>

-----------------------------------------------------------------------------
(* The dispatcher goroutine and the error channel.                         *)

\* `case set := <-sub.Chan()`: processSystemEventsStorageChanges fails on
\* a header or decode error and blocks sending it on errsListening.
DispFault(g) ==
  /\ Faults
  /\ dispPc[g] = "loop"
  /\ subOpen[g]
  /\ dispPc' = [dispPc EXCEPT ![g] = "report"]
  /\ UNCHANGED <<isListening, cancelListening, errsListening, calls, gen,
                 subOpen, oncePc, pc, mine, hCancel, hErrs, crashed>>

\* A caller receives from the error channel it was handed; the send of the
\* blocked dispatcher completes.
ReadErr(c) ==
  /\ pc[c] = "active"
  /\ hErrs[c] # None
  /\ dispPc[hErrs[c]] = "report"
  /\ dispPc' = [dispPc EXCEPT ![hErrs[c]] = "loop"]
  /\ UNCHANGED <<isListening, cancelListening, errsListening, calls, gen,
                 subOpen, oncePc, pc, mine, hCancel, hErrs, crashed>>

-----------------------------------------------------------------------------
(* The cancel function.                                                    *)

\* A caller calls the cancel handle it received: a nil function value
\* panics; the first call runs the once body, later ones wait for it.
CallCancel(c) ==
  /\ pc[c] = "active"
  /\ IF hCancel[c] = None
       THEN /\ crashed' = TRUE
            /\ UNCHANGED <<pc, oncePc>>
       ELSE /\ pc' = [pc EXCEPT ![c] = "cancelling"]
            /\ oncePc' = IF oncePc[hCancel[c]] = 0
                           THEN [oncePc EXCEPT ![hCancel[c]] = 1]
                           ELSE oncePc
            /\ UNCHANGED crashed
  /\ UNCHANGED <<isListening, cancelListening, errsListening, calls, gen,
                 subOpen, dispPc, mine, hCancel, hErrs>>

\* `done <- struct{}{}` meets the dispatcher's `case <-done`, which returns.
CancelSend(g) ==
  /\ OnceNext(g, "send")
  /\ dispPc[g] = "loop"
  /\ dispPc' = [dispPc EXCEPT ![g] = "exited"]
  /\ UNCHANGED <<isListening, cancelListening, errsListening, calls, gen,
                 subOpen, pc, mine, hCancel, hErrs, crashed>>

\* sub.Unsubscribe().
CancelUnsub(g) ==
  /\ OnceNext(g, "unsub")
  /\ subOpen' = [subOpen EXCEPT ![g] = FALSE]
  /\ UNCHANGED <<isListening, cancelListening, errsListening, calls, gen,
                 dispPc, pc, mine, hCancel, hErrs, crashed>>

\* c.isListening = 0, a plain store.
CancelReset(g) ==
  /\ OnceNext(g, "reset")
  /\ isListening' = 0
  /\ UNCHANGED <<cancelListening, errsListening, calls, gen, subOpen, dispPc,
                 pc, mine, hCancel, hErrs, crashed>>

\* once.Do returns to a caller of the cancel function.
CancelReturn(c) ==
  /\ pc[c] = "cancelling"
  /\ OnceFinished(hCancel[c])
  /\ pc' = [pc EXCEPT ![c] = "finished"]
  /\ UNCHANGED <<isListening, cancelListening, errsListening, calls, gen,
                 subOpen, dispPc, oncePc, mine, hCancel, hErrs, crashed>>

-----------------------------------------------------------------------------
Next ==
  /\ ~crashed
  /\ \/ \E c \in Callers :
          \/ StartCAS(c) \/ StartSetup(c) \/ StartSpawn(c) \/ StartReturn(c)
          \/ Restart(c) \/ ReadErr(c) \/ CallCancel(c) \/ CancelReturn(c)
     \/ \E g \in Gens :
          \/ DispFault(g) \/ CancelSend(g) \/ CancelUnsub(g) \/ CancelReset(g)

Spec == Init /\ [][Next]_vars

\* The goroutines the code runs are scheduled: a started call finishes its
\* setup, the dispatcher and the once body make progress, a caller that
\* holds the error channel keeps reading it, and once.Do returns.  Whether
\* and when callers start or cancel is their choice.
Fairness ==
  /\ \A c \in Callers :
       /\ WF_vars(~crashed /\ StartSetup(c))
       /\ WF_vars(~crashed /\ StartSpawn(c))
       /\ WF_vars(~crashed /\ StartReturn(c))
       /\ WF_vars(~crashed /\ ReadErr(c))
       /\ WF_vars(~crashed /\ CancelReturn(c))
  /\ \A g \in Gens :
       /\ WF_vars(~crashed /\ CancelSend(g))
       /\ WF_vars(~crashed /\ CancelUnsub(g))
       /\ WF_vars(~crashed /\ CancelReset(g))

LiveSpec == Spec /\ Fairness

-----------------------------------------------------------------------------
(* Properties.                                                             *)

\* The type invariant, in parts: flags, handles, counters, program counters.
FlagTypeOK ==
  /\ isListening \in {0, 1}
  /\ subOpen \in [Gens -> BOOLEAN]
  /\ crashed \in BOOLEAN

HandleTypeOK ==
  /\ cancelListening \in Handles
  /\ errsListening \in Handles
  /\ mine \in [Callers -> Handles]
  /\ hCancel \in [Callers -> Handles]
  /\ hErrs \in [Callers -> Handles]

CounterTypeOK ==
  /\ calls \in 0 .. MaxCalls
  /\ gen \in 0 .. MaxCalls
  /\ oncePc \in [Gens -> 0 .. 4]

PcTypeOK ==
  /\ dispPc \in [Gens -> DispPcs]
  /\ pc \in [Callers -> CallerPcs]

TypeOK == FlagTypeOK /\ HandleTypeOK /\ CounterTypeOK /\ PcTypeOK

\* Spec I3: however StartEventsListening and the cancel functions of
\* earlier starts interleave, at most one storage subscription is open or
\* served by a running dispatcher goroutine.
OneLiveFeed == Cardinality({g \in Gens : Live(g)}) <= 1

\* When a caller's call of the cancel function has returned, the
\* dispatcher of that subscription has returned and the subscription is
\* closed, also for a caller that found the once body already running.
StoppedAfterCancel ==
  \A c \in Callers :
    (pc[c] = "finished" /\ hCancel[c] # None) =>
      (~subOpen[hCancel[c]] /\ dispPc[hCancel[c]] = "exited")

\* The refinement mapping.  A subscription is unused until a setup opened
\* it, live while it is subscribed or its dispatcher runs (Live), and
\* stopped after that; its cancel was asked for once its once body began;
\* a caller saw its cancel call return while it is at "finished".
StageOf(g) ==
  IF g > gen THEN "unused" ELSE IF Live(g) THEN "live" ELSE "stopped"

RequestedOf(g) == oncePc[g] # 0

ReturnedOf(c) == IF pc[c] = "finished" THEN hCancel[c] ELSE None

Feed == INSTANCE SubscriptionFeed
          WITH Subs <- Gens,
               stage <- [g \in Gens |-> StageOf(g)],
               opened <- gen,
               requested <- [g \in Gens |-> RequestedOf(g)],
               returned <- [c \in Callers |-> ReturnedOf(c)]

\* StartEventsListening and the cancel functions implement SubscriptionFeed
\* (spec 4.1, I3 and P6): a successful SubscribeStorageRaw opens the next
\* subscription and happens only while no other one is subscribed or
\* served by its dispatcher; a subscription stops (its dispatcher returned
\* on `done` and sub.Unsubscribe() called) only after a call of its cancel
\* function began the once body, and never serves again; a call of the
\* cancel function returns only when its subscription has stopped.
FeedRefined == Feed!Spec

-----------------------------------------------------------------------------
(* Claims of the specification that the code does not keep.               *)

\* P5: every caller of StartEventsListening that got no error holds the
\* same, non-nil cancel function and error channel as every other.
SameHandles ==
  \A c, d \in Callers :
    (pc[c] = "active" /\ pc[d] = "active") =>
      /\ hCancel[c] # None
      /\ hErrs[c] # None
      /\ hCancel[c] = hCancel[d]
      /\ hErrs[c] = hErrs[d]

\* Section 4.1: a start that failed in setup leaves the lifecycle
\* not started, so that a later start can retry.
FailedStartRetryable ==
  \A c \in Callers :
    (pc[c] = "failed" /\ \A d \in Callers : pc[d] \notin {"setup", "spawn", "ret"})
      => isListening = 0

\* Section 5: cancelling the lifecycle stops the dispatcher loop; a call
\* of the cancel function returns, also when the dispatcher is reporting an
\* error to the very goroutine that cancels.
CancelReturns ==
  \A c \in Callers : pc[c] = "cancelling" ~> pc[c] = "finished"

-----------------------------------------------------------------------------
\* When no notification fails, so that the dispatcher never blocks on the
\* error channel, every call of a cancel function returns, the first one
\* and those that wait in once.Do for it, unless the process panicked on a
\* nil cancel function: the `done` send always meets the dispatcher's
\* select, and the body runs exactly once for all callers.
CancelReturnsUnlessPanic ==
  \A c \in Callers : pc[c] = "cancelling" ~> (pc[c] = "finished" \/ crashed)

=============================================================================
