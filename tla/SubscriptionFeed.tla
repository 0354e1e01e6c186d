-------------------------- MODULE SubscriptionFeed --------------------------
(***************************************************************************)
(* What the lifecycle of the events engine promises (spec.md, sections 4.1 *)
(* and 5, invariant I3, property P6), with none of its mechanism.          *)
(*                                                                         *)
(* Each storage subscription s goes once through unused -> live ->        *)
(* stopped.  A subscription opens only while no other one is live, and     *)
(* the subscriptions open in order, each a fresh one.  A live subscription *)
(* stops only after a call of its cancel function asked it to, and a call  *)
(* of the cancel function returns only when its subscription has stopped.  *)
(* A stopped subscription never serves the Client again.                  *)
(*                                                                         *)
(* EventsLifecycle implements this specification under the mapping given   *)
(* there (FeedRefined).                                                    *)
(***************************************************************************)
EXTENDS Naturals

CONSTANTS
  Subs,     \* the subscriptions a run can open, 1 .. n
  Callers,  \* the goroutines that call the lifecycle
  None      \* no subscription

Stages == {"unused", "live", "stopped"}

VARIABLES
  stage,      \* stage[s]: where subscription s is in its life
  opened,     \* the number of subscriptions opened so far
  requested,  \* requested[s]: a call of s's cancel function has begun
  returned    \* returned[c]: the subscription whose cancel c saw return

fvars == <<stage, opened, requested, returned>>

Init ==
  /\ stage = [s \in Subs |-> "unused"]
  /\ opened = 0
  /\ requested = [s \in Subs |-> FALSE]
  /\ returned = [c \in Callers |-> None]

\* A start while no subscription is live opens the next, fresh one.
Open ==
  /\ opened + 1 \in Subs
  /\ \A s \in Subs : stage[s] # "live"
  /\ stage' = [stage EXCEPT ![opened + 1] = "live"]
  /\ opened' = opened + 1
  /\ UNCHANGED <<requested, returned>>

\* The first call of the cancel function of an opened subscription.
RequestCancel(s) ==
  /\ stage[s] # "unused"
  /\ ~requested[s]
  /\ requested' = [requested EXCEPT ![s] = TRUE]
  /\ UNCHANGED <<stage, opened, returned>>

\* A live subscription whose cancel was asked for stops.
Stop(s) ==
  /\ stage[s] = "live"
  /\ requested[s]
  /\ stage' = [stage EXCEPT ![s] = "stopped"]
  /\ UNCHANGED <<opened, requested, returned>>

\* A call of the cancel function of s returns to c once s has stopped.
Return(c, s) ==
  /\ returned[c] = None
  /\ requested[s]
  /\ stage[s] = "stopped"
  /\ returned' = [returned EXCEPT ![c] = s]
  /\ UNCHANGED <<stage, opened, requested>>

\* The caller goes on and may start the lifecycle again.
Forget(c) ==
  /\ returned[c] # None
  /\ returned' = [returned EXCEPT ![c] = None]
  /\ UNCHANGED <<stage, opened, requested>>

Next ==
  \/ Open
  \/ \E s \in Subs : RequestCancel(s) \/ Stop(s)
  \/ \E c \in Callers : Forget(c) \/ \E s \in Subs : Return(c, s)

Spec == Init /\ [][Next]_fvars

=============================================================================
