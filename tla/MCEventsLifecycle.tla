-------------------------- MODULE MCEventsLifecycle --------------------------
(* EventsLifecycle with two callers as model values.                       *)
EXTENDS EventsLifecycle, TLC

CONSTANTS c1, c2

MCCallers == {c1, c2}

\* A single caller, which both reads the error channel and cancels.
MCOneCaller == {c1}

MCSymmetry == Permutations(MCCallers)
=============================================================================
