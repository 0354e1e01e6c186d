-------------------------- MODULE MCEventsListener --------------------------
(* Small instances of EventsListener for TLC.                              *)
EXTENDS EventsListener, TLC

CONSTANTS l1, l2

MCListeners == {l1, l2}

\* Listeners are interchangeable: each picks its `begin` when it registers.
MCSymmetry == Permutations(MCListeners)
=============================================================================
