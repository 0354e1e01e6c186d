------------------------ MODULE EventsLifecycleProofs ------------------------
(***************************************************************************)
(* Proofs about EventsLifecycle for every number of callers and calls.     *)
(***************************************************************************)
EXTENDS EventsLifecycle, FiniteSetTheorems, TLAPS

USE LifecycleAssumption

-----------------------------------------------------------------------------
(* The inductive invariant.  A subscription g is "current" when it is the  *)
(* last one opened (g = gen); every older one has been cancelled to the    *)
(* end, no newer one exists, and isListening = 0 only when the current one *)
(* has been cancelled to the end and no start is under way.                *)

\* A StartEventsListening call past its CAS and before its return.
Starting == {"setup", "spawn", "ret"}

\* Subscriptions not yet opened have no dispatcher and no cancel.
FreshGens ==
  \A g \in Gens : g > gen => (~subOpen[g] /\ dispPc[g] = "none" /\ oncePc[g] = 0)

\* Every subscription before the current one was cancelled to the end.
OldGensCancelled == \A g \in Gens : g < gen => oncePc[g] = 4

\* The once body stops the dispatcher, then unsubscribes, then resets.
OnceOrder ==
  \A g \in Gens :
    /\ oncePc[g] >= 2 => dispPc[g] = "exited"
    /\ oncePc[g] >= 3 => ~subOpen[g]

\* The current subscription is stopped: none was opened, or its cancel ran.
CurrentStopped == gen = 0 \/ oncePc[gen] = 4

\* isListening = 0 only when nothing runs and no start is under way.
IdleStopped ==
  isListening = 0 =>
    (CurrentStopped /\ \A c \in Callers : pc[c] \notin Starting)

\* A start in setup follows a stopped subscription, and counted its call.
SetupAfterStop ==
  \A c \in Callers : pc[c] = "setup" => (CurrentStopped /\ gen < calls)

\* A start past setup owns the current subscription, whose cancel function
\* has not been handed out yet.
SpawnOwnsCurrent ==
  \A c \in Callers : pc[c] \in {"spawn", "ret"} =>
    /\ gen \in Gens
    /\ mine[c] = gen
    /\ oncePc[gen] = 0
    /\ cancelListening # gen
    /\ \A d \in Callers : hCancel[d] # gen

\* Cancel handles only name subscriptions already opened.
HandlesIssued ==
  /\ cancelListening # None => cancelListening \in 1 .. gen
  /\ \A c \in Callers : hCancel[c] # None => hCancel[c] \in 1 .. gen

\* At most one start is under way.
OneStarter ==
  \A c, d \in Callers : (pc[c] \in Starting /\ pc[d] \in Starting) => c = d

\* A caller in or past its call of the cancel function holds a handle of an
\* opened subscription whose once body has begun, and has ended when the
\* call returned.
CancelHeld ==
  \A c \in Callers :
    pc[c] \in {"cancelling", "finished"} =>
      /\ hCancel[c] \in 1 .. gen
      /\ oncePc[hCancel[c]] >= 1
      /\ pc[c] = "finished" => oncePc[hCancel[c]] = 4

\* Every start that opened a subscription counted its call.
GenBound == gen <= calls

LInv ==
  /\ GenBound
  /\ FreshGens
  /\ OldGensCancelled
  /\ OnceOrder
  /\ IdleStopped
  /\ SetupAfterStop
  /\ SpawnOwnsCurrent
  /\ HandlesIssued
  /\ OneStarter
  /\ CancelHeld

IInv == TypeOK /\ LInv

-----------------------------------------------------------------------------
LEMMA IInvInit == Init => IInv
  <1> SUFFICES ASSUME Init PROVE IInv
    OBVIOUS
  <1>1. FlagTypeOK
    BY DEF Init, FlagTypeOK
  <1>2. HandleTypeOK
    BY DEF Init, HandleTypeOK, Handles
  <1>3. CounterTypeOK /\ PcTypeOK
    BY DEF Init, CounterTypeOK, PcTypeOK, Gens, DispPcs, CallerPcs
  <1>4. GenBound /\ OldGensCancelled
    BY DEF Init, GenBound, OldGensCancelled, Gens
  <1>8. FreshGens
    BY Zenon DEF Init, FreshGens
  <1>9. OnceOrder
    <2>1. \A g \in Gens : ~(oncePc[g] >= 2) /\ ~(oncePc[g] >= 3)
      BY DEF Init, Gens
    <2>2. QED
      BY <2>1, Zenon DEF OnceOrder
  <1>5. IdleStopped /\ SetupAfterStop /\ SpawnOwnsCurrent /\ OneStarter
    BY DEF Init, IdleStopped, CurrentStopped, SetupAfterStop,
           SpawnOwnsCurrent, OneStarter, Starting
  <1>6. HandlesIssued /\ CancelHeld
    BY DEF Init, HandlesIssued, CancelHeld
  <1>7. QED
    BY <1>1, <1>2, <1>3, <1>4, <1>5, <1>6, <1>8, <1>9 DEF IInv, TypeOK, LInv

\* StartCAS keeps the invariant.
LEMMA StartCASKeeps ==
  ASSUME IInv, NEW c \in Callers, StartCAS(c)
  PROVE  IInv'
  <1> USE DEF IInv, LInv, TypeOK
  <1>1. FlagTypeOK'
    BY DEF StartCAS, CasWins, FlagTypeOK
  <1>2. HandleTypeOK'
    BY DEF StartCAS, CasWins, HandleTypeOK, Handles, Gens
  <1>3. CounterTypeOK'
    BY DEF StartCAS, CasWins, CounterTypeOK, Gens
  <1>4. PcTypeOK'
    BY DEF StartCAS, CasWins, PcTypeOK, DispPcs, CallerPcs
  <1>5. GenBound'
    BY DEF StartCAS, CasWins, GenBound, SetupAfterStop, CounterTypeOK
  <1>6. FreshGens'
    BY DEF StartCAS, CasWins, FreshGens, CounterTypeOK, HandleTypeOK,
           HandlesIssued, SpawnOwnsCurrent, Gens
  <1>7. OldGensCancelled'
    BY DEF StartCAS, CasWins, OldGensCancelled, SetupAfterStop,
           CurrentStopped, CounterTypeOK, Gens
  <1>8. OnceOrder'
    BY DEF StartCAS, CasWins, OnceOrder, CounterTypeOK, SpawnOwnsCurrent,
           Gens
  <1>9. IdleStopped'
    BY DEF StartCAS, CasWins, IdleStopped, CurrentStopped, Starting,
           SpawnOwnsCurrent, SetupAfterStop, CounterTypeOK, Gens
  <1>10. SetupAfterStop'
    <2>1. CASE CasWins
      BY <2>1 DEF StartCAS, CasWins, SetupAfterStop, IdleStopped,
                  CurrentStopped, GenBound, CounterTypeOK, PcTypeOK
    <2>2. CASE ~CasWins
      <3>1. /\ pc' = [pc EXCEPT ![c] = "active"]
            /\ calls' = calls + 1
            /\ UNCHANGED <<gen, oncePc>>
        BY <2>2 DEF StartCAS
      <3>2. QED
        BY <3>1 DEF SetupAfterStop, CurrentStopped, GenBound, CounterTypeOK,
                    PcTypeOK
    <2>3. QED
      BY <2>1, <2>2
  <1>11. SpawnOwnsCurrent'
    <2>1. CASE CasWins
      BY <2>1 DEF StartCAS, CasWins, SpawnOwnsCurrent, PcTypeOK
    <2>2. CASE ~CasWins
      BY <2>2 DEF StartCAS, CasWins, SpawnOwnsCurrent, PcTypeOK, HandleTypeOK
    <2>3. QED
      BY <2>1, <2>2
  <1>12. HandlesIssued'
    BY DEF StartCAS, CasWins, HandlesIssued, CounterTypeOK, HandleTypeOK,
           SpawnOwnsCurrent, Gens
  <1>13. OneStarter'
    BY DEF StartCAS, CasWins, OneStarter, Starting, IdleStopped, PcTypeOK
  <1>14. CancelHeld'
    BY DEF StartCAS, CasWins, CancelHeld, HandlesIssued, HandleTypeOK,
           CounterTypeOK, PcTypeOK, Gens
  <1>15. QED
    BY <1>1, <1>2, <1>3, <1>4, <1>5, <1>6, <1>7, <1>8, <1>9, <1>10, <1>11, <1>12, <1>13, <1>14

\* StartSetup keeps the invariant.
LEMMA StartSetupKeeps ==
  ASSUME IInv, NEW c \in Callers, StartSetup(c)
  PROVE  IInv'
  <1> USE DEF IInv, LInv, TypeOK
  <1>1. FlagTypeOK'
    BY DEF StartSetup, FlagTypeOK
  <1>2. HandleTypeOK'
    <2>1. CASE UNCHANGED <<gen, subOpen, mine>> /\ pc' = [pc EXCEPT ![c] = "failed"]
      BY <2>1 DEF StartSetup, HandleTypeOK, Handles
    <2>2. CASE /\ gen' = gen + 1
               /\ subOpen' = [subOpen EXCEPT ![gen + 1] = TRUE]
               /\ mine' = [mine EXCEPT ![c] = gen + 1]
               /\ pc' = [pc EXCEPT ![c] = "spawn"]
      <3>1. gen + 1 \in Gens /\ gen + 1 > gen
        BY DEF StartSetup, SetupAfterStop, CounterTypeOK, Gens
      <3>2. QED
        BY <2>2, <3>1 DEF StartSetup, HandleTypeOK, Handles
    <2>3. QED
      BY <2>1, <2>2 DEF StartSetup
  <1>3. CounterTypeOK'
    <2>1. CASE UNCHANGED <<gen, subOpen, mine>> /\ pc' = [pc EXCEPT ![c] = "failed"]
      BY <2>1 DEF StartSetup, CounterTypeOK, Gens
    <2>2. CASE /\ gen' = gen + 1
               /\ subOpen' = [subOpen EXCEPT ![gen + 1] = TRUE]
               /\ mine' = [mine EXCEPT ![c] = gen + 1]
               /\ pc' = [pc EXCEPT ![c] = "spawn"]
      <3>1. gen + 1 \in Gens /\ gen + 1 > gen
        BY DEF StartSetup, SetupAfterStop, CounterTypeOK, Gens
      <3>2. QED
        BY <2>2, <3>1 DEF StartSetup, CounterTypeOK, Gens
    <2>3. QED
      BY <2>1, <2>2 DEF StartSetup
  <1>4. PcTypeOK'
    BY DEF StartSetup, PcTypeOK, DispPcs, CallerPcs
  <1>5. GenBound'
    BY DEF StartSetup, GenBound, SetupAfterStop, CounterTypeOK
  <1>6. FreshGens'
    <2>1. CASE UNCHANGED <<gen, subOpen, mine>>
      BY <2>1 DEF StartSetup, FreshGens
    <2>2. CASE /\ gen' = gen + 1
               /\ subOpen' = [subOpen EXCEPT ![gen + 1] = TRUE]
      <3>1. ASSUME NEW g \in Gens, g > gen + 1
            PROVE  g > gen /\ g # gen + 1
        BY <3>1 DEF CounterTypeOK, Gens
      <3>2. ASSUME NEW g \in Gens, g > gen + 1 PROVE subOpen'[g] = subOpen[g]
        BY <2>2, <3>1, <3>2 DEF FlagTypeOK
      <3>3. QED
        BY <2>2, <3>1, <3>2, Zenon DEF StartSetup, FreshGens
    <2>3. QED
      BY <2>1, <2>2 DEF StartSetup
  <1>7. OldGensCancelled'
    BY DEF StartSetup, OldGensCancelled, SetupAfterStop, CurrentStopped,
           CounterTypeOK, Gens
  <1>8. OnceOrder'
    <2>1. CASE UNCHANGED <<gen, subOpen, mine>>
      BY <2>1 DEF StartSetup, OnceOrder
    <2>2. CASE subOpen' = [subOpen EXCEPT ![gen + 1] = TRUE]
      <3>1. ASSUME NEW g \in Gens, oncePc[g] >= 3 PROVE g # gen + 1
        BY <3>1 DEF FreshGens, CounterTypeOK
      <3>2. ASSUME NEW g \in Gens, oncePc[g] >= 3 PROVE subOpen'[g] = subOpen[g]
        BY <2>2, <3>1, <3>2 DEF FlagTypeOK
      <3>3. QED
        BY <2>2, <3>2, Zenon DEF StartSetup, OnceOrder
    <2>3. QED
      BY <2>1, <2>2 DEF StartSetup
  <1>9. IdleStopped'
    BY DEF StartSetup, IdleStopped, CurrentStopped, Starting,
           SpawnOwnsCurrent, SetupAfterStop, CounterTypeOK, Gens
  <1>10. SetupAfterStop'
    <2>1. CASE UNCHANGED <<gen, subOpen, mine>> /\ pc' = [pc EXCEPT ![c] = "failed"]
      BY <2>1 DEF StartSetup, SetupAfterStop, OneStarter, Starting, PcTypeOK
    <2>2. CASE /\ gen' = gen + 1
               /\ subOpen' = [subOpen EXCEPT ![gen + 1] = TRUE]
               /\ mine' = [mine EXCEPT ![c] = gen + 1]
               /\ pc' = [pc EXCEPT ![c] = "spawn"]
      <3>1. gen + 1 \in Gens /\ gen + 1 > gen
        BY DEF StartSetup, SetupAfterStop, CounterTypeOK, Gens
      <3>2. QED
        BY <2>2, <3>1 DEF StartSetup, SetupAfterStop, OneStarter, Starting, PcTypeOK
    <2>3. QED
      BY <2>1, <2>2 DEF StartSetup
  <1>11. SpawnOwnsCurrent'
    <2>1. CASE UNCHANGED <<gen, subOpen, mine>> /\ pc' = [pc EXCEPT ![c] = "failed"]
      BY <2>1 DEF StartSetup, SpawnOwnsCurrent, OneStarter, Starting, PcTypeOK
    <2>2. CASE /\ gen' = gen + 1
               /\ subOpen' = [subOpen EXCEPT ![gen + 1] = TRUE]
               /\ mine' = [mine EXCEPT ![c] = gen + 1]
               /\ pc' = [pc EXCEPT ![c] = "spawn"]
      <3>1. gen + 1 \in Gens /\ gen + 1 > gen
        BY DEF StartSetup, SetupAfterStop, CounterTypeOK, Gens
      <3>2. oncePc[gen + 1] = 0
        BY <3>1 DEF FreshGens
      <3>3. cancelListening # gen + 1 /\ \A d \in Callers : hCancel[d] # gen + 1
        BY DEF HandlesIssued, HandleTypeOK, Handles, CounterTypeOK
      <3>4. \A d \in Callers : d # c => pc[d] \notin {"spawn", "ret"}
        BY DEF StartSetup, OneStarter, Starting
      <3>5. QED
        BY <2>2, <3>1, <3>2, <3>3, <3>4
        DEF StartSetup, SpawnOwnsCurrent, PcTypeOK, HandleTypeOK
    <2>3. QED
      BY <2>1, <2>2 DEF StartSetup
  <1>12. HandlesIssued'
    BY DEF StartSetup, HandlesIssued, CounterTypeOK, HandleTypeOK,
           SpawnOwnsCurrent, Gens
  <1>13. OneStarter'
    BY DEF StartSetup, OneStarter, Starting, IdleStopped, PcTypeOK
  <1>14. CancelHeld'
    BY DEF StartSetup, CancelHeld, HandlesIssued, HandleTypeOK,
           CounterTypeOK, PcTypeOK, Gens
  <1>15. QED
    BY <1>1, <1>2, <1>3, <1>4, <1>5, <1>6, <1>7, <1>8, <1>9, <1>10, <1>11, <1>12, <1>13, <1>14

\* StartSpawn keeps the invariant.
LEMMA StartSpawnKeeps ==
  ASSUME IInv, NEW c \in Callers, StartSpawn(c)
  PROVE  IInv'
  <1> USE DEF IInv, LInv, TypeOK
  <1>1. FlagTypeOK'
    BY DEF StartSpawn, FlagTypeOK
  <1>2. HandleTypeOK'
    BY DEF StartSpawn, HandleTypeOK, Handles, Gens
  <1>3. CounterTypeOK'
    BY DEF StartSpawn, CounterTypeOK, Gens
  <1>4. PcTypeOK'
    BY DEF StartSpawn, PcTypeOK, DispPcs, CallerPcs
  <1>5. GenBound'
    BY DEF StartSpawn, GenBound, SetupAfterStop, CounterTypeOK
  <1>6. FreshGens'
    BY DEF StartSpawn, FreshGens, CounterTypeOK, HandleTypeOK, HandlesIssued,
           SpawnOwnsCurrent, Gens
  <1>7. OldGensCancelled'
    BY DEF StartSpawn, OldGensCancelled, SetupAfterStop, CurrentStopped,
           CounterTypeOK, Gens
  <1>8. OnceOrder'
    BY DEF StartSpawn, OnceOrder, CounterTypeOK, SpawnOwnsCurrent, Gens
  <1>9. IdleStopped'
    BY DEF StartSpawn, IdleStopped, CurrentStopped, Starting,
           SpawnOwnsCurrent, SetupAfterStop, CounterTypeOK, Gens
  <1>10. SetupAfterStop'
    BY DEF StartSpawn, SetupAfterStop, CurrentStopped, IdleStopped, Starting,
           CounterTypeOK, Gens
  <1>11. SpawnOwnsCurrent'
    BY DEF StartSpawn, SpawnOwnsCurrent, SetupAfterStop, HandlesIssued,
           HandleTypeOK, CounterTypeOK, OneStarter, Starting, Gens
  <1>12. HandlesIssued'
    BY DEF StartSpawn, HandlesIssued, CounterTypeOK, HandleTypeOK,
           SpawnOwnsCurrent, Gens
  <1>13. OneStarter'
    BY DEF StartSpawn, OneStarter, Starting, IdleStopped, PcTypeOK
  <1>14. CancelHeld'
    BY DEF StartSpawn, CancelHeld, HandlesIssued, HandleTypeOK,
           CounterTypeOK, PcTypeOK, Gens
  <1>15. QED
    BY <1>1, <1>2, <1>3, <1>4, <1>5, <1>6, <1>7, <1>8, <1>9, <1>10, <1>11, <1>12, <1>13, <1>14

\* StartReturn keeps the invariant.
LEMMA StartReturnKeeps ==
  ASSUME IInv, NEW c \in Callers, StartReturn(c)
  PROVE  IInv'
  <1> USE DEF IInv, LInv, TypeOK
  <1>1. FlagTypeOK'
    BY DEF StartReturn, FlagTypeOK
  <1>2. HandleTypeOK'
    BY DEF StartReturn, HandleTypeOK, Handles, Gens
  <1>3. CounterTypeOK'
    BY DEF StartReturn, CounterTypeOK, Gens
  <1>4. PcTypeOK'
    BY DEF StartReturn, PcTypeOK, DispPcs, CallerPcs
  <1>5. GenBound'
    BY DEF StartReturn, GenBound, SetupAfterStop, CounterTypeOK
  <1>6. FreshGens'
    BY DEF StartReturn, FreshGens, CounterTypeOK, HandleTypeOK,
           HandlesIssued, SpawnOwnsCurrent, Gens
  <1>7. OldGensCancelled'
    BY DEF StartReturn, OldGensCancelled, SetupAfterStop, CurrentStopped,
           CounterTypeOK, Gens
  <1>8. OnceOrder'
    BY DEF StartReturn, OnceOrder, CounterTypeOK, SpawnOwnsCurrent, Gens
  <1>9. IdleStopped'
    BY DEF StartReturn, IdleStopped, CurrentStopped, Starting,
           SpawnOwnsCurrent, SetupAfterStop, CounterTypeOK, Gens
  <1>10. SetupAfterStop'
    BY DEF StartReturn, SetupAfterStop, CurrentStopped, IdleStopped,
           Starting, CounterTypeOK, Gens
  <1>11. SpawnOwnsCurrent'
    BY DEF StartReturn, SpawnOwnsCurrent, OneStarter, Starting, PcTypeOK
  <1>12. HandlesIssued'
    BY DEF StartReturn, HandlesIssued, CounterTypeOK, HandleTypeOK,
           SpawnOwnsCurrent, Gens
  <1>13. OneStarter'
    BY DEF StartReturn, OneStarter, Starting, IdleStopped, PcTypeOK
  <1>14. CancelHeld'
    BY DEF StartReturn, CancelHeld, HandlesIssued, HandleTypeOK,
           CounterTypeOK, PcTypeOK, Gens
  <1>15. QED
    BY <1>1, <1>2, <1>3, <1>4, <1>5, <1>6, <1>7, <1>8, <1>9, <1>10, <1>11, <1>12, <1>13, <1>14

\* Restart keeps the invariant.
LEMMA RestartKeeps ==
  ASSUME IInv, NEW c \in Callers, Restart(c)
  PROVE  IInv'
  <1> USE DEF IInv, LInv, TypeOK
  <1>1. FlagTypeOK'
    BY DEF Restart, FlagTypeOK
  <1>2. HandleTypeOK'
    BY DEF Restart, HandleTypeOK, Handles, Gens
  <1>3. CounterTypeOK'
    BY DEF Restart, CounterTypeOK, Gens
  <1>4. PcTypeOK'
    BY DEF Restart, PcTypeOK, DispPcs, CallerPcs
  <1>5. GenBound'
    BY DEF Restart, GenBound, SetupAfterStop, CounterTypeOK
  <1>6. FreshGens'
    BY DEF Restart, FreshGens, CounterTypeOK, HandleTypeOK, HandlesIssued,
           SpawnOwnsCurrent, Gens
  <1>7. OldGensCancelled'
    BY DEF Restart, OldGensCancelled, SetupAfterStop, CurrentStopped,
           CounterTypeOK, Gens
  <1>8. OnceOrder'
    BY DEF Restart, OnceOrder, CounterTypeOK, SpawnOwnsCurrent, Gens
  <1>9. IdleStopped'
    BY DEF Restart, IdleStopped, CurrentStopped, Starting, SpawnOwnsCurrent,
           SetupAfterStop, CounterTypeOK, Gens
  <1>10. SetupAfterStop'
    BY DEF Restart, SetupAfterStop, CurrentStopped, IdleStopped, Starting,
           CounterTypeOK, Gens
  <1>11. SpawnOwnsCurrent'
    BY DEF Restart, SpawnOwnsCurrent, SetupAfterStop, HandlesIssued,
           HandleTypeOK, CounterTypeOK, OneStarter, Starting, Gens
  <1>12. HandlesIssued'
    BY DEF Restart, HandlesIssued, CounterTypeOK, HandleTypeOK,
           SpawnOwnsCurrent, Gens
  <1>13. OneStarter'
    BY DEF Restart, OneStarter, Starting, IdleStopped, PcTypeOK
  <1>14. CancelHeld'
    BY DEF Restart, CancelHeld, HandlesIssued, HandleTypeOK, CounterTypeOK,
           PcTypeOK, Gens
  <1>15. QED
    BY <1>1, <1>2, <1>3, <1>4, <1>5, <1>6, <1>7, <1>8, <1>9, <1>10, <1>11, <1>12, <1>13, <1>14

\* ReadErr keeps the invariant.
LEMMA ReadErrKeeps ==
  ASSUME IInv, NEW c \in Callers, ReadErr(c)
  PROVE  IInv'
  <1> USE DEF IInv, LInv, TypeOK
  <1>1. FlagTypeOK'
    BY DEF ReadErr, FlagTypeOK
  <1>2. HandleTypeOK'
    BY DEF ReadErr, HandleTypeOK, Handles, Gens
  <1>3. CounterTypeOK'
    BY DEF ReadErr, CounterTypeOK, Gens
  <1>4. PcTypeOK'
    BY DEF ReadErr, PcTypeOK, DispPcs, CallerPcs
  <1>5. GenBound'
    BY DEF ReadErr, GenBound, SetupAfterStop, CounterTypeOK
  <1>6. FreshGens'
    BY DEF ReadErr, FreshGens, CounterTypeOK, HandleTypeOK, HandlesIssued,
           SpawnOwnsCurrent, Gens
  <1>7. OldGensCancelled'
    BY DEF ReadErr, OldGensCancelled, SetupAfterStop, CurrentStopped,
           CounterTypeOK, Gens
  <1>8. OnceOrder'
    BY DEF ReadErr, OnceOrder, CounterTypeOK, SpawnOwnsCurrent, Gens
  <1>9. IdleStopped'
    BY DEF ReadErr, IdleStopped, CurrentStopped, Starting, SpawnOwnsCurrent,
           SetupAfterStop, CounterTypeOK, Gens
  <1>10. SetupAfterStop'
    BY DEF ReadErr, SetupAfterStop, CurrentStopped, IdleStopped, Starting,
           CounterTypeOK, Gens
  <1>11. SpawnOwnsCurrent'
    BY DEF ReadErr, SpawnOwnsCurrent, SetupAfterStop, HandlesIssued,
           HandleTypeOK, CounterTypeOK, OneStarter, Starting, Gens
  <1>12. HandlesIssued'
    BY DEF ReadErr, HandlesIssued, CounterTypeOK, HandleTypeOK,
           SpawnOwnsCurrent, Gens
  <1>13. OneStarter'
    BY DEF ReadErr, OneStarter, Starting, IdleStopped, PcTypeOK
  <1>14. CancelHeld'
    BY DEF ReadErr, CancelHeld, HandlesIssued, HandleTypeOK, CounterTypeOK,
           PcTypeOK, Gens
  <1>15. QED
    BY <1>1, <1>2, <1>3, <1>4, <1>5, <1>6, <1>7, <1>8, <1>9, <1>10, <1>11, <1>12, <1>13, <1>14

\* CallCancel keeps the invariant.
LEMMA CallCancelKeeps ==
  ASSUME IInv, NEW c \in Callers, CallCancel(c)
  PROVE  IInv'
  <1> USE DEF IInv, LInv, TypeOK
  <1>1. FlagTypeOK'
    BY DEF CallCancel, FlagTypeOK
  <1>2. HandleTypeOK'
    BY DEF CallCancel, HandleTypeOK, Handles, Gens
  <1>3. CounterTypeOK'
    BY DEF CallCancel, CounterTypeOK, Gens
  <1>4. PcTypeOK'
    BY DEF CallCancel, PcTypeOK, DispPcs, CallerPcs
  <1>5. GenBound'
    BY DEF CallCancel, GenBound, SetupAfterStop, CounterTypeOK
  <1>6. FreshGens'
    BY DEF CallCancel, FreshGens, CounterTypeOK, HandleTypeOK, HandlesIssued,
           SpawnOwnsCurrent, Gens
  <1>7. OldGensCancelled'
    BY DEF CallCancel, OldGensCancelled, SetupAfterStop, CurrentStopped,
           CounterTypeOK, Gens
  <1>8. OnceOrder'
    BY DEF CallCancel, OnceOrder, CounterTypeOK, SpawnOwnsCurrent, Gens
  <1>9. IdleStopped'
    <2>0. pc[c] = "active"
          /\ UNCHANGED <<isListening, cancelListening, calls, gen, mine, hCancel>>
      BY DEF CallCancel
    <2>1. hCancel[c] # None => hCancel[c] \in 1 .. gen
      BY DEF HandlesIssued
    <2>2. CASE hCancel[c] = None
      <3>1. UNCHANGED <<pc, oncePc>>
        BY <2>2 DEF CallCancel
      <3>2. QED
        BY <2>0, <3>1 DEF IdleStopped, CurrentStopped, Starting, CounterTypeOK, PcTypeOK, Gens
    <2>3. CASE hCancel[c] # None /\ oncePc[hCancel[c]] # 0
      <3>1. pc' = [pc EXCEPT ![c] = "cancelling"] /\ UNCHANGED oncePc
        BY <2>3 DEF CallCancel
      <3>2. QED
        BY <2>0, <3>1 DEF IdleStopped, CurrentStopped, Starting, CounterTypeOK, PcTypeOK, Gens
    <2>4. CASE hCancel[c] # None /\ oncePc[hCancel[c]] = 0
      <3>1. pc' = [pc EXCEPT ![c] = "cancelling"]
            /\ oncePc' = [oncePc EXCEPT ![hCancel[c]] = 1]
        BY <2>4 DEF CallCancel
      <3>2. hCancel[c] # gen \/ ~CurrentStopped
        BY <2>1, <2>4 DEF CurrentStopped, Gens
      <3>3. QED
        BY <2>0, <2>1, <3>1, <3>2 DEF IdleStopped, CurrentStopped, Starting, CounterTypeOK, PcTypeOK, Gens
    <2>5. QED
      BY <2>2, <2>3, <2>4
  <1>10. SetupAfterStop'
    <2>0. pc[c] = "active"
          /\ UNCHANGED <<isListening, cancelListening, calls, gen, mine, hCancel>>
      BY DEF CallCancel
    <2>1. hCancel[c] # None => hCancel[c] \in 1 .. gen
      BY DEF HandlesIssued
    <2>2. CASE hCancel[c] = None
      <3>1. UNCHANGED <<pc, oncePc>>
        BY <2>2 DEF CallCancel
      <3>2. QED
        BY <2>0, <3>1 DEF SetupAfterStop, CurrentStopped, CounterTypeOK, PcTypeOK, Gens
    <2>3. CASE hCancel[c] # None /\ oncePc[hCancel[c]] # 0
      <3>1. pc' = [pc EXCEPT ![c] = "cancelling"] /\ UNCHANGED oncePc
        BY <2>3 DEF CallCancel
      <3>2. QED
        BY <2>0, <3>1 DEF SetupAfterStop, CurrentStopped, CounterTypeOK, PcTypeOK, Gens
    <2>4. CASE hCancel[c] # None /\ oncePc[hCancel[c]] = 0
      <3>1. pc' = [pc EXCEPT ![c] = "cancelling"]
            /\ oncePc' = [oncePc EXCEPT ![hCancel[c]] = 1]
        BY <2>4 DEF CallCancel
      <3>2. hCancel[c] # gen \/ ~CurrentStopped
        BY <2>1, <2>4 DEF CurrentStopped, Gens
      <3>3. QED
        BY <2>0, <2>1, <3>1, <3>2 DEF SetupAfterStop, CurrentStopped, CounterTypeOK, PcTypeOK, Gens
    <2>5. QED
      BY <2>2, <2>3, <2>4
  <1>11. SpawnOwnsCurrent'
    <2>0. pc[c] = "active"
          /\ UNCHANGED <<isListening, cancelListening, calls, gen, mine, hCancel>>
      BY DEF CallCancel
    <2>1. hCancel[c] # None => hCancel[c] \in 1 .. gen
      BY DEF HandlesIssued
    <2>2. CASE hCancel[c] = None
      <3>1. UNCHANGED <<pc, oncePc>>
        BY <2>2 DEF CallCancel
      <3>2. QED
        BY <2>0, <3>1 DEF SpawnOwnsCurrent, CounterTypeOK, PcTypeOK, Gens
    <2>3. CASE hCancel[c] # None /\ oncePc[hCancel[c]] # 0
      <3>1. pc' = [pc EXCEPT ![c] = "cancelling"] /\ UNCHANGED oncePc
        BY <2>3 DEF CallCancel
      <3>2. QED
        BY <2>0, <3>1 DEF SpawnOwnsCurrent, CounterTypeOK, PcTypeOK, Gens
    <2>4. CASE hCancel[c] # None /\ oncePc[hCancel[c]] = 0
      <3>1. pc' = [pc EXCEPT ![c] = "cancelling"]
            /\ oncePc' = [oncePc EXCEPT ![hCancel[c]] = 1]
        BY <2>4 DEF CallCancel
      <3>2. hCancel[c] # gen \/ ~CurrentStopped
        BY <2>1, <2>4 DEF CurrentStopped, Gens
      <3>3. QED
        BY <2>0, <2>1, <3>1, <3>2 DEF SpawnOwnsCurrent, CounterTypeOK, PcTypeOK, Gens
    <2>5. QED
      BY <2>2, <2>3, <2>4
  <1>12. HandlesIssued'
    BY DEF CallCancel, HandlesIssued, CounterTypeOK, HandleTypeOK,
           SpawnOwnsCurrent, Gens
  <1>13. OneStarter'
    BY DEF CallCancel, OneStarter, Starting, IdleStopped, PcTypeOK
  <1>14. CancelHeld'
    <2>0. pc[c] = "active"
          /\ UNCHANGED <<isListening, cancelListening, calls, gen, mine, hCancel>>
      BY DEF CallCancel
    <2>1. hCancel[c] # None => hCancel[c] \in 1 .. gen
      BY DEF HandlesIssued
    <2>2. CASE hCancel[c] = None
      <3>1. UNCHANGED <<pc, oncePc>>
        BY <2>2 DEF CallCancel
      <3>2. QED
        BY <2>0, <3>1 DEF CancelHeld, HandleTypeOK, CounterTypeOK, PcTypeOK, Gens
    <2>3. CASE hCancel[c] # None
      <3>1. pc' = [pc EXCEPT ![c] = "cancelling"]
        BY <2>3 DEF CallCancel
      <3>2. oncePc' = IF oncePc[hCancel[c]] = 0
                        THEN [oncePc EXCEPT ![hCancel[c]] = 1]
                        ELSE oncePc
        BY <2>3 DEF CallCancel
      <3>3. \A g \in Gens : oncePc'[g] >= oncePc[g] /\ oncePc'[g] \in 0 .. 4
        BY <2>1, <2>3, <3>2 DEF CounterTypeOK, Gens
      <3>4. oncePc'[hCancel[c]] >= 1
        BY <2>1, <2>3, <3>2 DEF CounterTypeOK, Gens
      <3>5. ASSUME NEW d \in Callers, pc'[d] \in {"cancelling", "finished"}
            PROVE  /\ hCancel'[d] \in 1 .. gen'
                   /\ oncePc'[hCancel'[d]] >= 1
                   /\ pc'[d] = "finished" => oncePc'[hCancel'[d]] = 4
        <4>1. CASE d = c
          BY <2>0, <2>1, <2>3, <3>1, <3>4, <4>1 DEF PcTypeOK
        <4>2. CASE d # c
          <5>1. pc'[d] = pc[d] /\ hCancel[d] \in 1 .. gen
                /\ oncePc[hCancel[d]] >= 1
                /\ (pc[d] = "finished" => oncePc[hCancel[d]] = 4)
            BY <3>1, <3>5, <4>2 DEF CancelHeld, PcTypeOK
          <5>2. oncePc'[hCancel[d]] \in 0 .. 4
                /\ oncePc'[hCancel[d]] >= oncePc[hCancel[d]]
            BY <5>1, <3>3 DEF Gens, CounterTypeOK
          <5>3. hCancel'[d] = hCancel[d] /\ gen' = gen
            BY <2>0
          <5>4. oncePc[hCancel[d]] \in 0 .. 4
            BY <5>1 DEF CounterTypeOK, Gens
          <5>5. hCancel'[d] \in 1 .. gen'
            BY <5>1, <5>3
          <5>6. oncePc'[hCancel'[d]] >= 1
            BY <5>1, <5>2, <5>3, <5>4
          <5>7. pc'[d] = "finished" => oncePc'[hCancel'[d]] = 4
            BY <5>1, <5>2, <5>3, <5>4
          <5>8. QED
            BY <5>5, <5>6, <5>7
        <4>3. QED
          BY <4>1, <4>2
      <3>6. QED
        BY <3>5 DEF CancelHeld
    <2>4. QED
      BY <2>2, <2>3
  <1>15. QED
    BY <1>1, <1>2, <1>3, <1>4, <1>5, <1>6, <1>7, <1>8, <1>9, <1>10, <1>11, <1>12, <1>13, <1>14

\* CancelReturn keeps the invariant.
LEMMA CancelReturnKeeps ==
  ASSUME IInv, NEW c \in Callers, CancelReturn(c)
  PROVE  IInv'
  <1> USE DEF IInv, LInv, TypeOK
  <1>1. FlagTypeOK'
    BY DEF CancelReturn, OnceFinished, FlagTypeOK
  <1>2. HandleTypeOK'
    BY DEF CancelReturn, OnceFinished, HandleTypeOK, Handles, Gens
  <1>3. CounterTypeOK'
    BY DEF CancelReturn, OnceFinished, CounterTypeOK, Gens
  <1>4. PcTypeOK'
    BY DEF CancelReturn, OnceFinished, PcTypeOK, DispPcs, CallerPcs
  <1>5. GenBound'
    BY DEF CancelReturn, OnceFinished, GenBound, SetupAfterStop,
           CounterTypeOK
  <1>6. FreshGens'
    BY DEF CancelReturn, OnceFinished, FreshGens, CounterTypeOK,
           HandleTypeOK, HandlesIssued, SpawnOwnsCurrent, Gens
  <1>7. OldGensCancelled'
    BY DEF CancelReturn, OnceFinished, OldGensCancelled, SetupAfterStop,
           CurrentStopped, CounterTypeOK, Gens
  <1>8. OnceOrder'
    BY DEF CancelReturn, OnceFinished, OnceOrder, CounterTypeOK,
           SpawnOwnsCurrent, Gens
  <1>9. IdleStopped'
    BY DEF CancelReturn, OnceFinished, IdleStopped, CurrentStopped, Starting,
           SpawnOwnsCurrent, SetupAfterStop, CounterTypeOK, Gens
  <1>10. SetupAfterStop'
    BY DEF CancelReturn, OnceFinished, SetupAfterStop, CurrentStopped,
           IdleStopped, Starting, CounterTypeOK, Gens
  <1>11. SpawnOwnsCurrent'
    BY DEF CancelReturn, OnceFinished, SpawnOwnsCurrent, SetupAfterStop,
           HandlesIssued, HandleTypeOK, CounterTypeOK, OneStarter, Starting,
           Gens
  <1>12. HandlesIssued'
    BY DEF CancelReturn, OnceFinished, HandlesIssued, CounterTypeOK,
           HandleTypeOK, SpawnOwnsCurrent, Gens
  <1>13. OneStarter'
    BY DEF CancelReturn, OnceFinished, OneStarter, Starting, IdleStopped,
           PcTypeOK
  <1>14. CancelHeld'
    BY DEF CancelReturn, OnceFinished, CancelHeld, HandlesIssued,
           HandleTypeOK, CounterTypeOK, PcTypeOK, Gens
  <1>15. QED
    BY <1>1, <1>2, <1>3, <1>4, <1>5, <1>6, <1>7, <1>8, <1>9, <1>10, <1>11, <1>12, <1>13, <1>14

\* DispFault keeps the invariant.
LEMMA DispFaultKeeps ==
  ASSUME IInv, NEW k \in Gens, DispFault(k)
  PROVE  IInv'
  <1> USE DEF IInv, LInv, TypeOK
  <1>1. FlagTypeOK'
    BY DEF DispFault, FlagTypeOK
  <1>2. HandleTypeOK'
    BY DEF DispFault, HandleTypeOK, Handles, Gens
  <1>3. CounterTypeOK'
    BY DEF DispFault, CounterTypeOK, Gens
  <1>4. PcTypeOK'
    BY DEF DispFault, PcTypeOK, DispPcs, CallerPcs
  <1>5. GenBound'
    BY DEF DispFault, GenBound, SetupAfterStop, CounterTypeOK
  <1>6. FreshGens'
    BY DEF DispFault, FreshGens, CounterTypeOK, HandleTypeOK, HandlesIssued,
           SpawnOwnsCurrent, Gens
  <1>7. OldGensCancelled'
    BY DEF DispFault, OldGensCancelled, SetupAfterStop, CurrentStopped,
           CounterTypeOK, Gens
  <1>8. OnceOrder'
    BY DEF DispFault, OnceOrder, CounterTypeOK, SpawnOwnsCurrent, Gens
  <1>9. IdleStopped'
    BY DEF DispFault, IdleStopped, CurrentStopped, Starting,
           SpawnOwnsCurrent, SetupAfterStop, CounterTypeOK, Gens
  <1>10. SetupAfterStop'
    BY DEF DispFault, SetupAfterStop, CurrentStopped, IdleStopped, Starting,
           CounterTypeOK, Gens
  <1>11. SpawnOwnsCurrent'
    BY DEF DispFault, SpawnOwnsCurrent, SetupAfterStop, HandlesIssued,
           HandleTypeOK, CounterTypeOK, OneStarter, Starting, Gens
  <1>12. HandlesIssued'
    BY DEF DispFault, HandlesIssued, CounterTypeOK, HandleTypeOK,
           SpawnOwnsCurrent, Gens
  <1>13. OneStarter'
    BY DEF DispFault, OneStarter, Starting, IdleStopped, PcTypeOK
  <1>14. CancelHeld'
    BY DEF DispFault, CancelHeld, HandlesIssued, HandleTypeOK, CounterTypeOK,
           PcTypeOK, Gens
  <1>15. QED
    BY <1>1, <1>2, <1>3, <1>4, <1>5, <1>6, <1>7, <1>8, <1>9, <1>10, <1>11, <1>12, <1>13, <1>14

\* CancelSend keeps the invariant.
LEMMA CancelSendKeeps ==
  ASSUME IInv, NEW k \in Gens, CancelSend(k)
  PROVE  IInv'
  <1> USE DEF IInv, LInv, TypeOK
  <1>1. FlagTypeOK'
    BY DEF CancelSend, OnceNext, OnceBody, FlagTypeOK
  <1>2. HandleTypeOK'
    BY DEF CancelSend, OnceNext, OnceBody, HandleTypeOK, Handles, Gens
  <1>3. CounterTypeOK'
    BY DEF CancelSend, OnceNext, OnceBody, CounterTypeOK, Gens
  <1>4. PcTypeOK'
    BY DEF CancelSend, OnceNext, OnceBody, PcTypeOK, DispPcs, CallerPcs
  <1>5. GenBound'
    BY DEF CancelSend, OnceNext, OnceBody, GenBound, SetupAfterStop,
           CounterTypeOK
  <1>6. FreshGens'
    BY DEF CancelSend, OnceNext, OnceBody, FreshGens, CounterTypeOK,
           HandleTypeOK, HandlesIssued, SpawnOwnsCurrent, Gens
  <1>7. OldGensCancelled'
    BY DEF CancelSend, OnceNext, OnceBody, OldGensCancelled, SetupAfterStop,
           CurrentStopped, CounterTypeOK, Gens
  <1>8. OnceOrder'
    <2>1. oncePc[k] = 1 /\ oncePc' = [oncePc EXCEPT ![k] = 2]
      <3>1. oncePc[k] \in 1 .. 3 /\ OnceBody[oncePc[k]] = "send"
        BY DEF CancelSend, OnceNext
      <3>2. OnceBody[1] = "send" /\ OnceBody[2] = "unsub" /\ OnceBody[3] = "reset"
        BY DEF OnceBody
      <3>3. oncePc[k] = 1
        BY <3>1, <3>2
      <3>4. QED
        BY <3>3 DEF CancelSend, OnceNext
    <2>2. dispPc' = [dispPc EXCEPT ![k] = "exited"] /\ UNCHANGED subOpen
      BY DEF CancelSend
    <2>3. ASSUME NEW g \in Gens
          PROVE  /\ oncePc'[g] >= 2 => dispPc'[g] = "exited"
                 /\ oncePc'[g] >= 3 => oncePc[g] >= 3
      BY <2>1, <2>2 DEF OnceOrder, CounterTypeOK, PcTypeOK
    <2>4. QED
      BY <2>2, <2>3, Zenon DEF OnceOrder
  <1>9. IdleStopped'
    BY DEF CancelSend, OnceNext, OnceBody, IdleStopped, CurrentStopped,
           Starting, SpawnOwnsCurrent, SetupAfterStop, CounterTypeOK, Gens
  <1>10. SetupAfterStop'
    BY DEF CancelSend, OnceNext, OnceBody, SetupAfterStop, CurrentStopped,
           IdleStopped, Starting, CounterTypeOK, Gens
  <1>11. SpawnOwnsCurrent'
    BY DEF CancelSend, OnceNext, OnceBody, SpawnOwnsCurrent, SetupAfterStop,
           HandlesIssued, HandleTypeOK, CounterTypeOK, OneStarter, Starting,
           Gens
  <1>12. HandlesIssued'
    BY DEF CancelSend, OnceNext, OnceBody, HandlesIssued, CounterTypeOK,
           HandleTypeOK, SpawnOwnsCurrent, Gens
  <1>13. OneStarter'
    BY DEF CancelSend, OnceNext, OnceBody, OneStarter, Starting, IdleStopped,
           PcTypeOK
  <1>14. CancelHeld'
    BY DEF CancelSend, OnceNext, OnceBody, CancelHeld, HandlesIssued,
           HandleTypeOK, CounterTypeOK, PcTypeOK, Gens
  <1>15. QED
    BY <1>1, <1>2, <1>3, <1>4, <1>5, <1>6, <1>7, <1>8, <1>9, <1>10, <1>11, <1>12, <1>13, <1>14

\* CancelUnsub keeps the invariant.
LEMMA CancelUnsubKeeps ==
  ASSUME IInv, NEW k \in Gens, CancelUnsub(k)
  PROVE  IInv'
  <1> USE DEF IInv, LInv, TypeOK
  <1>1. FlagTypeOK'
    BY DEF CancelUnsub, OnceNext, OnceBody, FlagTypeOK
  <1>2. HandleTypeOK'
    BY DEF CancelUnsub, OnceNext, OnceBody, HandleTypeOK, Handles, Gens
  <1>3. CounterTypeOK'
    BY DEF CancelUnsub, OnceNext, OnceBody, CounterTypeOK, Gens
  <1>4. PcTypeOK'
    BY DEF CancelUnsub, OnceNext, OnceBody, PcTypeOK, DispPcs, CallerPcs
  <1>5. GenBound'
    BY DEF CancelUnsub, OnceNext, OnceBody, GenBound, SetupAfterStop,
           CounterTypeOK
  <1>6. FreshGens'
    BY DEF CancelUnsub, OnceNext, OnceBody, FreshGens, CounterTypeOK,
           HandleTypeOK, HandlesIssued, SpawnOwnsCurrent, Gens
  <1>7. OldGensCancelled'
    BY DEF CancelUnsub, OnceNext, OnceBody, OldGensCancelled, SetupAfterStop,
           CurrentStopped, CounterTypeOK, Gens
  <1>8. OnceOrder'
    <2>1. oncePc[k] = 2 /\ oncePc' = [oncePc EXCEPT ![k] = 3]
      <3>1. oncePc[k] \in 1 .. 3 /\ OnceBody[oncePc[k]] = "unsub"
        BY DEF CancelUnsub, OnceNext
      <3>2. OnceBody[1] = "send" /\ OnceBody[2] = "unsub" /\ OnceBody[3] = "reset"
        BY DEF OnceBody
      <3>3. oncePc[k] = 2
        BY <3>1, <3>2
      <3>4. QED
        BY <3>3 DEF CancelUnsub, OnceNext
    <2>2. subOpen' = [subOpen EXCEPT ![k] = FALSE] /\ UNCHANGED dispPc
      BY DEF CancelUnsub
    <2>3. ASSUME NEW g \in Gens
          PROVE  /\ oncePc'[g] >= 2 => oncePc[g] >= 2
                 /\ oncePc'[g] >= 3 => (g = k \/ oncePc[g] >= 3)
      BY <2>1 DEF CounterTypeOK
    <2>4. ASSUME NEW g \in Gens PROVE g = k => ~subOpen'[g]
      BY <2>2 DEF FlagTypeOK
    <2>5. ASSUME NEW g \in Gens PROVE g # k => subOpen'[g] = subOpen[g]
      BY <2>2 DEF FlagTypeOK
    <2>6. QED
      BY <2>2, <2>3, <2>4, <2>5, Zenon DEF OnceOrder
  <1>9. IdleStopped'
    BY DEF CancelUnsub, OnceNext, OnceBody, IdleStopped, CurrentStopped,
           Starting, SpawnOwnsCurrent, SetupAfterStop, CounterTypeOK, Gens
  <1>10. SetupAfterStop'
    BY DEF CancelUnsub, OnceNext, OnceBody, SetupAfterStop, CurrentStopped,
           IdleStopped, Starting, CounterTypeOK, Gens
  <1>11. SpawnOwnsCurrent'
    BY DEF CancelUnsub, OnceNext, OnceBody, SpawnOwnsCurrent, SetupAfterStop,
           HandlesIssued, HandleTypeOK, CounterTypeOK, OneStarter, Starting,
           Gens
  <1>12. HandlesIssued'
    BY DEF CancelUnsub, OnceNext, OnceBody, HandlesIssued, CounterTypeOK,
           HandleTypeOK, SpawnOwnsCurrent, Gens
  <1>13. OneStarter'
    BY DEF CancelUnsub, OnceNext, OnceBody, OneStarter, Starting,
           IdleStopped, PcTypeOK
  <1>14. CancelHeld'
    BY DEF CancelUnsub, OnceNext, OnceBody, CancelHeld, HandlesIssued,
           HandleTypeOK, CounterTypeOK, PcTypeOK, Gens
  <1>15. QED
    BY <1>1, <1>2, <1>3, <1>4, <1>5, <1>6, <1>7, <1>8, <1>9, <1>10, <1>11, <1>12, <1>13, <1>14

\* CancelReset keeps the invariant.
LEMMA CancelResetKeeps ==
  ASSUME IInv, NEW k \in Gens, CancelReset(k)
  PROVE  IInv'
  <1> USE DEF IInv, LInv, TypeOK
  <1>1. FlagTypeOK'
    BY DEF CancelReset, OnceNext, OnceBody, FlagTypeOK
  <1>2. HandleTypeOK'
    BY DEF CancelReset, OnceNext, OnceBody, HandleTypeOK, Handles, Gens
  <1>3. CounterTypeOK'
    BY DEF CancelReset, OnceNext, OnceBody, CounterTypeOK, Gens
  <1>4. PcTypeOK'
    BY DEF CancelReset, OnceNext, OnceBody, PcTypeOK, DispPcs, CallerPcs
  <1>5. GenBound'
    BY DEF CancelReset, OnceNext, OnceBody, GenBound, SetupAfterStop,
           CounterTypeOK
  <1>6. FreshGens'
    BY DEF CancelReset, OnceNext, OnceBody, FreshGens, CounterTypeOK,
           HandleTypeOK, HandlesIssued, SpawnOwnsCurrent, Gens
  <1>7. OldGensCancelled'
    BY DEF CancelReset, OnceNext, OnceBody, OldGensCancelled, SetupAfterStop,
           CurrentStopped, CounterTypeOK, Gens
  <1>8. OnceOrder'
    BY DEF CancelReset, OnceNext, OnceBody, OnceOrder, CounterTypeOK,
           SpawnOwnsCurrent, Gens
  <1>9. IdleStopped'
    <2>1. oncePc[k] = 3 /\ oncePc' = [oncePc EXCEPT ![k] = 4]
      <3>1. oncePc[k] \in 1 .. 3 /\ OnceBody[oncePc[k]] = "reset"
        BY DEF CancelReset, OnceNext
      <3>2. OnceBody[1] = "send" /\ OnceBody[2] = "unsub" /\ OnceBody[3] = "reset"
        BY DEF OnceBody
      <3>3. oncePc[k] = 3
        BY <3>1, <3>2
      <3>4. QED
        BY <3>3 DEF CancelReset, OnceNext
    <2>2. k = gen
      BY <2>1 DEF FreshGens, OldGensCancelled, CounterTypeOK, Gens
    <2>3. CurrentStopped'
      BY <2>1, <2>2 DEF CancelReset, CurrentStopped, CounterTypeOK
    <2>4. \A c \in Callers : pc[c] \notin Starting
      BY <2>1, <2>2 DEF SetupAfterStop, SpawnOwnsCurrent, CurrentStopped,
                        Starting, Gens
    <2>5. QED
      BY <2>3, <2>4 DEF CancelReset, IdleStopped
  <1>10. SetupAfterStop'
    BY DEF CancelReset, OnceNext, OnceBody, SetupAfterStop, CurrentStopped,
           IdleStopped, Starting, CounterTypeOK, Gens
  <1>11. SpawnOwnsCurrent'
    BY DEF CancelReset, OnceNext, OnceBody, SpawnOwnsCurrent, SetupAfterStop,
           HandlesIssued, HandleTypeOK, CounterTypeOK, OneStarter, Starting,
           Gens
  <1>12. HandlesIssued'
    BY DEF CancelReset, OnceNext, OnceBody, HandlesIssued, CounterTypeOK,
           HandleTypeOK, SpawnOwnsCurrent, Gens
  <1>13. OneStarter'
    BY DEF CancelReset, OnceNext, OnceBody, OneStarter, Starting,
           IdleStopped, PcTypeOK
  <1>14. CancelHeld'
    BY DEF CancelReset, OnceNext, OnceBody, CancelHeld, HandlesIssued,
           HandleTypeOK, CounterTypeOK, PcTypeOK, Gens
  <1>15. QED
    BY <1>1, <1>2, <1>3, <1>4, <1>5, <1>6, <1>7, <1>8, <1>9, <1>10, <1>11, <1>12, <1>13, <1>14
\* End of the step lemmas.

\* A stuttering step keeps the invariant.
LEMMA StutterKeeps ==
  ASSUME IInv, UNCHANGED vars
  PROVE  IInv'
  BY DEF vars, IInv, LInv, TypeOK, FlagTypeOK, HandleTypeOK, CounterTypeOK,
         PcTypeOK, GenBound, FreshGens, OldGensCancelled, OnceOrder,
         CurrentStopped, IdleStopped, SetupAfterStop, SpawnOwnsCurrent,
         HandlesIssued, OneStarter, CancelHeld

\* Every step of the lifecycle keeps the invariant.
LEMMA IInvStep == IInv /\ [Next]_vars => IInv'
  <1> SUFFICES ASSUME IInv, [Next]_vars PROVE IInv'
    OBVIOUS
  <1>1. ASSUME NEW c \in Callers,
               \/ StartCAS(c) \/ StartSetup(c) \/ StartSpawn(c)
               \/ StartReturn(c) \/ Restart(c) \/ ReadErr(c)
               \/ CallCancel(c) \/ CancelReturn(c)
        PROVE  IInv'
    BY <1>1, StartCASKeeps, StartSetupKeeps, StartSpawnKeeps,
       StartReturnKeeps, RestartKeeps, ReadErrKeeps, CallCancelKeeps,
       CancelReturnKeeps
  <1>2. ASSUME NEW k \in Gens,
               \/ DispFault(k) \/ CancelSend(k) \/ CancelUnsub(k)
               \/ CancelReset(k)
        PROVE  IInv'
    BY <1>2, DispFaultKeeps, CancelSendKeeps, CancelUnsubKeeps,
       CancelResetKeeps
  <1>3. CASE UNCHANGED vars
    BY <1>3, StutterKeeps
  <1>4. QED
    BY <1>1, <1>2, <1>3 DEF Next

\* The inductive invariant holds in every reachable state.
LEMMA IInvInvariant == Spec => []IInv
  BY IInvInit, IInvStep, PTL DEF Spec

\* In every behaviour of StartEventsListening and the cancel functions it
\* returns, with any number of callers and calls, the Client fields, the
\* per-subscription state and every caller's handles keep their types.
THEOREM LifecycleTypeCorrect == Spec => []TypeOK
  <1>1. IInv => TypeOK
    BY DEF IInv
  <1>2. QED
    BY <1>1, IInvInvariant, PTL

\* A subscription that is open or served by its dispatcher is the current
\* one: the CAS on isListening lets no start open a subscription before
\* the once body of the previous cancel function has reset the flag.
LEMMA LiveIsCurrent ==
  ASSUME IInv, NEW g \in Gens, Live(g)
  PROVE  g = gen
  <1> USE DEF IInv, LInv, TypeOK
  <1>1. ~(g > gen)
    BY DEF Live, FreshGens, CounterTypeOK, Gens
  <1>2. ~(g < gen)
    <2>1. SUFFICES ASSUME g < gen PROVE FALSE
      OBVIOUS
    <2>2. oncePc[g] = 4
      BY <2>1 DEF OldGensCancelled
    <2>3. dispPc[g] = "exited" /\ ~subOpen[g]
      BY <2>2 DEF OnceOrder, CounterTypeOK
    <2>4. QED
      BY <2>3 DEF Live
  <1>3. QED
    BY <1>1, <1>2 DEF CounterTypeOK, Gens

\* Spec I3 for every number of callers and calls: however the starts and
\* the cancel functions interleave, at most one storage subscription is
\* open or served by a running dispatcher goroutine.
THEOREM SingleFeed == Spec => []OneLiveFeed
  <1>1. IInv => OneLiveFeed
    <2> SUFFICES ASSUME IInv PROVE OneLiveFeed
      OBVIOUS
    <2> DEFINE LiveSet == {g \in Gens : Live(g)}
    <2>1. LiveSet \subseteq {gen}
      BY LiveIsCurrent
    <2>2. IsFiniteSet({gen}) /\ Cardinality({gen}) = 1
      BY FS_Singleton
    <2>3. Cardinality(LiveSet) <= Cardinality({gen})
      BY <2>1, <2>2, FS_Subset
    <2>4. QED
      BY <2>2, <2>3 DEF OneLiveFeed
  <1>2. QED
    BY <1>1, IInvInvariant, PTL


\* Every caller whose call of the cancel function returned, also one whose
\* call found the once body started by another caller, finds the dispatcher
\* of its subscription returned and the subscription closed: sync.Once.Do
\* returns only after the body has run to the end.
THEOREM CancelStops == Spec => []StoppedAfterCancel
  <1>1. IInv => StoppedAfterCancel
    <2> SUFFICES ASSUME IInv, NEW c \in Callers, pc[c] = "finished",
                        hCancel[c] # None
                 PROVE  ~subOpen[hCancel[c]] /\ dispPc[hCancel[c]] = "exited"
      BY DEF StoppedAfterCancel
    <2> USE DEF IInv, LInv, TypeOK
    <2>1. hCancel[c] \in Gens /\ oncePc[hCancel[c]] = 4
      BY DEF CancelHeld, CounterTypeOK, Gens
    <2>2. oncePc[hCancel[c]] >= 2 /\ oncePc[hCancel[c]] >= 3
      BY <2>1
    <2>3. QED
      BY <2>1, <2>2 DEF OnceOrder
  <1>2. QED
    BY <1>1, IInvInvariant, PTL


-----------------------------------------------------------------------------
(* Refinement of SubscriptionFeed.                                         *)

\* A start between its setup and its spawn holds a subscribed
\* subscription: the dispatcher goroutine is started on a subscription
\* that SubscribeStorageRaw opened and nobody has unsubscribed.
SpawnOpen == \A c \in Callers : pc[c] = "spawn" => subOpen[mine[c]]

FInv == IInv /\ SpawnOpen

LEMMA SpawnOpenStep ==
  ASSUME IInv, SpawnOpen, [Next]_vars
  PROVE  SpawnOpen'
  <1> USE DEF IInv, LInv, TypeOK
  <1>1. ASSUME NEW c \in Callers, StartSetup(c)
        PROVE  SpawnOpen'
    <2>1. \A d \in Callers : d # c => pc[d] # "spawn"
      BY <1>1 DEF StartSetup, OneStarter, Starting
    <2>2. CASE pc' = [pc EXCEPT ![c] = "failed"] /\ UNCHANGED <<gen, subOpen, mine>>
      BY <2>1, <2>2 DEF SpawnOpen, PcTypeOK
    <2>3. CASE /\ gen' = gen + 1
               /\ subOpen' = [subOpen EXCEPT ![gen + 1] = TRUE]
               /\ mine' = [mine EXCEPT ![c] = gen + 1]
               /\ pc' = [pc EXCEPT ![c] = "spawn"]
      <3>1. gen + 1 \in Gens
        BY <1>1 DEF StartSetup, SetupAfterStop, CounterTypeOK, Gens
      <3>2. subOpen'[gen + 1] /\ mine'[c] = gen + 1
        BY <2>3, <3>1 DEF FlagTypeOK, HandleTypeOK
      <3>3. QED
        BY <2>1, <2>3, <3>2 DEF SpawnOpen, PcTypeOK
    <2>4. QED
      BY <1>1, <2>2, <2>3 DEF StartSetup
  <1>2. ASSUME NEW g \in Gens, CancelUnsub(g)
        PROVE  SpawnOpen'
    <2>1. ASSUME NEW c \in Callers, pc[c] = "spawn" PROVE mine[c] # g
      <3>1. oncePc[g] \in 1 .. 3
        BY <1>2 DEF CancelUnsub, OnceNext
      <3>2. mine[c] = gen /\ oncePc[gen] = 0
        BY <2>1 DEF SpawnOwnsCurrent
      <3>3. QED
        BY <3>1, <3>2
    <2>2. QED
      BY <1>2, <2>1 DEF CancelUnsub, SpawnOpen, FlagTypeOK, HandleTypeOK
  <1>3. ASSUME NEW c \in Callers,
               \/ StartCAS(c) \/ StartSpawn(c) \/ StartReturn(c)
               \/ Restart(c) \/ ReadErr(c) \/ CallCancel(c) \/ CancelReturn(c)
        PROVE  SpawnOpen'
    <2>1. UNCHANGED <<subOpen, mine>>
      BY <1>3 DEF StartCAS, StartSpawn, StartReturn, Restart, ReadErr,
                  CallCancel, CancelReturn
    <2>2. \A d \in Callers : pc'[d] = "spawn" => pc[d] = "spawn" /\ d # c
      BY <1>3 DEF StartCAS, StartSpawn, StartReturn, Restart, ReadErr,
                  CallCancel, CancelReturn, PcTypeOK
    <2>3. QED
      BY <2>1, <2>2 DEF SpawnOpen
  <1>4. ASSUME NEW g \in Gens, DispFault(g) \/ CancelSend(g) \/ CancelReset(g)
        PROVE  SpawnOpen'
    BY <1>4 DEF DispFault, CancelSend, CancelReset, SpawnOpen
  <1>5. CASE UNCHANGED vars
    BY <1>5 DEF vars, SpawnOpen
  <1>6. QED
    BY <1>1, <1>2, <1>3, <1>4, <1>5 DEF Next

LEMMA FInvInvariant == Spec => []FInv
  <1>1. Init => FInv
    BY IInvInit DEF Init, FInv, SpawnOpen
  <1>2. FInv /\ [Next]_vars => FInv'
    BY IInvStep, SpawnOpenStep DEF FInv
  <1>3. QED
    BY <1>1, <1>2, PTL DEF Spec

\* A step that leaves the subscriptions, the dispatchers, the once bodies
\* as far as begun or not, and the returned cancel calls alone leaves the
\* abstract feed alone.
LEMMA FeedFrame ==
  ASSUME gen' = gen, subOpen' = subOpen, dispPc' = dispPc,
         \A g \in Gens : RequestedOf(g)' = RequestedOf(g),
         \A c \in Callers : ReturnedOf(c)' = ReturnedOf(c)
  PROVE  UNCHANGED Feed!fvars
  BY DEF Feed!fvars, StageOf, Live

\* A step of caller c that neither enters nor leaves "finished" and
\* touches no other caller's pc or handle leaves every ReturnedOf alone.
LEMMA ReturnedFrame ==
  ASSUME TypeOK, NEW c \in Callers,
         pc[c] # "finished", pc'[c] # "finished",
         \A d \in Callers : d # c => pc'[d] = pc[d] /\ hCancel'[d] = hCancel[d]
  PROVE  \A d \in Callers : ReturnedOf(d)' = ReturnedOf(d)
  BY DEF ReturnedOf

\* Steps that move the dispatcher between its select and a blocked error
\* report, or only touch one caller, leave the feed alone.
LEMMA FeedQuiet ==
  ASSUME IInv,
         \/ \E c \in Callers : StartCAS(c) \/ StartReturn(c) \/ ReadErr(c)
         \/ \E g \in Gens : DispFault(g) \/ CancelReset(g)
         \/ UNCHANGED vars
  PROVE  UNCHANGED Feed!fvars
  <1> USE DEF IInv, LInv, TypeOK
  <1>1. ASSUME NEW c \in Callers, StartCAS(c) \/ StartReturn(c)
        PROVE  UNCHANGED Feed!fvars
    <2>1. \A d \in Callers : ReturnedOf(d)' = ReturnedOf(d)
      <3>1. pc[c] # "finished" /\ pc'[c] # "finished"
        BY <1>1 DEF StartCAS, StartReturn, PcTypeOK
      <3>2. \A d \in Callers : d # c => pc'[d] = pc[d] /\ hCancel'[d] = hCancel[d]
        BY <1>1 DEF StartCAS, StartReturn, PcTypeOK, HandleTypeOK
      <3>3. QED
        BY <3>1, <3>2, ReturnedFrame
    <2>2. QED
      BY <1>1, <2>1, FeedFrame DEF StartCAS, StartReturn, RequestedOf
  <1>2. ASSUME NEW c \in Callers, ReadErr(c)
        PROVE  UNCHANGED Feed!fvars
    <2>1. \A g \in Gens : Live(g)' = Live(g)
      BY <1>2 DEF ReadErr, Live, PcTypeOK
    <2>2. QED
      BY <1>2, <2>1 DEF ReadErr, Feed!fvars, StageOf, RequestedOf, ReturnedOf
  <1>3. ASSUME NEW g \in Gens, DispFault(g)
        PROVE  UNCHANGED Feed!fvars
    <2>1. \A h \in Gens : Live(h)' = Live(h)
      BY <1>3 DEF DispFault, Live, PcTypeOK
    <2>2. QED
      BY <1>3, <2>1 DEF DispFault, Feed!fvars, StageOf, RequestedOf, ReturnedOf
  <1>4. ASSUME NEW g \in Gens, CancelReset(g)
        PROVE  UNCHANGED Feed!fvars
    <2>1. \A h \in Gens : RequestedOf(h)' = RequestedOf(h)
      BY <1>4 DEF CancelReset, OnceNext, RequestedOf, CounterTypeOK
    <2>2. QED
      BY <1>4, <2>1, FeedFrame DEF CancelReset, ReturnedOf
  <1>5. CASE UNCHANGED vars
    BY <1>5, FeedFrame DEF vars, RequestedOf, ReturnedOf
  <1>6. QED
    BY <1>1, <1>2, <1>3, <1>4, <1>5

\* Every subscription opened so far has been cancelled to the end when a
\* start is in its setup, so none is live.
LEMMA NoneLiveInSetup ==
  ASSUME IInv, NEW c \in Callers, pc[c] = "setup", NEW g \in Gens
  PROVE  StageOf(g) # "live"
  <1> USE DEF IInv, LInv, TypeOK
  <1>1. CASE g > gen
    BY <1>1 DEF StageOf
  <1>2. CASE g <= gen
    <2>1. oncePc[g] = 4
      BY <1>2 DEF SetupAfterStop, CurrentStopped, OldGensCancelled,
                  CounterTypeOK, Gens
    <2>2. ~Live(g)
      BY <2>1 DEF OnceOrder, Live
    <2>3. QED
      BY <2>2 DEF StageOf
  <1>3. QED
    BY <1>1, <1>2 DEF Gens, CounterTypeOK

\* A successful SubscribeStorageRaw is Open; a failed setup leaves the
\* feed alone.
LEMMA FeedSetup ==
  ASSUME IInv, NEW c \in Callers, StartSetup(c)
  PROVE  [Feed!Next]_Feed!fvars
  <1> USE DEF IInv, LInv, TypeOK
  <1>1. pc[c] = "setup"
    BY DEF StartSetup
  <1>2. \A d \in Callers : ReturnedOf(d)' = ReturnedOf(d)
    <2>1. pc'[c] # "finished"
      BY DEF StartSetup, PcTypeOK
    <2>2. \A d \in Callers : d # c => pc'[d] = pc[d] /\ hCancel'[d] = hCancel[d]
      BY DEF StartSetup, PcTypeOK
    <2>3. QED
      BY <1>1, <2>1, <2>2, ReturnedFrame
  <1>3. \A g \in Gens : RequestedOf(g)' = RequestedOf(g)
    BY DEF StartSetup, RequestedOf
  <1>4. CASE UNCHANGED <<gen, subOpen>>
    BY <1>2, <1>3, <1>4, FeedFrame DEF StartSetup
  <1>5. CASE /\ gen' = gen + 1
             /\ subOpen' = [subOpen EXCEPT ![gen + 1] = TRUE]
    <2>1. gen + 1 \in Gens
      BY <1>1 DEF SetupAfterStop, CounterTypeOK, Gens
    <2>2. \A g \in Gens : [g2 \in Gens |-> StageOf(g2)][g] # "live"
      BY <1>1, NoneLiveInSetup
    <2>3. ASSUME NEW g \in Gens
          PROVE  StageOf(g)' = IF g = gen + 1 THEN "live" ELSE StageOf(g)
      <3>1. CASE g = gen + 1
        BY <1>5, <2>1, <3>1 DEF StageOf, Live, FlagTypeOK
      <3>2. CASE g # gen + 1
        BY <1>5, <3>2 DEF StageOf, Live, FlagTypeOK, StartSetup, Gens,
                          CounterTypeOK
      <3>3. QED
        BY <3>1, <3>2
    <2>4. [g \in Gens |-> StageOf(g)]' =
            [[g \in Gens |-> StageOf(g)] EXCEPT ![gen + 1] = "live"]
      BY <2>1, <2>3
    <2>5. QED
      BY <1>2, <1>3, <1>5, <2>1, <2>2, <2>4 DEF Feed!Next, Feed!Open
  <1>6. QED
    BY <1>4, <1>5 DEF StartSetup

\* The dispatcher goroutine starts on the subscribed current subscription,
\* which stays live.
LEMMA FeedSpawn ==
  ASSUME IInv, SpawnOpen, NEW c \in Callers, StartSpawn(c)
  PROVE  UNCHANGED Feed!fvars
  <1> USE DEF IInv, LInv, TypeOK
  <1>1. pc[c] = "spawn" /\ mine[c] = gen /\ gen \in Gens /\ subOpen[gen]
    BY DEF StartSpawn, SpawnOwnsCurrent, SpawnOpen
  <1>2. \A g \in Gens : StageOf(g)' = StageOf(g)
    BY <1>1 DEF StartSpawn, StageOf, Live, PcTypeOK
  <1>3. \A d \in Callers : ReturnedOf(d)' = ReturnedOf(d)
    <2>1. pc'[c] # "finished"
      BY DEF StartSpawn, PcTypeOK
    <2>2. \A d \in Callers : d # c => pc'[d] = pc[d] /\ hCancel'[d] = hCancel[d]
      BY DEF StartSpawn, PcTypeOK
    <2>3. QED
      BY <1>1, <2>1, <2>2, ReturnedFrame
  <1>4. QED
    BY <1>2, <1>3 DEF StartSpawn, Feed!fvars, RequestedOf

\* The first call of a cancel function is RequestCancel of its
\* subscription; a nil cancel function panics and a later call waits,
\* and both leave the feed alone.
LEMMA FeedCallCancel ==
  ASSUME IInv, NEW c \in Callers, CallCancel(c)
  PROVE  [Feed!Next]_Feed!fvars
  <1> USE DEF IInv, LInv, TypeOK
  <1>1. pc[c] = "active"
    BY DEF CallCancel
  <1>2. CASE hCancel[c] = None
    <2>1. UNCHANGED <<gen, subOpen, dispPc, oncePc, pc, hCancel>>
      BY <1>2 DEF CallCancel
    <2>2. QED
      BY <2>1, FeedFrame DEF RequestedOf, ReturnedOf
  <1>3. CASE hCancel[c] # None
    <2> DEFINE h == hCancel[c]
    <2>1. h \in Gens /\ h <= gen
      BY <1>3 DEF HandlesIssued, Gens, CounterTypeOK
    <2>2. /\ pc' = [pc EXCEPT ![c] = "cancelling"]
          /\ oncePc' = IF oncePc[h] = 0 THEN [oncePc EXCEPT ![h] = 1]
                                         ELSE oncePc
          /\ UNCHANGED <<gen, subOpen, dispPc, hCancel>>
      BY <1>3 DEF CallCancel
    <2>3. \A d \in Callers : ReturnedOf(d)' = ReturnedOf(d)
      <3>1. pc'[c] # "finished"
        BY <2>2 DEF PcTypeOK
      <3>2. \A d \in Callers : d # c => pc'[d] = pc[d] /\ hCancel'[d] = hCancel[d]
        BY <2>2 DEF PcTypeOK
      <3>3. QED
        BY <1>1, <3>1, <3>2, ReturnedFrame
    <2>4. \A g \in Gens : StageOf(g)' = StageOf(g)
      BY <2>2 DEF StageOf, Live
    <2>5. CASE oncePc[h] = 0
      <3>1. [g \in Gens |-> RequestedOf(g)]' =
              [[g \in Gens |-> RequestedOf(g)] EXCEPT ![h] = TRUE]
        <4>1. oncePc' = [oncePc EXCEPT ![h] = 1]
          BY <2>2, <2>5
        <4>2. ASSUME NEW g \in Gens
              PROVE  RequestedOf(g)' = IF g = h THEN TRUE ELSE RequestedOf(g)
          <5>1. CASE g = h
            <6>1. oncePc'[g] = 1
              BY <2>1, <4>1, <5>1 DEF CounterTypeOK
            <6>2. RequestedOf(g)'
              BY <6>1 DEF RequestedOf
            <6>3. QED
              BY <5>1, <6>2
          <5>2. CASE g # h
            <6>1. oncePc'[g] = oncePc[g]
              BY <2>1, <4>1, <5>2 DEF CounterTypeOK
            <6>2. QED
              BY <5>2, <6>1 DEF RequestedOf
          <5>3. QED
            BY <5>1, <5>2
        <4>3. QED
          BY <2>1, <4>2
      <3>2. StageOf(h) # "unused" /\ ~RequestedOf(h)
        BY <2>1, <2>5 DEF StageOf, RequestedOf, h, Gens, CounterTypeOK
      <3>3. QED
        BY <2>1, <2>2, <2>3, <2>4, <3>1, <3>2
        DEF Feed!Next, Feed!RequestCancel
    <2>6. CASE oncePc[h] # 0
      BY <2>2, <2>3, <2>6, FeedFrame DEF RequestedOf
    <2>7. QED
      BY <2>5, <2>6
  <1>4. QED
    BY <1>2, <1>3

\* `done <- struct{}{}` stops the dispatcher: the subscription stays live
\* while it is subscribed, and stops if it was not.
LEMMA FeedCancelSend ==
  ASSUME IInv, NEW g \in Gens, CancelSend(g)
  PROVE  [Feed!Next]_Feed!fvars
  <1> USE DEF IInv, LInv, TypeOK
  <1>1. oncePc[g] = 1 /\ dispPc[g] = "loop" /\ g <= gen
    BY DEF CancelSend, OnceNext, OnceBody, FreshGens, Gens, CounterTypeOK
  <1>2. /\ oncePc' = [oncePc EXCEPT ![g] = 2]
        /\ dispPc' = [dispPc EXCEPT ![g] = "exited"]
        /\ UNCHANGED <<gen, subOpen, pc, hCancel>>
    BY <1>1 DEF CancelSend, OnceNext
  <1>3. \A h \in Gens : RequestedOf(h)' = RequestedOf(h)
    BY <1>1, <1>2 DEF RequestedOf, CounterTypeOK
  <1>4. \A d \in Callers : ReturnedOf(d)' = ReturnedOf(d)
    BY <1>2 DEF ReturnedOf
  <1>5. \A h \in Gens : h # g => StageOf(h)' = StageOf(h)
    BY <1>2 DEF StageOf, Live, PcTypeOK
  <1>6. CASE subOpen[g]
    <2>1. StageOf(g)' = StageOf(g)
      BY <1>1, <1>2, <1>6 DEF StageOf, Live
    <2>2. QED
      BY <1>2, <1>3, <1>4, <1>5, <2>1 DEF Feed!fvars
  <1>7. CASE ~subOpen[g]
    <2>1. StageOf(g) = "live" /\ StageOf(g)' = "stopped"
      BY <1>1, <1>2, <1>7 DEF StageOf, Live, FlagTypeOK, PcTypeOK, Gens,
                              CounterTypeOK
    <2>2. [h \in Gens |-> StageOf(h)]' =
            [[h \in Gens |-> StageOf(h)] EXCEPT ![g] = "stopped"]
      BY <1>5, <2>1
    <2>3. RequestedOf(g)
      BY <1>1 DEF RequestedOf
    <2>4. QED
      BY <1>2, <1>3, <1>4, <2>1, <2>2, <2>3 DEF Feed!Next, Feed!Stop
  <1>8. QED
    BY <1>6, <1>7

\* sub.Unsubscribe() of a subscription whose dispatcher has returned is
\* Stop.
LEMMA FeedCancelUnsub ==
  ASSUME IInv, NEW g \in Gens, CancelUnsub(g)
  PROVE  [Feed!Next]_Feed!fvars
  <1> USE DEF IInv, LInv, TypeOK
  <1>1. oncePc[g] = 2 /\ dispPc[g] = "exited" /\ g <= gen
    BY DEF CancelUnsub, OnceNext, OnceBody, OnceOrder, FreshGens, Gens,
           CounterTypeOK
  <1>2. /\ oncePc' = [oncePc EXCEPT ![g] = 3]
        /\ subOpen' = [subOpen EXCEPT ![g] = FALSE]
        /\ UNCHANGED <<gen, dispPc, pc, hCancel>>
    BY <1>1 DEF CancelUnsub, OnceNext
  <1>3. \A h \in Gens : RequestedOf(h)' = RequestedOf(h)
    BY <1>1, <1>2 DEF RequestedOf, CounterTypeOK
  <1>4. \A d \in Callers : ReturnedOf(d)' = ReturnedOf(d)
    BY <1>2 DEF ReturnedOf
  <1>5. \A h \in Gens : h # g => StageOf(h)' = StageOf(h)
    BY <1>2 DEF StageOf, Live, FlagTypeOK
  <1>6. CASE ~subOpen[g]
    <2>1. StageOf(g)' = StageOf(g)
      BY <1>1, <1>2, <1>6 DEF StageOf, Live
    <2>2. QED
      BY <1>2, <1>3, <1>4, <1>5, <2>1 DEF Feed!fvars
  <1>7. CASE subOpen[g]
    <2>1. StageOf(g) = "live" /\ StageOf(g)' = "stopped"
      BY <1>1, <1>2, <1>7 DEF StageOf, Live, FlagTypeOK, PcTypeOK, Gens,
                              CounterTypeOK
    <2>2. [h \in Gens |-> StageOf(h)]' =
            [[h \in Gens |-> StageOf(h)] EXCEPT ![g] = "stopped"]
      BY <1>5, <2>1
    <2>3. RequestedOf(g)
      BY <1>1 DEF RequestedOf
    <2>4. QED
      BY <1>2, <1>3, <1>4, <2>1, <2>2, <2>3 DEF Feed!Next, Feed!Stop
  <1>8. QED
    BY <1>6, <1>7

\* once.Do returning to a caller of the cancel function is Return: the
\* body has run to the end, so the dispatcher has returned and the
\* subscription is unsubscribed.
LEMMA FeedCancelReturn ==
  ASSUME IInv, NEW c \in Callers, CancelReturn(c)
  PROVE  [Feed!Next]_Feed!fvars
  <1> USE DEF IInv, LInv, TypeOK
  <1> DEFINE h == hCancel[c]
  <1>1. pc[c] = "cancelling" /\ oncePc[h] = 4
    BY DEF CancelReturn, OnceFinished
  <1>2. h \in Gens /\ h <= gen
    <2>1. h \in 1 .. gen
      BY <1>1 DEF CancelHeld, h
    <2>2. QED
      BY <2>1 DEF Gens, CounterTypeOK
  <1>3. /\ pc' = [pc EXCEPT ![c] = "finished"]
        /\ UNCHANGED <<gen, subOpen, dispPc, oncePc, hCancel>>
    BY DEF CancelReturn
  <1>4. StageOf(h) = "stopped" /\ RequestedOf(h)
    BY <1>1, <1>2 DEF OnceOrder, StageOf, Live, RequestedOf, Gens,
                      CounterTypeOK
  <1>5. ReturnedOf(c) = None /\ ReturnedOf(c)' = h
    BY <1>1, <1>3 DEF ReturnedOf, PcTypeOK
  <1>6. \A d \in Callers : d # c => ReturnedOf(d)' = ReturnedOf(d)
    BY <1>3 DEF ReturnedOf, PcTypeOK
  <1>7. [d \in Callers |-> ReturnedOf(d)]' =
          [[d \in Callers |-> ReturnedOf(d)] EXCEPT ![c] = h]
    BY <1>5, <1>6
  <1>8. \A g \in Gens : StageOf(g)' = StageOf(g) /\ RequestedOf(g)' = RequestedOf(g)
    BY <1>3 DEF StageOf, Live, RequestedOf
  <1>9. QED
    BY <1>2, <1>3, <1>4, <1>5, <1>7, <1>8 DEF Feed!Next, Feed!Return

\* A caller whose start failed goes on with the feed untouched; one whose
\* cancel call returned goes on and forgets it (Forget).
LEMMA FeedRestart ==
  ASSUME IInv, NEW c \in Callers, Restart(c)
  PROVE  [Feed!Next]_Feed!fvars
  <1> USE DEF IInv, LInv, TypeOK
  <1>1. /\ pc' = [pc EXCEPT ![c] = "idle"]
        /\ UNCHANGED <<gen, subOpen, dispPc, oncePc, hCancel>>
    BY DEF Restart
  <1>2. \A g \in Gens : RequestedOf(g)' = RequestedOf(g)
    BY <1>1 DEF RequestedOf
  <1>3. \A d \in Callers : d # c => ReturnedOf(d)' = ReturnedOf(d)
    BY <1>1 DEF ReturnedOf, PcTypeOK
  <1>4. ReturnedOf(c)' = None
    BY <1>1 DEF ReturnedOf, PcTypeOK
  <1>5. CASE pc[c] = "failed"
    <2>1. \A d \in Callers : ReturnedOf(d)' = ReturnedOf(d)
      BY <1>3, <1>4, <1>5 DEF ReturnedOf
    <2>2. QED
      BY <1>1, <1>2, <2>1, FeedFrame
  <1>6. CASE pc[c] = "finished"
    <2>1. ReturnedOf(c) # None
      BY <1>6 DEF ReturnedOf, CancelHeld
    <2>2. [d \in Callers |-> ReturnedOf(d)]' =
            [[d \in Callers |-> ReturnedOf(d)] EXCEPT ![c] = None]
      BY <1>3, <1>4
    <2>3. \A g \in Gens : StageOf(g)' = StageOf(g)
      BY <1>1 DEF StageOf, Live
    <2>4. QED
      BY <1>1, <1>2, <2>1, <2>2, <2>3 DEF Feed!Next, Feed!Forget
  <1>7. QED
    BY <1>5, <1>6 DEF Restart

\* StartEventsListening and the cancel functions implement the abstract
\* feed: every step is a step of SubscriptionFeed or leaves it alone.
LEMMA FeedStep ==
  ASSUME FInv, [Next]_vars
  PROVE  [Feed!Next]_Feed!fvars
  <1>1. IInv /\ SpawnOpen
    BY DEF FInv
  <1>2. ASSUME NEW c \in Callers,
               \/ StartCAS(c) \/ StartSetup(c) \/ StartSpawn(c)
               \/ StartReturn(c) \/ Restart(c) \/ ReadErr(c)
               \/ CallCancel(c) \/ CancelReturn(c)
        PROVE  [Feed!Next]_Feed!fvars
    BY <1>1, <1>2, FeedQuiet, FeedSetup, FeedSpawn, FeedRestart,
       FeedCallCancel, FeedCancelReturn
  <1>3. ASSUME NEW g \in Gens,
               \/ DispFault(g) \/ CancelSend(g) \/ CancelUnsub(g)
               \/ CancelReset(g)
        PROVE  [Feed!Next]_Feed!fvars
    BY <1>1, <1>3, FeedQuiet, FeedCancelSend, FeedCancelUnsub
  <1>4. CASE UNCHANGED vars
    BY <1>1, <1>4, FeedQuiet
  <1>5. QED
    BY <1>2, <1>3, <1>4 DEF Next

\* For every number of callers and calls, StartEventsListening and its
\* cancel functions implement SubscriptionFeed (spec 4.1, I3 and P6):
\* subscriptions open one at a time and in order, each while no other is
\* subscribed or served by its dispatcher; one stops only after a call of
\* its cancel function began the once body, and never serves again; and a
\* call of the cancel function returns only when its subscription has
\* stopped.
THEOREM ImplementsFeed == Spec => FeedRefined
  <1>1. Init => Feed!Init
    <2> SUFFICES ASSUME Init PROVE Feed!Init
      OBVIOUS
    <2>1. \A g \in Gens : StageOf(g) = "unused"
      BY DEF Init, StageOf, Gens
    <2>2. \A g \in Gens : RequestedOf(g) = FALSE
      BY DEF Init, RequestedOf
    <2>3. \A c \in Callers : ReturnedOf(c) = None
      BY DEF Init, ReturnedOf
    <2>4. [g \in Gens |-> StageOf(g)] = [g \in Gens |-> "unused"]
      BY <2>1
    <2>5. [g \in Gens |-> RequestedOf(g)] = [g \in Gens |-> FALSE]
      BY <2>2
    <2>6. [c \in Callers |-> ReturnedOf(c)] = [c \in Callers |-> None]
      BY <2>3
    <2>7. gen = 0
      BY DEF Init
    <2>8. QED
      BY <2>4, <2>5, <2>6, <2>7 DEF Feed!Init
  <1>2. FInv /\ [Next]_vars => [Feed!Next]_Feed!fvars
    BY FeedStep
  <1>3. QED
    BY <1>1, <1>2, FInvInvariant, PTL DEF Spec, FeedRefined, Feed!Spec

=============================================================================
