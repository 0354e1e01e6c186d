------------------------ MODULE EventsListenerProofs ------------------------
(***************************************************************************)
(* Proofs about EventsListener for every value of the constants.          *)
(***************************************************************************)
EXTENDS EventsListener, SequenceTheorems, TLAPS

USE ConstantsAssumption

-----------------------------------------------------------------------------
(* Lemmas on the helpers.                                                  *)

\* A record of one callback invocation.
CallRecord == [h : Nat, via : Vias, late : BOOLEAN]

\* Recording one more call of a user callback keeps the history typed.
LEMMA DeliverKeepsType ==
  ASSUME NEW l \in Listeners, NEW x \in Nat, NEW v \in Vias,
         HistoryTypeOK, cancelled[l] \in BOOLEAN, Deliver(l, x, v)
  PROVE  HistoryTypeOK'
  <1>1. delivered[l] \in Seq(CallRecord)
    BY DEF HistoryTypeOK, CallRecord
  <1>2. [h |-> x, via |-> v, late |-> cancelled[l]] \in CallRecord
    BY DEF CallRecord
  <1>3. Append(delivered[l], [h |-> x, via |-> v, late |-> cancelled[l]])
          \in Seq(CallRecord)
    BY <1>1, <1>2
  <1>4. QED
    BY <1>3 DEF Deliver, HistoryTypeOK, CallRecord

\* A subset of the naturals with the zero sentinel added stays in Nat:
\* the sentinel 0 the Go code uses for "no block" is itself a height.
LEMMA NatOrZero ==
  ASSUME NEW S, S \subseteq Nat, NEW x \in S \cup {0}
  PROVE  x \in Nat
  OBVIOUS

-----------------------------------------------------------------------------
(* Type correctness.                                                       *)

\* The initial state is typed.
LEMMA TypeInit == Init => TypeOK
    <2> SUFFICES ASSUME Init PROVE TypeOK
      OBVIOUS
    <2>1. ChainTypeOK
      BY DEF Init, ChainTypeOK, Heights
    <2>2. FlagsTypeOK
      BY DEF Init, FlagsTypeOK
    <2>3. RegistryTypeOK /\ QueueTypeOK /\ BackfillTypeOK
      BY DEF Init, RegistryTypeOK, Ids, RegPcs, QueueTypeOK, Heights,
             BackfillTypeOK, BfPcs
    <2>4. TaskTypeOK /\ HistoryTypeOK
      BY DEF Init, TaskTypeOK, HistoryTypeOK
    <2>5. QED
      BY <2>1, <2>2, <2>3, <2>4 DEF TypeOK

\* Every step of the engine keeps the variables in their types.
LEMMA TypeStep == TypeOK /\ [Next]_vars => TypeOK'
    <2> SUFFICES ASSUME TypeOK, [Next]_vars PROVE TypeOK'
      OBVIOUS
    <2> USE DEF TypeOK
    <2>1. CASE NewBlock
      <3>1. ChainTypeOK'
        BY <2>1 DEF NewBlock, ChainTypeOK, Heights
      <3>2. FlagsTypeOK'
        BY <2>1 DEF NewBlock, FlagsTypeOK
      <3>3. (RegistryTypeOK /\ QueueTypeOK /\ BackfillTypeOK /\ TaskTypeOK
             /\ HistoryTypeOK)'
        BY <2>1 DEF NewBlock, RegistryTypeOK, QueueTypeOK, BackfillTypeOK,
                    TaskTypeOK, HistoryTypeOK
      <3>4. QED
        BY <3>1, <3>2, <3>3
    <2>2. CASE Dispatch
      <3>1. ChainTypeOK'
        BY <2>2 DEF Dispatch, ChainTypeOK, Heights
      <3>2. TaskTypeOK'
        BY <2>2 DEF Dispatch, TaskTypeOK, ChainTypeOK, RegistryTypeOK,
                    Registered, Heights
      <3>3. FlagsTypeOK'
        BY <2>2 DEF Dispatch, FlagsTypeOK
      <3>4. (RegistryTypeOK /\ QueueTypeOK /\ BackfillTypeOK
             /\ HistoryTypeOK)'
        BY <2>2 DEF Dispatch, RegistryTypeOK, QueueTypeOK, BackfillTypeOK,
                    HistoryTypeOK
      <3>5. QED
        BY <3>1, <3>2, <3>3, <3>4
    <2>3. ASSUME NEW l \in Listeners, RegisterScan(l) PROVE TypeOK'
      <3>1. RegistryTypeOK'
        BY <2>3 DEF RegisterScan, RegistryTypeOK, FreeIds, RegPcs
      <3>2. FlagsTypeOK'
        BY <2>3 DEF RegisterScan, FlagsTypeOK
      <3>3. (ChainTypeOK /\ QueueTypeOK /\ BackfillTypeOK /\ TaskTypeOK
             /\ HistoryTypeOK)'
        BY <2>3 DEF RegisterScan, ChainTypeOK, QueueTypeOK, BackfillTypeOK,
                    TaskTypeOK, HistoryTypeOK
      <3>4. QED
        BY <3>1, <3>2, <3>3
    <2>4. ASSUME NEW l \in Listeners, RegisterInstall(l) PROVE TypeOK'
      <3>1. RegistryTypeOK'
        BY <2>4 DEF RegisterInstall, RegistryTypeOK, RegPcs
      <3>2. BackfillTypeOK'
        BY <2>4 DEF RegisterInstall, BackfillTypeOK, BfPcs
      <3>3. FlagsTypeOK'
        BY <2>4 DEF RegisterInstall, FlagsTypeOK
      <3>4. (ChainTypeOK /\ QueueTypeOK /\ TaskTypeOK /\ HistoryTypeOK)'
        BY <2>4 DEF RegisterInstall, ChainTypeOK, QueueTypeOK, TaskTypeOK,
                    HistoryTypeOK
      <3>5. QED
        BY <3>1, <3>2, <3>3, <3>4
    <2>5. ASSUME NEW l \in Listeners, Cancel(l) PROVE TypeOK'
      <3>1. RegistryTypeOK'
        BY <2>5 DEF Cancel, RegistryTypeOK
      <3>2. FlagsTypeOK'
        BY <2>5 DEF Cancel, FlagsTypeOK
      <3>3. (ChainTypeOK /\ QueueTypeOK /\ BackfillTypeOK /\ TaskTypeOK
             /\ HistoryTypeOK)'
        BY <2>5 DEF Cancel, ChainTypeOK, QueueTypeOK, BackfillTypeOK,
                    TaskTypeOK, HistoryTypeOK
      <3>4. QED
        BY <3>1, <3>2, <3>3
    <2>6. ASSUME NEW l \in Listeners, BackfillWait(l) PROVE TypeOK'
      <3>1. BackfillTypeOK'
        <4>1. bfPc' \in [Listeners -> BfPcs]
          BY <2>6 DEF BackfillWait, BackfillTypeOK, BfPcs
        <4>2. begin[l] \in Nat
          <5>1. begin[l] \in Begins \cup {0}
            BY DEF RegistryTypeOK
          <5>2. Begins \subseteq Nat
            BY ConstantsAssumption, Zenon
          <5>3. QED
            BY <5>1, <5>2, NatOrZero
        <4>3. cur' \in [Listeners -> Nat]
          BY <2>6, <4>2 DEF BackfillWait, BackfillTypeOK
        <4>4. QED
          BY <2>6, <4>1, <4>3 DEF BackfillWait, BackfillTypeOK
      <3>2. FlagsTypeOK'
        BY <2>6 DEF BackfillWait, FlagsTypeOK
      <3>3. (ChainTypeOK /\ RegistryTypeOK /\ QueueTypeOK /\ TaskTypeOK
             /\ HistoryTypeOK)'
        BY <2>6 DEF BackfillWait, ChainTypeOK, RegistryTypeOK, QueueTypeOK,
                    TaskTypeOK, HistoryTypeOK
      <3>4. QED
        BY <3>1, <3>2, <3>3
    <2>7. ASSUME NEW l \in Listeners, BackfillMeta(l) PROVE TypeOK'
      <3>1. BackfillTypeOK'
        BY <2>7 DEF BackfillMeta, BackfillTypeOK, BfPcs
      <3>2. FlagsTypeOK'
        BY <2>7 DEF BackfillMeta, FlagsTypeOK
      <3>3. (ChainTypeOK /\ RegistryTypeOK /\ QueueTypeOK /\ TaskTypeOK
             /\ HistoryTypeOK)'
        BY <2>7 DEF BackfillMeta, ChainTypeOK, RegistryTypeOK, QueueTypeOK,
                    TaskTypeOK, HistoryTypeOK
      <3>4. QED
        BY <3>1, <3>2, <3>3
    <2>8. ASSUME NEW l \in Listeners, BackfillBlock(l) PROVE TypeOK'
      <3>1. BackfillTypeOK'
        BY <2>8 DEF BackfillBlock, BackfillTypeOK, BfPcs
      <3>2. HistoryTypeOK'
        BY <2>8 DEF BackfillBlock, HistoryTypeOK
      <3>3. FlagsTypeOK'
        BY <2>8 DEF BackfillBlock, FlagsTypeOK
      <3>4. (ChainTypeOK /\ RegistryTypeOK /\ QueueTypeOK /\ TaskTypeOK)'
        BY <2>8 DEF BackfillBlock, ChainTypeOK, RegistryTypeOK, QueueTypeOK,
                    TaskTypeOK
      <3>5. QED
        BY <3>1, <3>2, <3>3, <3>4
    <2>9. ASSUME NEW l \in Listeners, BackfillFinish(l) PROVE TypeOK'
      <3>1. BackfillTypeOK'
        BY <2>9 DEF BackfillFinish, BackfillTypeOK, BfPcs
      <3>2. FlagsTypeOK'
        BY <2>9 DEF BackfillFinish, FlagsTypeOK
      <3>3. (ChainTypeOK /\ RegistryTypeOK /\ QueueTypeOK /\ TaskTypeOK
             /\ HistoryTypeOK)'
        BY <2>9 DEF BackfillFinish, ChainTypeOK, RegistryTypeOK, QueueTypeOK,
                    TaskTypeOK, HistoryTypeOK
      <3>4. QED
        BY <3>1, <3>2, <3>3
    <2>10. ASSUME NEW l \in Listeners, Drain(l) PROVE TypeOK'
      <3>1. CASE DrainCloses(l)
        <4>1. FlagsTypeOK'
          BY <2>10, <3>1 DEF Drain, FlagsTypeOK
        <4>2. BackfillTypeOK'
          BY <2>10, <3>1 DEF Drain, BackfillTypeOK, BfPcs
        <4>3. (ChainTypeOK /\ RegistryTypeOK /\ QueueTypeOK /\ TaskTypeOK
               /\ HistoryTypeOK)'
          BY <2>10, <3>1 DEF Drain, ChainTypeOK, RegistryTypeOK, QueueTypeOK,
                             TaskTypeOK, HistoryTypeOK
        <4>4. QED
          BY <4>1, <4>2, <4>3
      <3>2. CASE ~DrainCloses(l)
        <4>1. Head(pending[l]) \in Nat
          BY <3>2 DEF DrainCloses, QueueTypeOK, Heights
        <4>2. HistoryTypeOK'
          BY <2>10, <3>2, <4>1, DeliverKeepsType DEF Drain, Vias, FlagsTypeOK
        <4>3. QueueTypeOK'
          <5>1. Tail(pending[l]) \in Seq(Heights)
            BY <3>2 DEF DrainCloses, QueueTypeOK
          <5>2. QED
            BY <2>10, <3>2, <5>1 DEF Drain, QueueTypeOK
        <4>4. FlagsTypeOK'
          BY <2>10, <3>2 DEF Drain, FlagsTypeOK
        <4>5. (ChainTypeOK /\ RegistryTypeOK /\ BackfillTypeOK
               /\ TaskTypeOK)'
          BY <2>10, <3>2 DEF Drain, ChainTypeOK, RegistryTypeOK,
                             BackfillTypeOK, TaskTypeOK
        <4>6. QED
          BY <4>2, <4>3, <4>4, <4>5
      <3>3. QED
        BY <3>1, <3>2
    <2>11. ASSUME NEW t \in casTasks, WrapperCAS(t[1], t[2]) PROVE TypeOK'
      <3>1. t[1] \in Listeners /\ t[2] \in Heights
        BY DEF TaskTypeOK
      <3>2. QueueTypeOK' /\ TaskTypeOK'
        BY <2>11, <3>1 DEF WrapperCAS, QueueTypeOK, TaskTypeOK
      <3>3. FlagsTypeOK'
        BY <2>11, <3>1 DEF WrapperCAS, FlagsTypeOK
      <3>4. (ChainTypeOK /\ RegistryTypeOK /\ BackfillTypeOK
             /\ HistoryTypeOK)'
        BY <2>11 DEF WrapperCAS, ChainTypeOK, RegistryTypeOK, BackfillTypeOK,
                     HistoryTypeOK
      <3>5. QED
        BY <3>2, <3>3, <3>4
    <2>12. ASSUME NEW t \in pushTasks, WrapperPush(t[1], t[2]) PROVE TypeOK'
      <3>1. t[1] \in Listeners /\ t[2] \in Heights
        BY DEF TaskTypeOK
      <3>2. QueueTypeOK' /\ TaskTypeOK'
        <4>1. CASE TryPushAccepts(t[1])
          <5>1. Append(pending[t[1]], t[2]) \in Seq(Heights)
            BY <3>1 DEF QueueTypeOK
          <5>2. QED
            BY <2>12, <3>1, <4>1, <5>1 DEF WrapperPush, QueueTypeOK, TaskTypeOK
        <4>2. CASE ~TryPushAccepts(t[1])
          BY <2>12, <3>1, <4>2 DEF WrapperPush, QueueTypeOK, TaskTypeOK
        <4>3. QED
          BY <4>1, <4>2
      <3>3. HistoryTypeOK'
        <4>1. CASE TryPushAccepts(t[1])
          BY <2>12, <4>1 DEF WrapperPush, HistoryTypeOK
        <4>2. CASE ~TryPushAccepts(t[1])
          BY <2>12, <3>1, <4>2, DeliverKeepsType
          DEF WrapperPush, Vias, Heights, FlagsTypeOK
        <4>3. QED
          BY <4>1, <4>2
      <3>4. FlagsTypeOK'
        BY <2>12 DEF WrapperPush, FlagsTypeOK
      <3>5. (ChainTypeOK /\ RegistryTypeOK /\ BackfillTypeOK)'
        BY <2>12 DEF WrapperPush, ChainTypeOK, RegistryTypeOK, BackfillTypeOK
      <3>6. QED
        BY <3>2, <3>3, <3>4, <3>5
    <2>13. CASE UNCHANGED vars
      <3>1. FlagsTypeOK'
        BY <2>13 DEF vars, FlagsTypeOK
      <3>2. (ChainTypeOK /\ RegistryTypeOK /\ QueueTypeOK /\ BackfillTypeOK
             /\ TaskTypeOK /\ HistoryTypeOK)'
        BY <2>13 DEF vars, ChainTypeOK, RegistryTypeOK, QueueTypeOK,
                     BackfillTypeOK, TaskTypeOK, HistoryTypeOK
      <3>3. QED
        BY <3>1, <3>2
    <2>15. ASSUME NEW l \in Listeners, BackfillCall(l) PROVE TypeOK'
      <3>1. BackfillTypeOK'
        BY <2>15 DEF BackfillCall, BackfillTypeOK, BfPcs
      <3>2. HistoryTypeOK'
        BY <2>15, DeliverKeepsType DEF BackfillCall, BackfillTypeOK,
                                       FlagsTypeOK, Vias
      <3>3. FlagsTypeOK'
        BY <2>15 DEF BackfillCall, FlagsTypeOK
      <3>4. (ChainTypeOK /\ RegistryTypeOK /\ QueueTypeOK /\ TaskTypeOK)'
        BY <2>15 DEF BackfillCall, ChainTypeOK, RegistryTypeOK, QueueTypeOK,
                     TaskTypeOK
      <3>5. QED
        BY <3>1, <3>2, <3>3, <3>4
    <2>14. QED
      BY <2>1, <2>2, <2>3, <2>4, <2>5, <2>6, <2>7, <2>8, <2>9, <2>10,
         <2>11, <2>12, <2>13, <2>15 DEF Next

\* In every behaviour of the engine the variables keep their types: ids chosen
\* by the scan in RegisterEventsListener are ids, fanned-out wrapper
\* goroutines carry dispatched heights, the pending queue and the callback
\* history only ever hold block heights.
THEOREM TypeCorrect == Spec => []TypeOK
  BY TypeInit, TypeStep, PTL DEF Spec


-----------------------------------------------------------------------------
(* The replay comes first.                                                 *)

\* A callback history in which only backfill calls were made.
AllBackfill(s) == \A i \in DOMAIN s : s[i].via = "backfill"

\* A callback history in which no backfill call follows a live one.
HistoryPrecedes(s) ==
  \A i, j \in DOMAIN s :
    (i < j /\ s[j].via = "backfill") => s[i].via = "backfill"

\* Until the backfill goroutine reaches pendingEvents.Do, the callback has
\* only been called by the backfill loop: wrappers push while the queue is
\* not done, and the queue is done only once Do has run.
ReplayOnly(m) == bfPc[m] \notin {"drain", "end"} => AllBackfill(delivered[m])

\* The queue is done only after Do ran and found it empty.
ClosedDrained(m) == done[m] => (bfPc[m] = "end" /\ pending[m] = <<>>)

\* A backfill goroutine exists only for a call that installed its wrapper.
BackfillRegistered(m) == bfPc[m] # "none" => regPc[m] = "registered"

ListenerInv(m) ==
  /\ ReplayOnly(m)
  /\ ClosedDrained(m)
  /\ BackfillRegistered(m)
  /\ HistoryPrecedes(delivered[m])

\* The inductive invariant.
IInv == TypeOK /\ \A m \in Listeners : ListenerInv(m)

\* Appending a backfill call to a history of backfill calls.
LEMMA AppendAllBackfill ==
  ASSUME NEW s \in Seq(CallRecord), NEW x \in Nat, NEW b \in BOOLEAN,
         AllBackfill(s)
  PROVE  AllBackfill(Append(s, [h |-> x, via |-> "backfill", late |-> b]))
  BY DEF AllBackfill, CallRecord

\* Appending a call keeps the order of the history when it is a live call,
\* or a backfill call made while only backfill calls were made.
LEMMA AppendPrecedes ==
  ASSUME NEW s \in Seq(CallRecord), NEW r \in CallRecord, HistoryPrecedes(s),
         r.via = "backfill" => AllBackfill(s)
  PROVE  HistoryPrecedes(Append(s, r))
  BY DEF HistoryPrecedes, AllBackfill, CallRecord

\* A step that leaves a listener's history, program counters, queue and done
\* flag alone keeps its part of the invariant.
LEMMA LocalFrame ==
  ASSUME NEW m, ListenerInv(m),
         delivered'[m] = delivered[m], bfPc'[m] = bfPc[m],
         done'[m] = done[m], pending'[m] = pending[m], regPc'[m] = regPc[m]
  PROVE  ListenerInv(m)'
  BY Zenon DEF ListenerInv, ReplayOnly, ClosedDrained, BackfillRegistered

LEMMA IInvInit == Init => IInv
  <1> SUFFICES ASSUME Init PROVE IInv
    OBVIOUS
  <1>1. TypeOK
    BY TypeInit
  <1>2. ASSUME NEW m \in Listeners PROVE ListenerInv(m)
    BY DEF Init, ListenerInv, ReplayOnly, ClosedDrained, BackfillRegistered,
           AllBackfill, HistoryPrecedes
  <1>3. QED
    BY <1>1, <1>2 DEF IInv


\* Steps that touch no listener's history, counters, queue or done flag:
\* the chain, the dispatcher, the cancel function and the CAS of a wrapper.
LEMMA FrameSteps ==
  ASSUME IInv, NEW m \in Listeners,
         \/ NewBlock \/ Dispatch \/ UNCHANGED vars
         \/ \E l \in Listeners : Cancel(l)
         \/ \E t \in casTasks : WrapperCAS(t[1], t[2])
  PROVE  ListenerInv(m)'
  <1>1. ListenerInv(m)
    BY DEF IInv
  <1>2. UNCHANGED <<delivered, bfPc, done, pending, regPc>>
    BY DEF NewBlock, Dispatch, vars, Cancel, WrapperCAS
  <1>3. QED
    BY <1>1, <1>2, LocalFrame

\* The rest of a step of listener l leaves the other listeners alone.
LEMMA OtherListener ==
  ASSUME IInv, NEW l \in Listeners, NEW m \in Listeners, m # l,
         \/ RegisterScan(l) \/ RegisterInstall(l) \/ BackfillWait(l)
         \/ BackfillMeta(l) \/ BackfillBlock(l) \/ BackfillCall(l)
         \/ BackfillFinish(l) \/ Drain(l)
         \/ \E h \in Heights : WrapperPush(l, h)
  PROVE  ListenerInv(m)'
  <1>1. ListenerInv(m)
    BY DEF IInv
  <1>2. /\ delivered \in [Listeners -> Seq(CallRecord)]
        /\ bfPc \in [Listeners -> BfPcs]
        /\ done \in [Listeners -> BOOLEAN]
        /\ pending \in [Listeners -> Seq(Heights)]
        /\ regPc \in [Listeners -> RegPcs]
    BY DEF IInv, TypeOK, HistoryTypeOK, CallRecord, BackfillTypeOK,
           FlagsTypeOK, QueueTypeOK, RegistryTypeOK
  <1>3. delivered'[m] = delivered[m]
    BY <1>2 DEF RegisterScan, RegisterInstall, BackfillWait, BackfillMeta,
                BackfillBlock, BackfillCall, BackfillFinish, Drain,
                WrapperPush, Deliver
  <1>4. bfPc'[m] = bfPc[m] /\ regPc'[m] = regPc[m]
    BY <1>2 DEF RegisterScan, RegisterInstall, BackfillWait, BackfillMeta,
                BackfillBlock, BackfillCall, BackfillFinish, Drain,
                WrapperPush
  <1>5. done'[m] = done[m] /\ pending'[m] = pending[m]
    BY <1>2 DEF RegisterScan, RegisterInstall, BackfillWait, BackfillMeta,
                BackfillBlock, BackfillCall, BackfillFinish, Drain,
                WrapperPush
  <1>6. QED
    BY <1>1, <1>3, <1>4, <1>5, LocalFrame


\* RegisterScan: a call that has not installed its wrapper has no backfill
\* goroutine, so its history is empty of live calls and its queue untouched.
LEMMA ScanKeeps ==
  ASSUME IInv, NEW l \in Listeners, RegisterScan(l)
  PROVE  ListenerInv(l)'
  <1>1. ListenerInv(l)
    BY DEF IInv
  <1>2. bfPc[l] = "none"
    BY <1>1 DEF RegisterScan, ListenerInv, BackfillRegistered
  <1>3. UNCHANGED <<delivered, bfPc, done, pending>>
    BY DEF RegisterScan
  <1>4. QED
    BY <1>1, <1>2, <1>3, Zenon
    DEF ListenerInv, ReplayOnly, ClosedDrained, BackfillRegistered

\* RegisterInstall starts the backfill goroutine of a call whose queue was
\* never closed.
LEMMA InstallKeeps ==
  ASSUME IInv, NEW l \in Listeners, RegisterInstall(l)
  PROVE  ListenerInv(l)'
  <1>1. ListenerInv(l)
    BY DEF IInv
  <1>2. bfPc[l] = "none"
    BY <1>1 DEF RegisterInstall, ListenerInv, BackfillRegistered
  <1>3. ~done[l]
    BY <1>1, <1>2 DEF ListenerInv, ClosedDrained
  <1>4. bfPc'[l] = "wait" /\ regPc'[l] = "registered"
    BY DEF RegisterInstall, IInv, TypeOK, BackfillTypeOK, RegistryTypeOK
  <1>5. UNCHANGED <<delivered, done, pending>>
    BY DEF RegisterInstall
  <1>6. QED
    BY <1>1, <1>2, <1>3, <1>4, <1>5, Zenon
    DEF ListenerInv, ReplayOnly, ClosedDrained, BackfillRegistered

\* The steps of the backfill goroutine before Do that call no callback,
\* among them the fetch, decode and `cancelled` check of a replayed block.
LEMMA PhaseKeeps ==
  ASSUME IInv, NEW l \in Listeners,
         \/ BackfillWait(l) \/ BackfillMeta(l) \/ BackfillBlock(l)
         \/ BackfillFinish(l)
  PROVE  ListenerInv(l)'
  <1>1. ListenerInv(l)
    BY DEF IInv
  <1>2. bfPc[l] \in {"wait", "meta", "loop"}
    BY DEF BackfillWait, BackfillMeta, BackfillBlock, BackfillFinish
  <1>3. ~done[l] /\ regPc[l] = "registered" /\ AllBackfill(delivered[l])
    BY <1>1, <1>2 DEF ListenerInv, ClosedDrained, BackfillRegistered, ReplayOnly
  <1>4. bfPc'[l] \in {"exit", "meta", "loop", "call", "drain"}
    BY DEF BackfillWait, BackfillMeta, BackfillBlock, BackfillFinish, IInv,
           TypeOK, BackfillTypeOK
  <1>5. UNCHANGED <<delivered, done, pending, regPc>>
    BY DEF BackfillWait, BackfillMeta, BackfillBlock, BackfillFinish
  <1>6. QED
    BY <1>1, <1>3, <1>4, <1>5, Zenon
    DEF ListenerInv, ReplayOnly, ClosedDrained, BackfillRegistered


\* The facts about listener l that a step of its own needs.
LEMMA ListenerFacts ==
  ASSUME IInv, NEW l \in Listeners
  PROVE  /\ ListenerInv(l)
         /\ delivered[l] \in Seq(CallRecord)
         /\ delivered \in [Listeners -> Seq(CallRecord)]
  BY DEF IInv, TypeOK, HistoryTypeOK, CallRecord

\* The callback of a replayed block: a backfill call made while only
\* backfill calls were made.
LEMMA CallKeeps ==
  ASSUME IInv, NEW l \in Listeners, BackfillCall(l)
  PROVE  ListenerInv(l)'
  <1>1. ListenerInv(l) /\ delivered[l] \in Seq(CallRecord)
    BY ListenerFacts
  <1>2. ~done[l] /\ regPc[l] = "registered" /\ AllBackfill(delivered[l])
    BY <1>1 DEF BackfillCall, ListenerInv, ClosedDrained, BackfillRegistered,
                ReplayOnly
  <1>3. UNCHANGED <<done, pending, regPc>>
    BY DEF BackfillCall
  <1>4. bfPc'[l] = "loop"
    BY DEF BackfillCall, IInv, TypeOK, BackfillTypeOK
  <1>5. AllBackfill(delivered'[l]) /\ HistoryPrecedes(delivered'[l])
    <2>1. cur[l] \in Nat /\ cancelled[l] \in BOOLEAN
      BY DEF IInv, TypeOK, BackfillTypeOK, FlagsTypeOK
    <2>2. delivered'[l] =
            Append(delivered[l],
                   [h |-> cur[l], via |-> "backfill", late |-> cancelled[l]])
      BY ListenerFacts DEF BackfillCall, Deliver
    <2>3. [h |-> cur[l], via |-> "backfill", late |-> cancelled[l]]
            \in CallRecord
      BY <2>1 DEF CallRecord, Vias
    <2>4. QED
      BY <1>1, <1>2, <2>1, <2>2, <2>3, AppendAllBackfill, AppendPrecedes
      DEF ListenerInv
  <1>6. QED
    BY <1>2, <1>3, <1>4, <1>5, Zenon
    DEF ListenerInv, ReplayOnly, ClosedDrained, BackfillRegistered


\* One iteration of pendingEvents.Do: closing the queue requires it empty;
\* otherwise the oldest batch is a live call made after the replay.
LEMMA DrainKeeps ==
  ASSUME IInv, NEW l \in Listeners, Drain(l)
  PROVE  ListenerInv(l)'
  <1>1. ListenerInv(l) /\ delivered[l] \in Seq(CallRecord)
    BY ListenerFacts
  <1>2. ~done[l] /\ regPc[l] = "registered"
    BY <1>1 DEF Drain, ListenerInv, ClosedDrained, BackfillRegistered
  <1>3. UNCHANGED regPc
    BY DEF Drain
  <1>4. CASE DrainCloses(l)
    <2>1. done'[l] /\ bfPc'[l] = "end" /\ pending'[l] = <<>>
      BY <1>4 DEF Drain, DrainCloses, IInv, TypeOK, FlagsTypeOK, BackfillTypeOK
    <2>2. UNCHANGED delivered
      BY <1>4 DEF Drain
    <2>3. QED
      BY <1>1, <1>2, <1>3, <2>1, <2>2, Zenon
      DEF ListenerInv, ReplayOnly, ClosedDrained, BackfillRegistered
  <1>5. CASE ~DrainCloses(l)
    <2>1. Head(pending[l]) \in Nat
      BY <1>5 DEF DrainCloses, IInv, TypeOK, QueueTypeOK, Heights
    <2>2. delivered'[l] =
            Append(delivered[l], [h |-> Head(pending[l]), via |-> "pending",
                                  late |-> cancelled[l]])
      BY <1>5, ListenerFacts DEF Drain, Deliver
    <2>3. [h |-> Head(pending[l]), via |-> "pending", late |-> cancelled[l]]
            \in CallRecord
      BY <2>1 DEF CallRecord, Vias, IInv, TypeOK, FlagsTypeOK
    <2>4. HistoryPrecedes(delivered'[l])
      BY <1>1, <2>2, <2>3, AppendPrecedes DEF ListenerInv
    <2>5. UNCHANGED <<done, bfPc>>
      BY <1>5 DEF Drain
    <2>6. bfPc[l] = "drain"
      BY DEF Drain
    <2>7. QED
      BY <1>2, <1>3, <2>4, <2>5, <2>6, Zenon
      DEF ListenerInv, ReplayOnly, ClosedDrained, BackfillRegistered
  <1>6. QED
    BY <1>4, <1>5

\* A wrapper goroutine either buffers its batch in a queue that is not done
\* or, once Do has closed the queue, calls back directly with a live call.
LEMMA PushKeeps ==
  ASSUME IInv, NEW l \in Listeners, NEW x \in Heights, WrapperPush(l, x)
  PROVE  ListenerInv(l)'
  <1>1. ListenerInv(l) /\ delivered[l] \in Seq(CallRecord)
    BY ListenerFacts
  <1>2. UNCHANGED <<done, bfPc, regPc>>
    BY DEF WrapperPush
  <1>3. CASE TryPushAccepts(l)
    <2>1. ~done[l] /\ UNCHANGED delivered
      BY <1>3 DEF WrapperPush, TryPushAccepts
    <2>2. QED
      BY <1>1, <1>2, <2>1, Zenon
      DEF ListenerInv, ReplayOnly, ClosedDrained, BackfillRegistered
  <1>4. CASE ~TryPushAccepts(l)
    <2>1. done[l] /\ bfPc[l] = "end" /\ pending[l] = <<>>
      BY <1>1, <1>4 DEF TryPushAccepts, ListenerInv, ClosedDrained
    <2>2. delivered'[l] =
            Append(delivered[l], [h |-> x, via |-> "direct",
                                  late |-> cancelled[l]])
      BY <1>4, ListenerFacts DEF WrapperPush, Deliver
    <2>3. [h |-> x, via |-> "direct", late |-> cancelled[l]] \in CallRecord
      BY DEF CallRecord, Vias, Heights, IInv, TypeOK, FlagsTypeOK
    <2>4. HistoryPrecedes(delivered'[l])
      BY <1>1, <2>2, <2>3, AppendPrecedes DEF ListenerInv
    <2>5. UNCHANGED pending
      BY <1>4 DEF WrapperPush
    <2>6. QED
      BY <1>1, <1>2, <2>1, <2>4, <2>5, Zenon
      DEF ListenerInv, ReplayOnly, ClosedDrained, BackfillRegistered
  <1>5. QED
    BY <1>3, <1>4


LEMMA IInvStep == IInv /\ [Next]_vars => IInv'
  <1> SUFFICES ASSUME IInv, [Next]_vars PROVE IInv'
    OBVIOUS
  <1>1. TypeOK'
    BY TypeStep DEF IInv
  <1>2. ASSUME NEW m \in Listeners PROVE ListenerInv(m)'
    <2>1. CASE \/ NewBlock \/ Dispatch \/ UNCHANGED vars
               \/ \E l \in Listeners : Cancel(l)
               \/ \E t \in casTasks : WrapperCAS(t[1], t[2])
      BY <2>1, FrameSteps
    <2>2. ASSUME NEW l \in Listeners,
                 \/ RegisterScan(l) \/ RegisterInstall(l) \/ BackfillWait(l)
                 \/ BackfillMeta(l) \/ BackfillBlock(l) \/ BackfillCall(l)
                 \/ BackfillFinish(l) \/ Drain(l)
                 \/ \E x \in Heights : WrapperPush(l, x)
          PROVE  ListenerInv(m)'
      <3>1. CASE m # l
        BY <2>2, <3>1, OtherListener
      <3>2. CASE m = l
        BY <2>2, <3>2, ScanKeeps, InstallKeeps, PhaseKeeps, CallKeeps,
           DrainKeeps, PushKeeps
      <3>3. QED
        BY <3>1, <3>2
    <2>3. ASSUME NEW t \in pushTasks, WrapperPush(t[1], t[2])
          PROVE  ListenerInv(m)'
      <3>1. t[1] \in Listeners /\ t[2] \in Heights
        BY DEF IInv, TypeOK, TaskTypeOK
      <3>2. QED
        BY <2>2, <2>3, <3>1
    <2>4. QED
      BY <2>1, <2>2, <2>3 DEF Next
  <1>3. QED
    BY <1>1, <1>2 DEF IInv

\* The inductive invariant holds in every reachable state.
LEMMA IInvInvariant == Spec => []IInv
  BY IInvInit, IInvStep, PTL DEF Spec

\* In every behaviour of the engine no block replayed by the backfill
\* goroutine of RegisterEventsListener reaches the callback after a block
\* delivered from pendingEvents or directly by callbackWrapper, whatever the
\* number of listeners, blocks and ids.
THEOREM ReplayBeforeLive == Spec => []BackfillPrecedesLive
  <1>1. IInv => BackfillPrecedesLive
    BY DEF IInv, ListenerInv, HistoryPrecedes, BackfillPrecedesLive
  <1>2. QED
    BY <1>1, IInvInvariant, PTL

\* In every behaviour of the engine, once pendingEvents.Do has set done no
\* batch is left in the queue: TryPush never buffers into a closed queue.
THEOREM PendingNeverStranded == Spec => []NoStrandedPending
  <1>1. IInv => NoStrandedPending
    BY DEF IInv, ListenerInv, ClosedDrained, NoStrandedPending
  <1>2. QED
    BY <1>1, IInvInvariant, PTL


-----------------------------------------------------------------------------
(* The replay stops after cancel.                                          *)

\* Call i of history s replayed a block after the cancel function ran.
LateReplay(s, i) == s[i].via = "backfill" /\ s[i].late

NoLateReplay(s) == \A i \in DOMAIN s : ~LateReplay(s, i)

OneLateReplay(s) ==
  \A i, j \in DOMAIN s : (LateReplay(s, i) /\ LateReplay(s, j)) => i = j

\* Only calls made after the cancel function ran are marked late.
LateOnlyAfterCancel(s, c) == \A i \in DOMAIN s : s[i].late => c

\* The strengthening: a callback of a replayed block pending when the
\* cancel function has run is the first late replay; `cancelled` is set
\* once and never cleared, so the loop's next check returns.
LateInv(m) ==
  /\ LateOnlyAfterCancel(delivered[m], cancelled[m])
  /\ OneLateReplay(delivered[m])
  /\ (bfPc[m] = "call" /\ cancelled[m]) => NoLateReplay(delivered[m])

\* Appending one call record to a history.
LEMMA LateAppend ==
  ASSUME NEW s \in Seq(CallRecord), NEW r \in CallRecord, NEW c \in BOOLEAN,
         LateOnlyAfterCancel(s, c), OneLateReplay(s), r.late => c,
         (r.via = "backfill" /\ r.late) => NoLateReplay(s)
  PROVE  /\ LateOnlyAfterCancel(Append(s, r), c)
         /\ OneLateReplay(Append(s, r))
         /\ (~(r.via = "backfill" /\ r.late) /\ NoLateReplay(s))
              => NoLateReplay(Append(s, r))
  <1> DEFINE t == Append(s, r)
  <1>1. /\ DOMAIN t = 1 .. Len(s) + 1
        /\ \A i \in 1 .. Len(s) : t[i] = s[i]
        /\ t[Len(s) + 1] = r
    BY AppendProperties
  <1>2. LateOnlyAfterCancel(t, c)
    BY <1>1 DEF LateOnlyAfterCancel
  <1>3. OneLateReplay(t)
    BY <1>1 DEF OneLateReplay, NoLateReplay, LateReplay
  <1>4. (~(r.via = "backfill" /\ r.late) /\ NoLateReplay(s))
          => NoLateReplay(t)
    BY <1>1 DEF NoLateReplay, LateReplay
  <1>5. QED
    BY <1>2, <1>3, <1>4

\* A step that leaves a listener's history and flag alone, and does not
\* bring its backfill goroutine to the callback, keeps its part.
LEMMA LateFrame ==
  ASSUME NEW m, LateInv(m),
         delivered'[m] = delivered[m], cancelled'[m] = cancelled[m],
         bfPc'[m] = bfPc[m] \/ bfPc'[m] # "call"
  PROVE  LateInv(m)'
  BY Zenon DEF LateInv, LateOnlyAfterCancel, OneLateReplay, NoLateReplay,
               LateReplay

\* The typing facts the steps below need.
LEMMA LateTypes ==
  ASSUME IInv
  PROVE  /\ delivered \in [Listeners -> Seq(CallRecord)]
         /\ cancelled \in [Listeners -> BOOLEAN]
         /\ bfPc \in [Listeners -> BfPcs]
         /\ pending \in [Listeners -> Seq(Heights)]
  BY DEF IInv, TypeOK, HistoryTypeOK, CallRecord, FlagsTypeOK,
         BackfillTypeOK, QueueTypeOK


\* The cancel function of m sets `cancelled` while no call is marked late.
LEMMA LateCancel ==
  ASSUME IInv, NEW m \in Listeners, LateInv(m), NEW l \in Listeners, Cancel(l)
  PROVE  LateInv(m)'
  <1>1. UNCHANGED <<delivered, bfPc>>
    BY DEF Cancel
  <1>2. CASE l # m
    BY <1>1, <1>2, LateTypes, LateFrame DEF Cancel
  <1>3. CASE l = m
    <2>1. ~cancelled[m] /\ cancelled'[m] = TRUE
      BY <1>3, LateTypes DEF Cancel
    <2>2. NoLateReplay(delivered[m])
      BY <2>1 DEF LateInv, LateOnlyAfterCancel, NoLateReplay, LateReplay
    <2>3. OneLateReplay(delivered[m])
      BY DEF LateInv
    <2>4. QED
      BY <1>1, <2>1, <2>2, <2>3
      DEF LateInv, LateOnlyAfterCancel, OneLateReplay, NoLateReplay,
          LateReplay
  <1>4. QED
    BY <1>2, <1>3

\* The check at line 318 lets the loop reach the callback only while the
\* listener is not cancelled.
LEMMA LateBlock ==
  ASSUME IInv, NEW m \in Listeners, LateInv(m), NEW l \in Listeners,
         BackfillBlock(l)
  PROVE  LateInv(m)'
  <1>1. UNCHANGED <<delivered, cancelled>>
    BY DEF BackfillBlock
  <1>2. CASE l # m
    BY <1>1, <1>2, LateTypes, LateFrame DEF BackfillBlock
  <1>3. CASE l = m
    <2>1. bfPc'[m] = "call" => ~cancelled[m]
      BY <1>3, LateTypes DEF BackfillBlock, StopsOnCancel
    <2>2. QED
      BY <1>1, <2>1 DEF LateInv, LateOnlyAfterCancel, OneLateReplay,
                        NoLateReplay, LateReplay
  <1>4. QED
    BY <1>2, <1>3

\* The callback of a replayed block: late only if the cancel function ran
\* after the check, and then the first late replay.
LEMMA LateCall ==
  ASSUME IInv, NEW m \in Listeners, LateInv(m), NEW l \in Listeners,
         BackfillCall(l)
  PROVE  LateInv(m)'
  <1>1. UNCHANGED cancelled
    BY DEF BackfillCall
  <1>2. CASE l # m
    BY <1>1, <1>2, LateTypes, LateFrame DEF BackfillCall, Deliver
  <1>3. CASE l = m
    <2> DEFINE r == [h |-> cur[m], via |-> "backfill", late |-> cancelled[m]]
    <2>1. r \in CallRecord
      BY DEF IInv, TypeOK, BackfillTypeOK, FlagsTypeOK, CallRecord, Vias
    <2>2. delivered'[m] = Append(delivered[m], r) /\ bfPc'[m] = "loop"
      BY <1>3, LateTypes DEF BackfillCall, Deliver
    <2>3. bfPc[m] = "call"
      BY <1>3 DEF BackfillCall
    <2>4. (r.via = "backfill" /\ r.late) => NoLateReplay(delivered[m])
      <3>1. r.late = cancelled[m]
        OBVIOUS
      <3>2. QED
        BY <2>3, <3>1 DEF LateInv
    <2>5. delivered[m] \in Seq(CallRecord) /\ cancelled[m] \in BOOLEAN
      BY LateTypes
    <2>6. /\ LateOnlyAfterCancel(Append(delivered[m], r), cancelled[m])
          /\ OneLateReplay(Append(delivered[m], r))
      <3>1. r.late => cancelled[m]
        OBVIOUS
      <3>2. LateOnlyAfterCancel(delivered[m], cancelled[m])
            /\ OneLateReplay(delivered[m])
        BY DEF LateInv
      <3>3. QED
        BY <2>1, <2>4, <2>5, <3>1, <3>2, LateAppend
    <2>7. QED
      BY <1>1, <2>2, <2>6 DEF LateInv
  <1>4. QED
    BY <1>2, <1>3

\* A live call (from Do or directly from a wrapper) appended to the history
\* of m is never a replay.
LEMMA LateLive ==
  ASSUME IInv, NEW m \in Listeners, LateInv(m), NEW x \in Heights,
         NEW v \in {"pending", "direct"},
         delivered' = [delivered EXCEPT ![m] =
                         Append(@, [h |-> x, via |-> v, late |-> cancelled[m]])],
         UNCHANGED cancelled, bfPc'[m] = bfPc[m]
  PROVE  LateInv(m)'
  <2> DEFINE r == [h |-> x, via |-> v, late |-> cancelled[m]]
  <2>1. r \in CallRecord /\ ~(r.via = "backfill")
    BY LateTypes DEF CallRecord, Vias, Heights
  <2>2. delivered'[m] = Append(delivered[m], r)
    BY LateTypes
  <2>3. delivered[m] \in Seq(CallRecord) /\ cancelled[m] \in BOOLEAN
    BY LateTypes
  <2>4. /\ LateOnlyAfterCancel(Append(delivered[m], r), cancelled[m])
        /\ OneLateReplay(Append(delivered[m], r))
        /\ NoLateReplay(delivered[m]) => NoLateReplay(Append(delivered[m], r))
    <3>1. r.late => cancelled[m]
      OBVIOUS
    <3>2. LateOnlyAfterCancel(delivered[m], cancelled[m])
          /\ OneLateReplay(delivered[m])
      BY DEF LateInv
    <3>3. QED
      BY <2>1, <2>3, <3>1, <3>2, LateAppend
  <2>5. (bfPc[m] = "call" /\ cancelled[m]) => NoLateReplay(delivered[m])
    BY DEF LateInv
  <2>6. QED
    BY <2>2, <2>4, <2>5 DEF LateInv


\* Every step keeps LateInv of every listener.
LEMMA LateStep ==
  ASSUME IInv, NEW m \in Listeners, LateInv(m), [Next]_vars
  PROVE  LateInv(m)'
  <1>1. CASE \/ NewBlock \/ Dispatch \/ UNCHANGED vars
             \/ \E t \in casTasks : WrapperCAS(t[1], t[2])
    <2>1. UNCHANGED <<delivered, cancelled, bfPc>>
      BY <1>1 DEF NewBlock, Dispatch, vars, WrapperCAS
    <2>2. QED
      BY <2>1, LateFrame
  <1>2. ASSUME NEW l \in Listeners,
               \/ RegisterScan(l) \/ RegisterInstall(l) \/ BackfillWait(l)
               \/ BackfillMeta(l) \/ BackfillFinish(l)
        PROVE  LateInv(m)'
    <2>1. UNCHANGED <<delivered, cancelled>>
      BY <1>2 DEF RegisterScan, RegisterInstall, BackfillWait, BackfillMeta,
                  BackfillFinish
    <2>2. bfPc'[m] = bfPc[m] \/ bfPc'[m] # "call"
      BY <1>2, LateTypes DEF RegisterScan, RegisterInstall, BackfillWait,
                             BackfillMeta, BackfillFinish
    <2>3. QED
      BY <2>1, <2>2, LateFrame
  <1>3. ASSUME NEW l \in Listeners, Drain(l) PROVE LateInv(m)'
    <2>1. CASE l # m \/ DrainCloses(l)
      <3>1. delivered'[m] = delivered[m] /\ UNCHANGED cancelled
        BY <1>3, <2>1, LateTypes DEF Drain, Deliver
      <3>2. bfPc'[m] = bfPc[m] \/ bfPc'[m] # "call"
        BY <1>3, <2>1, LateTypes DEF Drain
      <3>3. QED
        BY <3>1, <3>2, LateFrame
    <2>2. CASE l = m /\ ~DrainCloses(l)
      <3>1. Head(pending[m]) \in Heights
        BY <2>2, LateTypes DEF DrainCloses
      <3>2. QED
        BY <1>3, <2>2, <3>1, LateLive DEF Drain, Deliver
    <2>3. QED
      BY <2>1, <2>2
  <1>4. ASSUME NEW t \in pushTasks, WrapperPush(t[1], t[2])
        PROVE  LateInv(m)'
    <2>1. t[1] \in Listeners /\ t[2] \in Heights
      BY DEF IInv, TypeOK, TaskTypeOK
    <2>2. CASE t[1] # m \/ TryPushAccepts(t[1])
      <3>1. delivered'[m] = delivered[m] /\ UNCHANGED <<cancelled, bfPc>>
        BY <1>4, <2>1, <2>2, LateTypes DEF WrapperPush, Deliver
      <3>2. QED
        BY <3>1, LateFrame
    <2>3. CASE t[1] = m /\ ~TryPushAccepts(t[1])
      BY <1>4, <2>1, <2>3, LateLive DEF WrapperPush, Deliver
    <2>4. QED
      BY <2>2, <2>3
  <1>5. QED
    BY <1>1, <1>2, <1>3, <1>4, LateCancel, LateBlock, LateCall DEF Next

\* LateInv of every listener, with the invariant it needs for the types.
LateAll == IInv /\ \A m \in Listeners : LateInv(m)

\* The strengthened invariant holds in every reachable state.
LEMMA LateInvariant == Spec => []LateAll
  <1>1. Init => LateAll
    <2> SUFFICES ASSUME Init PROVE LateAll
      OBVIOUS
    <2>1. IInv
      BY IInvInit
    <2>2. ASSUME NEW m \in Listeners PROVE LateInv(m)
      <3>1. delivered[m] = <<>> /\ cancelled[m] = FALSE /\ bfPc[m] = "none"
        BY DEF Init
      <3>2. QED
        BY <3>1 DEF LateInv, LateOnlyAfterCancel, OneLateReplay,
                    NoLateReplay
    <2>3. QED
      BY <2>1, <2>2 DEF LateAll
  <1>2. LateAll /\ [Next]_vars => LateAll'
    <2> SUFFICES ASSUME LateAll, [Next]_vars PROVE LateAll'
      OBVIOUS
    <2>1. IInv'
      BY IInvStep DEF LateAll
    <2>2. \A m \in Listeners : LateInv(m)'
      BY LateStep DEF LateAll
    <2>3. QED
      BY <2>1, <2>2 DEF LateAll
  <1>3. QED
    BY <1>1, <1>2, PTL DEF Spec

\* Spec sections 4.2 and 5 for every number of listeners, ids and blocks:
\* the backfill goroutine of RegisterEventsListener calls the callback with
\* at most one replayed block once the cancel function has run.  The
\* `cancelled` check and the callback are two steps, so the cancel may fall
\* between them; but the next check returns.
THEOREM CancelStopsReplay == Spec => []ReplayStopsAfterCancel
  <1>1. LateAll => ReplayStopsAfterCancel
    BY DEF LateAll, LateInv, OneLateReplay, LateReplay, ReplayStopsAfterCancel
  <1>2. QED
    BY <1>1, LateInvariant, PTL

=============================================================================
