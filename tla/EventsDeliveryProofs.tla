------------------------- MODULE EventsDeliveryProofs -------------------------
(***************************************************************************)
(* Proofs about what the events engine delivers to a listener, for every  *)
(* value of the constants: the replay covers its gap (BackfillCoversGap)   *)
(* and no block from the first live one on is delivered twice              *)
(* (NoDuplicateFromStart).  The typing comes from the inductive invariant  *)
(* IInv of EventsListenerProofs.                                           *)
(***************************************************************************)
EXTENDS EventsListenerProofs, SequenceTheorems

USE ConstantsAssumption

-----------------------------------------------------------------------------
(* The replay covers its gap.                                              *)

\* Every block of [b, k) outside sk has been replayed in history s.
CoveredIn(b, sk, s, k) ==
  \A h \in b .. k - 1 :
    h \notin sk =>
      \E i \in DOMAIN s : s[i].h = h /\ s[i].via = "backfill"

\* Every block of [begin, k) that did not fail to decode has been replayed
\* to the callback of m.
Covered(m, k) == CoveredIn(begin[m], skipped[m], delivered[m], k)

\* Past its wait the backfill goroutine of m replays from `begin`, which is
\* below the first live block, so that block is not 0 and no later CAS
\* changes it; the loop has covered every block below `currentBlock`, and
\* after the loop every block below the first live one.
GapInv(m) ==
  /\ bfPc[m] \in {"meta", "loop", "call", "drain", "end"} =>
       started[m] /\ begin[m] < startBlock[m]
  /\ bfPc[m] = "call" => cur[m] < startBlock[m]
  /\ bfPc[m] \in {"meta", "loop", "call"} => Covered(m, cur[m])
  /\ bfPc[m] \in {"drain", "end"} => Covered(m, startBlock[m])

-----------------------------------------------------------------------------
(* A live block is delivered once.                                         *)

\* The blocks for which a wrapper goroutine of m is running.
InFlightOf(m) == {h \in Nat : <<m, h>> \in casTasks \cup pushTasks}

\* Call i of history d came from the live feed.
LiveCall(d, i) == d[i].via # "backfill"

\* A live block fanned out to a listener is, at any time, in exactly one
\* place: a running wrapper (F), the pending queue p, or one live call of
\* the history d; and all of them are below the dispatcher's next block n.
PendingDistinct(p) == \A i, j \in DOMAIN p : i # j => p[i] # p[j]

PendingFresh(p, F, n) == \A i \in DOMAIN p : p[i] \notin F /\ p[i] < n

LiveFresh(p, d, F, n) ==
  \A i \in DOMAIN d : LiveCall(d, i) =>
    /\ d[i].h \notin F
    /\ d[i].h < n
    /\ \A j \in DOMAIN p : d[i].h # p[j]

LiveDistinct(d) ==
  \A i, j \in DOMAIN d : (i # j /\ LiveCall(d, i) /\ LiveCall(d, j)) =>
    d[i].h # d[j].h

LiveOnce(p, d, F, n) ==
  /\ PendingDistinct(p)
  /\ PendingFresh(p, F, n)
  /\ LiveFresh(p, d, F, n)
  /\ LiveDistinct(d)

\* The replayed calls of history d were made once the first live block sb
\* was known (st), and are below it.
ReplayIn(d, st, sb) ==
  \A i \in DOMAIN d : ~LiveCall(d, i) => st /\ d[i].h < sb

ReplayBelowStart(m) == ReplayIn(delivered[m], started[m], startBlock[m])

OnceInv(m) ==
  /\ LiveOnce(pending[m], delivered[m], InFlightOf(m), next)
  /\ ReplayBelowStart(m)

\* A wrapper goroutine is first in the CAS set, then in the push set.
TasksInv ==
  /\ casTasks \cap pushTasks = {}
  /\ \A t \in casTasks \cup pushTasks : t[2] < next

\* The strengthened invariant.
DInv ==
  /\ IInv
  /\ TasksInv
  /\ \A m \in Listeners : GapInv(m) /\ OnceInv(m)

-----------------------------------------------------------------------------
(* Lemmas on histories and queues.                                         *)

\* Nothing below `begin` needs replaying.
LEMMA CoveredEmpty ==
  ASSUME NEW b \in Nat, NEW sk, NEW s
  PROVE  CoveredIn(b, sk, s, b)
  BY DEF CoveredIn

\* A call appended to a history keeps every earlier replay in it.
LEMMA CoveredAppend ==
  ASSUME NEW b, NEW sk, NEW S, NEW s \in Seq(S), NEW r \in S, NEW k,
         CoveredIn(b, sk, s, k)
  PROVE  CoveredIn(b, sk, Append(s, r), k)
  <1>1. \A i \in DOMAIN s : i \in DOMAIN Append(s, r) /\ Append(s, r)[i] = s[i]
    BY AppendProperties
  <1>2. QED
    BY <1>1 DEF CoveredIn

\* More skipped blocks need no more replays.
LEMMA CoveredSkip ==
  ASSUME NEW b, NEW sk, NEW sk2, sk \subseteq sk2, NEW s, NEW k,
         CoveredIn(b, sk, s, k)
  PROVE  CoveredIn(b, sk2, s, k)
  BY DEF CoveredIn

\* The range covered extends by block k when k was skipped or replayed.
LEMMA CoveredNext ==
  ASSUME NEW b \in Nat, NEW sk, NEW s, NEW k \in Nat,
         CoveredIn(b, sk, s, k),
         k \in sk \/ \E i \in DOMAIN s : s[i].h = k /\ s[i].via = "backfill"
  PROVE  CoveredIn(b, sk, s, k + 1)
  <1> SUFFICES ASSUME NEW h \in b .. k, h \notin sk
               PROVE  \E i \in DOMAIN s : s[i].h = h /\ s[i].via = "backfill"
    BY DEF CoveredIn
  <1>1. CASE h < k
    BY <1>1 DEF CoveredIn
  <1>2. CASE h = k
    BY <1>2
  <1>3. QED
    BY <1>1, <1>2

\* A covered range covers every shorter one.
LEMMA CoveredBelow ==
  ASSUME NEW b, NEW sk, NEW s, NEW k \in Int, NEW j \in Int, j <= k,
         CoveredIn(b, sk, s, k)
  PROVE  CoveredIn(b, sk, s, j)
  BY DEF CoveredIn

-----------------------------------------------------------------------------
(* The initial state and the typing the steps need.                        *)

\* The typing facts of IInv used below, one function at a time.
LEMMA DTypes ==
  ASSUME IInv
  PROVE  /\ delivered \in [Listeners -> Seq(CallRecord)]
         /\ pending \in [Listeners -> Seq(Heights)]
         /\ bfPc \in [Listeners -> BfPcs]
         /\ begin \in [Listeners -> Nat]
         /\ cur \in [Listeners -> Nat]
         /\ startBlock \in [Listeners -> Heights]
         /\ skipped \in [Listeners -> SUBSET Nat]
         /\ started \in [Listeners -> BOOLEAN]
         /\ cancelled \in [Listeners -> BOOLEAN]
         /\ next \in Nat
         /\ casTasks \subseteq Listeners \X Heights
         /\ pushTasks \subseteq Listeners \X Heights
  <1>1. begin \in [Listeners -> Nat]
    <2>1. begin \in [Listeners -> Begins \cup {0}]
      BY DEF IInv, TypeOK, RegistryTypeOK
    <2>0. Begins \subseteq Nat
      BY ConstantsAssumption
    <2>2. ASSUME NEW l \in Listeners PROVE begin[l] \in Nat
      <3>1. begin[l] \in Begins \cup {0}
        BY <2>1
      <3>2. QED
        BY <2>0, <3>1, NatOrZero
    <2>3. QED
      BY <2>1, <2>2, Zenon
  <1>2. delivered \in [Listeners -> Seq(CallRecord)]
    BY DEF IInv, TypeOK, HistoryTypeOK, CallRecord
  <1>3. /\ pending \in [Listeners -> Seq(Heights)]
        /\ startBlock \in [Listeners -> Heights]
    BY DEF IInv, TypeOK, QueueTypeOK
  <1>4. /\ bfPc \in [Listeners -> BfPcs]
        /\ cur \in [Listeners -> Nat]
        /\ skipped \in [Listeners -> SUBSET Nat]
    BY DEF IInv, TypeOK, BackfillTypeOK
  <1>5. started \in [Listeners -> BOOLEAN] /\ cancelled \in [Listeners -> BOOLEAN]
    BY DEF IInv, TypeOK, FlagsTypeOK
  <1>6. next \in Nat
    BY DEF IInv, TypeOK, ChainTypeOK
  <1>7. casTasks \subseteq Listeners \X Heights
        /\ pushTasks \subseteq Listeners \X Heights
    BY DEF IInv, TypeOK, TaskTypeOK
  <1>8. QED
    BY <1>1, <1>2, <1>3, <1>4, <1>5, <1>6, <1>7

\* A queue of heights is a sequence of naturals.
LEMMA PendingNat ==
  ASSUME IInv, NEW m \in Listeners
  PROVE  pending[m] \in Seq(Nat)
  <1>1. pending[m] \in Seq(Heights)
    BY DTypes
  <1>2. Heights \subseteq Nat
    BY DEF Heights
  <1>3. QED
    BY <1>1, <1>2, SeqMonotonic

LEMMA DInvInit == Init => DInv
  <1> SUFFICES ASSUME Init PROVE DInv
    OBVIOUS
  <1>1. IInv
    BY IInvInit
  <1>2. TasksInv
    BY DEF Init, TasksInv
  <1>3. ASSUME NEW m \in Listeners PROVE GapInv(m)
    BY DEF Init, GapInv
  <1>4. ASSUME NEW m \in Listeners PROVE OnceInv(m)
    BY DEF Init, OnceInv, LiveOnce, PendingDistinct, PendingFresh, LiveFresh,
           LiveDistinct, ReplayBelowStart, ReplayIn
  <1>5. QED
    BY <1>1, <1>2, <1>3, <1>4 DEF DInv

-----------------------------------------------------------------------------
(* The wrapper goroutines.                                                 *)

\* The dispatcher starts wrappers only for the block it hands out, which no
\* running wrapper has; a wrapper moves from the CAS to TryPush, then ends.
LEMMA TasksStep ==
  ASSUME IInv, TasksInv, [Next]_vars
  PROVE  TasksInv'
  <1>1. next \in Nat /\ next' \in Nat
    <2>1. TypeOK'
      BY TypeStep DEF IInv
    <2>2. QED
      BY <2>1, DTypes DEF TypeOK, ChainTypeOK
  <1>2. CASE Dispatch
    <2>1. next' = next + 1 /\ pushTasks' = pushTasks
      BY <1>2 DEF Dispatch
    <2>2. Registered \subseteq Listeners
      BY DEF Registered, IInv, TypeOK, RegistryTypeOK
    <2>3. ASSUME NEW t \in casTasks' PROVE t \in casTasks \/ t[2] = next
      BY <1>2, <2>2 DEF Dispatch
    <2>4. \A t \in pushTasks : t[2] \in Nat /\ t[2] < next
      BY DTypes DEF TasksInv, Heights
    <2>5. \A t \in casTasks : t[2] \in Nat /\ t[2] < next
      BY DTypes DEF TasksInv, Heights
    <2>6. casTasks' \cap pushTasks' = {}
      BY <1>1, <2>1, <2>3, <2>4 DEF TasksInv
    <2>7. \A t \in casTasks' \cup pushTasks' : t[2] < next'
      BY <1>1, <2>1, <2>3, <2>4, <2>5
    <2>8. QED
      BY <2>6, <2>7 DEF TasksInv
  <1>3. ASSUME NEW t \in casTasks, WrapperCAS(t[1], t[2]) PROVE TasksInv'
    <2>1. casTasks' = casTasks \ {<<t[1], t[2]>>}
          /\ pushTasks' = pushTasks \cup {<<t[1], t[2]>>}
          /\ next' = next
      BY <1>3 DEF WrapperCAS
    <2>2. <<t[1], t[2]>> = t
      BY DTypes
    <2>3. QED
      BY <2>1, <2>2 DEF TasksInv
  <1>4. ASSUME NEW t \in pushTasks, WrapperPush(t[1], t[2]) PROVE TasksInv'
    <2>1. pushTasks' = pushTasks \ {<<t[1], t[2]>>}
          /\ UNCHANGED <<casTasks, next>>
      BY <1>4 DEF WrapperPush
    <2>2. QED
      BY <2>1 DEF TasksInv
  <1>5. CASE ~Dispatch /\ ~(\E t \in casTasks : WrapperCAS(t[1], t[2]))
             /\ ~(\E t \in pushTasks : WrapperPush(t[1], t[2]))
    <2>1. UNCHANGED <<casTasks, pushTasks, next>>
      BY <1>5 DEF Next, vars, NewBlock, RegisterScan, RegisterInstall, Cancel,
                  BackfillWait, BackfillMeta, BackfillBlock, BackfillCall,
                  BackfillFinish, Drain
    <2>2. QED
      BY <2>1 DEF TasksInv
  <1>6. QED
    BY <1>2, <1>3, <1>4, <1>5

-----------------------------------------------------------------------------
(* The replay covers its gap: one lemma per kind of step.                  *)

\* A step that leaves the backfill state of m alone and keeps every replay
\* in its history keeps GapInv(m).
LEMMA GapFrame ==
  ASSUME NEW m, GapInv(m),
         bfPc'[m] = bfPc[m], begin'[m] = begin[m], cur'[m] = cur[m],
         startBlock'[m] = startBlock[m], started'[m] = started[m],
         skipped'[m] = skipped[m],
         \A k : CoveredIn(begin[m], skipped[m], delivered[m], k) =>
                  CoveredIn(begin[m], skipped[m], delivered'[m], k)
  PROVE  GapInv(m)'
  BY Zenon DEF GapInv, Covered

\* The same history, or one more call appended to it, keeps every replay.
LEMMA HistoryKeeps ==
  ASSUME IInv, NEW m \in Listeners,
         \/ delivered'[m] = delivered[m]
         \/ \E r \in CallRecord : delivered'[m] = Append(delivered[m], r)
  PROVE  \A k : CoveredIn(begin[m], skipped[m], delivered[m], k) =>
                  CoveredIn(begin[m], skipped[m], delivered'[m], k)
  <1>1. delivered[m] \in Seq(CallRecord)
    BY DTypes
  <1>2. QED
    BY <1>1, CoveredAppend

\* A step of another listener, of the chain, of the dispatcher, or of a
\* cancel function leaves the backfill state and history of m alone.
LEMMA GapOther ==
  ASSUME IInv, NEW m \in Listeners, GapInv(m),
         \/ NewBlock \/ Dispatch \/ UNCHANGED vars
         \/ \E l \in Listeners : Cancel(l)
         \/ \E l \in Listeners \ {m} :
              \/ RegisterScan(l) \/ RegisterInstall(l) \/ BackfillWait(l)
              \/ BackfillMeta(l) \/ BackfillBlock(l) \/ BackfillCall(l)
              \/ BackfillFinish(l) \/ Drain(l)
              \/ \E h \in Heights : WrapperPush(l, h)
  PROVE  GapInv(m)'
  <1> DEFINE Same == /\ bfPc'[m] = bfPc[m] /\ begin'[m] = begin[m]
                    /\ cur'[m] = cur[m] /\ startBlock'[m] = startBlock[m]
                    /\ started'[m] = started[m] /\ skipped'[m] = skipped[m]
                    /\ delivered'[m] = delivered[m]
  <1>1. ASSUME NewBlock \/ Dispatch \/ UNCHANGED vars
                \/ \E l \in Listeners : Cancel(l)
        PROVE  Same
    BY <1>1 DEF NewBlock, Dispatch, vars, Cancel
  <1>2. ASSUME NEW l \in Listeners \ {m},
               \/ RegisterScan(l) \/ RegisterInstall(l) \/ BackfillWait(l)
               \/ BackfillMeta(l) \/ BackfillBlock(l) \/ BackfillCall(l)
               \/ BackfillFinish(l) \/ Drain(l)
               \/ \E h \in Heights : WrapperPush(l, h)
        PROVE  Same
    <2>1. CASE RegisterScan(l)
      BY <2>1, DTypes DEF RegisterScan, Same
    <2>2. CASE RegisterInstall(l)
      BY <2>2, DTypes DEF RegisterInstall, Same
    <2>3. CASE BackfillWait(l)
      BY <2>3, DTypes DEF BackfillWait, Same
    <2>4. CASE BackfillMeta(l)
      BY <2>4, DTypes DEF BackfillMeta, Same
    <2>5. CASE BackfillBlock(l)
      BY <2>5, DTypes DEF BackfillBlock, Same
    <2>6. CASE BackfillCall(l)
      BY <2>6, DTypes DEF BackfillCall, Same, Deliver
    <2>7. CASE BackfillFinish(l)
      BY <2>7, DTypes DEF BackfillFinish, Same
    <2>8. CASE Drain(l)
      BY <2>8, DTypes DEF Drain, Same, Deliver
    <2>9. ASSUME NEW h \in Heights, WrapperPush(l, h) PROVE Same
      BY <2>9, DTypes DEF WrapperPush, Same, Deliver
    <2>10. QED
      BY <1>2, <2>1, <2>2, <2>3, <2>4, <2>5, <2>6, <2>7, <2>8, <2>9
  <1>3. Same
    BY <1>1, <1>2
  <1>4. QED
    BY <1>3, HistoryKeeps, GapFrame DEF Same

\* The CAS of a wrapper changes the first live block of m only while it is
\* unset, and then the backfill goroutine of m has not passed its wait.
LEMMA GapCAS ==
  ASSUME IInv, NEW m \in Listeners, GapInv(m), NEW t \in casTasks,
         WrapperCAS(t[1], t[2])
  PROVE  GapInv(m)'
  <1>1. /\ bfPc'[m] = bfPc[m] /\ begin'[m] = begin[m] /\ cur'[m] = cur[m]
        /\ skipped'[m] = skipped[m] /\ delivered'[m] = delivered[m]
    BY DEF WrapperCAS
  <1>2. CASE startBlock'[m] = startBlock[m] /\ started'[m] = started[m]
    BY <1>1, <1>2, HistoryKeeps, GapFrame
  <1>3. CASE ~(startBlock'[m] = startBlock[m] /\ started'[m] = started[m])
    <2>1. t[1] = m /\ startBlock[m] = 0
      BY <1>3, DTypes DEF WrapperCAS
    <2>2. bfPc[m] \notin {"meta", "loop", "call", "drain", "end"}
      BY <2>1, DTypes DEF GapInv
    <2>3. QED
      BY <1>1, <2>2 DEF GapInv
  <1>4. QED
    BY <1>2, <1>3

\* A registration has not started its backfill goroutine, or starts it at
\* its wait.
LEMMA GapRegister ==
  ASSUME IInv, NEW m \in Listeners, GapInv(m),
         RegisterScan(m) \/ RegisterInstall(m)
  PROVE  GapInv(m)'
  <1>1. bfPc'[m] \in {"none", "wait"}
    <2>1. CASE RegisterScan(m)
      <3>1. bfPc[m] = "none"
        BY <2>1 DEF RegisterScan, IInv, ListenerInv, BackfillRegistered
      <3>2. QED
        BY <2>1, <3>1 DEF RegisterScan
    <2>2. CASE RegisterInstall(m)
      BY <2>2, DTypes DEF RegisterInstall
    <2>3. QED
      BY <2>1, <2>2
  <1>2. QED
    BY <1>1 DEF GapInv

\* After <-subscriptionStarted the replay starts at `begin`, below the first
\* live block, with nothing yet to cover.
LEMMA GapWait ==
  ASSUME IInv, NEW m \in Listeners, GapInv(m), BackfillWait(m)
  PROVE  GapInv(m)'
  <1>1. CASE SkipsBackfill(m)
    <2>1. bfPc'[m] = "exit"
      BY <1>1, DTypes DEF BackfillWait
    <2>2. QED
      BY <2>1 DEF GapInv
  <1>2. CASE ~SkipsBackfill(m)
    <2>1. bfPc'[m] = "meta" /\ cur'[m] = begin[m]
      BY <1>2, DTypes DEF BackfillWait
    <2>2. begin'[m] = begin[m] /\ startBlock'[m] = startBlock[m]
          /\ skipped'[m] = skipped[m] /\ delivered'[m] = delivered[m]
          /\ started'[m] = started[m]
      BY DEF BackfillWait
    <2>3. started[m] /\ begin[m] < startBlock[m]
      BY <1>2, DTypes DEF BackfillWait, SkipsBackfill, Heights
    <2>4. Covered(m, cur[m])'
      BY <2>1, <2>2, DTypes, CoveredEmpty DEF Covered
    <2>5. QED
      BY <2>1, <2>2, <2>3, <2>4 DEF GapInv
  <1>3. QED
    BY <1>1, <1>2

\* Metadata and storage key: the loop starts, or the goroutine returns.
LEMMA GapMeta ==
  ASSUME IInv, NEW m \in Listeners, GapInv(m), BackfillMeta(m)
  PROVE  GapInv(m)'
  <1>1. bfPc[m] = "meta" /\ bfPc'[m] \in {"loop", "exit"}
    BY DTypes DEF BackfillMeta
  <1>2. UNCHANGED <<begin, cur, startBlock, started, skipped, delivered>>
    BY DEF BackfillMeta
  <1>3. QED
    BY <1>1, <1>2 DEF GapInv, Covered

\* One iteration up to the callback: an RPC error returns, a decode error
\* skips the block, a cancelled listener returns; otherwise the block is
\* below the first live one and goes to the callback.
LEMMA GapBlock ==
  ASSUME IInv, NEW m \in Listeners, GapInv(m), BackfillBlock(m)
  PROVE  GapInv(m)'
  <1>1. /\ bfPc[m] = "loop" /\ cur[m] < startBlock[m]
        /\ started[m] /\ begin[m] < startBlock[m]
        /\ Covered(m, cur[m])
    BY DEF BackfillBlock, BackfillContinues, GapInv
  <1>2. UNCHANGED <<begin, startBlock, started, delivered>>
    BY DEF BackfillBlock
  <1>3. CASE bfPc'[m] = "exit"
    BY <1>3 DEF GapInv
  <1>4. CASE bfPc'[m] = "loop"
    <2>1. skipped'[m] = skipped[m] \cup {cur[m]} /\ cur'[m] = cur[m] + 1
      BY <1>1, <1>4, DTypes DEF BackfillBlock
    <2>2. CoveredIn(begin[m], skipped'[m], delivered[m], cur[m])
      <3>1. CoveredIn(begin[m], skipped[m], delivered[m], cur[m])
        BY <1>1 DEF Covered
      <3>2. skipped[m] \subseteq skipped'[m]
        BY <2>1
      <3>3. QED
        BY <3>1, <3>2, CoveredSkip
    <2>3. CoveredIn(begin[m], skipped'[m], delivered[m], cur[m] + 1)
      BY <2>1, <2>2, DTypes, CoveredNext
    <2>4. QED
      BY <1>1, <1>2, <1>4, <2>1, <2>3 DEF GapInv, Covered
  <1>5. CASE bfPc'[m] = "call"
    <2>1. UNCHANGED <<cur, skipped>>
      BY <1>1, <1>5, DTypes DEF BackfillBlock
    <2>2. QED
      BY <1>1, <1>2, <1>5, <2>1 DEF GapInv, Covered
  <1>6. QED
    BY <1>1, <1>3, <1>4, <1>5, DTypes DEF BackfillBlock

\* The callback of block currentBlock, then currentBlock++.
LEMMA GapCall ==
  ASSUME IInv, NEW m \in Listeners, GapInv(m), BackfillCall(m)
  PROVE  GapInv(m)'
  <1> DEFINE r == [h |-> cur[m], via |-> "backfill", late |-> cancelled[m]]
             s == Append(delivered[m], r)
  <1>1. bfPc[m] = "call" /\ bfPc'[m] = "loop" /\ cur'[m] = cur[m] + 1
    BY DTypes DEF BackfillCall
  <1>2. UNCHANGED <<begin, startBlock, started, skipped>>
    BY DEF BackfillCall
  <1>3. delivered'[m] = s
    BY DTypes DEF BackfillCall, Deliver
  <1>4. r \in CallRecord /\ delivered[m] \in Seq(CallRecord)
    BY DTypes DEF CallRecord, Vias
  <1>5. CoveredIn(begin[m], skipped[m], s, cur[m])
    BY <1>1, <1>4, CoveredAppend DEF GapInv, Covered
  <1>6. \E i \in DOMAIN s : s[i].h = cur[m] /\ s[i].via = "backfill"
    <2>1. Len(delivered[m]) + 1 \in DOMAIN s /\ s[Len(delivered[m]) + 1] = r
      BY <1>4, AppendProperties
    <2>2. QED
      BY <2>1
  <1>7. CoveredIn(begin[m], skipped[m], s, cur[m] + 1)
    BY <1>5, <1>6, DTypes, CoveredNext
  <1>8. QED
    BY <1>1, <1>2, <1>3, <1>7 DEF GapInv, Covered

\* The loop ends once currentBlock reaches the first live block.
LEMMA GapFinish ==
  ASSUME IInv, NEW m \in Listeners, GapInv(m), BackfillFinish(m)
  PROVE  GapInv(m)'
  <1>1. bfPc[m] = "loop" /\ bfPc'[m] = "drain" /\ ~(cur[m] < startBlock[m])
    BY DTypes DEF BackfillFinish, BackfillContinues
  <1>2. UNCHANGED <<begin, cur, startBlock, started, skipped, delivered>>
    BY DEF BackfillFinish
  <1>3. Covered(m, startBlock[m])
    <2>1. CoveredIn(begin[m], skipped[m], delivered[m], cur[m])
      BY <1>1 DEF GapInv, Covered
    <2>2. startBlock[m] \in Int /\ cur[m] \in Int /\ startBlock[m] <= cur[m]
      BY <1>1, DTypes DEF Heights
    <2>3. QED
      BY <2>1, <2>2, CoveredBelow DEF Covered
  <1>4. QED
    BY <1>1, <1>2, <1>3 DEF GapInv, Covered

\* pendingEvents.Do and the wrappers of m only append live calls.
LEMMA GapLive ==
  ASSUME IInv, NEW m \in Listeners, GapInv(m),
         Drain(m) \/ \E h \in Heights : WrapperPush(m, h)
  PROVE  GapInv(m)'
  <1>1. UNCHANGED <<begin, cur, startBlock, started, skipped>>
    BY DEF Drain, WrapperPush
  <1>2. \/ delivered'[m] = delivered[m]
        \/ \E r \in CallRecord : delivered'[m] = Append(delivered[m], r)
    <2>1. CASE Drain(m) /\ ~DrainCloses(m)
      <3>1. Head(pending[m]) \in Nat
        BY <2>1, DTypes DEF DrainCloses, Heights
      <3>2. QED
        BY <2>1, <3>1, DTypes DEF Drain, Deliver, CallRecord, Vias
    <2>2. ASSUME NEW h \in Heights, WrapperPush(m, h), ~TryPushAccepts(m)
          PROVE  \E r \in CallRecord : delivered'[m] = Append(delivered[m], r)
      BY <2>2, DTypes DEF WrapperPush, Deliver, CallRecord, Vias, Heights
    <2>3. QED
      BY <2>1, <2>2 DEF Drain, WrapperPush
  <1>3. \A k : CoveredIn(begin[m], skipped[m], delivered[m], k) =>
                 CoveredIn(begin[m], skipped[m], delivered'[m], k)
    BY <1>2, HistoryKeeps
  <1>4. CASE Drain(m)
    <2>1. bfPc[m] = "drain" /\ bfPc'[m] \in {"drain", "end"}
      BY <1>4, DTypes DEF Drain
    <2>2. QED
      BY <1>1, <1>3, <2>1 DEF GapInv, Covered
  <1>5. CASE \E h \in Heights : WrapperPush(m, h)
    BY <1>1, <1>3, <1>5, GapFrame DEF WrapperPush
  <1>6. QED
    BY <1>4, <1>5

\* Every step keeps GapInv of every listener.
LEMMA GapStep ==
  ASSUME IInv, NEW m \in Listeners, GapInv(m), [Next]_vars
  PROVE  GapInv(m)'
  <1>1. CASE \/ NewBlock \/ Dispatch \/ UNCHANGED vars
             \/ \E l \in Listeners : Cancel(l)
    BY <1>1, GapOther
  <1>2. CASE \E t \in casTasks : WrapperCAS(t[1], t[2])
    BY <1>2, GapCAS
  <1>3. ASSUME NEW l \in Listeners,
               \/ RegisterScan(l) \/ RegisterInstall(l) \/ BackfillWait(l)
               \/ BackfillMeta(l) \/ BackfillBlock(l) \/ BackfillCall(l)
               \/ BackfillFinish(l) \/ Drain(l)
               \/ \E h \in Heights : WrapperPush(l, h)
        PROVE  GapInv(m)'
    <2>1. CASE l # m
      BY <1>3, <2>1, GapOther
    <2>2. CASE l = m
      BY <1>3, <2>2, GapRegister, GapWait, GapMeta, GapBlock, GapCall,
         GapFinish, GapLive
    <2>3. QED
      BY <2>1, <2>2
  <1>4. ASSUME NEW t \in pushTasks, WrapperPush(t[1], t[2])
        PROVE  GapInv(m)'
    <2>1. t[1] \in Listeners /\ t[2] \in Heights
      BY DTypes
    <2>2. QED
      BY <1>3, <1>4, <2>1
  <1>5. QED
    BY <1>1, <1>2, <1>3, <1>4 DEF Next

-----------------------------------------------------------------------------
(* A live block is delivered once: lemmas on the queue and the history.    *)

\* Fewer running wrappers below n, and a later next block, keep LiveOnce.
LEMMA LiveOnceFrame ==
  ASSUME NEW p \in Seq(Nat), NEW d \in Seq(CallRecord), NEW F, NEW G,
         NEW n \in Nat, NEW n2 \in Nat, n <= n2,
         \A x \in Nat : x < n /\ x \in G => x \in F,
         LiveOnce(p, d, F, n)
  PROVE  LiveOnce(p, d, G, n2)
  <1>1. \A i \in DOMAIN p : p[i] \in Nat
    OBVIOUS
  <1>2. \A i \in DOMAIN d : d[i].h \in Nat
    <2>1. \A i \in DOMAIN d : d[i] \in CallRecord
      BY ElementOfSeq
    <2>2. QED
      BY <2>1 DEF CallRecord
  <1>3. PendingFresh(p, G, n2)
    BY <1>1 DEF LiveOnce, PendingFresh
  <1>4. LiveFresh(p, d, G, n2)
    BY <1>2 DEF LiveOnce, LiveFresh
  <1>5. QED
    BY <1>3, <1>4 DEF LiveOnce

\* TryPush accepts block x of a running wrapper, which then ends.
LEMMA LiveOncePush ==
  ASSUME NEW p \in Seq(Nat), NEW d \in Seq(CallRecord), NEW F,
         NEW n \in Nat, NEW x \in F, x \in Nat, x < n,
         LiveOnce(p, d, F, n)
  PROVE  LiveOnce(Append(p, x), d, F \ {x}, n)
  <1> DEFINE q == Append(p, x)
  <1>1. /\ DOMAIN q = 1 .. Len(p) + 1
        /\ \A i \in 1 .. Len(p) : q[i] = p[i]
        /\ q[Len(p) + 1] = x
    BY AppendProperties
  <1>2. \A i \in DOMAIN p : p[i] # x
    BY DEF LiveOnce, PendingFresh
  <1>3. PendingDistinct(q)
    BY <1>1, <1>2 DEF LiveOnce, PendingDistinct
  <1>4. PendingFresh(q, F \ {x}, n)
    BY <1>1 DEF LiveOnce, PendingFresh
  <1>5. LiveFresh(q, d, F \ {x}, n)
    BY <1>1 DEF LiveOnce, LiveFresh
  <1>6. QED
    BY <1>3, <1>4, <1>5 DEF LiveOnce

\* TryPush refuses block x of a running wrapper, which calls back directly.
LEMMA LiveOnceDirect ==
  ASSUME NEW p \in Seq(Nat), NEW d \in Seq(CallRecord), NEW F,
         NEW n \in Nat, NEW x \in F, x \in Nat, x < n, NEW r \in CallRecord,
         r.h = x, LiveOnce(p, d, F, n)
  PROVE  LiveOnce(p, Append(d, r), F \ {x}, n)
  <1> DEFINE e == Append(d, r)
  <1>1. /\ DOMAIN e = 1 .. Len(d) + 1
        /\ \A i \in 1 .. Len(d) : e[i] = d[i]
        /\ e[Len(d) + 1] = r
    BY AppendProperties
  <1>2. \A j \in DOMAIN p : p[j] # x
    BY DEF LiveOnce, PendingFresh
  <1>3. \A i \in DOMAIN d : LiveCall(d, i) => d[i].h # x
    BY DEF LiveOnce, LiveFresh
  <1>4. LiveFresh(p, e, F \ {x}, n)
    BY <1>1, <1>2 DEF LiveOnce, LiveFresh, LiveCall
  <1>5. LiveDistinct(e)
    BY <1>1, <1>3 DEF LiveOnce, LiveDistinct, LiveCall
  <1>6. PendingFresh(p, F \ {x}, n)
    BY DEF LiveOnce, PendingFresh
  <1>7. QED
    BY <1>4, <1>5, <1>6 DEF LiveOnce

\* pendingEvents.Do calls back with the oldest buffered block.
LEMMA LiveOnceDrain ==
  ASSUME NEW p \in Seq(Nat), p # <<>>, NEW d \in Seq(CallRecord), NEW F,
         NEW n \in Nat, NEW r \in CallRecord, r.h = Head(p),
         LiveOnce(p, d, F, n)
  PROVE  LiveOnce(Tail(p), Append(d, r), F, n)
  <1> DEFINE e == Append(d, r)
             t == Tail(p)
  <1>1. /\ DOMAIN e = 1 .. Len(d) + 1
        /\ \A i \in 1 .. Len(d) : e[i] = d[i]
        /\ e[Len(d) + 1] = r
    BY AppendProperties
  <1>2. /\ Len(t) = Len(p) - 1
        /\ \A i \in 1 .. Len(t) : t[i] = p[i + 1]
        /\ Head(p) = p[1]
        /\ Len(p) >= 1
        /\ t \in Seq(Nat)
    BY HeadTailProperties
  <1>3. \A i \in DOMAIN t : t[i] # Head(p)
    <2> SUFFICES ASSUME NEW i \in DOMAIN t PROVE t[i] # Head(p)
      OBVIOUS
    <2>1. i + 1 \in DOMAIN p /\ 1 \in DOMAIN p /\ i + 1 # 1
      BY <1>2
    <2>2. t[i] = p[i + 1]
      BY <1>2
    <2>3. p[i + 1] # p[1]
      BY <2>1 DEF LiveOnce, PendingDistinct
    <2>4. QED
      BY <1>2, <2>2, <2>3
  <1>4. Head(p) \notin F /\ Head(p) < n
    BY <1>2 DEF LiveOnce, PendingFresh
  <1>5. \A i \in DOMAIN d : LiveCall(d, i) => d[i].h # Head(p)
    BY <1>2 DEF LiveOnce, LiveFresh
  <1>6. PendingDistinct(t) /\ PendingFresh(t, F, n)
    <2>1. DOMAIN t = 1 .. Len(p) - 1 /\ \A i \in DOMAIN t : i + 1 \in DOMAIN p
      BY <1>2
    <2>2. PendingDistinct(t)
      BY <1>2, <2>1 DEF LiveOnce, PendingDistinct
    <2>3. PendingFresh(t, F, n)
      BY <1>2, <2>1 DEF LiveOnce, PendingFresh
    <2>4. QED
      BY <2>2, <2>3
  <1>7. LiveFresh(t, e, F, n)
    <2> SUFFICES ASSUME NEW i \in DOMAIN e, LiveCall(e, i)
                 PROVE  /\ e[i].h \notin F /\ e[i].h < n
                        /\ \A j \in DOMAIN t : e[i].h # t[j]
      BY DEF LiveFresh
    <2>1. CASE i \in 1 .. Len(d)
      <3>1. e[i] = d[i] /\ LiveCall(d, i)
        BY <1>1, <2>1 DEF LiveCall
      <3>2. d[i].h \notin F /\ d[i].h < n /\ \A j \in DOMAIN p : d[i].h # p[j]
        BY <2>1, <3>1 DEF LiveOnce, LiveFresh
      <3>3. \A j \in DOMAIN t : t[j] = p[j + 1] /\ j + 1 \in DOMAIN p
        <4>1. DOMAIN t = 1 .. Len(p) - 1 /\ DOMAIN p = 1 .. Len(p)
          BY <1>2
        <4>2. QED
          BY <1>2, <4>1
      <3>4. QED
        BY <3>1, <3>2, <3>3
    <2>2. CASE i = Len(d) + 1
      BY <1>1, <1>3, <1>4, <2>2
    <2>3. QED
      BY <1>1, <2>1, <2>2
  <1>8. LiveDistinct(e)
    <2> SUFFICES ASSUME NEW i \in DOMAIN e, NEW j \in DOMAIN e, i # j,
                        LiveCall(e, i), LiveCall(e, j)
                 PROVE  e[i].h # e[j].h
      BY DEF LiveDistinct
    <2>1. CASE i \in 1 .. Len(d) /\ j \in 1 .. Len(d)
      <3>1. e[i] = d[i] /\ e[j] = d[j] /\ LiveCall(d, i) /\ LiveCall(d, j)
        BY <1>1, <2>1 DEF LiveCall
      <3>2. QED
        BY <2>1, <3>1 DEF LiveOnce, LiveDistinct
    <2>2. CASE i = Len(d) + 1 /\ j \in 1 .. Len(d)
      <3>1. e[j] = d[j] /\ LiveCall(d, j) /\ e[i] = r
        BY <1>1, <2>2 DEF LiveCall
      <3>2. QED
        BY <1>5, <2>2, <3>1
    <2>3. CASE j = Len(d) + 1 /\ i \in 1 .. Len(d)
      <3>1. e[i] = d[i] /\ LiveCall(d, i) /\ e[j] = r
        BY <1>1, <2>3 DEF LiveCall
      <3>2. QED
        BY <1>5, <2>3, <3>1
    <2>4. QED
      BY <1>1, <2>1, <2>2, <2>3
  <1>9. QED
    BY <1>6, <1>7, <1>8 DEF LiveOnce

\* A replayed call is not a live one.
LEMMA LiveOnceReplay ==
  ASSUME NEW p \in Seq(Nat), NEW d \in Seq(CallRecord), NEW F,
         NEW n \in Nat, NEW r \in CallRecord, r.via = "backfill",
         LiveOnce(p, d, F, n)
  PROVE  LiveOnce(p, Append(d, r), F, n)
  <1> DEFINE e == Append(d, r)
  <1>1. /\ DOMAIN e = 1 .. Len(d) + 1
        /\ \A i \in 1 .. Len(d) : e[i] = d[i]
        /\ e[Len(d) + 1] = r
    BY AppendProperties
  <1>2. QED
    BY <1>1 DEF LiveOnce, LiveFresh, LiveDistinct, LiveCall

\* Appending a call that, if replayed, is below the first live block.
LEMMA ReplayAppend ==
  ASSUME NEW d \in Seq(CallRecord), NEW r \in CallRecord, NEW st, NEW sb,
         ReplayIn(d, st, sb), r.via = "backfill" => st /\ r.h < sb
  PROVE  ReplayIn(Append(d, r), st, sb)
  <1>1. /\ DOMAIN Append(d, r) = 1 .. Len(d) + 1
        /\ \A i \in 1 .. Len(d) : Append(d, r)[i] = d[i]
        /\ Append(d, r)[Len(d) + 1] = r
    BY AppendProperties
  <1>2. QED
    BY <1>1 DEF ReplayIn, LiveCall

-----------------------------------------------------------------------------
(* A live block is delivered once: the steps.                              *)

\* The live calls of m, its queue and its wrappers are untouched.
LEMMA OnceUntouched ==
  ASSUME NEW m, OnceInv(m),
         pending'[m] = pending[m], delivered'[m] = delivered[m],
         InFlightOf(m)' = InFlightOf(m), next' = next,
         started'[m] = started[m], startBlock'[m] = startBlock[m]
  PROVE  OnceInv(m)'
  BY DEF OnceInv, ReplayBelowStart

\* The history of m grows by one call, which if replayed is below the
\* first live block; the first live block is unchanged.
LEMMA ReplayStep ==
  ASSUME IInv, NEW m \in Listeners, ReplayBelowStart(m),
         started'[m] = started[m], startBlock'[m] = startBlock[m],
         NEW r \in CallRecord, delivered'[m] = Append(delivered[m], r),
         r.via = "backfill" => started[m] /\ r.h < startBlock[m]
  PROVE  ReplayBelowStart(m)'
  BY DTypes, ReplayAppend DEF ReplayBelowStart

\* Steps that leave the queue, history and wrappers of m alone.
LEMMA OnceQuiet ==
  ASSUME IInv, NEW m \in Listeners, OnceInv(m),
         \/ NewBlock \/ UNCHANGED vars
         \/ \E l \in Listeners :
              \/ Cancel(l) \/ RegisterScan(l) \/ RegisterInstall(l)
              \/ BackfillWait(l) \/ BackfillMeta(l) \/ BackfillBlock(l)
              \/ BackfillFinish(l)
         \/ \E l \in Listeners \ {m} : BackfillCall(l) \/ Drain(l)
  PROVE  OnceInv(m)'
  <1>1. UNCHANGED <<casTasks, pushTasks, next, started, startBlock>>
    BY DEF NewBlock, vars, Cancel, RegisterScan, RegisterInstall,
           BackfillWait, BackfillMeta, BackfillBlock, BackfillFinish,
           BackfillCall, Drain
  <1>2. pending'[m] = pending[m] /\ delivered'[m] = delivered[m]
    <2> DEFINE Kept == pending'[m] = pending[m] /\ delivered'[m] = delivered[m]
    <2>1. CASE NewBlock \/ UNCHANGED vars
      BY <2>1 DEF NewBlock, vars, Kept
    <2>2. ASSUME NEW l \in Listeners, Cancel(l) PROVE Kept
      BY <2>2, DTypes DEF Cancel, Kept
    <2>3. ASSUME NEW l \in Listeners, RegisterScan(l) PROVE Kept
      BY <2>3, DTypes DEF RegisterScan, Kept
    <2>4. ASSUME NEW l \in Listeners, RegisterInstall(l) PROVE Kept
      BY <2>4, DTypes DEF RegisterInstall, Kept
    <2>5. ASSUME NEW l \in Listeners, BackfillWait(l) PROVE Kept
      BY <2>5, DTypes DEF BackfillWait, Kept
    <2>6. ASSUME NEW l \in Listeners, BackfillMeta(l) PROVE Kept
      BY <2>6, DTypes DEF BackfillMeta, Kept
    <2>7. ASSUME NEW l \in Listeners, BackfillBlock(l) PROVE Kept
      BY <2>7, DTypes DEF BackfillBlock, Kept
    <2>8. ASSUME NEW l \in Listeners, BackfillFinish(l) PROVE Kept
      BY <2>8, DTypes DEF BackfillFinish, Kept
    <2>9. ASSUME NEW l \in Listeners \ {m}, BackfillCall(l) PROVE Kept
      BY <2>9, DTypes DEF BackfillCall, Deliver, Kept
    <2>10. ASSUME NEW l \in Listeners \ {m}, Drain(l) PROVE Kept
      BY <2>10, DTypes DEF Drain, Deliver, Kept
    <2>11. QED
      BY <2>1, <2>2, <2>3, <2>4, <2>5, <2>6, <2>7, <2>8, <2>9, <2>10 DEF Kept
  <1>3. InFlightOf(m)' = InFlightOf(m)
    BY <1>1 DEF InFlightOf
  <1>4. QED
    BY <1>1, <1>2, <1>3, OnceUntouched

\* The dispatcher starts wrappers for block next only.
LEMMA OnceDispatch ==
  ASSUME IInv, NEW m \in Listeners, OnceInv(m), Dispatch
  PROVE  OnceInv(m)'
  <1>1. next' = next + 1 /\ next \in Nat
    BY DTypes DEF Dispatch
  <1>2. UNCHANGED <<pending, delivered, pushTasks, started, startBlock>>
    BY DEF Dispatch
  <1>3. \A x \in Nat : x < next /\ x \in InFlightOf(m)' => x \in InFlightOf(m)
    <2>1. \A t \in casTasks' : t \in casTasks \/ t[2] = next
      BY DEF Dispatch
    <2>2. QED
      BY <1>2, <2>1 DEF InFlightOf
  <1>4. LiveOnce(pending[m], delivered[m], InFlightOf(m)', next')
    <2>1. pending[m] \in Seq(Nat) /\ delivered[m] \in Seq(CallRecord)
      BY PendingNat, DTypes
    <2>2. next' \in Nat /\ next <= next'
      BY <1>1
    <2>3. LiveOnce(pending[m], delivered[m], InFlightOf(m), next)
      BY DEF OnceInv
    <2>4. QED
      BY <1>1, <1>3, <2>1, <2>2, <2>3, LiveOnceFrame
  <1>5. QED
    BY <1>2, <1>4 DEF OnceInv, ReplayBelowStart

\* The CAS moves a wrapper from the CAS set to the push set; it sets the
\* first live block of m only while it is unset, when no block was replayed.
LEMMA OnceCAS ==
  ASSUME IInv, NEW m \in Listeners, OnceInv(m), NEW t \in casTasks,
         WrapperCAS(t[1], t[2])
  PROVE  OnceInv(m)'
  <1>1. casTasks' \cup pushTasks' = casTasks \cup pushTasks
    <2>1. <<t[1], t[2]>> = t
      BY DTypes
    <2>2. QED
      BY <2>1 DEF WrapperCAS
  <1>2. UNCHANGED <<pending, delivered, next>>
    BY DEF WrapperCAS
  <1>3. InFlightOf(m)' = InFlightOf(m)
    BY <1>1 DEF InFlightOf
  <1>4. LiveOnce(pending[m], delivered[m], InFlightOf(m), next)'
    BY <1>2, <1>3 DEF OnceInv
  <1>5. ReplayBelowStart(m)'
    <2>1. CASE startBlock'[m] = startBlock[m] /\ started'[m] = started[m]
      BY <1>2, <2>1 DEF OnceInv, ReplayBelowStart
    <2>2. CASE ~(startBlock'[m] = startBlock[m] /\ started'[m] = started[m])
      <3>1. startBlock[m] = 0
        <4>1. t[1] \in Listeners
          BY DTypes
        <4>2. CASE startBlock[t[1]] # 0
          BY <2>2, <4>2 DEF WrapperCAS
        <4>3. CASE startBlock[t[1]] = 0 /\ m # t[1]
          <5>1. startBlock' = [startBlock EXCEPT ![t[1]] = t[2]]
                /\ started' = [started EXCEPT ![t[1]] = TRUE]
            BY <4>3 DEF WrapperCAS
          <5>2. startBlock \in [Listeners -> Heights] /\ started \in [Listeners -> BOOLEAN]
            BY DTypes
          <5>3. QED
            BY <2>2, <4>3, <5>1, <5>2
        <4>4. QED
          BY <4>2, <4>3
      <3>2. \A i \in DOMAIN delivered[m] : delivered[m][i].h \in Nat
        <4>1. delivered[m] \in Seq(CallRecord)
          BY DTypes
        <4>2. \A i \in DOMAIN delivered[m] : delivered[m][i] \in CallRecord
          BY <4>1, ElementOfSeq
        <4>3. QED
          BY <4>2 DEF CallRecord
      <3>3. \A i \in DOMAIN delivered[m] : LiveCall(delivered[m], i)
        BY <3>1, <3>2 DEF OnceInv, ReplayBelowStart, ReplayIn
      <3>4. QED
        BY <1>2, <3>3 DEF ReplayBelowStart, ReplayIn
    <2>3. QED
      BY <2>1, <2>2
  <1>6. QED
    BY <1>4, <1>5 DEF OnceInv

\* A wrapper of m buffers its block or calls back directly, and ends; a
\* wrapper of another listener just ends.
LEMMA OncePush ==
  ASSUME IInv, TasksInv, NEW m \in Listeners, OnceInv(m),
         NEW l \in Listeners, NEW x \in Heights, WrapperPush(l, x)
  PROVE  OnceInv(m)'
  <1>1. /\ pushTasks' = pushTasks \ {<<l, x>>} /\ <<l, x>> \in pushTasks
        /\ UNCHANGED <<casTasks, next, started, startBlock>>
    BY DEF WrapperPush
  <1>2. /\ pending[m] \in Seq(Nat) /\ delivered[m] \in Seq(CallRecord)
        /\ next \in Nat /\ x \in Nat
    BY PendingNat, DTypes DEF Heights
  <1>3. LiveOnce(pending[m], delivered[m], InFlightOf(m), next)
    BY DEF OnceInv
  <1>4. CASE l # m
    <2>1. pending'[m] = pending[m] /\ delivered'[m] = delivered[m]
      BY <1>4, DTypes DEF WrapperPush, Deliver
    <2>2. \A y \in Nat : y < next /\ y \in InFlightOf(m)' => y \in InFlightOf(m)
      BY <1>1 DEF InFlightOf
    <2>3. LiveOnce(pending[m], delivered[m], InFlightOf(m)', next)
      <3>1. next \in Nat /\ next <= next
        BY <1>2
      <3>2. QED
        BY <1>2, <1>3, <2>2, <3>1, LiveOnceFrame
    <2>4. QED
      BY <1>1, <2>1, <2>3 DEF OnceInv, ReplayBelowStart
  <1>5. CASE l = m
    <2>1. x \in InFlightOf(m) /\ x < next
      BY <1>1, <1>2, <1>5 DEF InFlightOf, TasksInv
    <2>2. InFlightOf(m)' = InFlightOf(m) \ {x}
      <3>1. <<m, x>> \notin casTasks
        BY <1>1, <1>5 DEF TasksInv
      <3>2. QED
        BY <1>1, <1>5, <3>1 DEF InFlightOf
    <2>3. CASE TryPushAccepts(m)
      <3>1. pending'[m] = Append(pending[m], x) /\ delivered'[m] = delivered[m]
        BY <1>5, <2>3, DTypes DEF WrapperPush
      <3>2. LiveOnce(Append(pending[m], x), delivered[m], InFlightOf(m) \ {x}, next)
        BY <1>2, <1>3, <2>1, LiveOncePush
      <3>3. QED
        BY <1>1, <2>2, <3>1, <3>2 DEF OnceInv, ReplayBelowStart
    <2>4. CASE ~TryPushAccepts(m)
      <3> DEFINE r == [h |-> x, via |-> "direct", late |-> cancelled[m]]
      <3>1. r \in CallRecord /\ r.h = x /\ r.via # "backfill"
        BY <1>2, DTypes DEF CallRecord, Vias
      <3>2. delivered'[m] = Append(delivered[m], r) /\ pending'[m] = pending[m]
        BY <1>5, <2>4, DTypes DEF WrapperPush, Deliver
      <3>3. LiveOnce(pending[m], Append(delivered[m], r), InFlightOf(m) \ {x}, next)
        BY <1>2, <1>3, <2>1, <3>1, LiveOnceDirect
      <3>4. ReplayBelowStart(m)'
        BY <1>1, <3>1, <3>2, ReplayStep DEF OnceInv
      <3>5. QED
        BY <1>1, <2>2, <3>2, <3>3, <3>4 DEF OnceInv
    <2>5. QED
      BY <2>3, <2>4
  <1>6. QED
    BY <1>4, <1>5

\* pendingEvents.Do calls back with the oldest buffered block of m.
LEMMA OnceDrain ==
  ASSUME IInv, NEW m \in Listeners, OnceInv(m), Drain(m)
  PROVE  OnceInv(m)'
  <1>1. UNCHANGED <<casTasks, pushTasks, next, started, startBlock>>
    BY DEF Drain
  <1>2. InFlightOf(m)' = InFlightOf(m)
    BY <1>1 DEF InFlightOf
  <1>3. CASE DrainCloses(m)
    <2>1. pending'[m] = pending[m] /\ delivered'[m] = delivered[m]
      BY <1>3 DEF Drain
    <2>2. QED
      BY <1>1, <1>2, <2>1, OnceUntouched
  <1>4. CASE ~DrainCloses(m)
    <3> DEFINE r == [h |-> Head(pending[m]), via |-> "pending",
                     late |-> cancelled[m]]
    <3>1. pending[m] \in Seq(Nat) /\ pending[m] # <<>>
          /\ delivered[m] \in Seq(CallRecord) /\ next \in Nat
      BY <1>4, PendingNat, DTypes DEF DrainCloses
    <3>2. Head(pending[m]) \in Nat
      BY <3>1, HeadTailProperties
    <3>3. r \in CallRecord /\ r.h = Head(pending[m]) /\ r.via # "backfill"
      BY <3>2, DTypes DEF CallRecord, Vias
    <3>4. delivered'[m] = Append(delivered[m], r)
          /\ pending'[m] = Tail(pending[m])
      BY <1>4, DTypes DEF Drain, Deliver
    <3>5. LiveOnce(Tail(pending[m]), Append(delivered[m], r), InFlightOf(m), next)
      BY <3>1, <3>3, LiveOnceDrain DEF OnceInv
    <3>6. ReplayBelowStart(m)'
      BY <1>1, <3>3, <3>4, ReplayStep DEF OnceInv
    <3>7. QED
      BY <1>1, <1>2, <3>4, <3>5, <3>6 DEF OnceInv
  <1>5. QED
    BY <1>3, <1>4

\* The callback of a replayed block, which GapInv puts below the first live
\* block.
LEMMA OnceCall ==
  ASSUME IInv, NEW m \in Listeners, GapInv(m), OnceInv(m), BackfillCall(m)
  PROVE  OnceInv(m)'
  <1> DEFINE r == [h |-> cur[m], via |-> "backfill", late |-> cancelled[m]]
  <1>1. UNCHANGED <<casTasks, pushTasks, next, started, startBlock, pending>>
    BY DEF BackfillCall
  <1>2. InFlightOf(m)' = InFlightOf(m)
    BY <1>1 DEF InFlightOf
  <1>3. /\ r \in CallRecord /\ r.via = "backfill"
        /\ delivered[m] \in Seq(CallRecord) /\ pending[m] \in Seq(Nat)
        /\ next \in Nat
    BY DTypes, PendingNat DEF CallRecord, Vias
  <1>4. delivered'[m] = Append(delivered[m], r)
    BY DTypes DEF BackfillCall, Deliver
  <1>5. started[m] /\ cur[m] < startBlock[m]
    BY DEF BackfillCall, GapInv
  <1>6. LiveOnce(pending[m], Append(delivered[m], r), InFlightOf(m), next)
    BY <1>3, LiveOnceReplay DEF OnceInv
  <1>7. ReplayBelowStart(m)'
    BY <1>1, <1>3, <1>4, <1>5, ReplayStep DEF OnceInv
  <1>8. QED
    BY <1>1, <1>2, <1>4, <1>6, <1>7 DEF OnceInv

\* Every step keeps OnceInv of every listener.
LEMMA OnceStep ==
  ASSUME IInv, TasksInv, NEW m \in Listeners, GapInv(m), OnceInv(m),
         [Next]_vars
  PROVE  OnceInv(m)'
  <1>1. CASE \/ NewBlock \/ UNCHANGED vars
             \/ \E l \in Listeners :
                  \/ Cancel(l) \/ RegisterScan(l) \/ RegisterInstall(l)
                  \/ BackfillWait(l) \/ BackfillMeta(l) \/ BackfillBlock(l)
                  \/ BackfillFinish(l)
    BY <1>1, OnceQuiet
  <1>2. CASE Dispatch
    BY <1>2, OnceDispatch
  <1>3. CASE \E t \in casTasks : WrapperCAS(t[1], t[2])
    BY <1>3, OnceCAS
  <1>4. ASSUME NEW t \in pushTasks, WrapperPush(t[1], t[2])
        PROVE  OnceInv(m)'
    <2>1. t[1] \in Listeners /\ t[2] \in Heights
      BY DTypes
    <2>2. QED
      BY <1>4, <2>1, OncePush
  <1>5. ASSUME NEW l \in Listeners, BackfillCall(l) \/ Drain(l)
        PROVE  OnceInv(m)'
    <2>1. CASE l # m
      BY <1>5, <2>1, OnceQuiet
    <2>2. CASE l = m
      BY <1>5, <2>2, OnceCall, OnceDrain
    <2>3. QED
      BY <2>1, <2>2
  <1>6. QED
    BY <1>1, <1>2, <1>3, <1>4, <1>5 DEF Next

-----------------------------------------------------------------------------
(* The theorems.                                                           *)

LEMMA DInvStep == DInv /\ [Next]_vars => DInv'
  <1> SUFFICES ASSUME DInv, [Next]_vars PROVE DInv'
    OBVIOUS
  <1>1. IInv /\ TasksInv
    BY DEF DInv
  <1>2. IInv'
    BY <1>1, IInvStep
  <1>3. TasksInv'
    BY <1>1, TasksStep
  <1>4. ASSUME NEW m \in Listeners PROVE GapInv(m)' /\ OnceInv(m)'
    <2>1. GapInv(m) /\ OnceInv(m)
      BY DEF DInv
    <2>2. QED
      BY <1>1, <2>1, GapStep, OnceStep
  <1>5. QED
    BY <1>2, <1>3, <1>4 DEF DInv

\* The strengthened invariant holds in every reachable state.
LEMMA DInvInvariant == Spec => []DInv
  BY DInvInit, DInvStep, PTL DEF Spec

\* For every number of listeners, ids and blocks: when the backfill
\* goroutine of RegisterEventsListener reaches pendingEvents.Do, its loop
\* `for currentBlock := begin; currentBlock < subscriptionStartBlock;
\* currentBlock++` has handed every block of [begin, subscriptionStartBlock)
\* to the callback, except those whose events failed to decode.
THEOREM ReplayCoversGap == Spec => []BackfillCoversGap
  <1>1. DInv => BackfillCoversGap
    BY DEF DInv, GapInv, Covered, CoveredIn, BackfillCoversGap
  <1>2. QED
    BY <1>1, DInvInvariant, PTL

\* For every number of listeners, ids and blocks: a block at or past the
\* first live block a callbackWrapper captured reaches the callback at most
\* once, because the dispatcher fans each block out to a listener once and
\* the wrapper, TryPush and pendingEvents.Do pass it on without copying;
\* only the replay can repeat a block, and it stays below the first live
\* block.
THEOREM LiveDeliveredOnce == Spec => []NoDuplicateFromStart
  <1>1. DInv => NoDuplicateFromStart
    <2> SUFFICES ASSUME DInv, NEW l \in Listeners, started[l],
                        NEW i \in DOMAIN delivered[l],
                        NEW j \in DOMAIN delivered[l],
                        i # j, delivered[l][i].h = delivered[l][j].h
                 PROVE  delivered[l][i].h < startBlock[l]
      BY DEF NoDuplicateFromStart
    <2>1. OnceInv(l)
      BY DEF DInv
    <2>2. CASE LiveCall(delivered[l], i) /\ LiveCall(delivered[l], j)
      BY <2>1, <2>2 DEF OnceInv, LiveOnce, LiveDistinct
    <2>3. CASE ~LiveCall(delivered[l], i)
      BY <2>1, <2>3 DEF OnceInv, ReplayBelowStart, ReplayIn
    <2>4. CASE ~LiveCall(delivered[l], j)
      BY <2>1, <2>4 DEF OnceInv, ReplayBelowStart, ReplayIn
    <2>5. QED
      BY <2>2, <2>3, <2>4
  <1>2. QED
    BY <1>1, DInvInvariant, PTL

=============================================================================
