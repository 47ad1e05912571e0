---------------------------- MODULE QueueProofs -----------------------------
(***************************************************************************)
(* Proofs about the programs in which threads hand messages to each other: *)
(* AsyncChannel, for any set of producers and any test_count; UvZsock;     *)
(* ZmqInproc, for any water mark; ZmqPubSub, for any number of messages    *)
(* and failures.                                                           *)
(*                                                                         *)
(* AsyncChannel's Conservation is not inductive: it needs that a push_back *)
(* in progress stores back the vector it read (SeenIsCurrent), which needs *)
(* mutual exclusion, and that the callback swaps against an empty local    *)
(* vector (TmpEmptyBeforeSwap).  NoLostWakeup needs the latter too.        *)
(*                                                                         *)
(* UvZsock never lets the loop sleep on an event because the prepare       *)
(* callback leaves it in one of two states: the idle handle is active, or  *)
(* every event waited for that is not there is armed.  In the poll nobody  *)
(* but ZeroMQ's thread touches the socket, so the second state lasts until *)
(* an event comes and is signalled.                                        *)
(***************************************************************************)
EXTENDS AsyncChannel, Queues, TLAPS

-----------------------------------------------------------------------------
(* Facts about joining lists that the steps below use. *)
LEMMA ConcatProperties ==
    ASSUME NEW S, NEW s \in Seq(S), NEW t \in Seq(S)
    PROVE  s \o t \in Seq(S) /\ Len(s \o t) = Len(s) + Len(t)
  OBVIOUS

LEMMA ConcatEmpty ==
    ASSUME NEW S, NEW s \in Seq(S)
    PROVE  s \o <<>> = s /\ <<>> \o s = s
  OBVIOUS

LEMMA ConcatAssociative ==
    ASSUME NEW S, NEW s \in Seq(S), NEW t \in Seq(S), NEW u \in Seq(S)
    PROVE  (s \o t) \o u = s \o (t \o u)
  OBVIOUS

LEMMA AppendIsConcat ==
    ASSUME NEW S, NEW s \in Seq(S), NEW e \in S
    PROVE  Append(s, e) = s \o <<e>>
  OBVIOUS

LEMMA PrefixOfConcat ==
    ASSUME NEW S, NEW s \in Seq(S), NEW t \in Seq(S)
    PROVE  SubSeq(s \o t, 1, Len(s)) = s
  OBVIOUS

(* While a producer is inside push_back, what it read is still the vector. *)
SeenIsCurrent == \A p \in Producers : pc[p] = "store" => seen[p] = global_vec

(* on_async_cb's local vector is empty until the swap. *)
TmpEmptyBeforeSwap == cb \in {"poll", "lock", "swap"} => tmp_data = <<>>

IInv == /\ TypeOK
        /\ MutualExclusion
        /\ SeenIsCurrent
        /\ TmpEmptyBeforeSwap
        /\ NoLostWakeup
        /\ Conservation

-----------------------------------------------------------------------------
(* The type invariant is inductive by itself: no step leaves a type, and   *)
(* producer_thread's loop test keeps k below test_count inside DoAsync.    *)
LEMMA TypeInit == Init => TypeOK
<1> SUFFICES ASSUME Init PROVE TypeOK
  OBVIOUS
<1> USE TestCountAssumption DEF Init
<1>1. pending \in BOOLEAN
  BY Zenon
<1>2. pc \in [Producers -> ProducerPoint] /\ k \in [Producers -> 0..TestCount]
  BY DEF ProducerPoint
<1>3. \A p \in Producers : pc[p] # "done" => k[p] < TestCount
  OBVIOUS
<1> QED
  BY <1>1, <1>2, <1>3 DEF TypeOK, LoopPoint

LEMMA TypeStep == TypeOK /\ [Next]_vars => TypeOK'
<1> SUFFICES ASSUME TypeOK, [Next]_vars PROVE TypeOK'
  OBVIOUS
<1> USE TestCountAssumption DEF TypeOK, ProducerPoint, LoopPoint
<1>1. ASSUME NEW p \in Producers, DoAsyncLock(p) PROVE TypeOK'
  BY <1>1, Zenon DEF DoAsyncLock, SpinLock
<1>2. ASSUME NEW p \in Producers, DoAsyncPushRead(p) PROVE TypeOK'
  BY <1>2, Zenon DEF DoAsyncPushRead
<1>3. ASSUME NEW p \in Producers, DoAsyncPushStore(p) PROVE TypeOK'
  <2>1. <<p, k[p]>> \in Items
    <3>0. pc[p] # "done" /\ k[p] \in 0..TestCount
      BY <1>3, Zenon DEF DoAsyncPushStore
    <3>1. k[p] \in 0..(TestCount - 1)
      BY <3>0
    <3> HIDE DEF TypeOK
    <3> QED
      BY <3>1, Zenon DEF Items
  <2>2. global_vec' \in Seq(Items) /\ sent' \in Seq(Items)
    BY <1>3, <2>1 DEF DoAsyncPushStore
  <2> QED
    BY <1>3, <2>2 DEF DoAsyncPushStore
<1>4. ASSUME NEW p \in Producers, DoAsyncUnlock(p) PROVE TypeOK'
  BY <1>4, Zenon DEF DoAsyncUnlock, SpinUnlock
<1>5. ASSUME NEW p \in Producers, DoAsyncSend(p) PROVE TypeOK'
  <2>1. pending' \in BOOLEAN
    BY <1>5, Zenon DEF DoAsyncSend
  <2>2. k' \in [Producers -> 0..TestCount] /\ pc' \in [Producers -> ProducerPoint]
    <3>1. pc[p] # "done" /\ k[p] \in 0..TestCount
      BY <1>5, Zenon DEF DoAsyncSend
    <3>2. k[p] + 1 \in 0..TestCount
      BY <3>1
    <3> QED
      BY <1>5, <3>2, Zenon DEF DoAsyncSend
  <2>3. \A q \in Producers : pc'[q] # "done" => k'[q] < TestCount
    BY <1>5, Zenon DEF DoAsyncSend
  <2> QED
    BY <1>5, <2>1, <2>2, <2>3, Zenon DEF DoAsyncSend
<1>6. CASE LoopStep
  <2>1. CASE UvAsyncWakeup
    <3>1. pending' \in BOOLEAN
      BY <2>1, Zenon DEF UvAsyncWakeup
    <3> QED
      BY <2>1, <3>1 DEF UvAsyncWakeup
  <2>2. CASE OnAsyncLock
    BY <2>2, Zenon DEF OnAsyncLock, SpinLock
  <2>3. CASE OnAsyncSwap
    BY <2>3, Zenon DEF OnAsyncSwap
  <2>4. CASE OnAsyncUnlock
    BY <2>4, Zenon DEF OnAsyncUnlock, SpinUnlock
  <2>5. CASE OnAsyncCount
    BY <2>5 DEF OnAsyncCount
  <2> QED
    BY <1>6, <2>1, <2>2, <2>3, <2>4, <2>5, Zenon DEF LoopStep
<1>7. CASE UNCHANGED vars
  BY <1>7, Zenon DEF vars
<1> QED
  BY <1>1, <1>2, <1>3, <1>4, <1>5, <1>6, <1>7, Zenon DEF Next, ProducerStep

(* The channel's variables keep their types in every behaviour. *)
THEOREM TypeCorrect == Spec => []TypeOK
  BY TypeInit, TypeStep, PTL DEF Spec

-----------------------------------------------------------------------------
(* The spinlock excludes, whatever order the threads run in. *)
LEMMA MutexStep == TypeOK /\ MutualExclusion /\ [Next]_vars => MutualExclusion'
<1> SUFFICES ASSUME TypeOK, MutualExclusion, [Next]_vars
             PROVE  MutualExclusion'
  OBVIOUS
<1> USE DEF TypeOK, MutualExclusion, ProducerHolds, LoopHolds, ProducerPoint,
            LoopPoint
<1>1. ASSUME NEW p \in Producers, DoAsyncLock(p) PROVE MutualExclusion'
  BY <1>1, Zenon DEF DoAsyncLock, SpinLock
<1>2. ASSUME NEW p \in Producers, DoAsyncPushRead(p) PROVE MutualExclusion'
  BY <1>2, Zenon DEF DoAsyncPushRead
<1>3. ASSUME NEW p \in Producers, DoAsyncPushStore(p) PROVE MutualExclusion'
  BY <1>3, Zenon DEF DoAsyncPushStore
<1>4. ASSUME NEW p \in Producers, DoAsyncUnlock(p) PROVE MutualExclusion'
  BY <1>4, Zenon DEF DoAsyncUnlock, SpinUnlock
<1>5. ASSUME NEW p \in Producers, DoAsyncSend(p) PROVE MutualExclusion'
  BY <1>5, Zenon DEF DoAsyncSend
<1>6. CASE LoopStep
  BY Zenon, <1>6 DEF LoopStep, UvAsyncWakeup, OnAsyncLock, OnAsyncSwap,
              OnAsyncUnlock, OnAsyncCount, SpinLock, SpinUnlock
<1>7. CASE UNCHANGED vars
  BY <1>7, Zenon DEF vars
<1> QED
  BY <1>1, <1>2, <1>3, <1>4, <1>5, <1>6, <1>7, Zenon DEF Next, ProducerStep

(* The lock words and positions of the initial state exclude. *)
LEMMA MutexInit == Init => MutualExclusion
  BY Zenon DEF Init, MutualExclusion, ProducerHolds, LoopHolds

(* At most one thread at a time is between lock() and unlock(). *)
THEOREM SpinlockExcludes == Spec => []MutualExclusion
<1>1. Init => TypeOK /\ MutualExclusion
  BY TypeInit, MutexInit, Zenon
<1>2. TypeOK /\ MutualExclusion /\ [Next]_vars => (TypeOK /\ MutualExclusion)'
  BY TypeStep, MutexStep, Zenon
<1> QED
  BY <1>1, <1>2, PTL DEF Spec

-----------------------------------------------------------------------------
(* The lock protects a push_back in progress and the callback's local      *)
(* vector is fresh, so the two auxiliary invariants hold.                  *)
LEMMA AuxStep ==
    ASSUME TypeOK, MutualExclusion, SeenIsCurrent, TmpEmptyBeforeSwap,
           [Next]_vars
    PROVE  SeenIsCurrent' /\ TmpEmptyBeforeSwap'
<1> USE DEF TypeOK, MutualExclusion, SeenIsCurrent, TmpEmptyBeforeSwap,
            ProducerHolds, LoopHolds, ProducerPoint, LoopPoint
<1> DEFINE Goal == SeenIsCurrent' /\ TmpEmptyBeforeSwap'
<1>1. ASSUME NEW p \in Producers, DoAsyncLock(p) PROVE Goal
  BY <1>1, Zenon DEF DoAsyncLock, SpinLock
<1>2. ASSUME NEW p \in Producers, DoAsyncPushRead(p) PROVE Goal
  BY <1>2, Zenon DEF DoAsyncPushRead
<1>3. ASSUME NEW p \in Producers, DoAsyncPushStore(p) PROVE Goal
  BY <1>3, Zenon DEF DoAsyncPushStore
<1>4. ASSUME NEW p \in Producers, DoAsyncUnlock(p) PROVE Goal
  BY <1>4, Zenon DEF DoAsyncUnlock, SpinUnlock
<1>5. ASSUME NEW p \in Producers, DoAsyncSend(p) PROVE Goal
  BY <1>5, Zenon DEF DoAsyncSend
<1>6. CASE LoopStep
  BY Zenon, <1>6 DEF LoopStep, UvAsyncWakeup, OnAsyncLock, OnAsyncSwap,
              OnAsyncUnlock, OnAsyncCount, SpinLock, SpinUnlock
<1>7. CASE UNCHANGED vars
  BY <1>7, Zenon DEF vars
<1> QED
  BY <1>1, <1>2, <1>3, <1>4, <1>5, <1>6, <1>7, Zenon DEF Next, ProducerStep

-----------------------------------------------------------------------------
(* A push leaves its producer short of uv_async_send, a send leaves the    *)
(* handle pending, a wakeup leads to the swap, and the swap empties the    *)
(* vector: no step leaves items behind with nobody to come for them.       *)
LEMMA WakeupStep ==
    ASSUME TypeOK, TmpEmptyBeforeSwap, NoLostWakeup, [Next]_vars
    PROVE  NoLostWakeup'
<1> USE DEF TypeOK, TmpEmptyBeforeSwap, NoLostWakeup, ProducerPoint, LoopPoint
<1>1. ASSUME NEW p \in Producers, DoAsyncLock(p) PROVE NoLostWakeup'
  BY <1>1, Zenon DEF DoAsyncLock
<1>2. ASSUME NEW p \in Producers, DoAsyncPushRead(p) PROVE NoLostWakeup'
  BY <1>2, Zenon DEF DoAsyncPushRead
<1>3. ASSUME NEW p \in Producers, DoAsyncPushStore(p) PROVE NoLostWakeup'
  BY <1>3, Zenon DEF DoAsyncPushStore
<1>4. ASSUME NEW p \in Producers, DoAsyncUnlock(p) PROVE NoLostWakeup'
  BY <1>4, Zenon DEF DoAsyncUnlock
<1>5. ASSUME NEW p \in Producers, DoAsyncSend(p) PROVE NoLostWakeup'
  BY <1>5, Zenon DEF DoAsyncSend
<1>6. CASE LoopStep
  BY Zenon, <1>6 DEF LoopStep, UvAsyncWakeup, OnAsyncLock, OnAsyncSwap,
              OnAsyncUnlock, OnAsyncCount
<1>7. CASE UNCHANGED vars
  BY <1>7, Zenon DEF vars
<1> QED
  BY <1>1, <1>2, <1>3, <1>4, <1>5, <1>6, <1>7, Zenon DEF Next, ProducerStep

-----------------------------------------------------------------------------
(* The three parts of the channel always make up what was put in. *)
LEMMA ConservationStep ==
    ASSUME TypeOK, SeenIsCurrent, TmpEmptyBeforeSwap, Conservation, [Next]_vars
    PROVE  Conservation'
<1> USE DEF TypeOK, Conservation
<1>1. ASSUME NEW p \in Producers, DoAsyncPushStore(p) PROVE Conservation'
  <2> DEFINE x == <<p, k[p]>>
  <2>1. seen[p] = global_vec
    BY <1>1, Zenon DEF DoAsyncPushStore, SeenIsCurrent
  <2>2. x \in Items
    <3>1. k[p] \in 0..(TestCount - 1)
      <4>1. pc[p] # "done" /\ k[p] \in 0..TestCount
        BY <1>1, Zenon DEF DoAsyncPushStore
      <4> QED
        BY <4>1, TestCountAssumption
    <3> QED
      BY <3>1, Zenon DEF Items
  <2>3. global_vec' = global_vec \o <<x>> /\ sent' = sent \o <<x>>
    BY <1>1, <2>1, <2>2, AppendIsConcat, Zenon DEF DoAsyncPushStore
  <2>4. /\ delivered \o tmp_data \in Seq(Items)
        /\ global_vec \in Seq(Items)
        /\ <<x>> \in Seq(Items)
    BY <2>2
  <2>5. (delivered \o tmp_data) \o (global_vec \o <<x>>)
          = ((delivered \o tmp_data) \o global_vec) \o <<x>>
    <3> HIDE DEF TypeOK, Conservation, x
    <3> QED
      BY <2>4, ConcatAssociative
  <2> QED
    BY <1>1, <2>3, <2>5, Zenon DEF DoAsyncPushStore
<1>2. CASE OnAsyncSwap
  <2>1. tmp_data = <<>>
    BY <1>2, Zenon DEF OnAsyncSwap, TmpEmptyBeforeSwap
  <2>2. (delivered \o <<>>) \o global_vec = (delivered \o global_vec) \o <<>>
    BY ConcatEmpty
  <2> QED
    BY <1>2, <2>1, <2>2, Zenon DEF OnAsyncSwap
<1>3. CASE OnAsyncCount
  <2>1. (delivered \o tmp_data) \o <<>> = delivered \o tmp_data
    BY ConcatEmpty
  <2>2. Len(delivered \o tmp_data) = Len(delivered) + Len(tmp_data)
    BY ConcatProperties, Zenon
  <2> QED
    BY <1>3, <2>1, <2>2, Zenon DEF OnAsyncCount
<1>4. CASE UvAsyncWakeup
  BY <1>4, Zenon DEF UvAsyncWakeup, TmpEmptyBeforeSwap
<1>5. CASE UNCHANGED <<delivered, tmp_data, global_vec, sent, total_consumer>>
  BY <1>5, Zenon
<1> QED
  BY <1>1, <1>2, <1>3, <1>4, <1>5, Zenon
     DEF Next, ProducerStep, LoopStep, DoAsyncLock, DoAsyncPushRead,
         DoAsyncUnlock, DoAsyncSend, OnAsyncLock, OnAsyncUnlock, vars

-----------------------------------------------------------------------------
LEMMA InvInit == Init => IInv
<1> SUFFICES ASSUME Init PROVE IInv
  OBVIOUS
<1>1. TypeOK /\ MutualExclusion
  BY TypeInit, MutexInit, Zenon
<1>2. SeenIsCurrent /\ TmpEmptyBeforeSwap /\ NoLostWakeup
  BY TestCountAssumption, Zenon DEF Init, SeenIsCurrent, TmpEmptyBeforeSwap, NoLostWakeup
<1>3. Conservation
  BY DEF Init, Conservation
<1> QED
  BY <1>1, <1>2, <1>3, Zenon DEF IInv

LEMMA InvStep == IInv /\ [Next]_vars => IInv'
  BY TypeStep, MutexStep, AuxStep, WakeupStep, ConservationStep, Zenon DEF IInv

(* IInv holds in every state of every behaviour of the channel. *)
THEOREM Invariance == Spec => []IInv
  BY InvInit, InvStep, PTL DEF Spec

(* Coalesced uv_async_send calls never strand an item in global_vec. *)
THEOREM WakeupNeverLost == Spec => []NoLostWakeup
<1>1. IInv => NoLostWakeup
  BY Zenon DEF IInv
<1> QED
  BY <1>1, Invariance, PTL

(* Every item goes from DoAsync to total_consumer once and in order. *)
THEOREM NothingLost == Spec => []Conservation
<1>1. IInv => Conservation
  BY Zenon DEF IInv
<1> QED
  BY <1>1, Invariance, PTL

-----------------------------------------------------------------------------
(* on_async_cb takes a batch out of the abstract channel. *)
LEMMA CountTakesBatch ==
    ASSUME TypeOK, Conservation, OnAsyncCount
    PROVE  [Fifo!Next]_<<sent, delivered>>
<1> DEFINE n == Len(delivered) + Len(tmp_data)
<1>1. delivered \in Seq(Items) /\ tmp_data \in Seq(Items) /\ global_vec \in Seq(Items)
  BY Zenon DEF TypeOK
<1>2. delivered' = delivered \o tmp_data /\ UNCHANGED sent
  BY Zenon DEF OnAsyncCount
<1>3. CASE tmp_data = <<>>
  BY <1>1, <1>2, <1>3, ConcatEmpty, Zenon
<1>4. CASE tmp_data # <<>>
  <2>1. sent = (delivered \o tmp_data) \o global_vec
    BY Zenon DEF Conservation
  <2>2. delivered \o tmp_data \in Seq(Items) /\ Len(delivered \o tmp_data) = n
    BY <1>1, ConcatProperties, Zenon
  <2>3. Len(sent) = n + Len(global_vec)
    BY <1>1, <2>1, <2>2, ConcatProperties
  <2>4. n \in (Len(delivered) + 1)..Len(sent)
    <3>1. Len(tmp_data) \in Nat /\ Len(tmp_data) # 0 /\ Len(delivered) \in Nat
            /\ Len(global_vec) \in Nat
      BY <1>1, <1>4
    <3> QED
      BY <2>3, <3>1
  <2>5. delivered' = SubSeq(sent, 1, n)
    <3>1. SubSeq(sent, 1, n) = delivered \o tmp_data
      <4> HIDE DEF n
      <4> QED
        BY <1>1, <2>1, <2>2, PrefixOfConcat, Zenon
    <3> QED
      BY <1>2, <3>1, Zenon
  <2> QED
    BY <1>2, <2>4, <2>5, Zenon DEF Fifo!Next, Fifo!Take
<1> QED
  BY <1>3, <1>4, Zenon

(* Every step of the threads is a step of the FIFO or leaves it alone. *)
LEMMA FifoStep ==
    ASSUME TypeOK, Conservation, [Next]_vars
    PROVE  [Fifo!Next]_<<sent, delivered>>
<1>1. ASSUME NEW p \in Producers, DoAsyncPushStore(p)
      PROVE  [Fifo!Next]_<<sent, delivered>>
  <2>1. pc[p] # "done" /\ k[p] \in 0..TestCount
    BY <1>1, Zenon DEF DoAsyncPushStore, TypeOK
  <2>2. k[p] < TestCount
    BY <2>1, Zenon DEF TypeOK
  <2>3. <<p, k[p]>> \in Items
    BY <2>1, <2>2, TestCountAssumption DEF Items
  <2> QED
    BY <1>1, <2>3, Zenon DEF DoAsyncPushStore, Fifo!Next, Fifo!Put
<1>2. CASE OnAsyncCount
  BY <1>2, CountTakesBatch, Zenon
<1>3. CASE UNCHANGED <<sent, delivered>>
  BY <1>3, Zenon
<1> QED
  BY <1>1, <1>2, <1>3, Zenon
     DEF Next, ProducerStep, LoopStep, DoAsyncLock, DoAsyncPushRead,
         DoAsyncUnlock, DoAsyncSend, UvAsyncWakeup, OnAsyncLock, OnAsyncSwap,
         OnAsyncUnlock, vars

(* The threads, the spinlock and the coalescing handle together implement  *)
(* a FIFO channel with batched delivery.                                   *)
THEOREM ImplementsFifo == Spec => FifoSpec
<1>1. Init => Fifo!Init
  BY Zenon DEF Init, Fifo!Init
<1>2. IInv /\ [Next]_vars => [Fifo!Next]_<<sent, delivered>>
  BY FifoStep, Zenon DEF IInv
<1> QED
  BY <1>1, <1>2, Invariance, PTL DEF Spec, FifoSpec, Fifo!Spec, Fifo!channelVars

-----------------------------------------------------------------------------
(* The watcher of a ZeroMQ socket. *)

(* Nothing is missed in the poll: an event waited for is either there and  *)
(* signalled, or will be signalled when it comes.                          *)
Watched ==
    phase = "poll" /\ started /\ ~idle =>
        /\ \A e \in events : IF e \in ready THEN fd ELSE e \in armed
        /\ dead /\ events # {} => fd

(* A handle is closed once. *)
ClosingOpen == closing \cap closed = {}

ZsockInv == Zsock!TypeOK /\ Watched /\ Zsock!IdleOnlyToPoll /\ ClosingOpen /\ Zsock!ClosedOnce

-----------------------------------------------------------------------------
LEMMA ZsockInit == Zsock!Init => ZsockInv
  <1> SUFFICES ASSUME Zsock!Init PROVE ZsockInv
    OBVIOUS
  <1> USE DEF Zsock!Init
  <1>1. Zsock!TypeOK
    BY Zenon DEF Zsock!TypeOK
  <1>2. Watched /\ Zsock!IdleOnlyToPoll /\ ClosingOpen
    BY Zenon DEF Watched, Zsock!IdleOnlyToPoll, ClosingOpen
  <1>3. Zsock!ClosedOnce
    <2>1. closed # Zsock!Handles
      BY Zenon DEF Zsock!Handles
    <2> QED
      BY <2>1, Zenon DEF Zsock!ClosedOnce
  <1> QED
    BY <1>1, <1>2, <1>3, Zenon DEF ZsockInv

(* Every step keeps the types. *)
LEMMA ZsockTypeStep == Zsock!TypeOK /\ [Zsock!Next]_(Zsock!vars) => Zsock!TypeOK'
  <1> SUFFICES ASSUME Zsock!TypeOK, [Zsock!Next]_(Zsock!vars) PROVE Zsock!TypeOK'
    OBVIOUS
  <1> USE DEF Zsock!TypeOK
  <1>1. CASE Zsock!LoopStep
    <2>1. CASE Zsock!timers \/ Zsock!poll \/ Zsock!woken \/ Zsock!after \/ Zsock!iterate
      BY Zenon, <2>1 DEF Zsock!timers, Zsock!poll, Zsock!woken, Zsock!after, Zsock!iterate,
                  Zsock!zsock, Zsock!watch, Zsock!close
    <2>2. CASE Zsock!s_prepare_cb
      BY Zenon, <2>2 DEF Zsock!s_prepare_cb, Zsock!Asked, Zsock!s_get_revents, Zsock!zsock,
                  Zsock!close
    <2>3. CASE Zsock!s_check_cb
      BY Zenon, <2>3 DEF Zsock!s_check_cb, Zsock!Asked, Zsock!s_get_revents, Zsock!zsock,
                  Zsock!close
    <2>4. ASSUME NEW h \in Zsock!Handles, Zsock!s_close_cb(h) PROVE Zsock!TypeOK'
      BY <2>4 DEF Zsock!s_close_cb, Zsock!zsock, Zsock!watch
    <2> QED
      BY <1>1, <2>1, <2>2, <2>3, <2>4, Zenon DEF Zsock!LoopStep
  <1>2. CASE Zsock!UserStep
    BY Zenon, <1>2 DEF Zsock!UserStep, Zsock!uv_zsock_start, Zsock!uv_zsock_stop,
                Zsock!uv_zsock_close, Zsock!zsock, Zsock!watch, Zsock!close
  <1>3. CASE Zsock!other \/ Zsock!Terminate
    BY <1>3, Zenon DEF Zsock!other, Zsock!Terminate, Zsock!zsock, Zsock!watch, Zsock!close
  <1>4. ASSUME NEW e \in Zsock!Both, Zsock!Arrive(e) \/ Zsock!Use(e) PROVE Zsock!TypeOK'
    BY <1>4, Zenon DEF Zsock!Arrive, Zsock!Use, Zsock!zsock, Zsock!watch, Zsock!close
  <1>5. CASE UNCHANGED Zsock!vars
    BY <1>5, Zenon DEF Zsock!vars, Zsock!zsock, Zsock!watch, Zsock!close
  <1> QED
    BY <1>1, <1>2, <1>3, <1>4, <1>5, Zenon DEF Zsock!Next

(* Every step keeps the poll safe: the prepare callback establishes it and *)
(* in the poll only ZeroMQ's thread moves.                                 *)
LEMMA WatchedStep == Zsock!TypeOK /\ Watched /\ [Zsock!Next]_(Zsock!vars) => Watched'
  <1> SUFFICES ASSUME Zsock!TypeOK, Watched, [Zsock!Next]_(Zsock!vars) PROVE Watched'
    OBVIOUS
  <1> USE DEF Watched
  <1>1. CASE Zsock!s_prepare_cb
    BY Zenon, <1>1 DEF Zsock!s_prepare_cb, Zsock!Asked, Zsock!s_get_revents, Zsock!TypeOK,
                Zsock!zsock
  <1>2. CASE \/ Zsock!timers \/ Zsock!poll \/ Zsock!woken \/ Zsock!s_check_cb
            \/ Zsock!after \/ Zsock!iterate \/ Zsock!other
    BY Zenon, <1>2 DEF Zsock!timers, Zsock!poll, Zsock!woken, Zsock!s_check_cb, Zsock!after,
                Zsock!iterate, Zsock!other
  <1>3. ASSUME NEW h \in Zsock!Handles, Zsock!s_close_cb(h) PROVE Watched'
    BY <1>3, Zenon DEF Zsock!s_close_cb
  <1>4. CASE Zsock!UserStep
    BY Zenon, <1>4 DEF Zsock!UserStep, Zsock!uv_zsock_start, Zsock!uv_zsock_stop,
                Zsock!uv_zsock_close, Zsock!UserPhase
  <1>5. CASE Zsock!Terminate
    BY <1>5, Zenon DEF Zsock!Terminate, Zsock!watch
  <1>6. ASSUME NEW e \in Zsock!Both, Zsock!Arrive(e) PROVE Watched'
    BY <1>6, Zenon DEF Zsock!Arrive, Zsock!watch, Zsock!TypeOK
  <1>7. ASSUME NEW e \in Zsock!Both, Zsock!Use(e) PROVE Watched'
    BY <1>7, Zenon DEF Zsock!Use, Zsock!UserPhase
  <1>8. CASE UNCHANGED Zsock!vars
    BY <1>8, Zenon DEF Zsock!vars, Zsock!zsock, Zsock!watch
  <1> QED
    BY <1>1, <1>2, <1>3, <1>4, <1>5, <1>6, <1>7, <1>8, Zenon DEF Zsock!Next, Zsock!LoopStep

(* Every step keeps the idle handle between the prepare and the check. *)
LEMMA IdleStep ==
    Zsock!TypeOK /\ Zsock!IdleOnlyToPoll /\ [Zsock!Next]_(Zsock!vars)
        => Zsock!IdleOnlyToPoll'
  <1> SUFFICES ASSUME Zsock!TypeOK, Zsock!IdleOnlyToPoll, [Zsock!Next]_(Zsock!vars)
               PROVE  Zsock!IdleOnlyToPoll'
    OBVIOUS
  <1> USE DEF Zsock!IdleOnlyToPoll
  <1>1. CASE \/ Zsock!timers \/ Zsock!poll \/ Zsock!woken
            \/ Zsock!after \/ Zsock!iterate \/ Zsock!other
    BY Zenon, <1>1 DEF Zsock!timers, Zsock!poll, Zsock!woken, Zsock!after, Zsock!iterate,
                Zsock!other, Zsock!watch
  <1>2. CASE Zsock!s_prepare_cb
    BY <1>2, Zenon DEF Zsock!s_prepare_cb, Zsock!Asked, Zsock!zsock, Zsock!TypeOK
  <1>3. CASE Zsock!s_check_cb
    BY <1>3, Zenon DEF Zsock!s_check_cb, Zsock!Asked, Zsock!zsock, Zsock!TypeOK
  <1>4. ASSUME NEW h \in Zsock!Handles, Zsock!s_close_cb(h) PROVE Zsock!IdleOnlyToPoll'
    BY <1>4, Zenon DEF Zsock!s_close_cb, Zsock!watch
  <1>5. CASE Zsock!UserStep
    BY Zenon, <1>5 DEF Zsock!UserStep, Zsock!uv_zsock_start, Zsock!uv_zsock_stop,
                Zsock!uv_zsock_close
  <1>6. ASSUME NEW e \in Zsock!Both,
  Zsock!Arrive(e) \/ Zsock!Use(e) PROVE Zsock!IdleOnlyToPoll'
    BY <1>6, Zenon DEF Zsock!Arrive, Zsock!Use, Zsock!watch
  <1>7. CASE Zsock!Terminate \/ UNCHANGED Zsock!vars
    BY <1>7, Zenon DEF Zsock!Terminate, Zsock!vars, Zsock!watch
  <1> QED
    BY <1>1, <1>2, <1>3, <1>4, <1>5, <1>6, <1>7, Zenon DEF Zsock!Next, Zsock!LoopStep

(* Every step keeps the close callback single: a handle being closed is    *)
(* not closed, so before it is not all four are.                           *)
LEMMA CloseStep ==
    Zsock!TypeOK /\ ClosingOpen /\ Zsock!ClosedOnce /\ [Zsock!Next]_(Zsock!vars)
        => ClosingOpen' /\ Zsock!ClosedOnce'
  <1> SUFFICES ASSUME Zsock!TypeOK, ClosingOpen, Zsock!ClosedOnce,
  [Zsock!Next]_(Zsock!vars)
               PROVE  ClosingOpen' /\ Zsock!ClosedOnce'
    OBVIOUS
  <1> USE DEF ClosingOpen, Zsock!ClosedOnce
  <1>1. ASSUME NEW h \in Zsock!Handles,
  Zsock!s_close_cb(h) PROVE ClosingOpen' /\ Zsock!ClosedOnce'
    <2>1. closed # Zsock!Handles /\ close_cb = 0
      BY <1>1, Zenon DEF Zsock!s_close_cb
    <2> QED
      BY <1>1, <2>1 DEF Zsock!s_close_cb
  <1>2. CASE Zsock!uv_zsock_close
    BY <1>2, Zenon DEF Zsock!uv_zsock_close, Zsock!Usable, Zsock!Handles
  <1>3. CASE UNCHANGED Zsock!close
    BY <1>3, Zenon DEF Zsock!close
  <1>4. ASSUME NEW e \in Zsock!Both,
  Zsock!Arrive(e) \/ Zsock!Use(e) PROVE UNCHANGED Zsock!close
    BY <1>4, Zenon DEF Zsock!Arrive, Zsock!Use
  <1>5. ASSUME NEW ev \in SUBSET Zsock!Both,
  Zsock!uv_zsock_start(ev) PROVE UNCHANGED Zsock!close
    BY <1>5, Zenon DEF Zsock!uv_zsock_start
  <1> QED
    BY <1>1, <1>2, <1>3, <1>4, <1>5, Zenon
       DEF Zsock!Next, Zsock!LoopStep, Zsock!UserStep, Zsock!timers,
           Zsock!s_prepare_cb, Zsock!poll, Zsock!woken, Zsock!s_check_cb, Zsock!after,
           Zsock!iterate, Zsock!other, Zsock!Terminate, Zsock!uv_zsock_stop, Zsock!vars

-----------------------------------------------------------------------------
(* The inductive invariant holds throughout. *)
THEOREM ZsockInvariance == Zsock!Spec => []ZsockInv
  <1>1. ZsockInv /\ [Zsock!Next]_(Zsock!vars) => ZsockInv'
    BY ZsockTypeStep, WatchedStep, IdleStep, CloseStep, Zenon DEF ZsockInv
  <1> QED
    BY ZsockInit, <1>1, PTL DEF Zsock!Spec

(* Every variable of the watcher and of the socket keeps its type. *)
THEOREM ZsockTypeCorrect == Zsock!Spec => []Zsock!TypeOK
  BY ZsockInvariance, PTL DEF ZsockInv

(* uv_zsock.c:48: the loop never blocks while an event the user waits for  *)
(* is there and not signalled.                                             *)
THEOREM NeverSleepsOnEvents == Zsock!Spec => []NoSleepOnEvents
  <1>1. ZsockInv => NoSleepOnEvents
    BY Zenon DEF ZsockInv, Watched, NoSleepOnEvents, Zsock!NoSleepOnEvents, Zsock!s_get_revents
  <1> QED
    BY ZsockInvariance, <1>1, PTL

(* uv_zsock.c:59 and 110: no idle handle outlives the check of its         *)
(* iteration, a stop or a close.                                           *)
THEOREM NeverSpins == Zsock!Spec => []Zsock!IdleOnlyToPoll
  BY ZsockInvariance, PTL DEF ZsockInv

(* uv_zsock.c:120: the user's close callback is made exactly when the last *)
(* handle is closed.                                                       *)
THEOREM ClosedExactlyOnce == Zsock!Spec => []Zsock!ClosedOnce
  BY ZsockInvariance, PTL DEF ZsockInv

-----------------------------------------------------------------------------
(* The ZeroMQ benchmark.  The consumer leaves its loop with test_count     *)
(* messages only when the producer has sent them all, and the sockets are  *)
(* open as long as the producer may use them.                              *)

ZmqInv ==
    /\ Zmq!TypeOK
    /\ success_cnt = received + pipe
    /\ consumer \in {"join", "cleanup", "exit"} => received = test_count
    /\ consumer \in {"create", "recv"} /\ test_count > 0 => received < test_count
    /\ consumer \in {"cleanup", "exit"} => prod = "done"
    /\ prod = "none" <=> consumer = "create"
    /\ prod = "run" /\ consumer # "exit" => sockets
    /\ ~misused

(* bench_zmq_inproc.cpp: what the producer counts as sent is received or   *)
(* in the pipe, the consumer leaves nothing there, and the sockets are not *)
(* used once they are closed; for any water mark and any test_count.       *)
THEOREM NothingSentIsLost ==
    ASSUME Zmq!InprocAssumption
    PROVE  Zmq!Spec => [](Zmq!TypeOK /\ SentIsReceived)
  <1> USE DEF Zmq!InprocAssumption
  <1>1. Zmq!Init => ZmqInv
    <2> SUFFICES ASSUME Zmq!Init PROVE ZmqInv
      OBVIOUS
    <2>1. sockets \in BOOLEAN /\ misused \in BOOLEAN /\ ~misused
      BY Zenon DEF Zmq!Init
    <2> QED
      BY <2>1 DEF Zmq!Init, ZmqInv, Zmq!TypeOK
  <1>2. ZmqInv /\ [Zmq!Next]_(Zmq!vars) => ZmqInv'
    <2> SUFFICES ASSUME ZmqInv, [Zmq!Next]_(Zmq!vars) PROVE ZmqInv'
      OBVIOUS
    <2> USE DEF ZmqInv, Zmq!TypeOK
    <2>1. CASE Zmq!create
      <3>1. sockets' \in BOOLEAN /\ sockets'
        BY <2>1, Zenon DEF Zmq!create, Zmq!CreateSocket
      <3> QED
        BY <2>1, <3>1, Zenon DEF Zmq!create
    <2>2. CASE Zmq!producer_routine
      <3>0. sockets
        BY <2>2, Zenon DEF Zmq!producer_routine
      <3>1. ~misused'
        BY <2>2, <3>0, Zenon DEF Zmq!producer_routine
      <3>2. misused' \in BOOLEAN
        BY <2>2, Zenon DEF Zmq!producer_routine
      <3> QED
        BY <2>2, <3>1, <3>2 DEF Zmq!producer_routine
    <2>3. CASE Zmq!producer_returns
      BY <2>3, Zenon DEF Zmq!producer_returns
    <2>4. CASE Zmq!start_consumer
      BY <2>4 DEF Zmq!start_consumer, Zmq!prodVars
    <2>5. CASE Zmq!pthread_join
      BY <2>5, Zenon DEF Zmq!pthread_join, Zmq!prodVars
    <2>6. CASE Zmq!cleanup
      <3>1. sockets' \in BOOLEAN
        BY <2>6, Zenon DEF Zmq!cleanup
      <3> QED
        BY <2>6, <3>1, Zenon DEF Zmq!cleanup, Zmq!prodVars
    <2>7. CASE UNCHANGED Zmq!vars
      BY <2>7, Zenon DEF Zmq!vars, Zmq!prodVars
    <2> QED
      BY <2>1, <2>2, <2>3, <2>4, <2>5, <2>6, <2>7, Zenon DEF Zmq!Next, Zmq!Main, Zmq!Producer
  <1>3. ZmqInv => Zmq!TypeOK /\ SentIsReceived
    BY DEF ZmqInv, Zmq!TypeOK, SentIsReceived, Zmq!SentIsReceived
  <1> QED
    BY <1>1, <1>2, <1>3, PTL DEF Zmq!Spec

-----------------------------------------------------------------------------
(* The ZeroMQ publisher and subscriber.  A message is any number of topics *)
(* (each given-up message leaves one behind) and then one data frame, the  *)
(* id of the turn; ids grow along what has been received, what is left of  *)
(* the message being read and what is on its way.                          *)

LastOf(frames) == frames[Len(frames)]

IsMessage(frames) ==
    /\ frames \in Seq(PubSub!Frames) /\ frames # <<>>
    /\ LastOf(frames) \in Nat
    /\ \A i \in 1..(Len(frames) - 1) : frames[i] = PubSub!Topic

MessagesOnTheirWay ==
    /\ \A i \in 1..Len(net) : /\ IsMessage(net[i]) /\ Len(net[i]) >= 2
                              /\ LastOf(net[i]) < iTotalSend
    /\ \A i, j \in 1..Len(net) : i < j => LastOf(net[i]) < LastOf(net[j])

MessageBeingRead ==
    parts # <<>> => /\ IsMessage(parts) /\ LastOf(parts) < iTotalSend
                    /\ \A i \in 1..Len(net) : LastOf(parts) < LastOf(net[i])

DataReceived ==
    /\ \A n \in 1..Len(ids) : /\ ids[n] \in Nat /\ ids[n] < iTotalSend
                              /\ parts # <<>> => ids[n] < LastOf(parts)
                              /\ \A i \in 1..Len(net) : ids[n] < LastOf(net[i])
    /\ \A m, n \in 1..Len(ids) : m < n => ids[m] < ids[n]

InStep ==
    /\ sub = "more" => parts # <<>>
    /\ recvFails = 0 => /\ sub # "abort" /\ (sub = "first" => parts = <<>>)
                        /\ iTotalRecv + Len(net) <= published

PubSubInv ==
    /\ iTotalSend \in Nat /\ published \in Nat /\ iTotalRecv \in Nat /\ recvFails \in Nat
    /\ sub \in {"first", "more", "abort"}
    /\ open \in Seq({PubSub!Topic}) /\ parts \in Seq(PubSub!Frames)
    /\ net \in Seq(Seq(PubSub!Frames)) /\ ids \in Seq(Nat)
    /\ pub \in {"topic", "data", "retry"} => iTotalSend < TotalMsg
    /\ pub \in {"data", "retry"} => open # <<>>
    /\ MessagesOnTheirWay /\ MessageBeingRead /\ DataReceived /\ InStep

(* Reading a frame leaves a shorter message, or, after its data, nothing. *)
LEMMA ReadFrame ==
    ASSUME NEW frames, IsMessage(frames)
    PROVE  /\ Len(frames) = 1 => Head(frames) = LastOf(frames) /\ Tail(frames) = <<>>
           /\ Len(frames) # 1 => /\ Head(frames) = PubSub!Topic
                                 /\ IsMessage(Tail(frames))
                                 /\ LastOf(Tail(frames)) = LastOf(frames)
  <1> DEFINE t == Tail(frames)
  <1>1. /\ frames \in Seq(PubSub!Frames) /\ Len(frames) \in Nat \ {0}
        /\ Head(frames) = frames[1]
        /\ t \in Seq(PubSub!Frames) /\ Len(t) = Len(frames) - 1
        /\ \A i \in 1..Len(t) : t[i] = frames[i + 1]
    BY DEF IsMessage
  <1> HIDE DEF t
  <1>2. CASE Len(frames) = 1
    <2>1. t = <<>>
      BY <1>1, <1>2
    <2> QED
      BY <1>1, <1>2, <2>1, Zenon DEF LastOf, t
  <1>3. CASE Len(frames) # 1
    <2>1. Len(t) \in Nat \ {0} /\ LastOf(t) = LastOf(frames)
      BY <1>1, <1>3 DEF LastOf
    <2>2. \A i \in 1..(Len(t) - 1) : t[i] = PubSub!Topic
      BY <1>1, <2>1 DEF IsMessage
    <2>3. frames[1] = PubSub!Topic /\ LastOf(frames) \in Nat
      BY <1>1, <1>3 DEF IsMessage
    <2>4. t # <<>>
      BY <1>1, <2>1
    <2>5. IsMessage(t)
      BY <1>1, <2>1, <2>2, <2>3, <2>4, Zenon DEF IsMessage
    <2> QED
      BY <1>1, <1>3, <2>1, <2>3, <2>5, Zenon DEF t
  <1> QED
    BY <1>2, <1>3, Zenon

LEMMA CompleteMessage ==
    ASSUME NEW topics \in Seq({PubSub!Topic}), topics # <<>>,
           NEW id \in 0..(TotalMsg - 1), TotalMsg \in Nat
    PROVE  /\ IsMessage(Append(topics, id)) /\ LastOf(Append(topics, id)) = id
           /\ Len(Append(topics, id)) >= 2
  <1>1. topics \in Seq(PubSub!Frames) /\ id \in PubSub!Frames
    BY DEF PubSub!Frames
  <1>2. /\ Len(Append(topics, id)) = Len(topics) + 1 /\ Append(topics, id)[Len(topics) + 1] = id
        /\ \A i \in 1..Len(topics) : Append(topics, id)[i] = PubSub!Topic
        /\ Len(topics) \in Nat \ {0} /\ Append(topics, id) \in Seq(PubSub!Frames)
    BY <1>1
  <1> QED
    BY <1>1, <1>2 DEF IsMessage, LastOf

LEMMA PubSubInit ==
    ASSUME PubSub!PubSubAssumption, PubSub!Init PROVE PubSubInv
  BY DEF PubSub!PubSubAssumption, PubSub!Init, PubSubInv, MessagesOnTheirWay, MessageBeingRead,
         DataReceived, InStep

(* The publisher completes a message, or gives it up. *)
LEMMA PubSubPublishes ==
    ASSUME PubSub!PubSubAssumption, PubSubInv, PubSub!Publisher PROVE PubSubInv'
  <1> USE DEF PubSubInv
  <1>1. CASE PubSub!send_topic
    <2>1. /\ open' \in Seq({PubSub!Topic})
          /\ pub' = "data" => open' # <<>>
          /\ pub' \in {"topic", "data"} /\ pub = "topic"
      <3>1. CASE open' = Append(open, PubSub!Topic) /\ pub' = "data"
        <4>1. open' \in Seq({PubSub!Topic}) /\ Len(open') = Len(open) + 1 /\ Len(open) \in Nat
          BY <3>1
        <4>2. open' # <<>>
          BY <4>1
        <4> QED
          BY <1>1, <3>1, <4>1, <4>2, Zenon DEF PubSub!send_topic
      <3>2. CASE UNCHANGED <<open, pub>>
        BY <1>1, <3>2, Zenon DEF PubSub!send_topic
      <3> QED
        BY <1>1, <3>1, <3>2, Zenon DEF PubSub!send_topic
    <2>2. UNCHANGED <<iTotalSend, published, net, sub, parts, iTotalRecv, recvFails, ids>>
      BY <1>1, Zenon DEF PubSub!send_topic, PubSub!subVars
    <2> QED
      BY <2>1, <2>2, Zenon DEF MessagesOnTheirWay, MessageBeingRead, DataReceived, InStep
  <1>2. CASE PubSub!send_data
    <2> DEFINE message == Append(open, iTotalSend)
    <2>1. /\ UNCHANGED <<sub, parts, iTotalRecv, recvFails, ids>>
          /\ net' = Append(net, message) /\ open' = <<>> /\ published' = published + 1
          /\ iTotalSend' = iTotalSend + 1
          /\ pub' = IF iTotalSend + 1 < TotalMsg THEN "topic" ELSE "done"
          /\ open # <<>> /\ iTotalSend \in 0..(TotalMsg - 1) /\ TotalMsg \in Nat
      BY <1>2 DEF PubSub!send_data, PubSub!Complete, PubSub!NextMessage, PubSub!subVars,
         PubSub!PubSubAssumption
    <2>2. IsMessage(message) /\ LastOf(message) = iTotalSend /\ Len(message) >= 2
      BY <2>1, CompleteMessage, Zenon
    <2> HIDE DEF message
    <2>3. message \in Seq(PubSub!Frames)
      BY <2>2, Zenon DEF IsMessage
    <2>4. /\ net' \in Seq(Seq(PubSub!Frames)) /\ Len(net') = Len(net) + 1
          /\ \A i \in 1..Len(net) : net'[i] = net[i]
          /\ net'[Len(net) + 1] = message
      BY <2>1, <2>3
    <2>5. \A i \in 1..Len(net') : i \in 1..Len(net) \/ i = Len(net) + 1
      BY <2>4
    <2>6. \A i \in 1..Len(net) : LastOf(net[i]) \in Nat
      BY Zenon DEF MessagesOnTheirWay, IsMessage
    <2>7. MessagesOnTheirWay'
      <3>1. \A i \in 1..Len(net') : /\ IsMessage(net'[i]) /\ Len(net'[i]) >= 2
                                    /\ LastOf(net'[i]) < iTotalSend'
        <4> TAKE i \in 1..Len(net')
        <4>1. CASE i \in 1..Len(net)
          <5>1. /\ IsMessage(net[i]) /\ Len(net[i]) >= 2 /\ LastOf(net[i]) < iTotalSend
                /\ net'[i] = net[i] /\ LastOf(net[i]) \in Nat
            BY <2>4, <2>6, <4>1, Zenon DEF MessagesOnTheirWay
          <5> QED
            BY <2>1, <5>1
        <4>2. CASE i = Len(net) + 1
          BY <2>1, <2>2, <2>4, <4>2
        <4> QED
          BY <2>5, <4>1, <4>2, Zenon
      <3>2. \A i, j \in 1..Len(net') : i < j => LastOf(net'[i]) < LastOf(net'[j])
        <4> TAKE i, j \in 1..Len(net')
        <4> HAVE i < j
        <4>1. i \in 1..Len(net)
          BY <2>4, <2>5
        <4> QED
          BY <2>2, <2>4, <2>5, <4>1, Zenon DEF MessagesOnTheirWay
      <3> QED
        BY <3>1, <3>2, Zenon DEF MessagesOnTheirWay
    <2>8. MessageBeingRead'
      BY <2>1, <2>2, <2>4, <2>5 DEF MessageBeingRead, IsMessage
    <2>9. DataReceived'
      <3>1. \A n \in 1..Len(ids) : ids[n] \in Nat /\ ids[n] < iTotalSend
        BY Zenon DEF DataReceived
      <3>2. \A n \in 1..Len(ids), i \in 1..Len(net') : ids[n] < LastOf(net'[i])
        BY <2>2, <2>4, <2>5, <3>1, Zenon DEF DataReceived
      <3>3. \A n \in 1..Len(ids) : ids[n] < iTotalSend + 1
        BY <2>1, <3>1
      <3>4. ids' = ids /\ parts' = parts /\ iTotalSend' = iTotalSend + 1
        BY <2>1, Zenon
      <3> QED
        BY <3>1, <3>2, <3>3, <3>4, Zenon DEF DataReceived
    <2>10. InStep'
      BY <2>1, <2>4 DEF InStep
    <2> QED
      BY <2>1, <2>4, <2>7, <2>8, <2>9, <2>10
  <1>3. CASE PubSub!send_data_fails
    <2>1. /\ UNCHANGED <<open, published, net, sub, parts, iTotalRecv, recvFails, ids>>
          /\ pub \in {"data", "retry"}
          /\ \/ pub' = "retry" /\ iTotalSend' = iTotalSend
             \/ /\ iTotalSend' = iTotalSend + 1
                /\ pub' = IF iTotalSend + 1 < TotalMsg THEN "topic" ELSE "done"
      BY <1>3, Zenon DEF PubSub!send_data_fails, PubSub!NextMessage, PubSub!subVars
    <2>2. iTotalSend' \in Nat /\ iTotalSend' >= iTotalSend
      BY <2>1
    <2>3. MessagesOnTheirWay'
      BY <2>1, <2>2 DEF MessagesOnTheirWay, IsMessage
    <2>4. MessageBeingRead'
      BY <2>1, <2>2 DEF MessageBeingRead, IsMessage
    <2>5. DataReceived'
      BY <2>1, <2>2 DEF DataReceived
    <2>6. InStep'
      BY <2>1, Zenon DEF InStep
    <2> QED
      BY <2>1, <2>2, <2>3, <2>4, <2>5, <2>6, Zenon
         DEF PubSub!PubSubAssumption
  <1> QED
    BY <1>1, <1>2, <1>3, Zenon DEF PubSub!Publisher

LEMMA NextOnItsWay ==
    ASSUME PubSubInv, net # <<>>, net' = Tail(net), iTotalSend' = iTotalSend
    PROVE  /\ net' \in Seq(Seq(PubSub!Frames)) /\ Len(net') = Len(net) - 1
           /\ 1 \in 1..Len(net) /\ Head(net) = net[1]
           /\ \A i \in 1..Len(net') : /\ i + 1 \in 1..Len(net) /\ net'[i] = net[i + 1]
                                     /\ LastOf(net[1]) < LastOf(net'[i])
           /\ MessagesOnTheirWay'
  <1> USE DEF PubSubInv
  <1>1. /\ net' \in Seq(Seq(PubSub!Frames)) /\ Len(net') = Len(net) - 1
        /\ Len(net) \in Nat \ {0} /\ Head(net) = net[1]
        /\ \A i \in 1..Len(net') : net'[i] = net[i + 1]
    OBVIOUS
  <1>2. \A i \in 1..Len(net') : i + 1 \in 1..Len(net)
    BY <1>1
  <1>3. 1 \in 1..Len(net)
    BY <1>1
  <1>4. \A i \in 1..Len(net') : LastOf(net[1]) < LastOf(net'[i])
    BY <1>1, <1>2, <1>3 DEF MessagesOnTheirWay
  <1>5. \A i \in 1..Len(net') : /\ IsMessage(net'[i]) /\ Len(net'[i]) >= 2
                                /\ LastOf(net'[i]) < iTotalSend'
    BY <1>1, <1>2, Zenon DEF MessagesOnTheirWay
  <1>6. \A i, j \in 1..Len(net') : i < j => LastOf(net'[i]) < LastOf(net'[j])
    BY <1>1, <1>2 DEF MessagesOnTheirWay
  <1> QED
    BY <1>1, <1>2, <1>3, <1>4, <1>5, <1>6, Zenon DEF MessagesOnTheirWay

LEMMA PubSubLoses ==
    ASSUME PubSubInv, PubSub!Lose PROVE PubSubInv'
  <1>1. /\ net # <<>> /\ net' = Tail(net)
        /\ UNCHANGED <<pub, iTotalSend, open, published, sub, parts, iTotalRecv, recvFails, ids>>
    BY Zenon DEF PubSub!Lose, PubSub!pubVars, PubSub!subVars
  <1>2. /\ net' \in Seq(Seq(PubSub!Frames)) /\ Len(net') = Len(net) - 1
        /\ \A i \in 1..Len(net') : i + 1 \in 1..Len(net) /\ net'[i] = net[i + 1]
        /\ MessagesOnTheirWay'
    BY <1>1, NextOnItsWay, Zenon
  <1>3. MessageBeingRead'
    BY <1>1, <1>2, Zenon DEF PubSubInv, MessageBeingRead
  <1>4. DataReceived'
    BY <1>1, <1>2, Zenon DEF PubSubInv, DataReceived
  <1>5. InStep'
    BY <1>1, <1>2 DEF PubSubInv, InStep
  <1> QED
    BY <1>1, <1>2, <1>3, <1>4, <1>5, Zenon DEF PubSubInv

(* The first frame of a message is never its data, so it is never the last. *)
LEMMA PubSubFirst ==
    ASSUME PubSubInv, PubSub!recv_first PROVE PubSubInv'
  <1>1. /\ UNCHANGED <<pub, iTotalSend, open, published, recvFails, ids>> /\ sub = "first"
        /\ sub' = IF PubSub!Rest = <<>> THEN "abort" ELSE "more"
        /\ iTotalRecv' = IF PubSub!Rest = <<>> THEN iTotalRecv ELSE iTotalRecv + 1
        /\ parts' = PubSub!Rest
    BY Zenon DEF PubSub!recv_first, PubSub!Receive, PubSub!pubVars
  <1>2. CASE parts = <<>>
    <2>1. net # <<>> /\ net' = Tail(net) /\ parts' = Tail(Head(net))
      BY <1>2, Zenon DEF PubSub!recv_first, PubSub!Receive, PubSub!Readable, PubSub!Rest
    <2>2. /\ net' \in Seq(Seq(PubSub!Frames)) /\ Len(net') = Len(net) - 1
          /\ 1 \in 1..Len(net) /\ Head(net) = net[1]
          /\ \A i \in 1..Len(net') : /\ i + 1 \in 1..Len(net) /\ net'[i] = net[i + 1]
                                    /\ LastOf(net[1]) < LastOf(net'[i])
          /\ MessagesOnTheirWay'
      BY <1>1, <2>1, NextOnItsWay, Zenon
    <2>3. IsMessage(net[1]) /\ Len(net[1]) # 1 /\ LastOf(net[1]) < iTotalSend
      <3>1. IsMessage(net[1]) /\ Len(net[1]) >= 2 /\ LastOf(net[1]) < iTotalSend
        BY <2>2, Zenon DEF PubSubInv, MessagesOnTheirWay
      <3>2. Len(net[1]) \in Nat
        BY <3>1 DEF IsMessage
      <3> DEFINE n == Len(net[1])
      <3>3. n \in Nat /\ n >= 2
        BY <3>1, <3>2, Zenon
      <3> HIDE DEF n
      <3>4. n # 1
        BY <3>3
      <3> QED
        BY <3>1, <3>4, Zenon DEF n
    <2>4. IsMessage(parts') /\ LastOf(parts') = LastOf(net[1])
      BY <2>1, <2>2, <2>3, ReadFrame, Zenon
    <2>5. parts' \in Seq(PubSub!Frames) /\ parts' # <<>>
      BY <2>4, Zenon DEF IsMessage
    <2>6. MessageBeingRead'
      BY <1>1, <2>2, <2>3, <2>4, Zenon DEF MessageBeingRead, IsMessage
    <2>7. DataReceived'
      BY <1>1, <2>2, <2>4, Zenon DEF PubSubInv, DataReceived
    <2>8. InStep'
      <3>1. sub' = "more" /\ iTotalRecv' = iTotalRecv + 1
        BY <1>1, <2>5, Zenon
      <3>2. iTotalRecv' + Len(net') = iTotalRecv + Len(net)
        BY <2>2, <3>1 DEF PubSubInv
      <3> QED
        BY <1>1, <2>5, <3>1, <3>2, Zenon DEF PubSubInv, InStep
    <2> QED
      BY <1>1, <2>2, <2>5, <2>6, <2>7, <2>8 DEF PubSubInv
  <1>3. CASE parts # <<>>
    <2>1. net' = net /\ parts' = Tail(parts) /\ IsMessage(parts)
      BY <1>3, Zenon DEF PubSub!recv_first, PubSub!Receive, PubSub!Rest, PubSubInv, MessageBeingRead
    <2>2. parts' # <<>> => IsMessage(parts') /\ LastOf(parts') = LastOf(parts)
      BY <2>1, ReadFrame, Zenon
    <2>3. parts' \in Seq(PubSub!Frames)
      BY <1>3, <2>1 DEF PubSubInv
    <2>4. MessagesOnTheirWay'
      BY <1>1, <2>1, Zenon DEF PubSubInv, MessagesOnTheirWay
    <2>5. MessageBeingRead'
      BY <1>1, <1>3, <2>1, <2>2, Zenon DEF PubSubInv, MessageBeingRead
    <2>6. DataReceived'
      BY <1>1, <1>3, <2>1, <2>2, Zenon DEF PubSubInv, DataReceived
    <2>7. InStep'
      BY <1>1, <1>3, <2>1, Zenon DEF PubSubInv, InStep
    <2> QED
      BY <1>1, <2>1, <2>3, <2>4, <2>5, <2>6, <2>7, SMTT(30) DEF PubSubInv
  <1> QED
    BY <1>2, <1>3, Zenon

(* A further frame is a topic, or the data and the last. *)
LEMMA PubSubMore ==
    ASSUME PubSubInv, PubSub!recv_more PROVE PubSubInv'
  <1> DEFINE frame == Head(parts)
  <1>1. parts # <<>> /\ IsMessage(parts) /\ sub = "more"
    BY Zenon DEF PubSub!recv_more, PubSubInv, InStep, MessageBeingRead
  <1>2. /\ UNCHANGED <<pub, iTotalSend, open, published, recvFails, iTotalRecv, net>>
        /\ parts' = Tail(parts)
        /\ sub' = IF parts' # <<>> THEN "more" ELSE "first"
        /\ ids' = IF frame = PubSub!Topic THEN ids ELSE Append(ids, frame)
    BY Zenon, <1>1 DEF PubSub!recv_more, PubSub!Receive, PubSub!pubVars, PubSub!Rest, PubSub!Frame,
       PubSub!Record
  <1>3. parts' \in Seq(PubSub!Frames)
    BY <1>1, <1>2 DEF PubSubInv
  <1>4. MessagesOnTheirWay'
    BY <1>2, Zenon DEF PubSubInv, MessagesOnTheirWay
  <1>5. InStep'
    BY <1>1, <1>2, Zenon DEF PubSubInv, InStep
  <1> HIDE DEF frame
  <1>6. CASE Len(parts) = 1
    <2>1. parts' = <<>> /\ frame = LastOf(parts) /\ frame \in Nat /\ frame # PubSub!Topic
      BY <1>1, <1>2, <1>6, ReadFrame DEF IsMessage, frame, PubSub!Topic
    <2>2. ids' = Append(ids, frame)
      BY <1>2, <2>1, Zenon
    <2>3. /\ ids' \in Seq(Nat) /\ Len(ids') = Len(ids) + 1 /\ Len(ids) \in Nat
          /\ \A n \in 1..Len(ids) : ids'[n] = ids[n]
          /\ ids'[Len(ids) + 1] = frame
      BY <2>1, <2>2 DEF PubSubInv
    <2>4. \A n \in 1..Len(ids') : n \in 1..Len(ids) \/ n = Len(ids) + 1
      BY <2>3
    <2>5. /\ frame < iTotalSend /\ \A i \in 1..Len(net) : frame < LastOf(net[i])
          /\ \A n \in 1..Len(ids) : ids[n] < frame
      BY <1>1, <2>1, Zenon DEF PubSubInv, MessageBeingRead, DataReceived
    <2>6. \A n \in 1..Len(ids') : /\ ids'[n] \in Nat /\ ids'[n] < iTotalSend
                                 /\ \A i \in 1..Len(net) : ids'[n] < LastOf(net[i])
      BY <2>1, <2>3, <2>4, <2>5, Zenon DEF PubSubInv, DataReceived
    <2>7. \A m, n \in 1..Len(ids') : m < n => ids'[m] < ids'[n]
      <3> TAKE m, n \in 1..Len(ids')
      <3> HAVE m < n
      <3>1. m \in 1..Len(ids)
        <4>1. Len(ids') = Len(ids) + 1 /\ Len(ids) \in Nat
          BY <2>3, Zenon
        <4> QED
          BY <4>1
      <3> QED
        BY <2>3, <2>4, <2>5, <3>1, Zenon DEF PubSubInv, DataReceived
    <2>8. DataReceived'
      BY <1>2, <2>1, <2>6, <2>7, Zenon DEF DataReceived
    <2>9. MessageBeingRead'
      BY <2>1, Zenon DEF MessageBeingRead
    <2> QED
      BY <1>2, <1>3, <1>4, <1>5, <2>3, <2>8, <2>9, Zenon DEF PubSubInv
  <1>7. CASE Len(parts) # 1
    <2>1. IsMessage(parts') /\ LastOf(parts') = LastOf(parts) /\ ids' = ids
      BY <1>1, <1>2, <1>7, ReadFrame, Zenon DEF frame
    <2>2. MessageBeingRead'
      BY <1>1, <1>2, <2>1, Zenon DEF PubSubInv, MessageBeingRead
    <2>3. DataReceived'
      BY <1>1, <1>2, <2>1, Zenon DEF PubSubInv, DataReceived
    <2> QED
      BY <1>2, <1>3, <1>4, <1>5, <2>1, <2>2, <2>3, Zenon DEF PubSubInv
  <1> QED
    BY <1>6, <1>7, Zenon

LEMMA PubSubStep ==
    ASSUME PubSub!PubSubAssumption, PubSubInv, [PubSub!Next]_(PubSub!vars) PROVE PubSubInv'
  <1>1. CASE PubSub!recv_fails
    <2>1. /\ UNCHANGED <<iTotalSend, published, iTotalRecv, open, pub, parts, net, ids>>
          /\ sub' = "first" /\ recvFails' = recvFails + 1
      BY <1>1, Zenon DEF PubSub!recv_fails, PubSub!RecvFails, PubSub!pubVars
    <2>2. MessagesOnTheirWay' /\ MessageBeingRead' /\ DataReceived'
      BY <2>1, Zenon DEF PubSubInv, MessagesOnTheirWay, MessageBeingRead, DataReceived
    <2>3. InStep' /\ recvFails' \in Nat
      BY <2>1 DEF PubSubInv, InStep
    <2> QED
      BY <2>1, <2>2, <2>3, Zenon DEF PubSubInv
  <1>2. CASE UNCHANGED PubSub!vars
    BY Zenon, <1>2 DEF PubSubInv, PubSub!vars, PubSub!pubVars, PubSub!subVars,
       MessagesOnTheirWay, MessageBeingRead, DataReceived, InStep
  <1> QED
    BY <1>1, <1>2, PubSubPublishes, PubSubFirst, PubSubMore, PubSubLoses, Zenon
       DEF PubSub!Next, PubSub!Subscriber, PubSub!Idle

(* pub_zmq.cpp and sub_zmq.cpp: whatever is retried, given up or lost, no  *)
(* data is received twice or out of order, and until a receive fails the   *)
(* subscriber's assertion holds and it counts no message twice.            *)
THEOREM InStepWithTheMessages ==
    ASSUME PubSub!PubSubAssumption
    PROVE  PubSub!Spec => []SubscriberInStep
  <1>1. PubSub!Init => PubSubInv
    BY PubSubInit, Zenon
  <1>2. PubSubInv /\ [PubSub!Next]_(PubSub!vars) => PubSubInv'
    BY PubSubStep, Zenon
  <1>3. PubSubInv => SubscriberInStep
    BY DEF PubSubInv, DataReceived, InStep, SubscriberInStep, PubSub!SubscriberInStep
  <1> QED
    BY <1>1, <1>2, <1>3, PTL DEF PubSub!Spec
=============================================================================
