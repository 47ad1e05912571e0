---------------------------- MODULE AsyncChannel ----------------------------
(***************************************************************************)
(* The in-process channel of                                               *)
(*   Languages/cpp/benckmark01_inproc_communication/uv_async/              *)
(*     benchmark_async_threads.cpp                                         *)
(* Producer threads push into global_vec under a spinlock and then call    *)
(* uv_async_send; the loop thread's on_async_cb swaps the vector out under *)
(* the same lock.  libuv coalesces sends: a send made while the handle is  *)
(* already pending adds nothing, so one callback may have to serve many    *)
(* pushes, and a callback may find the vector already empty.               *)
(*                                                                         *)
(* push_back is two steps, reading the vector and storing the longer one,  *)
(* because nothing but the spinlock keeps it from being torn.              *)
(*                                                                         *)
(* sent and delivered are history variables: the items pushed and the      *)
(* items counted by on_async_cb, each in order.                            *)
(***************************************************************************)
EXTENDS Naturals, Sequences

CONSTANTS Producers,    \* threads running producer_thread
          TestCount     \* test_count: how many items each of them sends

ASSUME TestCountAssumption == TestCount \in Nat

VARIABLES state_,          \* the spinlock's atomic: "Locked" or "Unlocked"
          global_vec,      \* the shared vector
          pending,         \* the async handle's pending flag, inside libuv
          pc,              \* where each producer is in DoAsync
          seen,            \* the vector as a push_back in progress read it
          k,               \* producer_thread's loop counter
          cb,              \* where the loop thread is in on_async_cb
          tmp_data,        \* on_async_cb's local vector
          total_consumer,  \* items counted so far
          sent, delivered

vars == <<state_, global_vec, pending, pc, seen, k, cb, tmp_data,
          total_consumer, sent, delivered>>

Items == Producers \X (0..(TestCount - 1))

ProducerPoint == {"lock", "push", "store", "unlock", "send", "done"}
LoopPoint     == {"poll", "lock", "swap", "unlock", "count"}

Init ==
    /\ state_ = "Unlocked"
    /\ global_vec = <<>>
    /\ pending = FALSE
    /\ pc = [p \in Producers |-> IF TestCount > 0 THEN "lock" ELSE "done"]
    /\ seen = [p \in Producers |-> <<>>]
    /\ k = [p \in Producers |-> 0]
    /\ cb = "poll"
    /\ tmp_data = <<>>
    /\ total_consumer = 0
    /\ sent = <<>>
    /\ delivered = <<>>

-----------------------------------------------------------------------------
(* spinlock::lock: exchange(Locked) until the old value was Unlocked; the  *)
(* exchanges that find Locked leave the state as it is.                    *)
SpinLock   == state_ = "Unlocked" /\ state_' = "Locked"
SpinUnlock == state_' = "Unlocked"

-----------------------------------------------------------------------------
(* DoAsync(k), called in producer_thread's loop.                           *)

(* Mutant: a producer that forgets to take the lock. *)
DoAsyncLock_Unlocked(p) ==
    /\ pc[p] = "lock"
    /\ pc' = [pc EXCEPT ![p] = "push"]
    /\ UNCHANGED <<state_, global_vec, pending, seen, k, cb, tmp_data,
                   total_consumer, sent, delivered>>

DoAsyncLock(p) ==
    /\ pc[p] = "lock"
    /\ SpinLock
    /\ pc' = [pc EXCEPT ![p] = "push"]
    /\ UNCHANGED <<global_vec, pending, seen, k, cb, tmp_data,
                   total_consumer, sent, delivered>>

DoAsyncPushRead(p) ==
    /\ pc[p] = "push"
    /\ seen' = [seen EXCEPT ![p] = global_vec]
    /\ pc' = [pc EXCEPT ![p] = "store"]
    /\ UNCHANGED <<state_, global_vec, pending, k, cb, tmp_data,
                   total_consumer, sent, delivered>>

DoAsyncPushStore(p) ==
    /\ pc[p] = "store"
    /\ global_vec' = Append(seen[p], <<p, k[p]>>)
    /\ sent' = Append(sent, <<p, k[p]>>)
    /\ seen' = [seen EXCEPT ![p] = <<>>]
    /\ pc' = [pc EXCEPT ![p] = "unlock"]
    /\ UNCHANGED <<state_, pending, k, cb, tmp_data, total_consumer, delivered>>

DoAsyncUnlock(p) ==
    /\ pc[p] = "unlock"
    /\ SpinUnlock
    /\ pc' = [pc EXCEPT ![p] = "send"]
    /\ UNCHANGED <<global_vec, pending, seen, k, cb, tmp_data,
                   total_consumer, sent, delivered>>

(* Mutant: no send while a callback is already running. *)
DoAsyncSend_OnlyWhenIdle(p) ==
    /\ pc[p] = "send"
    /\ pending' = (pending \/ cb = "poll")
    /\ k' = [k EXCEPT ![p] = @ + 1]
    /\ pc' = [pc EXCEPT ![p] = IF k[p] + 1 < TestCount THEN "lock" ELSE "done"]
    /\ UNCHANGED <<state_, global_vec, seen, cb, tmp_data, total_consumer,
                   sent, delivered>>

(* uv_async_send, then the end of producer_thread's loop body. *)
DoAsyncSend(p) ==
    /\ pc[p] = "send"
    /\ pending' = TRUE
    /\ k' = [k EXCEPT ![p] = @ + 1]
    /\ pc' = [pc EXCEPT ![p] = IF k[p] + 1 < TestCount THEN "lock" ELSE "done"]
    /\ UNCHANGED <<state_, global_vec, seen, cb, tmp_data, total_consumer,
                   sent, delivered>>

ProducerStep(p) == \/ DoAsyncLock(p)
                   \/ DoAsyncPushRead(p)
                   \/ DoAsyncPushStore(p)
                   \/ DoAsyncUnlock(p)
                   \/ DoAsyncSend(p)

-----------------------------------------------------------------------------
(* The loop thread.                                                        *)

(* libuv clears the pending flag before it calls on_async_cb. *)
UvAsyncWakeup ==
    /\ cb = "poll"
    /\ pending
    /\ pending' = FALSE
    /\ cb' = "lock"
    /\ tmp_data' = <<>>
    /\ UNCHANGED <<state_, global_vec, pc, seen, k, total_consumer, sent,
                   delivered>>

OnAsyncLock ==
    /\ cb = "lock"
    /\ SpinLock
    /\ cb' = "swap"
    /\ UNCHANGED <<global_vec, pending, pc, seen, k, tmp_data,
                   total_consumer, sent, delivered>>

OnAsyncSwap ==
    /\ cb = "swap"
    /\ global_vec' = tmp_data
    /\ tmp_data' = global_vec
    /\ cb' = "unlock"
    /\ UNCHANGED <<state_, pending, pc, seen, k, total_consumer, sent, delivered>>

OnAsyncUnlock ==
    /\ cb = "unlock"
    /\ SpinUnlock
    /\ cb' = "count"
    /\ UNCHANGED <<global_vec, pending, pc, seen, k, tmp_data,
                   total_consumer, sent, delivered>>

(* Mutant: the pending flag is cleared once more after the callback. *)
OnAsyncCount_ClearsPending ==
    /\ cb = "count"
    /\ total_consumer' = total_consumer + Len(tmp_data)
    /\ delivered' = delivered \o tmp_data
    /\ tmp_data' = <<>>
    /\ cb' = "poll"
    /\ pending' = FALSE
    /\ UNCHANGED <<state_, global_vec, pc, seen, k, sent>>

(* total_consumer += tmp_data.size(); tmp_data dies with the callback. *)
OnAsyncCount ==
    /\ cb = "count"
    /\ total_consumer' = total_consumer + Len(tmp_data)
    /\ delivered' = delivered \o tmp_data
    /\ tmp_data' = <<>>
    /\ cb' = "poll"
    /\ UNCHANGED <<state_, global_vec, pending, pc, seen, k, sent>>

LoopStep == \/ UvAsyncWakeup
            \/ OnAsyncLock
            \/ OnAsyncSwap
            \/ OnAsyncUnlock
            \/ OnAsyncCount

-----------------------------------------------------------------------------
Next == LoopStep \/ \E p \in Producers : ProducerStep(p)

Spec == Init /\ [][Next]_vars

(* The scheduler runs every thread.  Weak fairness is enough although the   *)
(* spinlock is unfair: each producer takes it test_count times only.        *)
Fairness == WF_vars(LoopStep) /\ \A p \in Producers : WF_vars(ProducerStep(p))

FairSpec == Spec /\ Fairness

-----------------------------------------------------------------------------
(* Properties.                                                             *)

(* Every variable of the channel stays in its type; in particular a        *)
(* producer inside DoAsync still has an item to send.                      *)
TypeOK ==
    /\ state_ \in {"Locked", "Unlocked"}
    /\ global_vec \in Seq(Items)
    /\ pending \in BOOLEAN
    /\ pc \in [Producers -> ProducerPoint]
    /\ seen \in [Producers -> Seq(Items)]
    /\ k \in [Producers -> 0..TestCount]
    /\ \A p \in Producers : pc[p] # "done" => k[p] < TestCount
    /\ cb \in LoopPoint
    /\ tmp_data \in Seq(Items)
    /\ total_consumer \in Nat
    /\ sent \in Seq(Items)
    /\ delivered \in Seq(Items)

ProducerHolds(p) == pc[p] \in {"push", "store", "unlock"}
LoopHolds        == cb \in {"swap", "unlock"}

(* spinlock: at most one thread is between lock() and unlock(), and the    *)
(* lock word says Locked exactly while one is.                             *)
MutualExclusion ==
    /\ \A p, q \in Producers : ProducerHolds(p) /\ ProducerHolds(q) => p = q
    /\ \A p \in Producers : ~(ProducerHolds(p) /\ LoopHolds)
    /\ state_ = "Locked" <=> LoopHolds \/ \E p \in Producers : ProducerHolds(p)

(* DoAsync and on_async_cb together lose no wakeup: while the vector holds *)
(* items, a callback is pending, or one is about to take them, or the      *)
(* producer of one of them has yet to call uv_async_send.                  *)
NoLostWakeup ==
    global_vec # <<>> => \/ pending
                         \/ cb \in {"lock", "swap"}
                         \/ \E p \in Producers : pc[p] \in {"unlock", "send"}

(* Nothing is lost, duplicated or reordered on the way from DoAsync to     *)
(* total_consumer, wherever the threads are interrupted.                   *)
Conservation ==
    /\ delivered \o tmp_data \o global_vec = sent
    /\ total_consumer = Len(delivered)

(* The channel as a whole is a FIFO with batched delivery. *)
Fifo == INSTANCE FifoChannel
FifoSpec == Fifo!Spec

(* The result comments of the benchmark: in the end total_consumer is the  *)
(* number of items all the producers sent, although sends coalesce.        *)
AllConsumed ==
    <>[](/\ \A p \in Producers : pc[p] = "done"
         /\ total_consumer = Len(sent)
         /\ global_vec = <<>>)
=============================================================================
