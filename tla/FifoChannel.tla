---------------------------- MODULE FifoChannel ----------------------------
(***************************************************************************)
(* What the in-process channel of uv_async/benchmark_async_threads.cpp     *)
(* promises: items put in by any thread come out once each, in the order   *)
(* in which they were put in, in batches of any size.                      *)
(***************************************************************************)
EXTENDS Naturals, Sequences

CONSTANT Items      \* what may be put into the channel

VARIABLES sent,       \* every item put in so far, in order
          delivered   \* every item taken out so far, in order

channelVars == <<sent, delivered>>

Init == sent = <<>> /\ delivered = <<>>

(* A producer puts one item in. *)
Put == \E x \in Items : /\ sent' = Append(sent, x)
                        /\ UNCHANGED delivered

(* The consumer takes a batch out: the delivered prefix grows. *)
Take == \E n \in (Len(delivered) + 1)..Len(sent) :
            /\ delivered' = SubSeq(sent, 1, n)
            /\ UNCHANGED sent

Next == Put \/ Take

Spec == Init /\ [][Next]_channelVars
=============================================================================
