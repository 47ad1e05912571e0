---------------------------- MODULE KafkaProducer ---------------------------
(***************************************************************************)
(* The producer of kafka-sasl-cpp: main's loop, KafKaProduce with its      *)
(* retry on a full queue, the SIGINT handler, and the flush at the end.    *)
(*                                                                         *)
(* External: librdkafka.  rd_kafka_produce takes a message unless the      *)
(* internal queue, which counts messages to be sent and reports not yet    *)
(* served, is full; a background thread delivers each or gives it up; the  *)
(* reports wait for rd_kafka_poll, which runs dr_msg_cb for those there    *)
(* are.  rd_kafka_flush polls until nothing is left or its time is over.   *)
(***************************************************************************)
EXTENDS Integers, Sequences, FiniteSets

CONSTANTS QueueMax,     \* queue.buffering.max.messages
          MaxCount      \* messages produced (bound)

KafkaAssumption == QueueMax \in Nat \ {0} /\ MaxCount \in Nat

Messages == 1..MaxCount

VARIABLES
    pc,             \* "while", "produce", "poll1000", "poll0", "flush", "destroy", "exited"
    global_is_run,
    count,          \* messages main has made
    outq,           \* accepted, not yet delivered or given up
    reports,        \* delivered or given up, dr_msg_cb not yet called
    reported,       \* calls of dr_msg_cb, in order
    rejected,       \* rd_kafka_produce failed, with another error than a full queue
    timedout        \* rd_kafka_flush gave up

vars == <<pc, global_is_run, count, outq, reports, reported, rejected, timedout>>

Init ==
    /\ pc = "while" /\ global_is_run = TRUE /\ count = 0
    /\ outq = {} /\ reports = <<>> /\ reported = <<>> /\ rejected = {}
    /\ timedout = FALSE

-----------------------------------------------------------------------------
(* The handler of SIGINT; it runs at any point. *)
stop ==
    /\ global_is_run /\ pc # "exited"
    /\ global_is_run' = FALSE
    /\ UNCHANGED <<pc, count, outq, reports, reported, rejected, timedout>>

(* The background thread: a message is delivered, or its time is over. *)
Deliver(m) ==
    /\ m \in outq /\ pc # "exited"
    /\ outq' = outq \ {m}
    /\ reports' = Append(reports, m)
    /\ UNCHANGED <<pc, global_is_run, count, reported, rejected, timedout>>

-----------------------------------------------------------------------------
while ==
    /\ pc = "while"
    /\ IF global_is_run
       THEN count < MaxCount /\ count' = count + 1 /\ pc' = "produce"
       ELSE pc' = "flush" /\ UNCHANGED count
    /\ UNCHANGED <<global_is_run, outq, reports, reported, rejected, timedout>>

(* What the queue's limit counts. *)
InQueue == Cardinality(outq) + Len(reports)

rd_kafka_produce ==
    /\ pc = "produce"
    /\ \/ /\ InQueue < QueueMax
          /\ outq' = outq \union {count} /\ pc' = "poll0"
          /\ UNCHANGED rejected
       \/ /\ InQueue >= QueueMax
          /\ pc' = "poll1000"
          /\ UNCHANGED <<outq, rejected>>
       \/ (* any other error is printed *)
          /\ rejected' = rejected \union {count} /\ pc' = "poll0"
          /\ UNCHANGED outq
    /\ UNCHANGED <<global_is_run, count, reports, reported, timedout>>

(* dr_msg_cb for the reports there are. *)
serve == reported' = reported \o reports /\ reports' = <<>>

(* rd_kafka_poll(rk, 1000); goto retry.  The poll returns with the first   *)
(* reports, or with none after a second.                                   *)
retry ==
    /\ pc = "poll1000"
    /\ serve /\ pc' = "produce"
    /\ UNCHANGED <<global_is_run, count, outq, rejected, timedout>>

(* Mutant: the reports stay in the queue. *)
rd_kafka_poll_Peeks ==
    /\ pc = "poll0"
    /\ reported' = reported \o reports /\ pc' = "while"
    /\ UNCHANGED <<global_is_run, count, outq, reports, rejected, timedout>>

(* rd_kafka_poll(rk, 0), and the sleep. *)
rd_kafka_poll ==
    /\ pc = "poll0"
    /\ serve /\ pc' = "while"
    /\ UNCHANGED <<global_is_run, count, outq, rejected, timedout>>

(* The result is not looked at. *)
rd_kafka_flush ==
    /\ pc = "flush"
    /\ serve
    /\ \/ outq = {} /\ pc' = "destroy" /\ UNCHANGED timedout
       \/ outq # {} /\ pc' = "flush" /\ UNCHANGED timedout
       \/ outq # {} /\ pc' = "destroy" /\ timedout' = TRUE
    /\ UNCHANGED <<global_is_run, count, outq, rejected>>

(* rd_kafka_destroy drops what is left. *)
rd_kafka_destroy ==
    /\ pc = "destroy"
    /\ pc' = "exited"
    /\ UNCHANGED <<global_is_run, count, outq, reports, reported, rejected, timedout>>

-----------------------------------------------------------------------------
Ended == pc = "exited" /\ UNCHANGED vars

Main == while \/ rd_kafka_produce \/ retry \/ rd_kafka_poll \/ rd_kafka_flush \/ rd_kafka_destroy

Next == Main \/ stop \/ (\E m \in Messages : Deliver(m)) \/ Ended

Spec == Init /\ [][Next]_vars

(* main runs; librdkafka delivers a message or, after message.timeout.ms,  *)
(* gives it up.  The user need not press Ctrl-C, other errors need not     *)
(* happen, and a flush need not time out.                                  *)
Fairness == WF_vars(Main) /\ \A m \in Messages : WF_vars(Deliver(m))

FairSpec == Spec /\ Fairness

-----------------------------------------------------------------------------
(* The types; the internal queue keeps to its limit. *)
TypeOK ==
    /\ pc \in {"while", "produce", "poll1000", "poll0", "flush", "destroy", "exited"}
    /\ global_is_run \in BOOLEAN /\ timedout \in BOOLEAN
    /\ count \in 0..MaxCount
    /\ outq \subseteq Messages /\ rejected \subseteq Messages
    /\ reports \in Seq(Messages) /\ reported \in Seq(Messages)
    /\ InQueue <= QueueMax

In(m, s) == \E i \in 1..Len(s) : s[i] = m
Made == IF pc \in {"produce", "poll1000"} THEN 1..(count - 1) ELSE 1..count

(* Whatever is retried, every message main has done with is refused, on    *)
(* its way or reported, and in one of these places only: a full queue      *)
(* loses none, dr_msg_cb runs once for a message however often the produce *)
(* was tried, and never for one that was refused.  When the flush has not  *)
(* timed out all are reported before the producer is destroyed.            *)
ReportedOnce ==
    /\ \A m \in Made : m \in outq \union rejected \/ In(m, reports) \/ In(m, reported)
    /\ \A i, j \in 1..Len(reported) : reported[i] = reported[j] => i = j
    /\ \A i \in 1..Len(reported) : reported[i] \notin outq \union rejected
    /\ pc \in {"destroy", "exited"} /\ ~timedout => outq = {} /\ reports = <<>>

(* A full queue does not hold main up for ever: every message made is      *)
(* taken, or refused.                                                      *)
ProduceEnds == \A m \in Messages : (count = m /\ pc = "produce") ~> (m \in Made)

(* After Ctrl-C the program ends, in the retry loop too, which does not    *)
(* look at global_is_run.                                                  *)
StopEnds == ~global_is_run ~> pc = "exited"

(* main, before rd_kafka_flush: it is called "to make sure that all queued *)
(* and in-flight produce requests are completed before destruction".       *)
CompletedBeforeDestroy == pc \in {"destroy", "exited"} => outq = {}
=============================================================================
