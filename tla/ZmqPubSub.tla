------------------------------ MODULE ZmqPubSub -----------------------------
(***************************************************************************)
(* pub_zmq.cpp and sub_zmq.cpp: a publisher that sends each message as a   *)
(* topic frame and a data frame, and a subscriber that reads frames.       *)
(*                                                                         *)
(* External: libzmq.  A send or a receive may fail, as the code provides   *)
(* for; frames sent with ZMQ_SNDMORE and the next one without make one     *)
(* message; a message is delivered whole, in order, or lost whole.         *)
(***************************************************************************)
EXTENDS Integers, Sequences

CONSTANTS TotalMsg,
          MaxRetry,         \* 3 in the code
          MaxSendFails,     \* sends that fail (bound)
          MaxRecvFails      \* receives that fail (bound)

PubSubAssumption ==
    /\ TotalMsg \in Nat \ {0} /\ MaxRetry \in Nat
    /\ MaxSendFails \in Nat /\ MaxRecvFails \in Nat

Topic == -1         \* a topic frame; a data frame is its id
Frames == {Topic} \cup 0..(TotalMsg - 1)

VARIABLES
    pub,            \* the publisher: "topic", "data", "retry" or "done"
    iTotalSend, retry_cnt, sendFails,
    open,           \* frames of a message without its last frame
    net,            \* messages on their way
    published,      \* messages that were completed
    sub,            \* the subscriber: "first", "more" or "abort"
    parts,          \* frames of the message the subscriber has begun
    iTotalRecv, this_frame_idx, recvFails,
    bigger,         \* "bigger than 2 frame!" has been printed
    ids             \* the data frames received

pubVars == <<pub, iTotalSend, retry_cnt, sendFails, open, published>>
subVars == <<sub, parts, iTotalRecv, this_frame_idx, recvFails, bigger, ids>>
vars == <<pubVars, net, subVars>>

Init ==
    /\ pub = "topic" /\ iTotalSend = 0 /\ retry_cnt = 0 /\ sendFails = 0
    /\ open = <<>> /\ net = <<>> /\ published = 0
    /\ sub = "first" /\ parts = <<>> /\ iTotalRecv = 0 /\ this_frame_idx = 1
    /\ recvFails = 0 /\ bigger = FALSE /\ ids = <<>>

-----------------------------------------------------------------------------
SendFails == sendFails < MaxSendFails /\ sendFails' = sendFails + 1

(* The end of a turn of the loop: ++iTotalSend, and its condition. *)
NextMessage ==
    /\ iTotalSend' = iTotalSend + 1
    /\ pub' = IF iTotalSend + 1 < TotalMsg THEN "topic" ELSE "done"
    /\ retry_cnt' = 0

(* Line 84; a failure starts the turn again. *)
send_topic ==
    /\ pub = "topic"
    /\ \/ /\ open' = Append(open, Topic) /\ pub' = "data"
          /\ UNCHANGED sendFails
       \/ SendFails /\ UNCHANGED <<open, pub>>
    /\ UNCHANGED <<iTotalSend, retry_cnt, published, net, subVars>>

(* The library completes the message that is open. *)
Complete(id) ==
    /\ net' = Append(net, Append(open, id))
    /\ published' = published + 1
    /\ open' = <<>>

(* Mutant: a turn that needed a retry is taken again. *)
send_data_Again ==
    /\ pub \in {"data", "retry"}
    /\ Complete(iTotalSend)
    /\ IF pub = "data" THEN NextMessage
       ELSE pub' = "topic" /\ retry_cnt' = 0 /\ UNCHANGED iTotalSend
    /\ UNCHANGED <<sendFails, subVars>>

send_data ==
    /\ pub \in {"data", "retry"}
    /\ Complete(iTotalSend)
    /\ NextMessage
    /\ UNCHANGED <<sendFails, subVars>>

(* The first failure and MaxRetry more; then the message is given up, and  *)
(* counted.                                                                *)
send_data_fails ==
    /\ pub \in {"data", "retry"} /\ SendFails
    /\ IF retry_cnt < MaxRetry
       THEN pub' = "retry" /\ retry_cnt' = retry_cnt + 1 /\ UNCHANGED iTotalSend
       ELSE NextMessage
    /\ UNCHANGED <<open, published, net, subVars>>

(* A message that PGM cannot recover. *)
Lose ==
    /\ net # <<>>
    /\ net' = Tail(net)
    /\ UNCHANGED <<pubVars, subVars>>

-----------------------------------------------------------------------------
(* What zmq_msg_recv returns next, and what it leaves. *)
Readable == parts # <<>> \/ net # <<>>
Frame == IF parts # <<>> THEN Head(parts) ELSE Head(Head(net))
Rest == IF parts # <<>> THEN Tail(parts) ELSE Tail(Head(net))

Receive ==
    /\ Readable
    /\ parts' = Rest
    /\ net' = IF parts # <<>> THEN net ELSE Tail(net)

Record(frame) == ids' = IF frame = Topic THEN ids ELSE Append(ids, frame)

(* Lines 72-87: the first frame of a turn, which must have more. *)
recv_first ==
    /\ sub = "first" /\ Receive
    /\ IF Rest = <<>>
       THEN sub' = "abort" /\ UNCHANGED <<iTotalRecv, this_frame_idx>>
       ELSE sub' = "more" /\ iTotalRecv' = iTotalRecv + 1 /\ this_frame_idx' = 1
    /\ UNCHANGED <<recvFails, bigger, ids, pubVars>>

(* Lines 88-111: a further frame. *)
recv_more ==
    /\ sub = "more" /\ Receive
    /\ Record(Frame)
    /\ IF Rest # <<>>
       THEN this_frame_idx' = this_frame_idx + 1 /\ bigger' = TRUE /\ UNCHANGED sub
       ELSE this_frame_idx' = 0 /\ sub' = "first" /\ UNCHANGED bigger
    /\ UNCHANGED <<iTotalRecv, recvFails, pubVars>>

RecvFails == recvFails < MaxRecvFails /\ recvFails' = recvFails + 1

(* Line 75: wait, and again.  Line 92: the frames left are not read. *)
recv_fails ==
    /\ sub \in {"first", "more"} /\ RecvFails
    /\ sub' = "first"
    /\ UNCHANGED <<parts, iTotalRecv, this_frame_idx, bigger, ids, net, pubVars>>

-----------------------------------------------------------------------------
Publisher == send_topic \/ send_data \/ send_data_fails
Subscriber == recv_first \/ recv_more \/ recv_fails

(* The publisher waits for a key; the subscriber for messages. *)
Idle == pub = "done" /\ (sub = "abort" \/ ~Readable) /\ UNCHANGED vars

Next == Publisher \/ Subscriber \/ Lose \/ Idle

Spec == Init /\ [][Next]_vars

-----------------------------------------------------------------------------
(* The types. *)
TypeOK ==
    /\ pub \in {"topic", "data", "retry", "done"} /\ sub \in {"first", "more", "abort"}
    /\ iTotalSend \in 0..TotalMsg /\ retry_cnt \in 0..MaxRetry
    /\ sendFails \in 0..MaxSendFails /\ recvFails \in 0..MaxRecvFails
    /\ open \in Seq({Topic}) /\ parts \in Seq(Frames)
    /\ net \in Seq(Seq(Frames)) /\ ids \in Seq(Frames)
    /\ published \in 0..TotalMsg /\ iTotalRecv \in 0..(TotalMsg + MaxRecvFails)
    /\ this_frame_idx \in 0..(TotalMsg + 1) /\ bigger \in BOOLEAN

(* Whatever is retried, given up or lost, no data is received twice or     *)
(* out of order.  And as long as no receive has failed the subscriber is   *)
(* in step with the messages: the assertion of line 84 holds, and          *)
(* iTotalRecv counts no message that was not published, none twice.        *)
SubscriberInStep ==
    /\ \A i, j \in 1..Len(ids) : i < j => ids[i] < ids[j]
    /\ recvFails = 0 => sub # "abort" /\ iTotalRecv <= published

-----------------------------------------------------------------------------
(* No message has more than two frames: line 107 calls it an exception. *)
TwoFrames == ~bigger

(* assert(is_more == 1), line 84. *)
IsMore == sub # "abort"
=============================================================================
