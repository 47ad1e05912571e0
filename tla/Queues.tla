------------------------------- MODULE Queues -------------------------------
(* The programs that talk through a socket or a queue of a library or of   *)
(* the kernel.  They have nothing to do with each other: program says      *)
(* which of them a behaviour is about, and the others stay as they began.  *)
(*   zsock   a watcher of a ZeroMQ socket on a libuv loop;                 *)
(*   zmq     the inproc benchmark;                                         *)
(*   pubsub  a publisher and a subscriber;                                 *)
(*   echo    the server and the clients of a System V message queue.       *)
EXTENDS Integers, Sequences

CONSTANTS
    HWM, MaxTests,                                  \* zmq
    TotalMsg, MaxRetry, MaxSendFails, MaxRecvFails, \* pubsub
    Clients, MSG_MAXLEN, LineLengths, QBytes, MaxLines      \* echo

VARIABLES
    program,
    \* zsock
    ready, armed, fd, dead, phase, started, events, idle, told, closing, closed, close_cb,
    \* zmq
    test_count, prod, tried, success_cnt, pipe, consumer, received, sockets, misused,
    \* pubsub
    pub, iTotalSend, retry_cnt, sendFails, open, net, published, sub, parts,
    iTotalRecv, this_frame_idx, recvFails, bigger, ids,
    \* echo
    queue, held, state, msg, line, echoed

zsockVars  == <<ready, armed, fd, dead, phase, started, events, idle, told, closing, closed,
                close_cb>>
zmqVars    == <<test_count, prod, tried, success_cnt, pipe, consumer, received, sockets,
                misused>>
pubsubVars == <<pub, iTotalSend, retry_cnt, sendFails, open, net, published, sub, parts,
                iTotalRecv, this_frame_idx, recvFails, bigger, ids>>
echoVars   == <<queue, held, state, msg, line, echoed>>

Zsock  == INSTANCE UvZsock
Zmq    == INSTANCE ZmqInproc WITH MaxCount <- MaxTests, k <- tried, sent <- success_cnt,
                                  pc <- consumer
PubSub == INSTANCE ZmqPubSub
Echo   == INSTANCE MsgEcho

ASSUME QueuesAssumption ==
    Zmq!InprocAssumption /\ PubSub!PubSubAssumption /\ Echo!EchoAssumption

QueuesInit == /\ program \in {"zsock", "zmq", "pubsub", "echo"}
              /\ Zsock!Init
              /\ Zmq!Init /\ (program = "zmq" \/ test_count = 0)
              /\ PubSub!Init /\ Echo!Init

QueuesNext ==
    /\ UNCHANGED program
    /\ \/ program = "zsock" /\ Zsock!Next /\ UNCHANGED <<zmqVars, pubsubVars, echoVars>>
       \/ program = "zmq" /\ Zmq!Next /\ UNCHANGED <<zsockVars, pubsubVars, echoVars>>
       \/ program = "pubsub" /\ PubSub!Next /\ UNCHANGED <<zsockVars, zmqVars, echoVars>>
       \/ program = "echo" /\ Echo!Next /\ UNCHANGED <<zsockVars, zmqVars, pubsubVars>>

(* The fairness of the program that runs, as its own module states it. *)
QueuesSpec ==
    /\ QueuesInit
    /\ [][QueuesNext]_<<program, zsockVars, zmqVars, pubsubVars, echoVars>>
    /\ WF_zsockVars(program = "zsock" /\ Zsock!LoopStep)
    /\ WF_echoVars(program = "echo" /\ Echo!svr_msgrcv)
    /\ WF_echoVars(program = "echo" /\ Echo!svr_msgsnd)
    /\ \A c \in Clients : /\ SF_echoVars(program = "echo" /\ Echo!cli_msgsnd(c))
                          /\ WF_echoVars(program = "echo" /\ Echo!cli_msgrcv(c))

-----------------------------------------------------------------------------
(* Properties of the programs, which say in their modules what they state. *)

(* uv_zsock.c: the loop never sleeps on an event.                           *)
NoSleepOnEvents == Zsock!NoSleepOnEvents

(* uv_zsock.c: an event that stays is reported to the user.                 *)
Served == Zsock!Served

(* bench_zmq_inproc.cpp: what is counted as sent is received or on its way. *)
SentIsReceived == Zmq!SentIsReceived

(* pub_zmq.cpp, sub_zmq.cpp: the subscriber keeps in step with messages.    *)
SubscriberInStep == PubSub!SubscriberInStep

(* echosvr.c, echocli.c: every line sent is answered, with the own lines.   *)
Answered == Echo!Answered
=============================================================================
