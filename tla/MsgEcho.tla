------------------------------- MODULE MsgEcho ------------------------------
(***************************************************************************)
(* The echo server over one System V message queue (LinuxIPC/27ipcs).      *)
(* Requests are messages of type 1 whose first four bytes are the client's *)
(* pid; the server sends each back with the pid as its type, through the   *)
(* same queue.  The queue holds qbytes bytes: a sender that finds no room  *)
(* blocks (flag 0), the server too.                                        *)
(*                                                                         *)
(* External: msgsnd and msgrcv.  A message longer than the receiver's      *)
(* limit makes msgrcv fail with E2BIG and stays in the queue.              *)
(***************************************************************************)
EXTENDS Integers, Sequences, FiniteSets

CONSTANTS Clients,      \* their pids
          MSG_MAXLEN,   \* of mtext
          LineLengths,  \* lengths of the lines clients type (small set)
          QBytes,       \* msg_qbytes
          MaxLines      \* lines a client types (bound)

EchoAssumption ==
    /\ IsFiniteSet(Clients) /\ 1 \notin Clients
    /\ MSG_MAXLEN \in Nat /\ MSG_MAXLEN > 8
    /\ LineLengths \subseteq 1..(MSG_MAXLEN - 5)
    /\ QBytes \in Nat /\ MaxLines \in Nat

NONE == [mtype |-> 0, pid |-> 0, line |-> 0, len |-> 0]

VARIABLES
    queue,      \* the messages, oldest first
    held,       \* the server's msg between msgrcv and msgsnd
    state,      \* of a client: "typing", "sending", "waiting", "eof", "exited"
    msg,        \* a client's msg
    line,       \* lines a client has typed
    echoed      \* lines a client has got back

vars == <<queue, held, state, msg, line, echoed>>

Init ==
    /\ queue = <<>> /\ held = NONE
    /\ state = [c \in Clients |-> "typing"]
    /\ msg = [c \in Clients |-> NONE]
    /\ line = [c \in Clients |-> 0]
    /\ echoed = [c \in Clients |-> <<>>]

-----------------------------------------------------------------------------
Bytes[i \in 0..Len(queue)] == IF i = 0 THEN 0 ELSE Bytes[i - 1] + queue[i].len

Fits(m) == Bytes[Len(queue)] + m.len <= QBytes

Typed(t) == {i \in 1..Len(queue) : queue[i].mtype = t}
First(t) == CHOOSE i \in Typed(t) : \A j \in Typed(t) : i <= j

Without(i) == SubSeq(queue, 1, i - 1) \o SubSeq(queue, i + 1, Len(queue))

-----------------------------------------------------------------------------
(* echo_cli.  fgets returns a line, or the part of one that fits, of at    *)
(* most MSG_MAXLEN - 5 characters (see EchoAssumption).                    *)
fgets(c) ==
    /\ state[c] = "typing" /\ line[c] < MaxLines
    /\ \E n \in LineLengths :
           msg' = [msg EXCEPT ![c] = [mtype |-> 1, pid |-> c, line |-> line[c] + 1, len |-> 4 + n]]
    /\ line' = [line EXCEPT ![c] = @ + 1]
    /\ state' = [state EXCEPT ![c] = "sending"]
    /\ UNCHANGED <<queue, held, echoed>>

eof(c) ==
    /\ state[c] = "typing"
    /\ state' = [state EXCEPT ![c] = "eof"]
    /\ UNCHANGED <<queue, held, msg, line, echoed>>

cli_msgsnd(c) ==
    /\ state[c] = "sending" /\ Fits(msg[c])
    /\ queue' = Append(queue, msg[c])
    /\ state' = [state EXCEPT ![c] = "waiting"]
    /\ UNCHANGED <<held, msg, line, echoed>>

cli_msgrcv(c) ==
    /\ state[c] = "waiting" /\ Typed(c) # {}
    /\ LET m == queue[First(c)] IN
       IF m.len > MSG_MAXLEN - 4
       THEN /\ state' = [state EXCEPT ![c] = "exited"]
            /\ UNCHANGED <<queue, echoed, msg>>
       ELSE /\ queue' = Without(First(c))
            /\ msg' = [msg EXCEPT ![c] = m]
            /\ echoed' = [echoed EXCEPT ![c] = Append(@, <<m.pid, m.line>>)]
            /\ state' = [state EXCEPT ![c] = "typing"]
    /\ UNCHANGED <<held, line>>

-----------------------------------------------------------------------------
(* echo_svr. *)
svr_msgrcv ==
    /\ held = NONE /\ Typed(1) # {}
    /\ held' = queue[First(1)]
    /\ queue' = Without(First(1))
    /\ UNCHANGED <<state, msg, line, echoed>>

(* Mutant: the answer keeps the type of the request. *)
svr_msgsnd_SameType ==
    /\ held # NONE /\ Fits(held)
    /\ queue' = Append(queue, held)
    /\ held' = NONE
    /\ UNCHANGED <<state, msg, line, echoed>>

svr_msgsnd ==
    /\ held # NONE /\ Fits(held)
    /\ queue' = Append(queue, [held EXCEPT !.mtype = held.pid])
    /\ held' = NONE
    /\ UNCHANGED <<state, msg, line, echoed>>

-----------------------------------------------------------------------------
Done == /\ \A c \in Clients : \/ state[c] \in {"eof", "exited"}
                              \/ state[c] = "typing" /\ line[c] = MaxLines
        /\ UNCHANGED vars

Next == \/ svr_msgrcv \/ svr_msgsnd \/ Done
        \/ \E c \in Clients : fgets(c) \/ eof(c) \/ cli_msgsnd(c) \/ cli_msgrcv(c)

Spec == Init /\ [][Next]_vars

(* Both programs go on when msgsnd and msgrcv can; the kernel wakes the    *)
(* sleeping senders in turn.  Nobody need type.                            *)
Fairness == /\ WF_vars(svr_msgrcv) /\ WF_vars(svr_msgsnd)
            /\ \A c \in Clients : SF_vars(cli_msgsnd(c)) /\ WF_vars(cli_msgrcv(c))

FairSpec == Spec /\ Fairness

-----------------------------------------------------------------------------
Msgs == [mtype : Clients \cup {1}, pid : Clients, line : 1..MaxLines, len : 5..(MSG_MAXLEN - 1)]

TypeOK ==
    /\ queue \in Seq(Msgs) /\ Bytes[Len(queue)] <= QBytes
    /\ held \in Msgs \cup {NONE}
    /\ state \in [Clients -> {"typing", "sending", "waiting", "eof", "exited"}]
    /\ msg \in [Clients -> Msgs \cup {NONE}]
    /\ line \in [Clients -> 0..MaxLines]
    /\ echoed \in [Clients -> Seq(Clients \X (1..MaxLines))]

(* The queue has room for a line of every client. *)
RoomForAll == Cardinality(Clients) * (MSG_MAXLEN - 1) <= QBytes

(* Every line a client sends is answered, and then the client has got back *)
(* its own lines, each once and in the order typed, whatever the others    *)
(* have in the queue; or its msgrcv has failed and it has given up.  The   *)
(* server's blocking msgsnd shares the queue with the requests, so this    *)
(* needs a queue with room for all.                                        *)
Answered ==
    RoomForAll => \A c \in Clients, n \in 1..MaxLines :
        (state[c] = "sending" /\ line[c] = n)
            ~> (state[c] = "exited" \/ echoed[c] = [i \in 1..n |-> <<c, i>>])

(* What the client's last words say (echocli.c:26, "Server Close!"): its   *)
(* msgrcv fails only when the server has gone.  This server never goes.    *)
GivesUpOnlyOnClose == \A c \in Clients : state[c] # "exited"
=============================================================================
