------------------------------ MODULE ZmqInproc -----------------------------
(***************************************************************************)
(* bench_zmq_inproc.cpp: a producer thread sends test_count messages into  *)
(* a PAIR socket without waiting, dropping what the socket does not take;  *)
(* the main thread asks for messages until it has test_count of them,      *)
(* joins the producer and cleans up.                                       *)
(*                                                                         *)
(* External: libzmq.  A pipe holds at most HWM messages (CreateSocket sets *)
(* the water marks); single frames, so zmq_msg_more is 0.                  *)
(***************************************************************************)
EXTENDS Naturals

CONSTANTS HWM, MaxCount     \* test_count is at most MaxCount (bound)

InprocAssumption == HWM \in Nat \ {0} /\ MaxCount \in Nat

VARIABLES
    test_count,
    prod,           \* "none", "run" or "done"
    k, sent,        \* the producer's k and success_cnt
    pipe,           \* messages in the pipe
    pc,             \* main: "create", "recv", "join", "cleanup" or "exit"
    received,       \* the consumer's success_cnt
    sockets,        \* the sockets are open
    misused         \* a socket was used after it was closed

prodVars == <<prod, k, sent>>
vars == <<test_count, prodVars, pipe, pc, received, sockets, misused>>

Init ==
    /\ test_count \in 0..MaxCount
    /\ prod = "none" /\ k = 0 /\ sent = 0 /\ pipe = 0
    /\ pc = "create" /\ received = 0 /\ sockets = FALSE /\ misused = FALSE

-----------------------------------------------------------------------------
(* A PAIR socket with the water marks HWM; of its other options none       *)
(* matters between two threads of one process.                             *)
CreateSocket == sockets' = TRUE

(* CreateSocket twice, zmq_bind, zmq_connect, pthread_create. *)
create ==
    /\ pc = "create"
    /\ CreateSocket /\ prod' = "run" /\ pc' = "recv"
    /\ UNCHANGED <<test_count, k, sent, pipe, received, misused>>

(* Mutant: a message that is refused counts as sent. *)
producer_CountsAll ==
    /\ prod = "run" /\ k < test_count
    /\ pipe' = IF pipe < HWM THEN pipe + 1 ELSE pipe
    /\ sent' = sent + 1
    /\ k' = k + 1
    /\ UNCHANGED <<test_count, prod, pc, received, sockets, misused>>

producer_routine ==
    /\ prod = "run" /\ k < test_count
    /\ IF pipe < HWM THEN pipe' = pipe + 1 /\ sent' = sent + 1
       ELSE UNCHANGED <<pipe, sent>>
    /\ k' = k + 1
    /\ misused' = (misused \/ ~sockets)
    /\ UNCHANGED <<test_count, prod, pc, received, sockets>>

producer_returns ==
    /\ prod = "run" /\ k >= test_count
    /\ prod' = "done"
    /\ UNCHANGED <<test_count, k, sent, pipe, pc, received, sockets, misused>>

(* A turn of the loop; an empty pipe is asked again.  The count is tested  *)
(* only after a message.                                                   *)
start_consumer ==
    /\ pc = "recv"
    /\ IF pipe = 0 THEN UNCHANGED <<pipe, received, pc>>
       ELSE /\ pipe' = pipe - 1 /\ received' = received + 1
            /\ pc' = IF received + 1 >= test_count THEN "join" ELSE "recv"
    /\ UNCHANGED <<test_count, prodVars, sockets, misused>>

pthread_join ==
    /\ pc = "join" /\ prod = "done"
    /\ pc' = "cleanup"
    /\ UNCHANGED <<test_count, prodVars, pipe, received, sockets, misused>>

(* "We never get here, but clean up anyhow". *)
cleanup ==
    /\ pc = "cleanup"
    /\ sockets' = FALSE /\ pc' = "exit"
    /\ UNCHANGED <<test_count, prodVars, pipe, received, misused>>

-----------------------------------------------------------------------------
Main == create \/ start_consumer \/ pthread_join \/ cleanup
Producer == producer_routine \/ producer_returns

Next == Main \/ Producer \/ (pc = "exit" /\ UNCHANGED vars)

Spec == Init /\ [][Next]_vars

-----------------------------------------------------------------------------
(* The types; the producer tries test_count times. *)
TypeOK ==
    /\ test_count \in 0..MaxCount /\ k \in 0..test_count /\ sent \in 0..k
    /\ pipe \in 0..HWM /\ received \in 0..test_count
    /\ prod \in {"none", "run", "done"}
    /\ pc \in {"create", "recv", "join", "cleanup", "exit"}
    /\ sockets \in BOOLEAN /\ misused \in BOOLEAN

(* The producer's success_cnt is what was received and what is in the      *)
(* pipe: what it reports as sent is never lost; and when the consumer has  *)
(* all it waits for nothing is left behind in the pipe.  The clean up      *)
(* closes the producer's socket only once the producer is done with it.    *)
SentIsReceived ==
    /\ sent = received + pipe
    /\ pc \in {"join", "cleanup", "exit"} => pipe = 0 /\ sent = test_count
    /\ ~misused /\ (pc = "exit" => prod = "done")

(* Line 161: "We never get here". *)
NeverGetHere == pc # "exit"
=============================================================================
