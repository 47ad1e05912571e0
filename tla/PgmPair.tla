------------------------------- MODULE PgmPair ------------------------------
(***************************************************************************)
(* pgmsend.c and pgmrecv.c together, as openpgm_test/README.md runs them:  *)
(* two programs started in either order, and the network between them.     *)
(*                                                                         *)
(* External: PGM.  A message the sender's libpgm has taken reaches the     *)
(* receiver's once the receiver has joined, or is lost.  The receiver is   *)
(* told of a loss as a session reset, unless it happens before libpgm has  *)
(* seen the session.  The text sent is always the same, so that messages   *)
(* are counted and not told apart.                                         *)
(***************************************************************************)
EXTENDS PgmSender, PgmReceiver

VARIABLE lost       \* messages the network has lost

vars == <<socketVars, senderVars, receiverVars, lost>>

Init == SocketInit /\ SenderInit /\ ReceiverInit /\ lost = 0

Joined == step["pgmrecv"] \in {"thread", "up"} /\ g_sock["pgmrecv"] = "live"

Deliver ==
    /\ wire > 0 /\ Joined
    /\ wire' = wire - 1 /\ pending' = pending + 1
    /\ UNCHANGED <<socketVars, created, k, taken, reported, exited, mainVars, resets,
                   recvVars, lost>>

Lose ==
    /\ wire > 0
    /\ wire' = wire - 1 /\ lost' = lost + 1
    /\ \/ UNCHANGED resets
       \/ Joined /\ resets' = resets + 1
    /\ UNCHANGED <<socketVars, created, k, taken, reported, exited, mainVars, pending,
                   recvVars>>

Sender   == SenderMain /\ UNCHANGED <<receiverVars, lost>>
Receiver == ReceiverMain /\ UNCHANGED <<senderVars, lost>>
Thread   == ReceiverThread /\ UNCHANGED <<senderVars, lost>>
Signal   == on_signal /\ UNCHANGED <<senderVars, lost>>

Next == Sender \/ Receiver \/ Thread \/ Signal \/ Deliver \/ Lose

Spec == Init /\ [][Next]_vars

(* Each thread runs.  A blocking pgm_send waits for the rate limiter,      *)
(* which only delays it, and the sender's getchar for a key, which comes.  *)
FairSpec == Spec /\ WF_vars(Sender) /\ WF_vars(Receiver) /\ WF_vars(Thread)

-----------------------------------------------------------------------------
TypeOK == SocketTypeOK /\ SenderTypeOK /\ ReceiverTypeOK /\ lost \in Nat

(* Whichever call fails in either program, err_abort and main close the    *)
(* socket once between them: none is closed twice, none is open at the     *)
(* end, and nothing is sent on one that is not open.                       *)
SocketClosedOnce ==
    /\ \A p \in Programs : g_sock[p] \in {"NULL", "live"}
    /\ exited => g_sock["pgmsend"] = "NULL"
    /\ main = "done" => g_sock["pgmrecv"] = "NULL"
    /\ Sending => g_sock["pgmsend"] = "live"

(* What the receiver counts is what the sender's libpgm took and the       *)
(* network brought: nothing is counted twice or left out, whatever the     *)
(* size of the vectors it is taken in and wherever a send failed.          *)
EveryMessageCounted == iCounter + pending + wire + lost = Cardinality(taken)
=============================================================================
