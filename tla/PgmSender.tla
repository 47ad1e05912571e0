------------------------------ MODULE PgmSender -----------------------------
(***************************************************************************)
(* pgmsend.c: create_pgm_socket, with the calls and the err_abort of       *)
(* PgmSocket, and main's loop, which sends the same text for k in          *)
(* 0..nCounter and goes on when a send fails.                              *)
(*                                                                         *)
(* External: pgm_send on a blocking socket (PGM_NOBLOCK is set to 0),      *)
(* which returns PGM_IO_STATUS_NORMAL or a failure; and the network, which *)
(* takes over what is sent (wire).                                         *)
(***************************************************************************)
EXTENDS PgmSocket, FiniteSets

CONSTANTS nCounter,
          ReportEvery,  \* 1000 in the code
          MaxFails      \* sends that fail (bound)

ASSUME SenderAssumption ==
    nCounter \in Nat /\ MaxFails \in Nat /\ ReportEvery \in Nat \ {0}

VARIABLES
    created,    \* create_pgm_socket has returned TRUE
    k,
    taken,      \* the numbers of the messages pgm_send has taken
    reported,   \* the numbers printed as "send ... bytes ok"
    exited,
    wire        \* messages sent that have neither reached a receiver nor got lost

senderVars == <<created, k, taken, reported, exited, wire>>

SenderInit ==
    /\ created = FALSE /\ k = 0 /\ taken = {} /\ reported = {} /\ exited = FALSE
    /\ wire = 0

-----------------------------------------------------------------------------
(* pgm_init fails, the interfaces or the usage are printed, or the         *)
(* Reed-Solomon parameters are invalid.                                    *)
early_return ==
    /\ step["pgmsend"] = "getaddrinfo" /\ ~exited
    /\ exited' = TRUE
    /\ UNCHANGED <<socketVars, created, k, taken, reported, wire>>

create_pgm_socket ==
    /\ ~exited
    /\ Setup("pgmsend", "up")
    /\ UNCHANGED senderVars

create_abort ==
    /\ err_abort("pgmsend")
    /\ UNCHANGED senderVars

create_returns ==
    /\ step["pgmsend"] = "up" /\ ~created
    /\ created' = TRUE
    /\ UNCHANGED <<socketVars, k, taken, reported, exited, wire>>

Sending == created /\ k <= nCounter

(* One turn of the loop: whether or not the send failed, every             *)
(* ReportEvery-th number is reported.                                      *)
pgm_send ==
    /\ Sending
    /\ \/ taken' = taken \cup {k} /\ wire' = wire + 1
       \/ k - Cardinality(taken) < MaxFails /\ UNCHANGED <<taken, wire>>
    /\ reported' = IF k % ReportEvery = 0 THEN reported \cup {k} ELSE reported
    /\ k' = k + 1
    /\ UNCHANGED <<socketVars, created, exited>>

LoopDone == IF created THEN k > nCounter ELSE step["pgmsend"] = "failed"

(* After getchar: close the socket if there is one, and return. *)
cleanup ==
    /\ LoopDone /\ ~exited
    /\ pgm_close("pgmsend")
    /\ exited' = TRUE
    /\ UNCHANGED <<step, res, created, k, taken, reported, wire>>

-----------------------------------------------------------------------------
SenderMain ==
    \/ early_return \/ create_pgm_socket \/ create_abort \/ create_returns
    \/ pgm_send \/ cleanup

SenderTypeOK ==
    /\ created \in BOOLEAN /\ exited \in BOOLEAN /\ wire \in Nat
    /\ k \in 0..(nCounter + 1) /\ taken \subseteq 0..nCounter /\ reported \subseteq 0..nCounter

(* A number printed as "send ... bytes ok" (pgmsend.c:170) was taken. *)
ReportedIsTaken == reported \subseteq taken
=============================================================================
