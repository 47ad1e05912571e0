------------------------------ MODULE PgmSocket -----------------------------
(***************************************************************************)
(* Setting up a PGM socket: the part on_startup of pgmrecv.c and           *)
(* create_pgm_socket of pgmsend.c share.  Each call may fail; a failure    *)
(* goes to err_abort, which releases what is there.                        *)
(*                                                                         *)
(* The state is a function of the program.  An address list or a socket is *)
(* NULL, or live, or the pointer to it dangles after its release, or it    *)
(* has been released twice.                                                *)
(***************************************************************************)
EXTENDS Naturals

Programs == {"pgmsend", "pgmrecv"}
Pointers == {"NULL", "live", "dangling", "released twice"}

VARIABLES
    step,       \* the call made next, "up", "abort" or "failed"
    res,        \* the address list of pgm_getaddrinfo
    g_sock

socketVars == <<step, res, g_sock>>

SocketInit ==
    /\ step   = [p \in Programs |-> "getaddrinfo"]
    /\ res    = [p \in Programs |-> "NULL"]
    /\ g_sock = [p \in Programs |-> "NULL"]

Released(ptr) == IF ptr = "live" THEN "dangling" ELSE "released twice"

(* Released and set to NULL, unless it is NULL. *)
ReleasedAndNulled(ptr) == IF ptr \in {"NULL", "live"} THEN "NULL" ELSE Released(ptr)

(* The call of step s succeeds and leads to t, or fails. *)
Call(p, s, t) == step[p] = s /\ \E n \in {t, "abort"} : step' = [step EXCEPT ![p] = n]

Succeeded(p) == step'[p] # "abort"

pgm_getaddrinfo(p) ==
    /\ Call(p, "getaddrinfo", "socket")
    /\ res' = IF Succeeded(p) THEN [res EXCEPT ![p] = "live"] ELSE res
    /\ UNCHANGED g_sock

pgm_socket(p) ==
    /\ Call(p, "socket", "gsi")
    /\ g_sock' = IF Succeeded(p) THEN [g_sock EXCEPT ![p] = "live"] ELSE g_sock
    /\ UNCHANGED res

pgm_gsi_create(p) ==
    /\ Call(p, "gsi", "bind")
    /\ UNCHANGED <<res, g_sock>>

(* The groups are joined and the address list is released; the pointer     *)
(* stays.                                                                  *)
pgm_bind3(p) ==
    /\ Call(p, "bind", "connect")
    /\ res' = IF Succeeded(p) THEN [res EXCEPT ![p] = Released(@)] ELSE res
    /\ UNCHANGED g_sock

pgm_connect(p, up) ==
    /\ Call(p, "connect", up)
    /\ UNCHANGED <<res, g_sock>>

err_abort(p) ==
    /\ step[p] = "abort"
    /\ g_sock' = [g_sock EXCEPT ![p] = ReleasedAndNulled(@)]
    /\ res' = [res EXCEPT ![p] = ReleasedAndNulled(@)]
    /\ step' = [step EXCEPT ![p] = "failed"]

Setup(p, up) ==
    \/ pgm_getaddrinfo(p) \/ pgm_socket(p) \/ pgm_gsi_create(p) \/ pgm_bind3(p)
    \/ pgm_connect(p, up)

(* What main does with the socket before it returns. *)
pgm_close(p) == g_sock' = [g_sock EXCEPT ![p] = ReleasedAndNulled(@)]

SocketTypeOK ==
    /\ step \in [Programs -> {"getaddrinfo", "socket", "gsi", "bind", "connect",
                              "thread", "up", "abort", "failed"}]
    /\ res \in [Programs -> Pointers] /\ g_sock \in [Programs -> Pointers]

(* What the guard of err_abort says (pgmrecv.c:451): an address list that  *)
(* is not NULL has not been released.                                      *)
AddressesReleasedOnce == \A p \in Programs : res[p] # "released twice"
=============================================================================
