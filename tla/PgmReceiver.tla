----------------------------- MODULE PgmReceiver ----------------------------
(***************************************************************************)
(* pgmrecv.c: the GLib main loop, which sets up the PGM socket from a      *)
(* timeout, and the receiver thread it starts.  The loop ends when the     *)
(* setup or the thread fails, or on a signal; main then raises g_quit,     *)
(* writes to the quit pipe, joins the thread and releases everything.      *)
(*                                                                         *)
(* The two pgm_signal_install calls are commented out in the source (lines *)
(* 221 and 222); Signals says whether they are there.  A signal is never   *)
(* bound to come, so that the behaviours with Signals = FALSE are among    *)
(* those with Signals = TRUE.  The epoll build (CONFIG_HAVE_EPOLL, defined *)
(* in line 21) is modelled.  External: libpgm's receive window (pending,   *)
(* resets) and epoll, which is level triggered.                            *)
(***************************************************************************)
EXTENDS PgmSocket

CONSTANTS Signals,      \* on_signal is installed
          IovLen        \* of msgv

ASSUME ReceiverAssumption ==
    Signals \in BOOLEAN /\ IovLen \in Nat \ {0}

VARIABLES
    main,       \* "init", "startup", "loop", then the steps of the cleanup, "done"
    quit_loop,  \* g_main_loop_quit was called
    g_quit,
    pipe,       \* the quit pipe: "empty", "full", "closed"
    g_loop,     \* "live" or "NULL"
    thread,     \* the receiver: "none", its next call, or "returned"
    watched,    \* what its epoll set holds
    pending,    \* messages received by libpgm and not yet taken
    resets,     \* losses not yet reported
    iCounter

mainVars == <<main, quit_loop, g_quit, pipe, g_loop>>
netVars  == <<pending, resets>>
recvVars == <<thread, watched, iCounter>>
receiverVars == <<mainVars, netVars, recvVars>>

ReceiverInit ==
    /\ main = "init" /\ quit_loop = FALSE /\ g_quit = FALSE
    /\ pipe = "empty" /\ g_loop = "live"
    /\ thread = "none" /\ watched = {} /\ iCounter = 0
    /\ pending = 0 /\ resets = 0

-----------------------------------------------------------------------------
(* The start of main.                                                      *)

(* pgm_init fails, or the interfaces or the usage are printed. *)
recv_early_return ==
    /\ main = "init"
    /\ main' = "done"
    /\ UNCHANGED <<socketVars, quit_loop, g_quit, pipe, g_loop, netVars, recvVars>>

(* The quit pipe is there and on_startup is scheduled. *)
schedule_startup ==
    /\ main = "init"
    /\ main' = "startup"
    /\ UNCHANGED <<socketVars, quit_loop, g_quit, pipe, g_loop, netVars, recvVars>>

-----------------------------------------------------------------------------
(* on_startup, run by the main loop.                                       *)

on_startup ==
    /\ main = "startup"
    /\ Setup("pgmrecv", "thread")
    /\ UNCHANGED <<mainVars, netVars, recvVars>>

g_thread_create ==
    /\ main = "startup"
    /\ Call("pgmrecv", "thread", "up")
    /\ IF Succeeded("pgmrecv") THEN thread' = "epoll_create" /\ main' = "loop"
                                ELSE UNCHANGED <<thread, main>>
    /\ UNCHANGED <<res, g_sock, quit_loop, g_quit, pipe, g_loop, netVars, watched, iCounter>>

startup_abort ==
    /\ main = "startup"
    /\ err_abort("pgmrecv")
    /\ quit_loop' = TRUE /\ main' = "loop"
    /\ UNCHANGED <<g_quit, pipe, g_loop, netVars, recvVars>>

(* The loop runs its callbacks one after the other: on_startup has not     *)
(* begun or has returned.                                                  *)
BetweenCallbacks ==
    main = "loop" \/ (main = "startup" /\ step["pgmrecv"] = "getaddrinfo")

on_signal ==
    /\ Signals /\ BetweenCallbacks
    /\ quit_loop' = TRUE
    /\ UNCHANGED <<socketVars, main, g_quit, pipe, g_loop, netVars, recvVars>>

-----------------------------------------------------------------------------
(* The end of main, one call at a time.                                    *)

loop_ends ==
    /\ BetweenCallbacks /\ quit_loop
    /\ main' = "write" /\ g_quit' = TRUE
    /\ UNCHANGED <<socketVars, quit_loop, pipe, g_loop, netVars, recvVars>>

(* Mutant: nobody is woken. *)
write_quit_Skipped ==
    /\ main = "write"
    /\ main' = "join"
    /\ UNCHANGED <<socketVars, quit_loop, g_quit, pipe, g_loop, netVars, recvVars>>

write_quit ==
    /\ main = "write"
    /\ main' = "join" /\ pipe' = "full"
    /\ UNCHANGED <<socketVars, quit_loop, g_quit, g_loop, netVars, recvVars>>

(* Mutant: the thread is not waited for. *)
g_thread_join_Skipped ==
    /\ main = "join"
    /\ main' = "close" /\ pipe' = "closed"
    /\ UNCHANGED <<socketVars, quit_loop, g_quit, g_loop, netVars, recvVars>>

(* g_thread_join returns at once if there is no thread.  The pipe is       *)
(* closed.                                                                 *)
g_thread_join ==
    /\ main = "join" /\ thread \in {"none", "returned"}
    /\ main' = "close" /\ pipe' = "closed"
    /\ UNCHANGED <<socketVars, quit_loop, g_quit, g_loop, netVars, recvVars>>

main_close ==
    /\ main = "close"
    /\ main' = "done" /\ g_loop' = "NULL"
    /\ pgm_close("pgmrecv")
    /\ UNCHANGED <<step, res, quit_loop, g_quit, pipe, netVars, recvVars>>

-----------------------------------------------------------------------------
(* receiver_thread.                                                        *)

Continue == IF g_quit THEN "returned" ELSE "recvmsgv"

(* A call of the thread's setup succeeds, or the thread quits the loop and *)
(* returns.                                                                *)
SetupCall(call, next, what) ==
    /\ thread = call
    /\ \/ thread' = next /\ watched' = watched \cup what /\ UNCHANGED quit_loop
       \/ thread' = "returned" /\ quit_loop' = TRUE /\ UNCHANGED watched
    /\ UNCHANGED <<socketVars, main, g_quit, pipe, g_loop, netVars, iCounter>>

thread_setup == \/ SetupCall("epoll_create", "ctl_sock", {})
                \/ SetupCall("ctl_sock", "ctl_pipe", {"sock"})
                \/ SetupCall("ctl_pipe", "recvmsgv", {"pipe"})

(* Mutant: one is counted for each vector. *)
recv_normal_Vectors ==
    /\ thread = "recvmsgv" /\ resets = 0 /\ pending > 0
    /\ \E n \in 1..IovLen :
           /\ n <= pending
           /\ pending' = pending - n
           /\ iCounter' = iCounter + 1
    /\ thread' = Continue
    /\ UNCHANGED <<socketVars, mainVars, resets, watched>>

(* PGM_IO_STATUS_NORMAL: on_msgv counts every message of the vector. *)
recv_normal ==
    /\ thread = "recvmsgv" /\ resets = 0 /\ pending > 0
    /\ \E n \in 1..IovLen :
           /\ n <= pending
           /\ pending' = pending - n
           /\ iCounter' = iCounter + n
    /\ thread' = Continue
    /\ UNCHANGED <<socketVars, mainVars, resets, watched>>

(* PGM_IO_STATUS_RESET and the other errors: a warning, and on. *)
recv_error ==
    /\ thread = "recvmsgv" /\ resets > 0
    /\ resets' = resets - 1
    /\ thread' = Continue
    /\ UNCHANGED <<socketVars, mainVars, pending, watched, iCounter>>

(* PGM_IO_STATUS_WOULD_BLOCK, or TIMER_PENDING or RATE_LIMITED, with a     *)
(* timeout.                                                                *)
recv_block ==
    /\ thread = "recvmsgv" /\ resets = 0 /\ pending = 0
    /\ thread' \in {"wait", "timed wait"}
    /\ UNCHANGED <<socketVars, mainVars, netVars, watched, iCounter>>

Ready == \/ "sock" \in watched /\ pending + resets > 0
         \/ "pipe" \in watched /\ pipe = "full"

epoll_wait ==
    /\ (thread = "wait" /\ Ready) \/ thread = "timed wait"
    /\ thread' = Continue
    /\ UNCHANGED <<socketVars, mainVars, netVars, watched, iCounter>>

-----------------------------------------------------------------------------
ReceiverMain ==
    \/ recv_early_return \/ schedule_startup
    \/ on_startup \/ g_thread_create \/ startup_abort
    \/ loop_ends \/ write_quit \/ g_thread_join \/ main_close

ReceiverThread == thread_setup \/ recv_normal \/ recv_error \/ recv_block \/ epoll_wait

ReceiverTypeOK ==
    /\ main \in {"init", "startup", "loop", "write", "join", "close", "done"}
    /\ quit_loop \in BOOLEAN /\ g_quit \in BOOLEAN
    /\ pipe \in {"empty", "full", "closed"} /\ g_loop \in {"live", "NULL"}
    /\ thread \in {"none", "epoll_create", "ctl_sock", "ctl_pipe", "recvmsgv",
                   "wait", "timed wait", "returned"}
    /\ watched \subseteq {"sock", "pipe"}
    /\ pending \in Nat /\ resets \in Nat /\ iCounter \in Nat

(* Whatever the thread may still touch is there: the socket, the quit pipe *)
(* and the loop outlive it.                                                *)
NothingTakenAway ==
    thread \notin {"none", "returned"} =>
        g_sock["pgmrecv"] = "live" /\ pipe # "closed" /\ g_loop = "live"

(* Once the loop is told to quit, the program ends, even if the receiver   *)
(* thread sleeps without a timeout.                                        *)
ShutsDown == quit_loop ~> main = "done"
=============================================================================
