------------------------------- MODULE UvWget -------------------------------
(***************************************************************************)
(* uvwget.cpp (0_libuv/uv_curl_wrapper): a command that downloads the URLs *)
(* of its command line to files, with libcurl's multi interface driven by  *)
(* the default loop.  Nothing says how many downloads are left: main waits *)
(* for uv_run, which returns when no handle is active any more, so the     *)
(* poll contexts and the one timer must keep the loop alive exactly as     *)
(* long as there is something to do.                                       *)
(*                                                                         *)
(* External, from how the command uses them: libcurl (easy, sock, wish)    *)
(* and the loop.  Everything runs on one thread.                           *)
(***************************************************************************)
EXTENDS Integers

CONSTANTS
    Downloads,  \* 1..n, the arguments
    Sockets     \* file descriptors libcurl may open

VARIABLES
    pc,         \* main: "add", "run" (uv_run), "cleanup", "exit"
    argc,       \* arguments left to add
    file,       \* of each download: "none", "open", "closed"
    timeout,    \* the uv timer: "idle", "armed"
    polls,      \* per socket: context, what is polled, contexts being closed
    easy,       \* libcurl: each download "none", "added", "active", "gone"
    sock,       \* libcurl: the socket of an active download
    wish        \* libcurl: the events it wants on a socket

vars == <<pc, argc, file, timeout, polls, easy, sock, wish>>

Events   == SUBSET {"in", "out"} \ {{}}
NoSocket == "nosocket"
Running  == {d \in Downloads : easy[d] \in {"added", "active"}}

Init ==
    /\ pc = "add" /\ argc \in Downloads
    /\ file = [d \in Downloads |-> "none"]
    /\ timeout = "idle"
    /\ polls = [s \in Sockets |-> [socketp |-> "null", events |-> {}, closing |-> 0]]
    /\ easy = [d \in Downloads |-> "none"]
    /\ sock = [d \in Downloads |-> NoSocket]
    /\ wish = [s \in Sockets |-> {}]

-----------------------------------------------------------------------------
(* The two callbacks libcurl makes.                                        *)

(* handle_socket on one socket: poll it, through a new context if it has   *)
(* none; with no events (CURL_POLL_REMOVE) stop, and close the context.    *)
handle_socket(p, action) ==
    CASE action # {}                        -> [p EXCEPT !.socketp = "live", !.events = action]
      [] action = {} /\ p.socketp = "live" -> [socketp |-> "null", events |-> {}, closing |-> p.closing + 1]
      [] OTHER                              -> p

(* Mutant: 0 stops the timer too. *)
start_timer_ZeroStops(timeout_ms) == timeout' = IF timeout_ms <= 0 THEN "idle" ELSE "armed"

start_timer(timeout_ms) == timeout' = IF timeout_ms < 0 THEN "idle" ELSE "armed"

-----------------------------------------------------------------------------
(* One turn of main's loop over the arguments, from the last to the first. *)
(* A download whose file cannot be opened is left out; one that libcurl    *)
(* gets asks to be woken at once.                                          *)
add_download ==
    /\ pc = "add" /\ argc > 0
    /\ argc' = argc - 1
    /\ \/ (* fopen fails *)
          UNCHANGED <<file, easy, timeout>>
       \/ /\ file' = [file EXCEPT ![argc] = "open"]
          /\ easy' = [easy EXCEPT ![argc] = "added"]
          /\ start_timer(0)
    /\ UNCHANGED <<pc, polls, sock, wish>>

uv_run_begins ==
    /\ pc = "add" /\ argc = 0
    /\ pc' = "run"
    /\ UNCHANGED <<argc, file, timeout, polls, easy, sock, wish>>

(* check_multi_info: the file of every finished download is closed. *)
check_multi_info(done) ==
    file' = [d \in Downloads |-> IF d \in done THEN "closed" ELSE file[d]]

(* curl_multi_socket_action: libcurl finishes the downloads in done and    *)
(* puts its wishes for one download d, or none, on socket s.  It calls     *)
(* handle_socket for what it drops and for what it wants, and start_timer  *)
(* according to whether downloads are left, each of which has a timeout.   *)
SocketAction(done, d, s, ev) ==
    LET dropped == {sock[q] : q \in done} \ {NoSocket}
        Wanted(t) == IF t \in dropped THEN {} ELSE IF t = s THEN ev ELSE wish[t]
    IN
    /\ easy' = [q \in Downloads |-> IF q \in done THEN "gone" ELSE IF q = d THEN "active" ELSE easy[q]]
    /\ sock' = [q \in Downloads |-> IF q \in done THEN NoSocket ELSE IF q = d THEN s ELSE sock[q]]
    /\ wish' = [t \in Sockets |-> Wanted(t)]
    /\ polls' = [t \in Sockets |-> IF t \in dropped \cup {s} THEN handle_socket(polls[t], Wanted(t))
                                                             ELSE polls[t]]
    /\ start_timer(IF Running \ done = {} THEN -1 ELSE 1)
    /\ check_multi_info(done)
    /\ UNCHANGED <<pc, argc>>

(* on_timer_cb: downloads fail or time out; or one of them gets its        *)
(* socket; or there is nothing to do yet (a name is being resolved).       *)
TimerFinishes ==
    /\ pc = "run" /\ timeout = "armed"
    /\ \E done \in SUBSET Running \ {{}} : SocketAction(done, 0, NoSocket, {})

TimerConnects ==
    /\ pc = "run" /\ timeout = "armed"
    /\ \E d \in Running, s \in Sockets, ev \in Events :
         /\ easy[d] = "added" /\ wish[s] = {}
         /\ SocketAction({}, d, s, ev)

TimerWaits ==
    /\ pc = "run" /\ timeout = "armed"
    /\ SocketAction({}, 0, NoSocket, {})

(* A polled socket is ready: its download goes on, or finishes. *)
curl_perform(s) ==
    /\ pc = "run" /\ polls[s].events # {}
    /\ \E d \in Running :
         /\ sock[d] = s
         /\ \/ SocketAction({d}, 0, NoSocket, {})
            \/ \E ev \in Events : SocketAction({}, d, s, ev)

curl_close_cb(s) ==
    /\ pc = "run" /\ polls[s].closing > 0
    /\ polls' = [polls EXCEPT ![s].closing = @ - 1]
    /\ UNCHANGED <<pc, argc, file, timeout, easy, sock, wish>>

(* The loop is alive while a handle is active or closing. *)
uv_run_returns ==
    /\ pc = "run" /\ timeout = "idle"
    /\ \A s \in Sockets : polls[s].events = {} /\ polls[s].closing = 0
    /\ pc' = "cleanup"
    /\ UNCHANGED <<argc, file, timeout, polls, easy, sock, wish>>

(* curl_multi_cleanup drops what is left; the loop no longer runs. *)
curl_multi_cleanup ==
    /\ pc = "cleanup"
    /\ pc' = "exit"
    /\ polls' = [s \in Sockets |-> handle_socket(polls[s], {})]
    /\ wish' = [s \in Sockets |-> {}]
    /\ sock' = [d \in Downloads |-> NoSocket]
    /\ easy' = [d \in Downloads |-> IF d \in Running THEN "gone" ELSE easy[d]]
    /\ UNCHANGED <<argc, file, timeout>>

Main     == add_download \/ uv_run_begins \/ uv_run_returns \/ curl_multi_cleanup
Contexts == \E s \in Sockets : curl_close_cb(s)

Next == \/ Main \/ TimerFinishes \/ TimerConnects \/ TimerWaits
        \/ \E s \in Sockets : curl_perform(s) \/ curl_close_cb(s)

(* The thread runs, and libcurl ends what has timed out                    *)
(* (CURLOPT_TIMEOUT_MS is set on every download).                          *)
FairSpec == Init /\ [][Next]_vars /\ WF_vars(Main) /\ WF_vars(TimerFinishes) /\ WF_vars(Contexts)

-----------------------------------------------------------------------------
TypeOK ==
    /\ pc \in {"add", "run", "cleanup", "exit"} /\ argc \in Downloads \cup {0}
    /\ file \in [Downloads -> {"none", "open", "closed"}]
    /\ timeout \in {"idle", "armed"}
    /\ \A s \in Sockets : /\ polls[s].socketp \in {"null", "live"}
                          /\ polls[s].events \subseteq {"in", "out"}
                          /\ polls[s].closing \in Nat
    /\ easy \in [Downloads -> {"none", "added", "active", "gone"}]
    /\ sock \in [Downloads -> Sockets \cup {NoSocket}]
    /\ wish \in [Sockets -> SUBSET {"in", "out"}]

(* The command ends, and when it does every file it opened is closed and   *)
(* no context of a socket is left: uv_run neither returns while a download *)
(* is under way nor goes on when all are done.                             *)
DownloadsEnd ==
    <>(/\ pc = "exit"
       /\ \A d \in Downloads : file[d] # "open"
       /\ \A s \in Sockets : polls[s].socketp = "null" /\ polls[s].closing = 0)
=============================================================================
