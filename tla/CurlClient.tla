----------------------------- MODULE CurlClient -----------------------------
(***************************************************************************)
(* CurlHttpClient (0_libuv/uv_curl_wrapper/curl_httpclient.hpp): libcurl's *)
(* multi interface driven by a libuv loop.  libcurl says through           *)
(* handle_socket which sockets it wants watched and through start_timer    *)
(* when it wants to be woken; the client owns one poll context per socket, *)
(* one timer and one response buffer per request.                          *)
(*                                                                         *)
(* External, from how the client uses them: libcurl (easy, sock, wish) and *)
(* the closing phase of libuv handles.  One thread runs everything; a step *)
(* is one callback of the loop or one call of the user between callbacks.  *)
(***************************************************************************)
EXTENDS Integers, FiniteSets

CONSTANTS
    MaxReq,     \* bound: requests sent
    Sockets     \* file descriptors libcurl may open

CurlAssumption ==
    MaxReq \in Nat /\ IsFiniteSet(Sockets) /\ "nosocket" \notin Sockets

VARIABLES
    m_reqid,            \* requests sent so far
    m_curl_multi_hdl,   \* "null", "open" or "clean" (cleaned up)
    m_timer_hdl,        \* the client's pointer: "null" or "set"
    timer,              \* the uv timer: "none", "idle", "armed", "closing", "freed"
    resp,               \* the response buffer of each request: "none", "held", "deleted"
    polls,              \* per socket: context, what is polled, contexts being closed
    easy,               \* libcurl: each request "none", "added", "active", "gone"
    sock,               \* libcurl: the socket of an active request
    wish,               \* libcurl: the events it wants on a socket
    answers,            \* history: callbacks made for each request
    lost,               \* history: a request the multi handle never got
    stopped             \* history: StopPoll was called and libcurl has not asked
                        \*          for its timer since

uvars == <<m_reqid, m_curl_multi_hdl, m_timer_hdl>>
vars  == <<uvars, timer, resp, polls, easy, sock, wish, answers, lost, stopped>>

Requests == 1..MaxReq
Events   == SUBSET {"in", "out"} \ {{}}
NoSocket == "nosocket"

Init ==
    /\ m_reqid = 0 /\ m_curl_multi_hdl = "null" /\ m_timer_hdl = "null"
    /\ timer = "none"
    /\ resp = [r \in Requests |-> "none"]
    /\ polls = [s \in Sockets |-> [socketp |-> "null", events |-> {}, closing |-> 0]]
    /\ easy = [r \in Requests |-> "none"]
    /\ sock = [r \in Requests |-> NoSocket]
    /\ wish = [s \in Sockets |-> {}]
    /\ answers = [r \in Requests |-> 0]
    /\ lost = {} /\ stopped = FALSE

Running == {r \in Requests : easy[r] \in {"added", "active"}}

-----------------------------------------------------------------------------
(* The two callbacks libcurl makes.                                        *)

(* Mutant: the context of a socket libcurl has dropped is kept. *)
handle_socket_NoDestroy(p, action) ==
    IF action # {} THEN [p EXCEPT !.socketp = "live", !.events = action] ELSE p

create_curl_context(p) == [p EXCEPT !.socketp = "live"]

(* handle_socket on one socket: start polling, with a new context if there *)
(* is none, or (no events: CURL_POLL_REMOVE) stop and destroy the context. *)
handle_socket(p, action) ==
    IF action # {}
    THEN LET context == IF p.socketp # "null" THEN p ELSE create_curl_context(p)
         IN  [context EXCEPT !.events = action]
    ELSE IF p.socketp # "null"
         THEN [p EXCEPT !.socketp = "null", !.events = {}, !.closing = @ + 1]
         ELSE p

(* start_timer: no timeout (-1) stops, 0 and more arm. *)
start_timer(timeout) ==
    /\ timer' = IF timeout = -1 THEN "idle" ELSE "armed"
    /\ stopped' = FALSE

-----------------------------------------------------------------------------
(* StartPoll, as curl_test.cpp uses it: once, before the first request.    *)
(* When curl_global_init or malloc fails it changes nothing modelled here. *)
StartPoll ==
    /\ m_curl_multi_hdl = "null" /\ m_timer_hdl = "null" /\ m_reqid = 0
    /\ m_timer_hdl' = "set" /\ timer' = "idle"
    /\ m_curl_multi_hdl' = "open"
    /\ UNCHANGED <<m_reqid, resp, polls, easy, sock, wish, answers, lost, stopped>>

(* StopPoll stops the timer, and nothing else: the sockets stay polled. *)
StopPoll ==
    /\ m_timer_hdl = "set"
    /\ timer' = "idle" /\ stopped' = TRUE
    /\ UNCHANGED <<uvars, resp, polls, easy, sock, wish, answers, lost>>

(* SendGet: a buffer and an easy handle are made whatever the state of the *)
(* client; a multi handle that takes the request asks to be woken at once. *)
SendGet ==
    LET r == m_reqid + 1 IN
    /\ r \in Requests /\ m_curl_multi_hdl # "clean"
    /\ m_reqid' = r
    /\ resp' = [resp EXCEPT ![r] = "held"]
    /\ IF m_curl_multi_hdl = "open"
       THEN /\ easy' = [easy EXCEPT ![r] = "added"]
            /\ start_timer(0)
            /\ UNCHANGED lost
       ELSE /\ lost' = lost \cup {r}
            /\ UNCHANGED <<easy, timer, stopped>>
    /\ UNCHANGED <<m_curl_multi_hdl, m_timer_hdl, polls, sock, wish, answers>>

-----------------------------------------------------------------------------
(* Mutant: only one finished request is looked at. *)
check_multi_info_One(done) ==
    LET one == {r \in done : \A q \in done : r <= q} IN
    /\ answers' = [r \in Requests |-> IF r \in one THEN answers[r] + 1 ELSE answers[r]]
    /\ resp' = [r \in Requests |-> IF r \in one THEN "deleted" ELSE resp[r]]

(* check_multi_info: the user's callback for every finished request, then  *)
(* its buffer and easy handle go.  (A request the user sends from the      *)
(* callback is the SendGet that follows: nothing runs in between.)         *)
check_multi_info(done) ==
    /\ answers' = [r \in Requests |-> IF r \in done THEN answers[r] + 1 ELSE answers[r]]
    /\ resp' = [r \in Requests |-> IF r \in done THEN "deleted" ELSE resp[r]]

(* curl_multi_socket_action: libcurl finishes the requests in done and     *)
(* puts its wishes for one request r, or none, on socket s; it calls       *)
(* handle_socket for what it drops and for what it wants, and start_timer  *)
(* according to whether requests are left, each of which has a timeout.    *)
SocketAction(done, r, s, ev) ==
    LET dropped == {sock[d] : d \in done} \ {NoSocket} IN
    /\ easy' = [q \in Requests |-> IF q \in done THEN "gone"
                                   ELSE IF q = r THEN "active" ELSE easy[q]]
    /\ sock' = [q \in Requests |-> IF q \in done THEN NoSocket
                                   ELSE IF q = r THEN s ELSE sock[q]]
    /\ wish' = [t \in Sockets |-> IF t \in dropped THEN {} ELSE IF t = s THEN ev ELSE wish[t]]
    /\ polls' = [t \in Sockets |->
                   IF t \in dropped THEN handle_socket(polls[t], {})
                   ELSE IF t = s THEN handle_socket(polls[t], ev) ELSE polls[t]]
    /\ start_timer(IF Running \ done = {} THEN -1 ELSE 1)
    /\ check_multi_info(done)

(* The timer fires: requests time out or fail, or one gets its socket, or  *)
(* nothing is ready yet (name resolution).                                 *)
TimerFinishes ==
    /\ timer = "armed"
    /\ \E done \in SUBSET Running \ {{}} : SocketAction(done, 0, NoSocket, {})
    /\ UNCHANGED <<uvars, lost>>

TimerConnects ==
    /\ timer = "armed"
    /\ \E r \in Running, s \in Sockets, ev \in Events :
         /\ easy[r] = "added" /\ wish[s] = {}
         /\ SocketAction({}, r, s, ev)
    /\ UNCHANGED <<uvars, lost>>

TimerWaits ==
    /\ timer = "armed"
    /\ SocketAction({}, 0, NoSocket, {})
    /\ UNCHANGED <<uvars, lost>>

(* A polled socket is ready: its request goes on, perhaps wanting other    *)
(* events, or finishes.                                                    *)
curl_perform(s) ==
    /\ polls[s].events # {}
    /\ \E r \in Running :
         /\ sock[r] = s
         /\ \/ SocketAction({r}, 0, NoSocket, {})
            \/ \E ev \in Events : SocketAction({}, r, s, ev)
    /\ UNCHANGED <<uvars, lost>>

-----------------------------------------------------------------------------
(* uv_close is completed by the loop: the context, the timer is freed. *)
on_close_ctx_cb(s) ==
    /\ polls[s].closing > 0
    /\ polls' = [polls EXCEPT ![s].closing = @ - 1]
    /\ UNCHANGED <<uvars, timer, resp, easy, sock, wish, answers, lost, stopped>>

on_close_uv_hdl ==
    /\ timer = "closing"
    /\ timer' = "freed"
    /\ UNCHANGED <<uvars, resp, polls, easy, sock, wish, answers, lost, stopped>>

(* The destructor.  Cleaning up the multi handle drops all sockets; easy   *)
(* handles still in it, and their buffers, stay allocated.                 *)
Destructor ==
    /\ m_curl_multi_hdl # "clean"
    /\ timer' = IF m_timer_hdl = "set" THEN "closing" ELSE timer
    /\ m_timer_hdl' = "null"
    /\ m_curl_multi_hdl' = "clean"
    /\ wish' = [s \in Sockets |-> {}]
    /\ sock' = [r \in Requests |-> NoSocket]
    /\ easy' = [r \in Requests |-> IF r \in Running THEN "gone" ELSE easy[r]]
    /\ polls' = [s \in Sockets |-> handle_socket(polls[s], {})]
    /\ UNCHANGED <<m_reqid, resp, answers, lost, stopped>>

LoopStep == \/ TimerFinishes \/ TimerConnects \/ TimerWaits \/ on_close_uv_hdl
            \/ \E s \in Sockets : curl_perform(s) \/ on_close_ctx_cb(s)

Next == StartPoll \/ StopPoll \/ SendGet \/ LoopStep \/ Destructor

Spec == Init /\ [][Next]_vars

(* The loop runs, and libcurl ends what has timed out (CURLOPT_TIMEOUT_MS  *)
(* is set on every request).  The other calls are the user's.          *)
Fairness == /\ WF_vars(TimerFinishes)
            /\ WF_vars(on_close_uv_hdl)
            /\ \A s \in Sockets : WF_vars(on_close_ctx_cb(s))

FairSpec == Spec /\ Fairness

-----------------------------------------------------------------------------
TypeOK ==
    /\ m_reqid \in 0..MaxReq
    /\ m_curl_multi_hdl \in {"null", "open", "clean"} /\ m_timer_hdl \in {"null", "set"}
    /\ timer \in {"none", "idle", "armed", "closing", "freed"}
    /\ resp \in [Requests -> {"none", "held", "deleted"}]
    /\ polls \in [Sockets -> [socketp : {"null", "live"}, events : SUBSET {"in", "out"},
                             closing : Nat]]
    /\ easy \in [Requests -> {"none", "added", "active", "gone"}]
    /\ sock \in [Requests -> Sockets \cup {NoSocket}]
    /\ wish \in [Sockets -> SUBSET {"in", "out"}]
    /\ answers \in [Requests -> Nat]
    /\ lost \subseteq Requests /\ stopped \in BOOLEAN

(* The loop polls exactly what libcurl wants watched, through a context    *)
(* that is not being closed, also when a file descriptor is used again     *)
(* while the context of its previous connection still waits to be freed.   *)
PollsAreWishes ==
    \A s \in Sockets : /\ polls[s].events = wish[s]
                       /\ polls[s].socketp = (IF wish[s] = {} THEN "null" ELSE "live")

(* A request is answered once at most, its buffer exists until then and    *)
(* not after: the callback never sees a deleted buffer.                    *)
AnsweredOnce ==
    \A r \in Requests : /\ answers[r] \in {0, 1}
                        /\ answers[r] = 1 <=> resp[r] = "deleted"

(* A client with requests to run has its timer armed, unless the user has  *)
(* stopped it: nothing else would start them or end the ones that hang.    *)
TimerDrives ==
    m_curl_multi_hdl = "open" /\ Running # {} => timer = "armed" \/ stopped

(* Every request the multi handle takes is answered, with its buffer       *)
(* deleted then, and never a second time, unless the client is destroyed   *)
(* or stopped before.                                                      *)
EveryoneAnswered ==
    \A r \in Requests :
        easy[r] = "added" ~> \/ m_curl_multi_hdl = "clean" \/ stopped
                             \/ [](answers[r] = 1 /\ resp[r] = "deleted")
=============================================================================
