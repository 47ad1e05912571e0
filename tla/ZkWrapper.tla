----------------------------- MODULE ZkWrapper -----------------------------
(***************************************************************************)
(* The life of one ZooKeeper object of                                     *)
(*   Languages/cpp/0_libuv/uv_zookeeper_wrapper/uv-node-zk.cpp             *)
(* which drives the single-threaded ZooKeeper C client from a libuv loop:  *)
(* a poll handle for the client's current socket, a timer for its          *)
(* deadlines, a reference that keeps the object alive, and the callbacks   *)
(* of the asynchronous methods.                                            *)
(*                                                                         *)
(* The loop is one thread, but it is re-entered: zk_io_cb calls            *)
(* zookeeper_process, which calls completions and watchers, which run user *)
(* code, which may call close() or another method.  So zk_io_cb is split   *)
(* where it enters and leaves zookeeper_process (inproc), and the client's *)
(* calls are enabled in between.                                           *)
(*                                                                         *)
(* The C client and libuv are external.  Of the client's session only its  *)
(* socket and its openness are kept.  zookeeper_close called from within   *)
(* zookeeper_process is carried out when zookeeper_process returns, after  *)
(* the remaining watchers and completions have been delivered.             *)
(***************************************************************************)
EXTENDS HexPassword, FiniteSets

CONSTANTS Fds,         \* descriptor numbers; the kernel reuses them
          Ops,         \* calls of asynchronous methods
          Methods,     \* the methods called
          MaxInits,    \* bound: calls of init
          MaxClosing   \* bound: poll handles waiting for their close callback

ASSUME FdsAssumption == Fds \subseteq Nat
ASSUME MaxInitsAssumption == MaxInits \in Nat
ASSUME MaxClosingAssumption == MaxClosing \in Nat

VARIABLES
    \* the object
    zhandle,    \* the session in use, 0 for NULL
    is_closed,
    fd,         \* the socket zookeeper_interest named last, -1 for none
    pollFd,     \* the socket zk_io_poll_hdl was made for, -1 for a NULL handle
    pollOn,     \* zk_io_poll_hdl is active
    timer,      \* the libuv state of zk_timer
    again,      \* zk_timer was started with a repeat that is not 0
    refs,       \* Ref() calls not yet undone by Unref()
    \* libuv and the client
    closing,    \* poll handles given to uv_close and not yet freed
    session,    \* the client's sessions
    sock,       \* the socket of each session
    inproc,     \* the session whose zookeeper_process is on the stack, or 0
    \* the asynchronous calls
    call,       \* the state of each call
    owner,      \* the session it was made on
    heap,       \* heap blocks of the calls: <<op, block>>
    armed,      \* calls whose watcher is registered
    \* history
    inits, timerInits, started, oom, watchOk

object  == <<zhandle, is_closed, fd, pollFd, pollOn, timer, again, refs>>
library == <<closing, session, sock, inproc>>
calls   == <<call, owner, heap, armed>>
history == <<inits, timerInits, started, oom, watchOk>>
vars    == <<object, library, calls, history>>

Sessions == 1..MaxInits
Fd       == Fds \cup {-1}

-----------------------------------------------------------------------------
(* The methods, by what they allocate for the callback.                    *)

CreateMethods == {"acreate"}
PlainMethods  == {"aexists", "aget", "aset", "aget_children", "aget_children2",
                  "aget_acl", "async"}
VoidMethods   == {"adelete", "add_auth"}
AclMethods    == {"aset_acl"}
WatchMethods  == {"aw_exists", "aw_get", "aw_get_children", "aw_get_children2"}

ASSUME MethodsAssumption ==
    Methods \subseteq CreateMethods \cup PlainMethods \cup VoidMethods
                          \cup AclMethods \cup WatchMethods

(* cb for every method, a completion_data for the ones that complete in     *)
(* void_completion, an ACL vector for aset_acl, cbw for the watchers.       *)
Blocks(m) == {"cb"} \cup (IF m \in VoidMethods \cup AclMethods THEN {"data"} ELSE {})
                    \cup (IF m \in AclMethods THEN {"acl"} ELSE {})
                    \cup (IF m \in WatchMethods THEN {"cbw"} ELSE {})

(* Mutant: void_completion frees its completion_data but no ACL vector. *)
CompletionFrees_NoAcl(b) == b \in {"cb", "data"}

(* What the completion of a call frees: cbw stays for the watcher. *)
CompletionFrees(b) == b \in {"cb", "data", "acl"}

(* The calls of ops have completed: each callback has run and is deleted.   *)
HeapAfter(ops) == {x \in heap : ~(x[1] \in ops /\ CompletionFrees(x[2]))}

-----------------------------------------------------------------------------
Init ==
    /\ zhandle = 0 /\ is_closed = FALSE /\ fd = -1
    /\ pollFd = -1 /\ pollOn = FALSE
    /\ timer = "uninit" /\ again = FALSE /\ refs = 0
    /\ closing = 0 /\ inproc = 0
    /\ session = [s \in Sessions |-> "none"]
    /\ sock = [s \in Sessions |-> -1]
    /\ call = [o \in Ops |-> "idle"]
    /\ owner = [o \in Ops |-> 0]
    /\ heap = {} /\ armed = {}
    /\ inits = 0 /\ timerInits = 0
    /\ started = FALSE /\ oom = FALSE /\ watchOk = TRUE

-----------------------------------------------------------------------------
(* zookeeper_interest(s): what it may answer when the session's socket is  *)
(* sk.  An error leaves the descriptor alone or resets it to -1; rc 0 with *)
(* -1 means "all servers tried, wait"; the delay may round to 0.  A new    *)
(* socket may get the number of the one just lost.                         *)
Interest(s, sk) ==
    IF s = 0 THEN {[ok |-> FALSE, fd |-> fd, delay |-> FALSE]}
    ELSE IF sk = -1
    THEN [ok : {TRUE}, delay : BOOLEAN, fd : (Fds \ {sock[t] : t \in Sessions \ {s}}) \cup {-1}]
           \cup {[ok |-> FALSE, fd |-> -1, delay |-> FALSE]}
    ELSE [ok : {TRUE}, delay : BOOLEAN, fd : {sk}]
           \cup [ok : {FALSE}, delay : {FALSE}, fd : {sk, -1}]

(* The parts of yield() after the is_closed test.  r is the answer of      *)
(* zookeeper_interest, t the state of the timer, a whether it repeats.     *)

KeepTimer(t, a) == timer' = t /\ again' = a /\ pollOn' = FALSE /\ UNCHANGED started

(* uv_poll_start and uv_timer_start, which refuses a closing handle. *)
Arm(r, t) == /\ pollOn' = TRUE
             /\ timer' = IF t \in {"closing", "closed"} THEN t ELSE "active"
             /\ again' = r.delay
             /\ started' = TRUE

(* uv_close(zk_io_poll_hdl, delete_on_close) if there is a handle *)
DropPoll == closing' = closing + (IF pollFd = -1 THEN 0 ELSE 1)

(* Mutant: an error also stops the timer. *)
YieldError_StopsTimer(r, t, a) ==
    /\ ~r.ok
    /\ pollOn' = FALSE /\ again' = a
    /\ timer' = IF t = "active" THEN "stopped" ELSE t
    /\ UNCHANGED <<pollFd, closing, started, oom>>

YieldError(r, t, a) ==
    ~r.ok /\ KeepTimer(t, a) /\ UNCHANGED <<pollFd, closing, oom>>

YieldNoSocket(r, t, a) ==
    /\ r.ok /\ r.fd = -1
    /\ KeepTimer(t, a)
    /\ DropPoll /\ pollFd' = -1
    /\ UNCHANGED oom

(* Mutant: an existing handle is used whatever socket it was made for. *)
YieldSameSocket_AnyHandle(r, t) ==
    /\ r.ok /\ r.fd # -1 /\ (r.fd = fd \/ pollFd # -1)
    /\ Arm(r, t)
    /\ UNCHANGED <<pollFd, closing, oom>>

YieldSameSocket(r, t) ==
    /\ r.ok /\ r.fd # -1 /\ r.fd = fd
    /\ Arm(r, t)
    /\ UNCHANGED <<pollFd, closing, oom>>

(* A new handle for a new socket, or malloc fails. *)
YieldNewSocket(r, t, a) ==
    /\ r.ok /\ r.fd # -1 /\ r.fd # fd
    /\ DropPoll
    /\ \/ pollFd' = r.fd /\ Arm(r, t) /\ UNCHANGED oom
       \/ pollFd' = -1 /\ KeepTimer(t, a) /\ oom' = TRUE

(* yield() of an open object, for session s whose socket is sk *)
YieldOpen(s, sk, t, a) ==
    \E r \in Interest(s, sk) :
        /\ fd' = r.fd
        /\ sock' = IF s = 0 THEN sock ELSE [sock EXCEPT ![s] = r.fd]
        /\ \/ YieldError(r, t, a)
           \/ YieldNoSocket(r, t, a)
           \/ YieldSameSocket(r, t)
           \/ YieldNewSocket(r, t, a)

(* yield() *)
Yield(s, sk, t, a) ==
    \/ /\ is_closed
       /\ timer' = t /\ again' = a
       /\ UNCHANGED <<fd, pollFd, pollOn, closing, sock, started, oom>>
    \/ ~is_closed /\ YieldOpen(s, sk, t, a)

-----------------------------------------------------------------------------
(* realInit: init() called by the client.                                  *)

InitFails ==
    /\ inits < MaxInits
    /\ inits' = inits + 1
    /\ zhandle' = 0
    /\ timer' = IF zhandle # 0 /\ timer = "active" THEN "stopped" ELSE timer
    /\ UNCHANGED <<is_closed, fd, pollFd, pollOn, again, refs, library, calls,
                   timerInits, started, oom, watchOk>>

InitSucceeds ==
    /\ inits < MaxInits
    /\ inits' = inits + 1
    /\ zhandle' = inits'
    /\ session' = [session EXCEPT ![inits'] = "open"]
    /\ refs' = refs + 1
    /\ timerInits' = timerInits + 1
    /\ Yield(inits', -1, "stopped", FALSE)
    /\ UNCHANGED <<is_closed, inproc, calls, watchOk>>

RealInit == InitFails \/ InitSucceeds

-----------------------------------------------------------------------------
(* realClose and what it starts.                                           *)

Pending(s) == {o \in Ops : call[o] = "pending" /\ owner[o] = s}

(* The client destroys session s: every call still waiting completes with  *)
(* ZCLOSING, and its watchers are forgotten.                               *)
DestroySession(s) ==
    /\ session' = [session EXCEPT ![s] = "closed"]
    /\ sock' = [sock EXCEPT ![s] = -1]
    /\ call' = [o \in Ops |-> IF o \in Pending(s) THEN "called" ELSE call[o]]
    /\ heap' = HeapAfter(Pending(s))
    /\ armed' = {o \in armed : owner[o] # s}
    /\ UNCHANGED owner

(* zookeeper_close(s): put off while zookeeper_process is on the stack. *)
ZookeeperClose(s, nested, st) ==
    \/ /\ nested
       /\ session' = [session EXCEPT ![s] = st]
       /\ UNCHANGED <<sock, calls>>
    \/ ~nested /\ DestroySession(s)

(* Mutant: the reference is dropped at once, not in timer_closed. *)
RealClose_UnrefsEarly(nested, st) ==
    \/ /\ is_closed
       /\ UNCHANGED <<object, closing, session, sock, calls>>
    \/ /\ ~is_closed /\ zhandle # 0
       /\ is_closed' = TRUE
       /\ ZookeeperClose(zhandle, nested, st)
       /\ zhandle' = 0
       /\ pollFd' = -1 /\ pollOn' = FALSE /\ DropPoll
       /\ timer' = "closing"
       /\ refs' = refs - 1
       /\ UNCHANGED <<fd, again>>

(* Mutant: the poll handle of the session is left polling. *)
RealClose_KeepsPoll(nested, st) ==
    \/ /\ is_closed
       /\ UNCHANGED <<object, closing, session, sock, calls>>
    \/ /\ ~is_closed /\ zhandle # 0
       /\ is_closed' = TRUE
       /\ ZookeeperClose(zhandle, nested, st)
       /\ zhandle' = 0
       /\ timer' = "closing"
       /\ UNCHANGED <<fd, pollFd, pollOn, closing, again, refs>>

(* realClose(code); st is the state a put-off session waits in. *)
RealClose(nested, st) ==
    \/ /\ is_closed
       /\ UNCHANGED <<object, closing, session, sock, calls>>
    \/ /\ ~is_closed /\ zhandle = 0
       /\ is_closed' = TRUE
       /\ timer' = IF timer = "active" THEN "stopped" ELSE timer
       /\ UNCHANGED <<zhandle, fd, pollFd, pollOn, again, refs, closing,
                      session, sock, calls>>
    \/ /\ ~is_closed /\ zhandle # 0
       /\ is_closed' = TRUE
       /\ ZookeeperClose(zhandle, nested, st)
       /\ zhandle' = 0
       /\ pollFd' = -1 /\ pollOn' = FALSE /\ DropPoll
       /\ timer' = "closing"
       /\ UNCHANGED <<fd, again, refs>>

(* close() called by the client, from the loop or from a callback. *)
Close ==
    /\ RealClose(inproc # 0 /\ inproc = zhandle, "closing")
    /\ UNCHANGED <<inproc, history>>

(* timer_closed: the last use of the object by libuv. *)
TimerClosed ==
    /\ timer = "closing" /\ inproc = 0
    /\ timer' = "closed"
    /\ refs' = refs - 1
    /\ UNCHANGED <<zhandle, is_closed, fd, pollFd, pollOn, again, library,
                   calls, history>>

(* delete_on_close *)
DeleteOnClose ==
    /\ closing > 0 /\ inproc = 0
    /\ closing' = closing - 1
    /\ UNCHANGED <<object, session, sock, inproc, calls, history>>

-----------------------------------------------------------------------------
(* zk_timer_cb.  libuv has already stopped the timer, or restarted it if   *)
(* it repeats.  Early: there was activity since, the timer is pushed back. *)
ZkTimerCb ==
    /\ inproc = 0 /\ closing < MaxClosing
    /\ timer = "active"
    /\ \/ Yield(zhandle, IF zhandle = 0 THEN -1 ELSE sock[zhandle],
                IF again THEN "active" ELSE "stopped", again)
       \/ /\ timer' = "active" /\ again' = TRUE
          /\ UNCHANGED <<fd, pollFd, pollOn, closing, sock, started, oom>>
    /\ UNCHANGED <<zhandle, is_closed, refs, session, inproc, calls, inits,
                   timerInits, watchOk>>

(* zk_io_cb, up to and into zookeeper_process. *)
ZkIoCb ==
    /\ inproc = 0 /\ closing < MaxClosing
    /\ pollOn /\ zhandle # 0
    /\ inproc' = zhandle
    /\ UNCHANGED <<object, closing, session, sock, calls, history>>

(* zookeeper_process returns to zk_io_cb.  The session was closed inside:  *)
(* the client destroys it now, and realClose and yield do nothing.         *)
ZkIoCbEndsClosed ==
    /\ inproc # 0 /\ session[inproc] \in {"closing", "expired"}
    /\ DestroySession(inproc)
    /\ inproc' = 0
    /\ UNCHANGED <<object, closing, history>>

(* rc is ZNOTHING *)
ZkIoCbEndsNothing ==
    /\ inproc # 0 /\ session[inproc] = "open"
    /\ RealClose(FALSE, "expired")
    /\ inproc' = 0
    /\ UNCHANGED history

(* any other rc, the connection lost or not *)
ZkIoCbEndsYield ==
    /\ inproc # 0 /\ session[inproc] = "open"
    /\ inproc' = 0
    /\ \E lost \in BOOLEAN :
          Yield(zhandle, IF lost \/ zhandle = 0 THEN -1 ELSE sock[zhandle], timer, again)
    /\ UNCHANGED <<zhandle, is_closed, refs, session, calls, inits, timerInits,
                   watchOk>>

-----------------------------------------------------------------------------
(* Within zookeeper_process.                                               *)

(* main_watcher: authentication failed or the session expired. *)
MainWatcher ==
    /\ inproc # 0 /\ session[inproc] = "open"
    /\ \E st \in {"closing", "expired"} : RealClose(inproc = zhandle, st)
    /\ UNCHANGED <<inproc, history>>

(* string_completion, void_completion and the others: CALLBACK_PROLOG to   *)
(* CALLBACK_EPILOG.  A watch is registered if the call succeeded.          *)
Completion(o) ==
    /\ inproc # 0 /\ o \in Pending(inproc)
    /\ call' = [call EXCEPT ![o] = "called"]
    /\ heap' = HeapAfter({o})
    /\ \/ /\ session[inproc] = "open" /\ <<o, "cbw">> \in heap
          /\ armed' = armed \cup {o}
       \/ armed' = armed
    /\ UNCHANGED <<object, library, owner, history>>

(* watcher_fn: WATCHER_PROLOG returns early for an expired session and     *)
(* asserts that the object still uses the session.  A session event leaves *)
(* the watcher registered, a node event removes it.                        *)
WatcherFn(o) ==
    /\ inproc # 0 /\ o \in armed /\ owner[o] = inproc
    /\ session[inproc] # "expired"
    /\ watchOk' = (watchOk /\ zhandle = inproc)
    /\ \E removed \in {{}, {o}} : armed' = armed \ removed
    /\ UNCHANGED <<object, library, call, owner, heap, inits, timerInits,
                   started, oom>>

(* A method called by the client.  The C client may refuse the call: then  *)
(* nothing will call the callback or free it.                              *)
AMethod(o, m) ==
    /\ call[o] = "idle"
    /\ \/ /\ zhandle # 0
          /\ call' = [call EXCEPT ![o] = "pending"]
       \/ call' = [call EXCEPT ![o] = "refused"]
    /\ owner' = [owner EXCEPT ![o] = zhandle]
    /\ heap' = heap \cup ({o} \X Blocks(m))
    /\ UNCHANGED <<object, library, armed, history>>

-----------------------------------------------------------------------------
LoopStep == \/ TimerClosed \/ DeleteOnClose
            \/ ZkTimerCb \/ ZkIoCb
            \/ ZkIoCbEndsClosed \/ ZkIoCbEndsNothing \/ ZkIoCbEndsYield
            \/ MainWatcher
            \/ \E o \in Ops : Completion(o) \/ WatcherFn(o)

ClientCall == \/ Close
              \/ \E o \in Ops, m \in Methods : AMethod(o, m)

(* Any client: init again while open, or after close. *)
Next == LoopStep \/ ClientCall \/ RealInit

Spec == Init /\ [][Next]_vars

(* A client that calls init once, on an object it has not closed. *)
InitOnce == inits = 0 /\ ~is_closed /\ RealInit

NextOnce == LoopStep \/ ClientCall \/ InitOnce

SpecOnce == Init /\ [][NextOnce]_vars

(* The loop runs the close callbacks it owes, and zookeeper_process returns. *)
Fairness == /\ WF_vars(TimerClosed)
            /\ WF_vars(DeleteOnClose)
            /\ WF_vars(ZkIoCbEndsClosed)

FairSpecOnce == SpecOnce /\ Fairness

-----------------------------------------------------------------------------
(* The fields of the object, of libuv's handles and of the calls keep      *)
(* their types.                                                            *)
TypeOK ==
    /\ zhandle \in 0..MaxInits /\ inproc \in 0..MaxInits
    /\ is_closed \in BOOLEAN /\ pollOn \in BOOLEAN /\ again \in BOOLEAN
    /\ fd \in Fd /\ pollFd \in Fd
    /\ timer \in {"uninit", "stopped", "active", "closing", "closed"}
    /\ refs \in Nat /\ closing \in Nat
    /\ session \in [Sessions -> {"none", "open", "closing", "expired", "closed"}]
    /\ sock \in [Sessions -> Fd]
    /\ call \in [Ops -> {"idle", "pending", "called", "refused"}]
    /\ owner \in [Ops -> 0..MaxInits]
    /\ heap \subseteq Ops \X {"cb", "data", "acl", "cbw"}
    /\ armed \subseteq Ops
    /\ inits \in 0..MaxInits /\ timerInits \in Nat
    /\ started \in BOOLEAN /\ oom \in BOOLEAN /\ watchOk \in BOOLEAN

(* yield: uv_poll_start is only given a handle made for the socket the      *)
(* client works on now, never NULL or the handle of an earlier socket,      *)
(* although errors leave fd and the handle out of step and the kernel       *)
(* reuses numbers.  (After a failed malloc this is lost.)                   *)
PollMatchesFd ==
    /\ zhandle # 0 /\ ~is_closed /\ ~oom /\ fd # -1 => pollFd = fd
    /\ pollOn /\ ~oom => pollFd # -1

(* realClose, from the client, a watcher or zk_io_cb, and the yield that    *)
(* zk_io_cb still calls after it: a closed object has no session, no poll   *)
(* handle and no running timer, and nothing brings them back.               *)
QuietAfterClose ==
    is_closed => zhandle = 0 /\ pollFd = -1 /\ ~pollOn /\ timer # "active"

(* realClose and timer_closed: the object holds a reference to itself for   *)
(* as long as libuv or the client hold pointers to it, and none once the    *)
(* timer's close is done.                                                   *)
RefHeld ==
    /\ timer \in {"stopped", "active", "closing"} \/ pollFd # -1 \/ zhandle # 0
         => refs >= 1
    /\ timer = "closed" => refs = 0

(* Every call the client accepted belongs to the session in use, or to one  *)
(* that is being closed and will complete it: no callback is forgotten.     *)
NoOrphans ==
    \A o \in Ops : call[o] = "pending" =>
        \/ owner[o] = zhandle
        \/ owner[o] = inproc /\ session[inproc] \in {"closing", "expired"}

(* yield and zk_timer_cb: once the first yield got through, the timer runs  *)
(* until the object is closed, whatever errors the client reports, so the   *)
(* connection is always tried again; only a delay of 0 ms leaves it a one   *)
(* shot.                                                                    *)
Driven ==
    started /\ ~is_closed => timer = "active" \/ ~again

(* close() ends in the release of the object and of its calls: the memory   *)
(* of the timer and of the poll handles is given back, every callback has   *)
(* been called, and what a completed call allocated is freed, except the    *)
(* callback of a watcher.                                                   *)
CloseReleases ==
    is_closed /\ inits = 1 ~>
        /\ refs = 0 /\ closing = 0
        /\ \A o \in Ops : call[o] # "pending"
        /\ \A x \in heap : call[x[1]] = "called" => x[2] = "cbw"

(* realInit's comment: when it is not the first call, "stop the current     *)
(* timer and skip re-initializing the timer".                               *)
TimerInitializedOnce == timerInits <= 1

(* WATCHER_PROLOG: assert(zk->zhandle == zh).                               *)
WatcherAssertion == watchOk
=============================================================================
