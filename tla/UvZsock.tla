------------------------------- MODULE UvZsock ------------------------------
(***************************************************************************)
(* uv_zsock (0_libuv/uv_zmq/uv_zsock.c): a ZeroMQ socket watched by a      *)
(* libuv loop.  The descriptor ZeroMQ offers is not the socket's           *)
(* readability: it is signalled when an event appears that the socket had  *)
(* been asked for in vain, and the signal goes away when the socket is     *)
(* used.  The watcher therefore asks the socket itself before the loop     *)
(* polls (prepare) and after (check), and keeps the loop from blocking     *)
(* with an idle handle.                                                    *)
(*                                                                         *)
(* External, from how the watcher uses them: the socket (ready, armed, fd, *)
(* dead), fed by ZeroMQ's own thread, and the phases of the loop.          *)
(***************************************************************************)
EXTENDS Naturals, FiniteSets

Both    == {"in", "out"}
Handles == {"w_prepare", "w_check", "w_idle", "w_poll"}

VARIABLES
    ready,      \* events the socket has
    armed,      \* events whose appearing will be signalled
    fd,         \* the descriptor is signalled
    dead,       \* the context is terminated: getsockopt fails
    phase,      \* of the loop: timers, prepare, poll, woken, check, after, closing
    started,    \* prepare, check and poll handles are active
    events,     \* what the user waits for
    idle,       \* the idle handle is active
    told,       \* the events of the callback made in this iteration
    closing,    \* handles being closed
    closed,     \* handles closed
    close_cb    \* calls of the user's close callback

zsock == <<ready, armed, fd, dead>>
watch == <<started, events, idle>>
close == <<closing, closed, close_cb>>
vars  == <<zsock, phase, watch, told, close>>

Init ==
    /\ ready = {} /\ armed = Both /\ fd = FALSE /\ dead = FALSE
    /\ phase = "timers"
    /\ started = FALSE /\ events = {} /\ idle = FALSE
    /\ told = {}
    /\ closing = {} /\ closed = {} /\ close_cb = 0

(* The loop is running callbacks of the user. *)
UserPhase == phase \in {"timers", "woken", "after"}
Usable    == closing = {} /\ closed = {}

-----------------------------------------------------------------------------
(* ZeroMQ's thread, and the user's use of the socket.                      *)

Arrive(e) ==
    /\ e \notin ready /\ ~dead
    /\ ready' = ready \cup {e}
    /\ armed' = armed \ {e}
    /\ fd' = (fd \/ e \in armed)
    /\ UNCHANGED <<dead, phase, watch, told, close>>

Terminate ==
    /\ ~dead
    /\ dead' = TRUE /\ fd' = TRUE
    /\ UNCHANGED <<ready, armed, phase, watch, told, close>>

(* A send or receive uses an event up or leaves more of it; it may look    *)
(* for more in vain, and it may take the signal away.                      *)
Use(e) ==
    /\ UserPhase /\ e \in ready /\ ~dead
    /\ \/ UNCHANGED <<ready, armed>>
       \/ ready' = ready \ {e} /\ armed' \in {armed, armed \cup {e}}
    /\ fd' \in {fd, FALSE}
    /\ UNCHANGED <<dead, phase, watch, told, close>>

-----------------------------------------------------------------------------
(* s_get_revents: asking the socket takes the signal away and arms what is *)
(* not there.  On an error everything counts as ready.                     *)
s_get_revents == IF dead THEN events ELSE events \cap ready

Asked == /\ fd' = FALSE
         /\ armed' = IF dead THEN armed ELSE Both \ ready
         /\ UNCHANGED <<ready, dead>>

timers ==
    /\ phase = "timers"
    /\ phase' = "prepare"
    /\ UNCHANGED <<zsock, watch, told, close>>

(* Mutant: the idle handle is not started. *)
s_prepare_cb_NoIdle ==
    /\ phase = "prepare"
    /\ phase' = "poll"
    /\ IF started THEN Asked ELSE UNCHANGED zsock
    /\ UNCHANGED <<watch, told, close>>

(* s_prepare_cb, if the handle is active. *)
s_prepare_cb ==
    /\ phase = "prepare"
    /\ phase' = "poll"
    /\ IF started
       THEN /\ Asked
            /\ idle' = (idle \/ s_get_revents # {})
       ELSE UNCHANGED <<zsock, idle>>
    /\ UNCHANGED <<started, events, told, close>>

(* The poll returns at once if the idle handle is active or a handle is    *)
(* being closed; otherwise when the descriptor is signalled (s_poll_cb     *)
(* does nothing) ...                                                       *)
poll ==
    /\ phase = "poll"
    /\ idle \/ closing # {} \/ (started /\ events # {} /\ fd)
    /\ phase' = "woken"
    /\ UNCHANGED <<zsock, watch, told, close>>

(* ... or when something else in the loop happens. *)
other ==
    /\ phase = "poll"
    /\ phase' = "woken"
    /\ UNCHANGED <<zsock, watch, told, close>>

woken ==
    /\ phase = "woken"
    /\ phase' = "check"
    /\ UNCHANGED <<zsock, watch, told, close>>

(* Mutant: the callback is left to the poll handle's event. *)
s_check_cb_OnSignal ==
    /\ phase = "check"
    /\ phase' = "after"
    /\ IF started
       THEN /\ Asked
            /\ idle' = FALSE
            /\ told' = IF fd THEN s_get_revents ELSE {}
       ELSE UNCHANGED <<zsock, idle, told>>
    /\ UNCHANGED <<started, events, close>>

(* s_check_cb, if the handle is active: the user's callback gets the       *)
(* events.  What it does is Use, or a call below, in the phase "after".    *)
s_check_cb ==
    /\ phase = "check"
    /\ phase' = "after"
    /\ IF started
       THEN /\ Asked
            /\ idle' = FALSE
            /\ told' = s_get_revents
       ELSE UNCHANGED <<zsock, idle, told>>
    /\ UNCHANGED <<started, events, close>>

after ==
    /\ phase = "after"
    /\ phase' = "closing"
    /\ told' = {}
    /\ UNCHANGED <<zsock, watch, close>>

(* s_close_cb for one handle: the last one reports. *)
s_close_cb(h) ==
    /\ phase = "closing" /\ h \in closing
    /\ closing' = closing \ {h} /\ closed' = closed \cup {h}
    /\ close_cb' = IF closed' = Handles THEN close_cb + 1 ELSE close_cb
    /\ UNCHANGED <<zsock, phase, watch, told>>

iterate ==
    /\ phase = "closing" /\ closing = {}
    /\ phase' = "timers"
    /\ UNCHANGED <<zsock, watch, told, close>>

-----------------------------------------------------------------------------
(* The user's calls.                                                       *)

uv_zsock_start(ev) ==
    /\ UserPhase /\ Usable
    /\ started' = TRUE /\ events' = ev
    /\ UNCHANGED <<zsock, phase, idle, told, close>>

uv_zsock_stop ==
    /\ UserPhase /\ Usable /\ started
    /\ started' = FALSE /\ idle' = FALSE
    /\ UNCHANGED <<zsock, phase, events, told, close>>

(* uv_close stops a handle; its callback comes at the end of the iteration. *)
uv_zsock_close ==
    /\ UserPhase /\ Usable
    /\ started' = FALSE /\ idle' = FALSE
    /\ closing' = Handles
    /\ UNCHANGED <<zsock, phase, events, told, closed, close_cb>>

-----------------------------------------------------------------------------
LoopStep == \/ timers \/ s_prepare_cb \/ poll \/ woken \/ s_check_cb \/ after \/ iterate
            \/ \E h \in Handles : s_close_cb(h)

UserStep == \/ uv_zsock_stop \/ uv_zsock_close \/ \E ev \in SUBSET Both : uv_zsock_start(ev)

Next == \/ LoopStep \/ other \/ UserStep \/ Terminate
        \/ \E e \in Both : Arrive(e) \/ Use(e)

Spec == Init /\ [][Next]_vars

(* uv_run goes through its phases.  Nothing else need ever wake it. *)
FairSpec == Spec /\ WF_vars(LoopStep)

-----------------------------------------------------------------------------
TypeOK ==
    /\ ready \subseteq Both /\ armed \subseteq Both
    /\ fd \in BOOLEAN /\ dead \in BOOLEAN
    /\ phase \in {"timers", "prepare", "poll", "woken", "check", "after", "closing"}
    /\ started \in BOOLEAN /\ idle \in BOOLEAN
    /\ events \subseteq Both /\ told \subseteq Both
    /\ closing \subseteq Handles /\ closed \subseteq Handles
    /\ close_cb \in Nat

(* The loop never sleeps on an event: if it polls without the idle handle, *)
(* every event the user waits for that is there has been signalled.        *)
NoSleepOnEvents ==
    phase = "poll" /\ started /\ ~idle => (s_get_revents # {} => fd)

(* The idle handle is active only around the poll: an idle handle left     *)
(* behind would make the loop spin.                                        *)
IdleOnlyToPoll == idle => started /\ phase \in {"poll", "woken", "check"}

(* The user is told of the close once, after all four handles are closed:  *)
(* only then may the memory go.                                            *)
ClosedOnce == close_cb = IF closed = Handles THEN 1 ELSE 0

(* The user hears of every event they wait for, also of one that came      *)
(* while the socket was used elsewhere and of the rest of a partly read    *)
(* queue, without anything else waking the loop.                           *)
Served ==
    \A e \in Both :
        started /\ e \in events \cap ready
            ~> e \in told \/ ~started \/ e \notin events \cap ready

(* A close is completed, though nothing else wakes the loop. *)
CloseCompletes == closing # {} ~> close_cb = 1
=============================================================================
