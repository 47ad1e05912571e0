---------------------------- MODULE TimerfdWorker ---------------------------
(***************************************************************************)
(* The timerfd workers (IO/eventfd_examples/timerfd_worker).  A producer   *)
(* makes one periodic timer, adds it to the epoll set edge triggered, arms *)
(* it and returns; the consumers read the timers that expire, for ever.    *)
(*                                                                         *)
(* External: the timerfd, which counts expirations until it is read (a     *)
(* read of 0 fails with EAGAIN), and the epoll ready list, to which an     *)
(* expiration adds the timer unless it is on it.                           *)
(***************************************************************************)
EXTENDS Integers, Sequences, FiniteSets

CONSTANTS Timers,           \* one per producer
          Consumers,
          MAX_EVENTS_SIZE,
          MaxTicks          \* expirations of a timer (bound)

TimerAssumption ==
    /\ IsFiniteSet(Timers) /\ IsFiniteSet(Consumers)
    /\ MAX_EVENTS_SIZE \in Nat \ {0} /\ MaxTicks \in Nat

VARIABLES
    pstep,      \* of a producer
    added,      \* timers in the epoll set
    ticks,      \* expirations since the last read
    expired,    \* expirations so far
    ready,      \* the epoll ready list
    cstep, events,      \* of a consumer: the events not yet handled
    num_done,   \* of a consumer
    tasks       \* history: by consumer, the timer and the expiration of each task

vars == <<pstep, added, ticks, expired, ready, cstep, events, num_done, tasks>>

Init ==
    /\ pstep = [t \in Timers |-> "timerfd_create"]
    /\ added = {} /\ ready = <<>>
    /\ ticks = [t \in Timers |-> 0] /\ expired = [t \in Timers |-> 0]
    /\ cstep = [c \in Consumers |-> "epoll_wait"]
    /\ events = [c \in Consumers |-> <<>>]
    /\ num_done = [c \in Consumers |-> 0] /\ tasks = [c \in Consumers |-> <<>>]

-----------------------------------------------------------------------------
OnList(t) == \E i \in 1..Len(ready) : ready[i] = t

timerfd_create(t) ==
    /\ pstep[t] = "timerfd_create"
    /\ pstep' = [pstep EXCEPT ![t] = "epoll_ctl"]
    /\ UNCHANGED <<added, ticks, expired, ready, cstep, events, num_done, tasks>>

epoll_ctl(t) ==
    /\ pstep[t] = "epoll_ctl"
    /\ added' = added \union {t}
    /\ ready' = IF ticks[t] > 0 /\ ~OnList(t) THEN Append(ready, t) ELSE ready
    /\ pstep' = [pstep EXCEPT ![t] = "timerfd_settime"]
    /\ UNCHANGED <<ticks, expired, cstep, events, num_done, tasks>>

timerfd_settime(t) ==
    /\ pstep[t] = "timerfd_settime"
    /\ pstep' = [pstep EXCEPT ![t] = "returned"]
    /\ UNCHANGED <<added, ticks, expired, ready, cstep, events, num_done, tasks>>

(* it_value, then it_interval, has passed. *)
Expire(t) ==
    /\ pstep[t] = "returned" /\ expired[t] < MaxTicks
    /\ expired' = [expired EXCEPT ![t] = @ + 1]
    /\ ticks' = [ticks EXCEPT ![t] = @ + 1]
    /\ ready' = IF t \in added /\ ~OnList(t) THEN Append(ready, t) ELSE ready
    /\ UNCHANGED <<pstep, added, cstep, events, num_done, tasks>>

-----------------------------------------------------------------------------
Taken == IF Len(ready) < MAX_EVENTS_SIZE THEN Len(ready) ELSE MAX_EVENTS_SIZE

epoll_wait(c) ==
    /\ cstep[c] = "epoll_wait" /\ ready # <<>>
    /\ events' = [events EXCEPT ![c] = SubSeq(ready, 1, Taken)]
    /\ ready' = SubSeq(ready, Taken + 1, Len(ready))
    /\ cstep' = [cstep EXCEPT ![c] = "read"]
    /\ UNCHANGED <<pstep, added, ticks, expired, num_done, tasks>>

NextEvent(c) ==
    /\ events' = [events EXCEPT ![c] = Tail(@)]
    /\ cstep' = [cstep EXCEPT ![c] = IF Len(events[c]) > 1 THEN "read" ELSE "epoll_wait"]

do_task(c, t) ==
    /\ num_done' = [num_done EXCEPT ![c] = @ + 1]
    /\ tasks' = [tasks EXCEPT ![c] = Append(@, <<t, expired[t]>>)]

(* Mutant: a failed read ends the batch (break for continue). *)
read_Breaks(c) ==
    /\ cstep[c] = "read"
    /\ IF ticks[Head(events[c])] = 0
       THEN /\ events' = [events EXCEPT ![c] = <<>>]
            /\ cstep' = [cstep EXCEPT ![c] = "epoll_wait"]
            /\ UNCHANGED <<ticks, num_done, tasks>>
       ELSE /\ ticks' = [ticks EXCEPT ![Head(events[c])] = 0]
            /\ do_task(c, Head(events[c]))
            /\ NextEvent(c)
    /\ UNCHANGED <<pstep, added, expired, ready>>

(* One body of the loop: read, and do_task once, whatever the count read.  *)
read(c) ==
    /\ cstep[c] = "read"
    /\ IF ticks[Head(events[c])] = 0
       THEN UNCHANGED <<ticks, num_done, tasks>>
       ELSE /\ ticks' = [ticks EXCEPT ![Head(events[c])] = 0]
            /\ do_task(c, Head(events[c]))
    /\ NextEvent(c)
    /\ UNCHANGED <<pstep, added, expired, ready>>

-----------------------------------------------------------------------------
(* The bound on expirations. *)
Quiet ==
    /\ \A t \in Timers : expired[t] = MaxTicks
    /\ ready = <<>> /\ \A c \in Consumers : cstep[c] = "epoll_wait"
    /\ UNCHANGED vars

Next == \/ \E t \in Timers : timerfd_create(t) \/ epoll_ctl(t) \/ timerfd_settime(t) \/ Expire(t)
        \/ \E c \in Consumers : epoll_wait(c) \/ read(c)
        \/ Quiet

Spec == Init /\ [][Next]_vars

-----------------------------------------------------------------------------
(* The types; a batch is not longer than the array of events. *)
TypeOK ==
    /\ pstep \in [Timers -> {"timerfd_create", "epoll_ctl", "timerfd_settime", "returned"}]
    /\ added \subseteq Timers
    /\ ticks \in [Timers -> 0..MaxTicks] /\ expired \in [Timers -> 0..MaxTicks]
    /\ ready \in Seq(Timers)
    /\ cstep \in [Consumers -> {"epoll_wait", "read"}]
    /\ events \in [Consumers -> Seq(Timers)]
    /\ \A c \in Consumers : Len(events[c]) <= MAX_EVENTS_SIZE
    /\ num_done \in [Consumers -> Nat] /\ tasks \in [Consumers -> Seq(Timers \X (1..MaxTicks))]

(* The timers are edge triggered and two consumers race for them, yet no   *)
(* expiration is left behind: a timer with a count is on the ready list or *)
(* in the batch of a consumer that has still to read it.  And though both  *)
(* may be woken for one count, a task is done for an expiration that has   *)
(* been read, and no two are done for the same one.                        *)
NothingUnnoticed ==
    /\ \A t \in Timers : ticks[t] > 0 =>
           OnList(t) \/ \E c \in Consumers : \E i \in 1..Len(events[c]) : events[c][i] = t
    /\ \A c \in Consumers :
           /\ num_done[c] = Len(tasks[c])
           /\ \A i \in 1..Len(tasks[c]) :
                  /\ tasks[c][i][2] <= expired[tasks[c][i][1]] - ticks[tasks[c][i][1]]
                  /\ \A d \in Consumers : \A j \in 1..Len(tasks[d]) :
                         tasks[c][i] = tasks[d][j] => c = d /\ i = j
=============================================================================
