------------------------------ MODULE Workers -------------------------------
(* The producers and consumers of eventfds and of timerfds. *)
EXTENDS Integers, Sequences

CONSTANTS Producers, Consumers, MaxFd, MAX_EVENTS_SIZE, MaxTasks, Timers, MaxTicks

VARIABLES
    \* eventfd
    table, counter, interest, ready, issued, pstep, efd, task, cstep, events,
    done, exited,
    \* timerfd
    tstep, added, ticks, expired, tready, wstep, tevents, num_done, tasks

eventfdVars == <<table, counter, interest, ready, issued, pstep, efd, task, cstep,
                 events, done, exited>>
timerfdVars == <<tstep, added, ticks, expired, tready, wstep, tevents, num_done, tasks>>

Eventfd == INSTANCE EventfdWorker
Timerfd == INSTANCE TimerfdWorker WITH pstep <- tstep, ready <- tready, cstep <- wstep,
                                       events <- tevents

-----------------------------------------------------------------------------
(* Properties of the two, which say in their modules what they state. *)

(* eventfd_worker.c: a number that is held means the eventfd it was for. *)
DescriptorsAreCurrent == Eventfd!DescriptorsAreCurrent

(* eventfd_worker.c: every task issued is done, once. *)
EveryTaskDone == Eventfd!EveryTaskDone

(* timerfd_worker.c: no expiration is left behind or counted twice. *)
NothingUnnoticed == Timerfd!NothingUnnoticed
=============================================================================
