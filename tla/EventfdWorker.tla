---------------------------- MODULE EventfdWorker ---------------------------
(***************************************************************************)
(* The eventfd task queue (IO/eventfd_examples/eventfd_worker).  A         *)
(* producer makes a task: a new eventfd, added to the epoll set edge       *)
(* triggered, then written.  A consumer takes a batch of events, and for   *)
(* each reads the descriptor, closes it and does the task.  An event holds *)
(* the NUMBER of a descriptor; the number of a closed descriptor is given  *)
(* to the next eventfd.                                                    *)
(*                                                                         *)
(* External: the descriptor table (the lowest free number is used; none    *)
(* free: EMFILE), the eventfd's counter, and the epoll ready list (an edge *)
(* per write, taken by one epoll_wait; closing the descriptor takes its    *)
(* eventfd off the list).                                                  *)
(***************************************************************************)
EXTENDS Integers, Sequences, FiniteSets

CONSTANTS Producers, Consumers,
          MaxFd,            \* RLIMIT_NOFILE
          MAX_EVENTS_SIZE,
          MaxTasks          \* tasks issued (bound; num_task of the spike)

WorkerAssumption ==
    /\ IsFiniteSet(Producers) /\ IsFiniteSet(Consumers)
    /\ MaxFd \in Nat \ {0} /\ MAX_EVENTS_SIZE \in Nat \ {0} /\ MaxTasks \in Nat

Fds == 1..MaxFd
Tasks == 1..MaxTasks
NONE == 0

VARIABLES
    table,      \* the descriptor table: the eventfd (task) under a number, or NONE
    counter,    \* of each eventfd
    interest,   \* data.fd of each eventfd in the epoll set, or NONE
    ready,      \* the epoll ready list
    issued,     \* eventfds created
    pstep, efd, task,   \* of a producer; task is the eventfd it created
    cstep, events,      \* of a consumer: the events not yet handled, <<data.fd, eventfd>>
    done,       \* the tasks done, in order
    exited      \* exit_error was called

kernel == <<table, counter, interest, ready>>
vars == <<kernel, issued, pstep, efd, task, cstep, events, done, exited>>

Init ==
    /\ table = [f \in Fds |-> NONE]
    /\ counter = [t \in Tasks |-> 0]
    /\ interest = [t \in Tasks |-> NONE]
    /\ ready = <<>> /\ issued = 0 /\ done = <<>> /\ exited = FALSE
    /\ pstep = [p \in Producers |-> "eventfd"]
    /\ efd = [p \in Producers |-> NONE]
    /\ task = [p \in Producers |-> NONE]
    /\ cstep = [c \in Consumers |-> "epoll_wait"]
    /\ events = [c \in Consumers |-> <<>>]

-----------------------------------------------------------------------------
Free == {f \in Fds : table[f] = NONE}

(* The kernel gives out the lowest number that is free. *)
Lowest(S) == {f \in S : \A g \in S : f <= g}

(* An eventfd is on the ready list at most once. *)
Without(s, t) ==
    IF \E i \in 1..Len(s) : s[i] = t
    THEN LET k == CHOOSE i \in 1..Len(s) : s[i] = t
         IN  SubSeq(s, 1, k - 1) \o SubSeq(s, k + 1, Len(s))
    ELSE s

eventfd(p) ==
    /\ ~exited /\ pstep[p] = "eventfd" /\ issued < MaxTasks
    /\ IF Free = {}
       THEN exited' = TRUE /\ UNCHANGED <<table, issued, efd, task, pstep>>
       ELSE /\ issued' = issued + 1
            /\ \E f \in Lowest(Free) : /\ table' = [table EXCEPT ![f] = issued + 1]
                                       /\ efd' = [efd EXCEPT ![p] = f]
            /\ task' = [task EXCEPT ![p] = issued + 1]
            /\ pstep' = [pstep EXCEPT ![p] = "epoll_ctl"]
            /\ UNCHANGED exited
    /\ UNCHANGED <<counter, interest, ready, cstep, events, done>>

epoll_ctl(p) ==
    /\ ~exited /\ pstep[p] = "epoll_ctl"
    /\ IF table[efd[p]] = NONE \/ interest[table[efd[p]]] # NONE
       THEN exited' = TRUE /\ UNCHANGED <<interest, pstep, ready>>
       ELSE LET t == table[efd[p]] IN
            /\ interest' = [interest EXCEPT ![t] = efd[p]]
            /\ ready' = IF counter[t] > 0 THEN Append(ready, t) ELSE ready
            /\ pstep' = [pstep EXCEPT ![p] = "write"]
            /\ UNCHANGED exited
    /\ UNCHANGED <<table, counter, issued, efd, task, cstep, events, done>>

(* A failed write is only logged. *)
write(p) ==
    /\ ~exited /\ pstep[p] = "write"
    /\ LET t == table[efd[p]] IN
       IF t = NONE THEN UNCHANGED <<counter, ready>>
       ELSE /\ counter' = [counter EXCEPT ![t] = @ + 1]
            /\ ready' = IF interest[t] # NONE THEN Append(Without(ready, t), t) ELSE ready
    /\ pstep' = [pstep EXCEPT ![p] = "eventfd"]
    /\ UNCHANGED <<table, interest, issued, efd, task, cstep, events, done, exited>>

-----------------------------------------------------------------------------
Taken == IF Len(ready) < MAX_EVENTS_SIZE THEN Len(ready) ELSE MAX_EVENTS_SIZE

(* Mutant: without EPOLLET the eventfds stay on the ready list. *)
epoll_wait_Level(c) ==
    /\ ~exited /\ cstep[c] = "epoll_wait" /\ ready # <<>>
    /\ events' = [events EXCEPT ![c] = [i \in 1..Taken |-> <<interest[ready[i]], ready[i]>>]]
    /\ cstep' = [cstep EXCEPT ![c] = "read"]
    /\ UNCHANGED <<kernel, issued, pstep, efd, task, done, exited>>

(* A timeout returns no event and changes nothing. *)
epoll_wait(c) ==
    /\ ~exited /\ cstep[c] = "epoll_wait" /\ ready # <<>>
    /\ events' = [events EXCEPT ![c] = [i \in 1..Taken |-> <<interest[ready[i]], ready[i]>>]]
    /\ ready' = SubSeq(ready, Taken + 1, Len(ready))
    /\ cstep' = [cstep EXCEPT ![c] = "read"]
    /\ UNCHANGED <<table, counter, interest, issued, pstep, efd, task, done, exited>>

NextEvent(c) ==
    /\ events' = [events EXCEPT ![c] = Tail(@)]
    /\ cstep' = [cstep EXCEPT ![c] = IF Len(events[c]) > 1 THEN "read" ELSE "epoll_wait"]

(* read fails on a closed descriptor and on a counter of 0 (EFD_NONBLOCK). *)
read(c) ==
    /\ ~exited /\ cstep[c] = "read"
    /\ LET t == table[Head(events[c])[1]] IN
       IF t = NONE \/ counter[t] = 0
       THEN NextEvent(c) /\ UNCHANGED counter
       ELSE /\ counter' = [counter EXCEPT ![t] = 0]
            /\ cstep' = [cstep EXCEPT ![c] = "close"]
            /\ UNCHANGED events
    /\ UNCHANGED <<table, interest, ready, issued, pstep, efd, task, done, exited>>

(* Mutant: the rest of the batch is left after the first task. *)
close_EndsBatch(c) ==
    /\ ~exited /\ cstep[c] = "close"
    /\ LET f == Head(events[c])[1] IN
       /\ table' = [table EXCEPT ![f] = NONE]
       /\ interest' = [interest EXCEPT ![table[f]] = NONE]
       /\ ready' = Without(ready, table[f])
       /\ done' = Append(done, table[f])
    /\ events' = [events EXCEPT ![c] = <<>>]
    /\ cstep' = [cstep EXCEPT ![c] = "epoll_wait"]
    /\ UNCHANGED <<counter, issued, pstep, efd, task, exited>>

Closed(f) ==
    IF table[f] = NONE THEN UNCHANGED <<table, interest, ready>>
    ELSE /\ table' = [table EXCEPT ![f] = NONE]
         /\ interest' = [interest EXCEPT ![table[f]] = NONE]
         /\ ready' = Without(ready, table[f])

(* close, do_task and ++num_done: the steps after close touch nothing that *)
(* is shared.  The result of close is not looked at.                       *)
close(c) ==
    /\ ~exited /\ cstep[c] = "close"
    /\ Closed(Head(events[c])[1])
    /\ done' = Append(done, Head(events[c])[2])
    /\ NextEvent(c)
    /\ UNCHANGED <<counter, issued, pstep, efd, task, exited>>

-----------------------------------------------------------------------------
(* The bound, or the exit of the process: nothing more happens. *)
Finished ==
    /\ \/ exited
       \/ /\ issued = MaxTasks /\ ready = <<>>
          /\ \A p \in Producers : pstep[p] = "eventfd"
          /\ \A c \in Consumers : cstep[c] = "epoll_wait"
    /\ UNCHANGED vars

Next == \/ \E p \in Producers : eventfd(p) \/ epoll_ctl(p) \/ write(p)
        \/ \E c \in Consumers : epoll_wait(c) \/ read(c) \/ close(c)
        \/ Finished

Spec == Init /\ [][Next]_vars

(* The kernel schedules every thread; epoll_wait wakes some consumer.      *)
Fairness ==
    /\ \A p \in Producers : WF_vars(epoll_ctl(p)) /\ WF_vars(write(p))
    /\ \A c \in Consumers : WF_vars(epoll_wait(c)) /\ WF_vars(read(c)) /\ WF_vars(close(c))

FairSpec == Spec /\ Fairness

-----------------------------------------------------------------------------
(* The types of the tables, of the threads' steps and of their batches.    *)
TypeOK ==
    /\ table \in [Fds -> Tasks \union {NONE}]
    /\ counter \in [Tasks -> 0..1]
    /\ interest \in [Tasks -> Fds \union {NONE}]
    /\ ready \in Seq(Tasks) /\ issued \in 0..MaxTasks /\ exited \in BOOLEAN
    /\ pstep \in [Producers -> {"eventfd", "epoll_ctl", "write"}]
    /\ efd \in [Producers -> Fds \union {NONE}] /\ task \in [Producers -> Tasks \union {NONE}]
    /\ cstep \in [Consumers -> {"epoll_wait", "read", "close"}]
    /\ events \in [Consumers -> Seq(Fds \X Tasks)]
    /\ done \in Seq(Tasks)

(* However descriptors are closed and their numbers given out again, a     *)
(* number somebody still holds means the eventfd it was got for.  An event *)
(* in a consumer's batch names the eventfd it was raised for, which still  *)
(* has its count, so that no read in consumer_routine fails or takes       *)
(* another task's count; the number a producer is about to add or to write *)
(* is its own; and no number is held by a task that is done, so that       *)
(* producers meet EMFILE, and exit, only when MaxFd tasks are to be done.  *)
DescriptorsAreCurrent ==
    /\ \A c \in Consumers : \A i \in 1..Len(events[c]) :
           /\ table[events[c][i][1]] = events[c][i][2]
           /\ i > 1 \/ cstep[c] = "read" => counter[events[c][i][2]] = 1
    /\ \A p \in Producers : pstep[p] # "eventfd" => table[efd[p]] = task[p]
    /\ \A f \in Fds : table[f] # NONE => \A i \in 1..Len(done) : done[i] # table[f]

(* Every task issued is done, and from then on has been done once, by one  *)
(* consumer, unless the process exits.                                     *)
EveryTaskDone ==
    \A t \in Tasks :
        issued >= t ~> [](exited \/ Cardinality({i \in 1..Len(done) : done[i] = t}) = 1)
=============================================================================
