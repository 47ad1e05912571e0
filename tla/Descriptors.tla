---------------------------- MODULE Descriptors -----------------------------
(* The programs in which threads, batches of events and the kernel share   *)
(* descriptors and buffers: those of SocketsAndFiles and of Workers.       *)
(* They have nothing to do with each other: program says which of them a   *)
(* behaviour is about, and the others stay as they began.                  *)
EXTENDS SocketsAndFiles, Workers

VARIABLE program    \* "epoll", "thread", "eventfd", "timerfd", "aio", "closefd"

ASSUME DescriptorsAssumption ==
    /\ Echo!EchoAssumption /\ Eventfd!WorkerAssumption
    /\ Timerfd!TimerAssumption /\ Aio!LenAssumption /\ Closefd!FdAssumption

DescriptorsInit ==
    /\ program \in {"epoll", "thread", "eventfd", "timerfd", "aio", "closefd"}
    /\ Init /\ Echo!Init /\ Eventfd!Init /\ Timerfd!Init
    /\ Aio!Init /\ (program = "aio" \/ flen = 0)
    /\ Closefd!Init /\ (program = "closefd" \/ open = 0..2)

DescriptorsNext ==
    /\ UNCHANGED program
    /\ \/ /\ program = "epoll" /\ Next
          /\ UNCHANGED <<threadVars, eventfdVars, timerfdVars, aioVars, closefdVars>>
       \/ /\ program = "thread" /\ Echo!Next
          /\ UNCHANGED <<vars, eventfdVars, timerfdVars, aioVars, closefdVars>>
       \/ /\ program = "eventfd" /\ Eventfd!Next
          /\ UNCHANGED <<vars, threadVars, timerfdVars, aioVars, closefdVars>>
       \/ /\ program = "timerfd" /\ Timerfd!Next
          /\ UNCHANGED <<vars, threadVars, eventfdVars, aioVars, closefdVars>>
       \/ /\ program = "aio" /\ Aio!Next
          /\ UNCHANGED <<vars, threadVars, eventfdVars, timerfdVars, closefdVars>>
       \/ /\ program = "closefd" /\ Closefd!Next
          /\ UNCHANGED <<vars, threadVars, eventfdVars, timerfdVars, aioVars>>

(* The fairness of the program that runs, as its own module states it. *)
DescriptorsSpec ==
    /\ DescriptorsInit
    /\ [][DescriptorsNext]_<<program, vars, threadVars, eventfdVars, timerfdVars, aioVars,
                    closefdVars>>
    /\ WF_vars(program = "epoll" /\ ServerStep)
    /\ \A p \in Producers :
           /\ WF_eventfdVars(program = "eventfd" /\ Eventfd!epoll_ctl(p))
           /\ WF_eventfdVars(program = "eventfd" /\ Eventfd!write(p))
    /\ \A c \in Consumers :
           /\ WF_eventfdVars(program = "eventfd" /\ Eventfd!epoll_wait(c))
           /\ WF_eventfdVars(program = "eventfd" /\ Eventfd!read(c))
           /\ WF_eventfdVars(program = "eventfd" /\ Eventfd!close(c))
=============================================================================
