--------------------------- MODULE PgmPairProofs ----------------------------
(***************************************************************************)
(* The PGM pair, for any number of messages, failures and losses, with and *)
(* without signals.  What was handed over is a set here, and the numbers   *)
(* the programs keep are its size.                                         *)
(***************************************************************************)
EXTENDS PgmPair, FiniteSetTheorems, TLAPS

-----------------------------------------------------------------------------
(* Where a program that has not released its socket is in the setup says   *)
(* whether it has one.                                                     *)
SocketAt(p) ==
    /\ step[p] \in {"getaddrinfo", "socket", "failed"} => g_sock[p] = "NULL"
    /\ step[p] \in {"gsi", "bind", "connect", "thread", "up"} => g_sock[p] = "live"
    /\ g_sock[p] \in {"NULL", "live"}

(* A program that has ended, or is on its way out, is done with the setup, *)
(* and its socket is gone.                                                 *)
Ended(p) == g_sock[p] = "NULL" /\ step[p] \in {"getaddrinfo", "up", "failed"}

SenderOk ==
    /\ IF exited THEN Ended("pgmsend") ELSE SocketAt("pgmsend")
    /\ created => step["pgmsend"] = "up"
    /\ created /\ exited => k > nCounter
    /\ exited /\ step["pgmsend"] = "up" => created

ReceiverOk ==
    /\ IF main = "done" THEN Ended("pgmrecv") ELSE SocketAt("pgmrecv")
    /\ main = "init" => step["pgmrecv"] = "getaddrinfo"
    /\ main \notin {"init", "startup"} => step["pgmrecv"] \in {"getaddrinfo", "up", "failed"}

(* The thread is only there when the setup is done, main closes nothing    *)
(* before it has returned, and nobody else does.                           *)
ThreadOk ==
    /\ thread # "none" => step["pgmrecv"] = "up"
    /\ main \in {"init", "startup", "close", "done"} => thread \in {"none", "returned"}
    /\ main \in {"init", "startup"} => thread = "none"
    /\ pipe = "closed" => main \in {"close", "done"}
    /\ g_loop # "live" => main = "done"

(* The messages taken are numbered below k. *)
CountOk == EveryMessageCounted /\ \A i \in taken : i < k

IInv == TypeOK /\ SenderOk /\ ReceiverOk /\ ThreadOk /\ CountOk

USE SenderAssumption, ReceiverAssumption

-----------------------------------------------------------------------------
(* A call of the setup leaves the socket as the next step expects it, and  *)
(* the other program alone.                                                *)
LEMMA SetupKeeps ==
    ASSUME SocketTypeOK, NEW p \in Programs, NEW up \in {"thread", "up"},
           SocketAt(p), Setup(p, up)
    PROVE  /\ SocketTypeOK' /\ SocketAt(p)'
           /\ step[p] \in {"getaddrinfo", "socket", "gsi", "bind", "connect"}
           /\ \A q \in Programs \ {p} : step'[q] = step[q] /\ g_sock'[q] = g_sock[q]
  <1> USE DEF SocketTypeOK, SocketAt, Call, Succeeded, Released, Pointers
  <1>1. CASE pgm_getaddrinfo(p)
    BY <1>1, Zenon DEF pgm_getaddrinfo
  <1>2. CASE pgm_socket(p)
    BY <1>2, Zenon DEF pgm_socket
  <1>3. CASE pgm_gsi_create(p)
    BY <1>3, Zenon DEF pgm_gsi_create
  <1>4. CASE pgm_bind3(p)
    BY <1>4, Zenon DEF pgm_bind3
  <1>5. CASE pgm_connect(p, up)
    <2>1. step[p] = "connect" /\ UNCHANGED <<res, g_sock>>
      BY <1>5, Zenon DEF pgm_connect
    <2>2. PICK n \in {up, "abort"} : step' = [step EXCEPT ![p] = n]
      BY <1>5, Zenon DEF pgm_connect
    <2>3. n \in {"thread", "up", "abort"}
      OBVIOUS
    <2>4. SocketTypeOK'
      BY <2>1, <2>2, <2>3, Zenon
    <2>5. step'[p] = n /\ g_sock[p] = "live"
      BY <2>1, <2>2, Zenon
    <2>6. SocketAt(p)'
      BY <2>1, <2>3, <2>5, Zenon
    <2> QED BY <2>1, <2>2, <2>4, <2>6, Zenon
  <1> QED BY <1>1, <1>2, <1>3, <1>4, <1>5, Zenon DEF Setup

(* So does err_abort, which closes the socket if there is one. *)
LEMMA AbortKeeps ==
    ASSUME SocketTypeOK, NEW p \in Programs, SocketAt(p), err_abort(p)
    PROVE  /\ SocketTypeOK' /\ SocketAt(p)' /\ step[p] = "abort" /\ step'[p] = "failed"
           /\ \A q \in Programs \ {p} : step'[q] = step[q] /\ g_sock'[q] = g_sock[q]
  BY Zenon DEF err_abort, SocketTypeOK, SocketAt, Released, ReleasedAndNulled, Pointers

-----------------------------------------------------------------------------
(* The steps of the sender. *)
LEMMA SenderKeeps == IInv /\ Sender => IInv'
  <1> SUFFICES ASSUME IInv, Sender PROVE IInv'
    OBVIOUS
  <1> USE DEF IInv, Programs
  <1>1. UNCHANGED <<main, quit_loop, g_quit, pipe, g_loop, pending, resets, thread, watched,
                    iCounter, lost>>
    BY Zenon DEF Sender, receiverVars, mainVars, netVars, recvVars
  <1>2. ASSUME SocketTypeOK', SenderOk', step'["pgmrecv"] = step["pgmrecv"],
               g_sock'["pgmrecv"] = g_sock["pgmrecv"],
               UNCHANGED <<k, taken, reported, wire>>, created' \in BOOLEAN, exited' \in BOOLEAN
        PROVE  IInv'
    <2>1. TypeOK'
      <3>1. SenderTypeOK' /\ lost' \in Nat
        BY <1>1, <1>2, Zenon DEF TypeOK, SenderTypeOK
      <3>2. ReceiverTypeOK'
        BY <1>1, Zenon DEF TypeOK, ReceiverTypeOK
      <3> QED BY <1>2, <3>1, <3>2, Zenon DEF TypeOK
    <2>2. ReceiverOk' /\ ThreadOk'
      BY <1>1, <1>2, Zenon DEF ReceiverOk, ThreadOk, SocketAt, Ended
    <2>3. CountOk'
      BY <1>1, <1>2, Zenon DEF CountOk, EveryMessageCounted
    <2> QED BY <1>2, <2>1, <2>2, <2>3, Zenon
  <1>3. CASE early_return
    BY Zenon, <1>2, <1>3 DEF early_return, socketVars, SenderOk, SocketAt, Ended, TypeOK, SocketTypeOK,
       SenderTypeOK
  <1>4. CASE create_pgm_socket
    <2>1. ~exited /\ Setup("pgmsend", "up") /\ UNCHANGED <<created, k, taken, reported, exited, wire>>
      BY <1>4, Zenon DEF create_pgm_socket, senderVars
    <2>2. /\ SocketTypeOK' /\ SocketAt("pgmsend")'
          /\ step["pgmsend"] \in {"getaddrinfo", "socket", "gsi", "bind", "connect"}
          /\ step'["pgmrecv"] = step["pgmrecv"] /\ g_sock'["pgmrecv"] = g_sock["pgmrecv"]
      BY <2>1, SetupKeeps, Zenon DEF SenderOk, TypeOK
    <2>3. SenderOk'
      BY <2>1, <2>2, Zenon DEF SenderOk
    <2> QED BY <1>2, <2>1, <2>2, <2>3, Zenon DEF TypeOK, SenderTypeOK
  <1>5. CASE create_abort
    <2>1. err_abort("pgmsend") /\ UNCHANGED <<created, k, taken, reported, exited, wire>>
      BY <1>5, Zenon DEF create_abort, senderVars
    <2>2. ~exited
      BY <2>1, Zenon DEF err_abort, SenderOk, Ended
    <2>3. /\ SocketTypeOK' /\ SocketAt("pgmsend")' /\ step["pgmsend"] = "abort"
          /\ step'["pgmrecv"] = step["pgmrecv"] /\ g_sock'["pgmrecv"] = g_sock["pgmrecv"]
      BY <2>1, <2>2, AbortKeeps, Zenon DEF SenderOk, TypeOK
    <2>4. SenderOk'
      BY <2>1, <2>2, <2>3, Zenon DEF SenderOk
    <2> QED BY <1>2, <2>1, <2>3, <2>4, Zenon DEF TypeOK, SenderTypeOK
  <1>6. CASE create_returns
    <2>1. /\ step["pgmsend"] = "up" /\ ~created /\ created' = TRUE
          /\ UNCHANGED <<step, res, g_sock, k, taken, reported, exited, wire>>
      BY <1>6, Zenon DEF create_returns, socketVars
    <2>2. SocketTypeOK'
      BY <2>1, Zenon DEF TypeOK, SocketTypeOK
    <2>3. exited' \in BOOLEAN
      BY <2>1, Zenon DEF TypeOK, SenderTypeOK
    <2>4. ~exited
      BY <2>1, Zenon DEF SenderOk
    <2>5. SenderOk'
      BY <2>1, <2>4, Zenon DEF SenderOk, SocketAt
    <2> QED BY <1>2, <2>1, <2>2, <2>3, <2>5, Zenon
  <1>7. CASE cleanup
    <2>1. /\ LoopDone /\ ~exited /\ exited' = TRUE
          /\ g_sock' = [g_sock EXCEPT !["pgmsend"] = ReleasedAndNulled(@)]
          /\ UNCHANGED <<step, res, created, k, taken, reported, wire>>
      BY <1>7, Zenon DEF cleanup, pgm_close
    <2>2. g_sock'["pgmsend"] = "NULL" /\ g_sock'["pgmrecv"] = g_sock["pgmrecv"]
      BY <2>1, Zenon DEF ReleasedAndNulled, SenderOk, SocketAt, TypeOK, SocketTypeOK
    <2>3. SocketTypeOK'
      BY <2>1, Zenon DEF ReleasedAndNulled, Released, TypeOK, SocketTypeOK, Pointers
    <2>4. SenderOk'
      BY <2>1, <2>2, Zenon DEF SenderOk, Ended, LoopDone
    <2> QED BY <1>2, <2>1, <2>2, <2>3, <2>4, Zenon DEF TypeOK, SenderTypeOK
  <1>8. CASE pgm_send
    <2>1. /\ created /\ k <= nCounter /\ k' = k + 1
          /\ UNCHANGED <<step, res, g_sock, created, exited>>
          /\ \/ taken' = taken \cup {k} /\ wire' = wire + 1
             \/ UNCHANGED <<taken, wire>>
          /\ reported' \in {reported, reported \cup {k}}
      BY <1>8, Zenon DEF pgm_send, Sending, socketVars
    <2>2. k \in 0..nCounter /\ k + 1 \in 0..(nCounter + 1)
      BY <2>1 DEF TypeOK, SenderTypeOK
    <2>3. TypeOK'
      <3>1. k' \in 0..(nCounter + 1) /\ wire' \in Nat
        BY <2>1, <2>2 DEF TypeOK, SenderTypeOK
      <3>2. taken' \subseteq 0..nCounter /\ reported' \subseteq 0..nCounter
        BY <2>1, <2>2, Zenon DEF TypeOK, SenderTypeOK
      <3>3. SocketTypeOK'
        BY <2>1, Zenon DEF TypeOK, SocketTypeOK
      <3>4. ReceiverTypeOK'
        BY <1>1, Zenon DEF TypeOK, ReceiverTypeOK
      <3>5. lost' \in Nat
        BY <1>1, Zenon DEF TypeOK
      <3> QED BY <2>1, <3>1, <3>2, <3>3, <3>4, <3>5, Zenon DEF TypeOK, SenderTypeOK
    <2>4. SenderOk' /\ ReceiverOk' /\ ThreadOk'
      <3>1. SenderOk'
        BY <2>1, <2>2 DEF SenderOk, SocketAt, Ended
      <3>2. ReceiverOk' /\ ThreadOk'
        BY <1>1, <2>1, Zenon DEF ReceiverOk, ThreadOk, SocketAt, Ended
      <3> QED BY <3>1, <3>2, Zenon
    <2>5. CountOk'
      <3>1. k \notin taken /\ \A i \in taken' : i < k'
        <4>1. \A i \in taken : i \in Nat /\ i < k
          BY DEF CountOk, TypeOK, SenderTypeOK
        <4>2. k \notin taken
          BY <2>2, <4>1
        <4>3. \A i \in taken \cup {k} : i < k + 1
          BY <2>2, <4>1
        <4> QED BY <2>1, <4>2, <4>3, Zenon
      <3>2. IsFiniteSet(0..nCounter)
        BY FS_Interval
      <3>3. IsFiniteSet(taken)
        BY <3>2, FS_Subset, Zenon DEF TypeOK, SenderTypeOK
      <3>4. /\ Cardinality(taken) \in Nat
            /\ Cardinality(taken \cup {k}) = Cardinality(taken) + 1
        BY <3>1, <3>3, FS_CardinalityType, FS_AddElement, Zenon
      <3>5. wire \in Nat /\ iCounter \in Nat /\ pending \in Nat /\ lost \in Nat
        BY Zenon DEF TypeOK, SenderTypeOK, ReceiverTypeOK
      <3>6. EveryMessageCounted'
        <4>1. CASE taken' = taken \cup {k} /\ wire' = wire + 1
          BY <1>1, <3>4, <3>5, <4>1 DEF CountOk, EveryMessageCounted
        <4>2. CASE UNCHANGED <<taken, wire>>
          BY <1>1, <4>2, Zenon DEF CountOk, EveryMessageCounted
        <4> QED BY <2>1, <4>1, <4>2, Zenon
      <3> QED BY <3>1, <3>6, Zenon DEF CountOk
    <2> QED BY <2>3, <2>4, <2>5, Zenon
  <1> QED BY <1>3, <1>4, <1>5, <1>6, <1>7, <1>8, Zenon DEF Sender, SenderMain

(* The steps of the receiver's main. *)
LEMMA ReceiverKeeps == IInv /\ Receiver => IInv'
  <1> SUFFICES ASSUME IInv, Receiver PROVE IInv'
    OBVIOUS
  <1> USE DEF IInv, Programs
  <1>1. UNCHANGED <<created, k, taken, reported, exited, wire, lost>>
    BY Zenon DEF Receiver, senderVars
  <1>2. ASSUME SocketTypeOK', ReceiverTypeOK', ReceiverOk', ThreadOk',
               step'["pgmsend"] = step["pgmsend"], g_sock'["pgmsend"] = g_sock["pgmsend"],
               UNCHANGED <<pending, iCounter>>
        PROVE  IInv'
    <2>1. TypeOK'
      BY <1>1, <1>2, Zenon DEF TypeOK, SenderTypeOK
    <2>2. SenderOk'
      BY <1>1, <1>2, Zenon DEF SenderOk, SocketAt, Ended
    <2>3. CountOk'
      BY <1>1, <1>2, Zenon DEF CountOk, EveryMessageCounted
    <2> QED BY <1>2, <2>1, <2>2, <2>3, Zenon
  <1>3. ASSUME recv_early_return \/ schedule_startup \/ loop_ends \/ write_quit \/ g_thread_join
        PROVE  IInv'
    <2>1. UNCHANGED <<step, res, g_sock, quit_loop, g_loop, pending, resets, thread, watched, iCounter>>
      BY Zenon, <1>3 DEF recv_early_return, schedule_startup, loop_ends, write_quit, g_thread_join,
         socketVars, netVars, recvVars
    <2>2. SocketTypeOK'
      BY <2>1, Zenon DEF TypeOK, SocketTypeOK
    <2>3. ReceiverTypeOK'
      BY Zenon, <1>3, <2>1 DEF recv_early_return, schedule_startup, loop_ends, write_quit,
         g_thread_join, TypeOK, ReceiverTypeOK
    <2>4. ReceiverOk'
      BY Zenon, <1>3, <2>1 DEF recv_early_return, schedule_startup, loop_ends, write_quit,
         g_thread_join, BetweenCallbacks, ReceiverOk, SocketAt, Ended
    <2>5. ThreadOk'
      BY Zenon, <1>3, <2>1 DEF recv_early_return, schedule_startup, loop_ends, write_quit,
         g_thread_join, BetweenCallbacks, ThreadOk
    <2> QED BY <1>2, <2>1, <2>2, <2>3, <2>4, <2>5, Zenon
  <1>4. CASE on_startup
    <2>1. /\ main = "startup" /\ Setup("pgmrecv", "thread")
          /\ UNCHANGED <<main, quit_loop, g_quit, pipe, g_loop, pending, resets, thread, watched,
                         iCounter>>
      BY <1>4, Zenon DEF on_startup, mainVars, netVars, recvVars
    <2>2. /\ SocketTypeOK' /\ SocketAt("pgmrecv")'
          /\ step'["pgmsend"] = step["pgmsend"] /\ g_sock'["pgmsend"] = g_sock["pgmsend"]
      BY <2>1, SetupKeeps, Zenon DEF ReceiverOk, TypeOK
    <2>3. ReceiverTypeOK'
      BY <2>1, Zenon DEF TypeOK, ReceiverTypeOK
    <2>4. ReceiverOk' /\ ThreadOk'
      BY <2>1, <2>2, Zenon DEF ReceiverOk, ThreadOk
    <2> QED BY <1>2, <2>1, <2>2, <2>3, <2>4, Zenon
  <1>5. CASE g_thread_create
    <2>1. /\ main = "startup" /\ Call("pgmrecv", "thread", "up")
          /\ IF Succeeded("pgmrecv") THEN thread' = "epoll_create" /\ main' = "loop"
                                      ELSE UNCHANGED <<thread, main>>
          /\ UNCHANGED <<res, g_sock, quit_loop, g_quit, pipe, g_loop, pending, resets, watched,
                         iCounter>>
      BY <1>5, Zenon DEF g_thread_create, netVars
    <2>2. /\ step["pgmrecv"] = "thread" /\ step'["pgmsend"] = step["pgmsend"]
          /\ \/ step'["pgmrecv"] = "up" /\ thread' = "epoll_create" /\ main' = "loop"
             \/ step'["pgmrecv"] = "abort" /\ UNCHANGED <<thread, main>>
      BY <2>1, Zenon DEF Call, Succeeded, TypeOK, SocketTypeOK
    <2>3. SocketTypeOK'
      BY <2>1, Zenon DEF Call, TypeOK, SocketTypeOK
    <2>4. ReceiverTypeOK'
      BY <2>1, <2>2, Zenon DEF TypeOK, ReceiverTypeOK
    <2>5. ReceiverOk' /\ ThreadOk'
      BY <2>1, <2>2, Zenon DEF ReceiverOk, ThreadOk, SocketAt
    <2> QED BY <1>2, <2>1, <2>2, <2>3, <2>4, <2>5, Zenon
  <1>6. CASE startup_abort
    <2>1. /\ main = "startup" /\ err_abort("pgmrecv") /\ quit_loop' = TRUE /\ main' = "loop"
          /\ UNCHANGED <<g_quit, pipe, g_loop, pending, resets, thread, watched, iCounter>>
      BY <1>6, Zenon DEF startup_abort, netVars, recvVars
    <2>2. /\ SocketTypeOK' /\ SocketAt("pgmrecv")' /\ step'["pgmrecv"] = "failed"
          /\ step'["pgmsend"] = step["pgmsend"] /\ g_sock'["pgmsend"] = g_sock["pgmsend"]
      BY <2>1, AbortKeeps, Zenon DEF ReceiverOk, TypeOK
    <2>3. ReceiverTypeOK'
      BY <2>1, Zenon DEF TypeOK, ReceiverTypeOK
    <2>4. ReceiverOk' /\ ThreadOk'
      BY <2>1, <2>2, Zenon DEF ReceiverOk, ThreadOk
    <2> QED BY <1>2, <2>1, <2>2, <2>3, <2>4, Zenon
  <1>7. CASE main_close
    <2>1. /\ main = "close" /\ main' = "done" /\ g_loop' = "NULL"
          /\ g_sock' = [g_sock EXCEPT !["pgmrecv"] = ReleasedAndNulled(@)]
          /\ UNCHANGED <<step, res, quit_loop, g_quit, pipe, pending, resets, thread, watched,
                         iCounter>>
      BY <1>7, Zenon DEF main_close, pgm_close, netVars, recvVars
    <2>2. g_sock'["pgmrecv"] = "NULL" /\ g_sock'["pgmsend"] = g_sock["pgmsend"]
      BY <2>1, Zenon DEF ReleasedAndNulled, ReceiverOk, SocketAt, TypeOK, SocketTypeOK
    <2>3. SocketTypeOK' /\ ReceiverTypeOK'
      BY <2>1, Zenon DEF ReleasedAndNulled, Released, TypeOK, SocketTypeOK, ReceiverTypeOK, Pointers
    <2>4. ReceiverOk' /\ ThreadOk'
      BY <2>1, <2>2, Zenon DEF ReceiverOk, ThreadOk, Ended
    <2> QED BY <1>2, <2>1, <2>2, <2>3, <2>4, Zenon
  <1> QED BY <1>3, <1>4, <1>5, <1>6, <1>7, Zenon DEF Receiver, ReceiverMain

(* The receiver's thread, a signal and the network leave both sockets and  *)
(* both mains alone.                                                       *)
LEMMA OthersKeep == IInv /\ (Thread \/ Signal \/ Deliver \/ Lose) => IInv'
  <1> SUFFICES ASSUME IInv, Thread \/ Signal \/ Deliver \/ Lose PROVE IInv'
    OBVIOUS
  <1> USE DEF IInv
  <1>1. ASSUME UNCHANGED <<step, res, g_sock, created, k, taken, reported, exited, main, g_quit,
                           pipe, g_loop>>,
               ReceiverTypeOK', wire' \in Nat, lost' \in Nat, EveryMessageCounted',
               thread' = thread \/ (thread' # "none" /\ thread \notin {"none", "returned"})
        PROVE  IInv'
    <2>1. TypeOK'
      BY <1>1, Zenon DEF TypeOK, SocketTypeOK, SenderTypeOK
    <2>2. SenderOk' /\ ReceiverOk'
      BY <1>1, Zenon DEF SenderOk, ReceiverOk, SocketAt, Ended
    <2>3. ThreadOk'
      BY <1>1, Zenon DEF ThreadOk, TypeOK, ReceiverTypeOK
    <2>4. CountOk'
      BY <1>1, Zenon DEF CountOk
    <2> QED BY <2>1, <2>2, <2>3, <2>4, Zenon
  <1>2. wire \in Nat /\ iCounter \in Nat /\ pending \in Nat /\ lost \in Nat /\ resets \in Nat
    BY Zenon DEF TypeOK, SenderTypeOK, ReceiverTypeOK
  <1>3. CASE Thread
    <2>1. UNCHANGED <<step, res, g_sock, created, k, taken, reported, exited, main, g_quit, pipe,
                      g_loop, wire, lost>>
      BY Zenon, <1>3 DEF Thread, ReceiverThread, thread_setup, SetupCall, recv_normal, recv_error,
         recv_block, epoll_wait, socketVars, senderVars, mainVars
    <2>2. Continue \in {"returned", "recvmsgv"}
      BY Zenon DEF Continue
    <2>3. CASE recv_normal
      <3>1. PICK n \in 1..IovLen : /\ n <= pending /\ pending' = pending - n
                                    /\ iCounter' = iCounter + n
        BY <2>3, Zenon DEF recv_normal
      <3>2. pending' \in Nat /\ iCounter' \in Nat /\ iCounter' + pending' = iCounter + pending
        BY <1>2, <3>1
      <3>3. EveryMessageCounted'
        BY <1>2, <2>1, <3>2, Zenon DEF CountOk, EveryMessageCounted
      <3>4. /\ thread = "recvmsgv" /\ thread' \in {"returned", "recvmsgv"}
            /\ UNCHANGED <<quit_loop, g_quit, pipe, g_loop, main, resets, watched>>
        BY <2>2, <2>3, Zenon DEF recv_normal, mainVars
      <3>5. ReceiverTypeOK'
        BY <3>2, <3>4, Zenon DEF TypeOK, ReceiverTypeOK
      <3> QED BY <1>1, <1>2, <2>1, <3>3, <3>4, <3>5, Zenon
    <2>4. ASSUME thread_setup \/ recv_error \/ recv_block \/ epoll_wait PROVE IInv'
      <3>1. /\ UNCHANGED <<pending, iCounter>>
            /\ thread \notin {"none", "returned"} /\ thread' # "none"
        BY <2>2, <2>4, Zenon DEF thread_setup, SetupCall, recv_error, recv_block, epoll_wait, netVars
      <3>2. EveryMessageCounted'
        BY <2>1, <3>1, Zenon DEF CountOk, EveryMessageCounted
      <3>3. ReceiverTypeOK'
        <4>1. CASE thread_setup
          <5>1. /\ thread' \in {"ctl_sock", "ctl_pipe", "recvmsgv", "returned"}
                /\ watched' \subseteq watched \cup {"sock", "pipe"}
                /\ UNCHANGED resets
            BY <4>1, Zenon DEF thread_setup, SetupCall, netVars
          <5>2. quit_loop' \in BOOLEAN
            BY <4>1, Zenon DEF thread_setup, SetupCall, TypeOK, ReceiverTypeOK
          <5> QED BY <2>1, <3>1, <5>1, <5>2, Zenon DEF TypeOK, ReceiverTypeOK
        <4>2. CASE recv_error
          <5>1. resets' \in Nat
            BY <1>2, <4>2 DEF recv_error
          <5>2. thread' \in {"returned", "recvmsgv"} /\ UNCHANGED <<quit_loop, watched>>
            BY <2>2, <4>2, Zenon DEF recv_error, mainVars
          <5> QED BY <2>1, <3>1, <5>1, <5>2, Zenon DEF TypeOK, ReceiverTypeOK
        <4>3. CASE recv_block
          BY <2>1, <4>3, Zenon DEF recv_block, mainVars, netVars, TypeOK, ReceiverTypeOK
        <4>4. CASE epoll_wait
          BY <2>1, <2>2, <4>4, Zenon DEF epoll_wait, mainVars, netVars, TypeOK, ReceiverTypeOK
        <4> QED BY <2>4, <4>1, <4>2, <4>3, <4>4, Zenon
      <3> QED BY <1>1, <1>2, <2>1, <3>1, <3>2, <3>3, Zenon
    <2> QED BY <1>3, <2>3, <2>4, Zenon DEF Thread, ReceiverThread
  <1>4. CASE Signal
    <2>1. /\ quit_loop' = TRUE
          /\ UNCHANGED <<step, res, g_sock, created, k, taken, reported, exited, main, g_quit, pipe,
                         g_loop, wire, lost, pending, resets, thread, watched, iCounter>>
      BY <1>4, Zenon DEF Signal, on_signal, socketVars, senderVars, netVars, recvVars
    <2>2. ReceiverTypeOK' /\ EveryMessageCounted'
      BY <2>1, Zenon DEF TypeOK, ReceiverTypeOK, CountOk, EveryMessageCounted
    <2> QED BY <1>1, <1>2, <2>1, <2>2, Zenon
  <1>5. ASSUME Deliver \/ Lose PROVE IInv'
    <2>1. UNCHANGED <<step, res, g_sock, created, k, taken, reported, exited, main, quit_loop,
                      g_quit, pipe, g_loop, thread, watched, iCounter>>
      BY <1>5, Zenon DEF Deliver, Lose, socketVars, mainVars, recvVars
    <2>2. wire' \in Nat /\ pending' \in Nat /\ lost' \in Nat /\ resets' \in Nat
      BY <1>2, <1>5 DEF Deliver, Lose
    <2>3. ReceiverTypeOK'
      BY <2>1, <2>2, Zenon DEF TypeOK, ReceiverTypeOK
    <2>4. EveryMessageCounted'
      <3> DEFINE n == Cardinality(taken)
      <3>1. iCounter + pending + wire + lost = n /\ Cardinality(taken)' = n /\ iCounter' = iCounter
        BY <2>1, Zenon DEF CountOk, EveryMessageCounted
      <3> HIDE DEF n
      <3>2. CASE Deliver
        <4>1. wire' = wire - 1 /\ pending' = pending + 1 /\ lost' = lost
          BY <3>2, Zenon DEF Deliver
        <4> QED BY <1>2, <3>1, <4>1 DEF EveryMessageCounted
      <3>3. CASE Lose
        <4>1. wire' = wire - 1 /\ lost' = lost + 1 /\ pending' = pending
          BY <3>3, Zenon DEF Lose
        <4> QED BY <1>2, <3>1, <4>1 DEF EveryMessageCounted
      <3> QED BY <1>5, <3>2, <3>3, Zenon
    <2> QED BY <1>1, <2>1, <2>2, <2>3, <2>4, Zenon
  <1> QED BY <1>3, <1>4, <1>5, Zenon

-----------------------------------------------------------------------------
(* The inductive invariant. *)
THEOREM Invariance == Spec => []IInv
<1>1. Init => IInv
  <2> SUFFICES ASSUME Init PROVE IInv
    OBVIOUS
  <2> USE DEF Init, SocketInit, SenderInit, ReceiverInit
  <2>1. TypeOK
    <3>1. SocketTypeOK
      BY Zenon DEF SocketTypeOK, Pointers
    <3>2. k \in 0..(nCounter + 1)
      OBVIOUS
    <3>3. SenderTypeOK
      BY <3>2, Zenon DEF SenderTypeOK
    <3>4. ReceiverTypeOK /\ lost \in Nat
      BY Zenon DEF ReceiverTypeOK
    <3> QED BY <3>1, <3>3, <3>4, Zenon DEF TypeOK
  <2>2. SenderOk /\ ReceiverOk /\ ThreadOk
    BY Zenon DEF SenderOk, ReceiverOk, ThreadOk, SocketAt, Programs
  <2>3. CountOk
    <3>1. taken = {} /\ iCounter = 0 /\ pending = 0 /\ wire = 0 /\ lost = 0
      OBVIOUS
    <3>2. Cardinality(taken) = 0
      BY <3>1, FS_EmptySet, Zenon
    <3> QED BY <3>1, <3>2 DEF CountOk, EveryMessageCounted
  <2> QED BY <2>1, <2>2, <2>3, Zenon DEF IInv
<1>2. IInv /\ UNCHANGED vars => IInv'
  <2> SUFFICES ASSUME IInv, UNCHANGED vars PROVE IInv'
    OBVIOUS
  <2> USE DEF vars, socketVars, senderVars, receiverVars, mainVars, netVars, recvVars
  <2>1. TypeOK'
    <3>1. SocketTypeOK'
      BY Zenon DEF IInv, TypeOK, SocketTypeOK
    <3>2. SenderTypeOK'
      BY Zenon DEF IInv, TypeOK, SenderTypeOK
    <3>3. ReceiverTypeOK' /\ lost' \in Nat
      BY Zenon DEF IInv, TypeOK, ReceiverTypeOK
    <3> QED BY <3>1, <3>2, <3>3, Zenon DEF TypeOK
  <2>2. SenderOk'
    BY Zenon DEF IInv, SenderOk, SocketAt, Ended
  <2>3. ReceiverOk' /\ ThreadOk'
    BY Zenon DEF IInv, ReceiverOk, ThreadOk, SocketAt, Ended
  <2>4. CountOk'
    BY Zenon DEF IInv, CountOk, EveryMessageCounted
  <2> QED BY <2>1, <2>2, <2>3, <2>4, Zenon DEF IInv
<1>3. IInv /\ [Next]_vars => IInv'
  BY <1>2, SenderKeeps, ReceiverKeeps, OthersKeep, Zenon DEF Next
<1> QED BY <1>1, <1>3, PTL DEF Spec

(* main's cleanup (pgmrecv.c:240): the socket, the quit pipe and the loop  *)
(* outlive the receiver thread, whatever fails or is signalled when.       *)
THEOREM ThreadKeepsItsThings == Spec => []NothingTakenAway
<1>1. IInv => NothingTakenAway
  BY Zenon DEF IInv, TypeOK, ReceiverTypeOK, ReceiverOk, ThreadOk, SocketAt, NothingTakenAway
<1> QED BY <1>1, Invariance, PTL

(* on_msgv and the send loop: for any number of messages, failed sends and *)
(* losses, the receiver's count is what arrived.                           *)
THEOREM CountIsExact == Spec => []EveryMessageCounted
<1>1. IInv => EveryMessageCounted
  BY Zenon DEF IInv, CountOk
<1> QED BY <1>1, Invariance, PTL

(* err_abort and the ends of both mains close each socket exactly once.    *)
THEOREM SocketsClosedOnce == Spec => []SocketClosedOnce
<1>1. IInv => SocketClosedOnce
  BY DEF IInv, TypeOK, SenderTypeOK, SenderOk, ReceiverOk, SocketAt, Ended, Programs, Sending,
         SocketClosedOnce
<1> QED BY <1>1, Invariance, PTL
=============================================================================
