-------------------------- MODULE DescriptorProofs --------------------------
(***************************************************************************)
(* The safety of the programs of SocketsAndFiles: the epoll servers, with  *)
(* any combination of trigger modes, and the server that starts a thread   *)
(* for each connection, for any number of clients and any buffer size; the *)
(* asynchronous reads; close_all_fd, for any number of descriptors.        *)
(***************************************************************************)
EXTENDS SocketsAndFiles, TLAPS

-----------------------------------------------------------------------------
(* The connection being read has left the batch. *)
ReadOnce == reading \notin batch

(* A level-triggered descriptor is handled while it is still readable:     *)
(* only the handler itself takes input away.                               *)
LevelHasInput ==
    ConnMode = "LT" => \A c \in (batch \cup {reading}) \cap Clients : Readable(c)

IInv == /\ TypeOK
        /\ ReadOnce
        /\ LevelHasInput
        /\ InputNoticed
        /\ HandledAreOpen
        /\ HealthyStaysOpen

(* The types of the kernel's and the server's state are kept. *)
THEOREM TypeCorrect == Spec => []TypeOK
<1>1. Init => TypeOK
  BY EpollAssumption DEF Init, create_socket, TypeOK
<1>2. TypeOK /\ [Next]_vars => TypeOK'
  <2> SUFFICES ASSUME TypeOK, [Next]_vars PROVE TypeOK'
    OBVIOUS
  <2> USE EpollAssumption DEF TypeOK
  <2>1. ASSUME NEW c \in Clients, Connect(c) PROVE TypeOK'
    BY <2>1 DEF Connect
  <2>2. ASSUME NEW c \in Clients, Send(c) PROVE TypeOK'
    <3>1. PICK n \in 1..MAX_BUFFER_SIZE + 1 : unread' = [unread EXCEPT ![c] = @ + n]
      BY <2>2, Zenon DEF Send
    <3>2. unread' \in [Clients -> Nat] /\ sends' \in [Clients -> Nat]
      BY <2>2, <3>1 DEF Send
    <3> QED BY <2>2, <3>2, Zenon DEF Send, Notify, Open
  <2>3. ASSUME NEW c \in Clients, Shut(c) PROVE TypeOK'
    BY <2>3, Zenon DEF Shut, Notify, Open
  <2>4. ASSUME NEW c \in Clients, Reset(c) PROVE TypeOK'
    BY <2>4, Zenon DEF Reset, Notify, Open
  <2>5. ASSUME epoll_wait PROVE TypeOK'
    BY <2>5, Zenon DEF epoll_wait, kernel, Ready, Open
  <2>6. ASSUME process_accept PROVE TypeOK'
    <3>1. Head(backlog) \in Clients /\ Tail(backlog) \in Seq(Clients)
      BY <2>6 DEF process_accept
    <3> QED BY <2>6, <3>1, Zenon DEF process_accept
  <2>7. ASSUME NEW c \in Clients, process_input(c) PROVE TypeOK'
    BY <2>7, Zenon DEF process_input, kernel
  <2>8. ASSUME NEW c \in Clients, recv_data(c) PROVE TypeOK'
    BY <2>8 DEF recv_data
  <2>9. ASSUME NEW c \in Clients, recv_end(c) PROVE TypeOK'
    BY <2>9, Zenon DEF recv_end, kernel
  <2>10. ASSUME NEW c \in Clients, recv_again(c) PROVE TypeOK'
    BY <2>10, Zenon DEF recv_again, kernel
  <2>11. ASSUME UNCHANGED vars PROVE TypeOK'
    BY <2>11, Zenon DEF vars
  <2> QED
    BY <2>1, <2>2, <2>3, <2>4, <2>5, <2>6, <2>7, <2>8, <2>9, <2>10, <2>11, Zenon
    DEF Next, ClientStep, ServerStep
<1> QED BY <1>1, <1>2, PTL DEF Spec

(* The inductive invariant: one step per action.  Each action moves a      *)
(* connection with input along ready list, batch, reading; only closing it *)
(* or emptying its buffer takes it out.                                    *)
THEOREM Invariance == Spec => []IInv
<1> USE EpollAssumption
<1>1. Init => IInv
  <2> SUFFICES ASSUME Init PROVE IInv
    OBVIOUS
  <2>1. TypeOK
    BY DEF Init, create_socket, TypeOK
  <2>2. Open = {} /\ (batch \cup {reading}) \cap Clients = {}
    BY Zenon DEF Init, create_socket, Open
  <2> QED BY <2>1, <2>2, Zenon DEF Init, create_socket, IInv, ReadOnce, LevelHasInput, InputNoticed, HandledAreOpen, HealthyStaysOpen
<1>2. IInv /\ TypeOK' /\ [Next]_vars => IInv'
  <2> SUFFICES ASSUME IInv, TypeOK', [Next]_vars PROVE IInv'
    OBVIOUS
  <2> USE DEF IInv, TypeOK, ReadOnce, LevelHasInput, InputNoticed, HandledAreOpen,
              HealthyStaysOpen, Ready, Open, Readable
  <2>1. ASSUME NEW c \in Clients, Connect(c) PROVE IInv'
    BY <2>1, Zenon DEF Connect
  <2>2. ASSUME NEW c \in Clients, Send(c) PROVE IInv'
    <3>1. \A d \in Clients : unread'[d] >= unread[d] /\ (d # c => unread'[d] = unread[d])
      BY <2>2 DEF Send
    <3>2. \A d \in Clients : Readable(d) => Readable(d)'
      BY <2>2, <3>1 DEF Send
    <3>3. InputNoticed'
      BY <2>2, <3>1, <3>2, Zenon DEF Send, Notify
    <3> QED BY <2>2, <3>2, <3>3, Zenon DEF Send
  <2>3. ASSUME NEW c \in Clients, Shut(c) PROVE IInv'
    BY <2>3, Zenon DEF Shut, Notify
  <2>4. ASSUME NEW c \in Clients, Reset(c) PROVE IInv'
    BY <2>4 DEF Reset, Notify
  <2>5. ASSUME epoll_wait PROVE IInv'
    BY <2>5 DEF epoll_wait, kernel
  <2>6. ASSUME process_accept PROVE IInv'
    <3> DEFINE c == Head(backlog)
    <3>1. c \in Clients
      BY <2>6 DEF process_accept
    <3>2. /\ conn' = [conn EXCEPT ![c] = "open"]
          /\ edge' = IF Readable(c) THEN edge \cup {c} ELSE edge
          /\ batch' = batch \ {Listener}
          /\ UNCHANGED <<unread, fin, rst, reading>>
      BY <2>6, Zenon DEF process_accept
    <3> HIDE DEF c
    <3>3. \A d \in Clients : Readable(d)' = Readable(d)
      BY <3>2, Zenon
    <3>4. \A d \in Clients : conn'[d] = "open" <=> (conn[d] = "open" \/ d = c)
      BY <3>1, <3>2
    <3>5. (batch' \cup {reading'}) \cap Clients = (batch \cup {reading}) \cap Clients
      BY <3>2
    <3>6. HandledAreOpen' /\ LevelHasInput' /\ ReadOnce'
      BY <3>2, <3>3, <3>4, <3>5, Zenon
    <3>7. InputNoticed'
      <4> SUFFICES ASSUME NEW d \in Clients, conn'[d] = "open", Readable(d)'
                   PROVE  d \in Ready' \cup batch' \cup {reading'}
        BY Zenon DEF InputNoticed, Open
      <4>1. CASE d = c
        BY <4>1, <3>2, <3>3, Zenon
      <4>2. CASE d # c
        BY <4>2, <3>2, <3>3, <3>4, Zenon
      <4> QED BY <4>1, <4>2, Zenon
    <3>8. HealthyStaysOpen'
      BY <3>1, <3>2, Zenon
    <3> QED BY <3>6, <3>7, <3>8, Zenon
  <2>7. ASSUME NEW c \in Clients, process_input(c) PROVE IInv'
    BY <2>7 DEF process_input, kernel
  <2>8. ASSUME NEW c \in Clients, recv_data(c) PROVE IInv'
    BY <2>8, SMTT(30) DEF recv_data
  <2>9. ASSUME NEW c \in Clients, recv_end(c) PROVE IInv'
    BY <2>9 DEF recv_end, kernel
  <2>10. ASSUME NEW c \in Clients, recv_again(c) PROVE IInv'
    BY <2>10 DEF recv_again, kernel
  <2>11. ASSUME UNCHANGED vars PROVE IInv'
    BY <2>11, Zenon DEF vars
  <2> QED
    BY <2>1, <2>2, <2>3, <2>4, <2>5, <2>6, <2>7, <2>8, <2>9, <2>10, <2>11, Zenon
    DEF Next, ClientStep, ServerStep
<1> QED BY <1>1, <1>2, TypeCorrect, PTL DEF Spec

(* No input is forgotten: with edge-triggered sockets because the handler  *)
(* reads until EAGAIN, with level-triggered ones because they stay ready.  *)
THEOREM InputIsNoticed == Spec => []InputNoticed
BY Invariance, PTL DEF IInv

(* The server never closes a connection its client has not ended, although *)
(* the level-triggered handler closes on every -1.                         *)
THEOREM HealthyConnectionsStay == Spec => []HealthyStaysOpen
BY Invariance, PTL DEF IInv

(* No event is handled and nothing is read after the close. *)
THEOREM OnlyOpenHandled == Spec => []HandledAreOpen
BY Invariance, PTL DEF IInv

-----------------------------------------------------------------------------
(* The threaded echo server.  A connection has one number and one thread;  *)
(* until main has created the thread nobody else can get the number, and   *)
(* from then on only the thread gives it back.                             *)

Accepted(c) == client[c] \in {"open", "shut", "reset"}

OneNumberEach ==
    /\ \A f \in Echo!Fds : fds[f] # None => Accepted(fds[f])
    /\ \A f, g \in Echo!Fds : fds[f] # None /\ fds[f] = fds[g] => f = g

OneThreadEach ==
    /\ \A t \in Echo!Threads : thread[t] = "none" <=> owner[t] = None
    /\ \A t \in Echo!Threads : owner[t] # None => Accepted(owner[t])
    /\ \A t, u \in Echo!Threads : owner[t] # None /\ owner[t] = owner[u] => t = u

HandedOver ==
    main = "create" => /\ newconn \in Echo!Fds /\ peer # None /\ fds[newconn] = peer
                     /\ Accepted(peer) /\ \A t \in Echo!Threads : owner[t] # peer

HoldsItsNumber(t) ==
    /\ thread[t] = "born" => cell[t] \in Echo!Fds /\ fds[cell[t]] = owner[t]
    /\ thread[t] \in {"read", "write"} => served[t] \in Echo!Fds /\ fds[served[t]] = owner[t]

(* What the client has sent is echoed, in a thread's buffer or unread, *)
(* in this order.                                                      *)
EchoStream(c) ==
    /\ \A i \in 1..Len(echoed[c]) : echoed[c][i] = i
    /\ Len(echoed[c]) + Len(inbox[c]) <= nsent[c]
    /\ \A i \in 1..Len(inbox[c]) : inbox[c][i] = (nsent[c] - Len(inbox[c])) + i
    /\ (\A t \in Echo!Threads : ~(thread[t] = "write" /\ owner[t] = c)) =>
           Len(echoed[c]) + Len(inbox[c]) = nsent[c]

EchoBuffer(t) ==
    thread[t] = "write" =>
        /\ Len(echoed[owner[t]]) + Len(recvbuf[t]) + Len(inbox[owner[t]]) = nsent[owner[t]]
        /\ \A i \in 1..Len(recvbuf[t]) : recvbuf[t][i] = Len(echoed[owner[t]]) + i

EchoTypes ==
    /\ Echo!TypeOK
    /\ recvbuf \in [Echo!Threads -> Seq(Nat)] /\ nsent \in [Peers -> Nat]
    /\ inbox \in [Peers -> Seq(Nat)] /\ echoed \in [Peers -> Seq(Nat)]

EchoInv ==
    /\ EchoTypes /\ OneNumberEach /\ OneThreadEach /\ HandedOver
    /\ \A t \in Echo!Threads : HoldsItsNumber(t) /\ EchoBuffer(t)
    /\ \A c \in Peers : EchoStream(c)

LEMMA EchoInit ==
    ASSUME Echo!EchoAssumption, Echo!Init PROVE EchoInv
  <1> USE DEF Echo!EchoAssumption, Echo!Init
  <1>2. EchoTypes
    BY DEF EchoTypes, Echo!TypeOK
  <1>3. OneNumberEach /\ OneThreadEach /\ HandedOver
    BY Zenon DEF OneNumberEach, OneThreadEach, HandedOver
  <1>4. \A t \in Echo!Threads : HoldsItsNumber(t) /\ EchoBuffer(t)
    BY Zenon DEF HoldsItsNumber, EchoBuffer
  <1>5. \A c \in Peers : EchoStream(c)
    BY DEF EchoStream
  <1> QED
    BY <1>2, <1>3, <1>4, <1>5, Zenon DEF EchoInv

(* A client's connection is never un-accepted; ERR_EXIT hands over nothing. *)
LEMMA EchoElsewhere ==
    ASSUME EchoInv, main' \in {"setup", "accept", "create", "exit"}, main' = "create" => main = "create",
           client' \in [Peers -> {"new", "waiting", "open", "shut", "reset"}],
           \A c \in Peers : Accepted(c) => Accepted(c)',
           UNCHANGED <<newconn, peer, cell, thread, served, recvbuf, fds, nsent, inbox,
                       echoed, owner>>
    PROVE  EchoInv'
  <1>1. EchoTypes'
    BY Zenon DEF EchoInv, EchoTypes, Echo!TypeOK
  <1>2. OneNumberEach' /\ OneThreadEach' /\ HandedOver'
    BY Zenon DEF EchoInv, OneNumberEach, OneThreadEach, HandedOver, EchoTypes, Echo!TypeOK
  <1>3. \A t \in Echo!Threads : HoldsItsNumber(t)' /\ EchoBuffer(t)'
    BY Zenon DEF EchoInv, HoldsItsNumber, EchoBuffer
  <1>4. \A c \in Peers : EchoStream(c)'
    BY Zenon DEF EchoInv, EchoStream
  <1> QED
    BY <1>1, <1>2, <1>3, <1>4, Zenon DEF EchoInv

LEMMA EchoSend ==
    ASSUME EchoInv, NEW c \in Peers, Echo!Send(c) PROVE EchoInv'
  <1>1. /\ nsent' = [nsent EXCEPT ![c] = nsent[c] + 1]
        /\ inbox' = [inbox EXCEPT ![c] = Append(inbox[c], nsent[c] + 1)]
        /\ UNCHANGED <<main, newconn, peer, cell, owner, thread, served, recvbuf, fds, client, echoed>>
    BY Zenon DEF Echo!Send, Echo!mainVars, Echo!threadVars
  <1>2. nsent[c] \in Nat /\ inbox[c] \in Seq(Nat)
    BY Zenon DEF EchoInv, EchoTypes
  <1>3. /\ \A d \in Peers \ {c} : nsent'[d] = nsent[d] /\ inbox'[d] = inbox[d]
        /\ nsent'[c] = nsent[c] + 1 /\ inbox'[c] = Append(inbox[c], nsent[c] + 1)
    BY <1>1, Zenon DEF EchoInv, EchoTypes
  <1>4. /\ inbox'[c] \in Seq(Nat) /\ Len(inbox'[c]) = Len(inbox[c]) + 1 /\ Len(inbox[c]) \in Nat
        /\ \A i \in 1..Len(inbox[c]) : inbox'[c][i] = inbox[c][i]
        /\ inbox'[c][Len(inbox[c]) + 1] = nsent[c] + 1
    BY <1>2, <1>3
  <1>5. EchoTypes'
    <2>1. inbox' \in [Peers -> Seq(Nat)] /\ nsent' \in [Peers -> Nat]
      BY <1>1, <1>2, <1>4 DEF EchoInv, EchoTypes
    <2> QED
      BY <1>1, <2>1, Zenon DEF EchoInv, EchoTypes, Echo!TypeOK
  <1>6. OneNumberEach' /\ OneThreadEach' /\ HandedOver'
    BY <1>1, Zenon DEF EchoInv, OneNumberEach, OneThreadEach, HandedOver, Accepted
  <1>7. ASSUME NEW t \in Echo!Threads PROVE HoldsItsNumber(t)' /\ EchoBuffer(t)'
    <2>1. HoldsItsNumber(t) /\ EchoBuffer(t)
      BY Zenon DEF EchoInv
    <2>2. HoldsItsNumber(t)'
      BY <1>1, <2>1, Zenon DEF HoldsItsNumber
    <2>3. CASE thread[t] # "write"
      BY <1>1, <2>2, <2>3, Zenon DEF EchoBuffer
    <2>4. CASE thread[t] = "write"
      <3>1. owner[t] \in Peers /\ recvbuf[t] \in Seq(Nat) /\ echoed[owner[t]] \in Seq(Nat)
        BY <2>4, Zenon DEF EchoInv, EchoTypes, OneThreadEach, Echo!TypeOK
      <3>2. \/ nsent'[owner[t]] = nsent[owner[t]] /\ Len(inbox'[owner[t]]) = Len(inbox[owner[t]])
            \/ nsent'[owner[t]] = nsent[owner[t]] + 1 /\ Len(inbox'[owner[t]]) = Len(inbox[owner[t]]) + 1
        BY <1>3, <1>4, <3>1, Zenon
      <3>3. /\ nsent'[owner[t]] \in Nat /\ Len(inbox'[owner[t]]) \in Nat
            /\ nsent[owner[t]] \in Nat /\ Len(inbox[owner[t]]) \in Nat
            /\ Len(recvbuf[t]) \in Nat /\ Len(echoed[owner[t]]) \in Nat
        <4>1. /\ inbox[owner[t]] \in Seq(Nat) /\ inbox'[owner[t]] \in Seq(Nat)
              /\ nsent[owner[t]] \in Nat /\ nsent'[owner[t]] \in Nat
          BY <1>5, <3>1, Zenon DEF EchoInv, EchoTypes
        <4> QED
          BY <3>1, <4>1
      <3>4. Len(echoed[owner[t]]) + Len(recvbuf[t]) + Len(inbox[owner[t]]) = nsent[owner[t]]
        BY <2>1, <2>4, Zenon DEF EchoBuffer
      <3> DEFINE a == Len(echoed[owner[t]])
                 b == Len(recvbuf[t])
                 m == Len(inbox[owner[t]])
                 n == nsent[owner[t]]
                 m1 == Len(inbox'[owner[t]])
                 n1 == nsent'[owner[t]]
      <3>5. a \in Nat /\ b \in Nat /\ m \in Nat /\ n \in Nat /\ m1 \in Nat /\ n1 \in Nat
        BY <3>3, Zenon
      <3>6. a + b + m = n /\ ((m1 = m /\ n1 = n) \/ (m1 = m + 1 /\ n1 = n + 1))
        BY <3>2, <3>4, Zenon
      <3>7. a + b + m1 = n1
        <4> HIDE DEF a, b, m, n, m1, n1
        <4> QED
          BY <3>5, <3>6
      <3> QED
        BY <1>1, <2>1, <2>2, <2>4, <3>7, Zenon DEF EchoBuffer
    <2> QED
      BY <2>3, <2>4, Zenon
  <1>8. ASSUME NEW d \in Peers PROVE EchoStream(d)'
    <2>1. EchoStream(d) /\ Len(echoed[d]) \in Nat
      BY DEF EchoInv, EchoTypes
    <2>2. CASE d # c
      BY <1>1, <1>3, <2>1, <2>2, Zenon DEF EchoStream
    <2>3. CASE d = c
      <3>0. /\ \A i \in 1..Len(inbox[c]) : inbox[c][i] = (nsent[c] - Len(inbox[c])) + i
            /\ Len(echoed[c]) + Len(inbox[c]) <= nsent[c] /\ Len(echoed[c]) \in Nat
        BY <2>1, <2>3, Zenon DEF EchoStream
      <3>1. \A i \in 1..Len(inbox'[c]) : inbox'[c][i] = (nsent'[c] - Len(inbox'[c])) + i
        <4> TAKE i \in 1..Len(inbox'[c])
        <4> DEFINE m == Len(inbox[c])
                   n == nsent[c]
        <4>1. m \in Nat /\ n \in Nat /\ Len(inbox'[c]) = m + 1 /\ nsent'[c] = n + 1
          BY <1>2, <1>3, <1>4, Zenon
        <4>2. i \in 1..m => inbox'[c][i] = (n - m) + i
          BY <1>4, <3>0, Zenon
        <4>3. i = m + 1 => inbox'[c][i] = n + 1
          BY <1>4, Zenon
        <4> HIDE DEF m, n
        <4> QED
          BY <4>1, <4>2, <4>3, SMTT(30)
      <3>2. /\ Len(echoed[c]) + Len(inbox'[c]) <= nsent'[c]
            /\ Len(echoed[c]) + Len(inbox[c]) = nsent[c] =>
                   Len(echoed[c]) + Len(inbox'[c]) = nsent'[c]
        <4> DEFINE a == Len(echoed[c])
                   m == Len(inbox[c])
                   n == nsent[c]
        <4>1. a \in Nat /\ m \in Nat /\ n \in Nat /\ a + m <= n
          BY <1>2, <1>4, <3>0, Zenon
        <4>2. Len(inbox'[c]) = m + 1 /\ nsent'[c] = n + 1
          BY <1>3, <1>4, Zenon
        <4> HIDE DEF a, m, n
        <4>3. a + (m + 1) <= n + 1 /\ (a + m = n => a + (m + 1) = n + 1)
          BY <4>1
        <4> QED
          BY <4>2, <4>3, Zenon DEF a, m, n
      <3> QED
        BY <1>1, <2>1, <2>3, <3>1, <3>2, Zenon DEF EchoStream
    <2> QED
      BY <2>2, <2>3, Zenon
  <1> QED
    BY <1>5, <1>6, <1>7, <1>8, Zenon DEF EchoInv

(* accept: the number is free, so nobody's. *)
LEMMA EchoAccept ==
    ASSUME Echo!EchoAssumption, EchoInv, Echo!accept PROVE EchoInv'
  <1>1. PICK c \in Peers, f \in Echo!LowestFree :
                             /\ client[c] = "waiting" /\ client' = [client EXCEPT ![c] = "open"]
                             /\ newconn' = f /\ fds' = [fds EXCEPT ![f] = c] /\ peer' = c
    BY Zenon DEF Echo!accept
  <1>2. /\ main' = "create"
        /\ UNCHANGED <<cell, owner, thread, served, recvbuf, nsent, inbox, echoed>>
    BY Zenon DEF Echo!accept, Echo!threadVars
  <1>3. f \in Echo!Fds /\ fds[f] = None
    BY <1>1, Zenon DEF Echo!LowestFree, Echo!Lowest
  <1>4. /\ \A d \in Peers : client'[d] = IF d = c THEN "open" ELSE client[d]
        /\ \A g \in Echo!Fds : fds'[g] = IF g = f THEN c ELSE fds[g]
        /\ c # None
    BY <1>1, <1>3, Zenon DEF EchoInv, EchoTypes, Echo!TypeOK, Echo!EchoAssumption
  <1>5. \A d \in Peers : (Accepted(d) => Accepted(d)') /\ Accepted(c)'
    BY <1>4, Zenon DEF Accepted
  <1>6. EchoTypes'
    BY <1>1, <1>2, <1>3, Zenon DEF EchoInv, EchoTypes, Echo!TypeOK
  <1>7. OneNumberEach'
    <2>1. \A g \in Echo!Fds : fds[g] # c
      BY <1>1, <1>4, Zenon DEF EchoInv, OneNumberEach, Accepted
    <2>2. \A g \in Echo!Fds : fds[g] \in Peers \cup {None}
      BY Zenon DEF EchoInv, EchoTypes, Echo!TypeOK
    <2>3. \A g \in Echo!Fds : fds'[g] # None => client'[fds'[g]] \in {"open", "shut", "reset"}
      BY <1>4, <2>2 DEF EchoInv, OneNumberEach, Accepted
    <2>4. \A g, h \in Echo!Fds : fds'[g] # None /\ fds'[g] = fds'[h] => g = h
      BY <1>4, <2>1, Zenon DEF EchoInv, OneNumberEach
    <2> QED
      BY <2>3, <2>4, Zenon DEF OneNumberEach, Accepted
  <1>8. \A t \in Echo!Threads : owner[t] # c /\ owner[t] \in Peers \cup {None}
    BY <1>1, <1>4, Zenon DEF EchoInv, OneThreadEach, Accepted, EchoTypes, Echo!TypeOK
  <1>9. OneThreadEach'
    BY <1>2, <1>5, <1>8, Zenon DEF EchoInv, OneThreadEach, Accepted
  <1>10. HandedOver'
    BY <1>1, <1>2, <1>3, <1>4, <1>5, <1>8, Zenon DEF HandedOver, Accepted
  <1>11. ASSUME NEW t \in Echo!Threads PROVE HoldsItsNumber(t)' /\ EchoBuffer(t)'
    <2>1. HoldsItsNumber(t) /\ EchoBuffer(t)
      BY Zenon DEF EchoInv
    <2>2. thread[t] \in {"born", "read", "write"} => owner[t] # None
      BY Zenon DEF EchoInv, OneThreadEach
    <2>3. HoldsItsNumber(t)'
      BY <1>2, <1>3, <1>4, <2>1, <2>2, Zenon DEF HoldsItsNumber
    <2> QED
      BY <1>2, <2>1, <2>3, Zenon DEF EchoBuffer
  <1>12. \A d \in Peers : EchoStream(d)'
    BY <1>2, Zenon DEF EchoInv, EchoStream
  <1> QED
    BY <1>6, <1>7, <1>9, <1>10, <1>11, <1>12, Zenon DEF EchoInv

(* pthread_create: whether or not there is a thread, it is the first for   *)
(* this connection.                                                        *)
LEMMA EchoCreate ==
    ASSUME Echo!EchoAssumption, EchoInv, Echo!pthread_create PROVE EchoInv'
  <1>0. PICK u \in Echo!NextThread :
             /\ cell' = [cell EXCEPT ![u] = newconn] /\ owner' = [owner EXCEPT ![u] = peer]
             /\ \E s \in {"born", "failed"} : thread' = [thread EXCEPT ![u] = s]
    BY Zenon DEF Echo!pthread_create
  <1>1. /\ main = "create" /\ main' = "accept"
        /\ cell' = [cell EXCEPT ![u] = newconn] /\ owner' = [owner EXCEPT ![u] = peer]
        /\ \E s \in {"born", "failed"} : thread' = [thread EXCEPT ![u] = s]
        /\ UNCHANGED <<newconn, peer, served, recvbuf, fds, client, nsent, inbox, echoed>>
    BY <1>0, Zenon DEF Echo!pthread_create, Echo!netVars
  <1>2. /\ newconn \in Echo!Fds /\ peer \in Peers /\ peer # None /\ fds[newconn] = peer
        /\ Accepted(peer) /\ \A t \in Echo!Threads : owner[t] # peer
    BY <1>1, Zenon DEF EchoInv, HandedOver, EchoTypes, Echo!TypeOK
  <1>3. u \in Echo!Threads /\ owner[u] = None /\ thread[u] = "none"
    BY <1>0, Zenon DEF Echo!NextThread, Echo!Lowest, EchoInv, OneThreadEach
  <1>4. PICK s \in {"born", "failed"} : thread' = [thread EXCEPT ![u] = s]
    BY <1>1, Zenon
  <1>5. /\ cell'[u] = newconn /\ owner'[u] = peer /\ thread'[u] = s
        /\ \A t \in Echo!Threads : t # u => /\ cell'[t] = cell[t] /\ owner'[t] = owner[t]
                                            /\ thread'[t] = thread[t]
    <2>1. /\ cell \in [Echo!Threads -> Echo!Fds \cup {0}] /\ owner \in [Echo!Threads -> Peers \cup {None}]
          /\ thread \in [Echo!Threads -> {"none", "born", "read", "write", "gone", "failed"}]
      BY Zenon DEF EchoInv, EchoTypes, Echo!TypeOK
    <2> QED
      BY <1>1, <1>3, <1>4, <2>1, Zenon
  <1>6. EchoTypes'
    <2>1. /\ cell' \in [Echo!Threads -> Echo!Fds \cup {0}] /\ owner' \in [Echo!Threads -> Peers \cup {None}]
          /\ thread' \in [Echo!Threads -> {"none", "born", "read", "write", "gone", "failed"}]
      BY <1>1, <1>2, <1>3, <1>4, Zenon DEF EchoInv, EchoTypes, Echo!TypeOK
    <2> QED
      BY <1>1, <2>1, Zenon DEF EchoInv, EchoTypes, Echo!TypeOK
  <1>7. OneNumberEach' /\ HandedOver'
    BY <1>1, Zenon DEF EchoInv, OneNumberEach, HandedOver, Accepted
  <1>8. OneThreadEach'
    <2>1. \A t \in Echo!Threads : thread'[t] = "none" <=> owner'[t] = None
      BY <1>2, <1>3, <1>5 DEF EchoInv, OneThreadEach
    <2>2. \A t \in Echo!Threads : owner'[t] # None => client[owner'[t]] \in {"open", "shut", "reset"}
      BY <1>2, <1>3, <1>5, Zenon DEF EchoInv, OneThreadEach, Accepted
    <2>3. \A t, v \in Echo!Threads : owner'[t] # None /\ owner'[t] = owner'[v] => t = v
      BY <1>2, <1>3, <1>5 DEF EchoInv, OneThreadEach
    <2> QED
      BY <1>1, <2>1, <2>2, <2>3, Zenon DEF OneThreadEach, Accepted
  <1>9. ASSUME NEW t \in Echo!Threads PROVE HoldsItsNumber(t)' /\ EchoBuffer(t)'
    <2>1. HoldsItsNumber(t) /\ EchoBuffer(t)
      BY Zenon DEF EchoInv
    <2>2. CASE t = u
      BY <1>1, <1>2, <1>4, <1>5, <2>2, Zenon DEF HoldsItsNumber, EchoBuffer
    <2>3. CASE t # u
      BY <1>1, <1>5, <2>1, <2>3, Zenon DEF HoldsItsNumber, EchoBuffer
    <2> QED
      BY <2>2, <2>3, Zenon
  <1>10. ASSUME NEW c \in Peers PROVE EchoStream(c)'
    <2>1. (\A t \in Echo!Threads : ~(thread'[t] = "write" /\ owner'[t] = c)) =>
          (\A t \in Echo!Threads : ~(thread[t] = "write" /\ owner[t] = c))
      BY <1>3, <1>5, Zenon
    <2> QED
      BY <1>1, <2>1, Zenon DEF EchoInv, EchoStream
  <1> QED
    BY <1>6, <1>7, <1>8, <1>9, <1>10, Zenon DEF EchoInv

LEMMA EchoRoutine ==
    ASSUME EchoInv, NEW u \in Echo!Threads, Echo!thread_routine(u) PROVE EchoInv'
  <1>1. /\ thread[u] = "born" /\ served' = [served EXCEPT ![u] = cell[u]]
        /\ thread' = [thread EXCEPT ![u] = "read"]
        /\ UNCHANGED <<main, newconn, peer, cell, owner, recvbuf, fds, client, nsent, inbox, echoed>>
    BY Zenon DEF Echo!thread_routine, Echo!mainVars, Echo!netVars
  <1>2. /\ served'[u] = cell[u] /\ thread'[u] = "read"
        /\ \A t \in Echo!Threads : t # u => served'[t] = served[t] /\ thread'[t] = thread[t]
    BY <1>1, Zenon DEF EchoInv, EchoTypes, Echo!TypeOK
  <1>3. EchoTypes'
    <2>1. /\ served' \in [Echo!Threads -> Echo!Fds \cup {0}]
          /\ thread' \in [Echo!Threads -> {"none", "born", "read", "write", "gone", "failed"}]
      BY <1>1, Zenon DEF EchoInv, EchoTypes, Echo!TypeOK
    <2> QED
      BY <1>1, <2>1, Zenon DEF EchoInv, EchoTypes, Echo!TypeOK
  <1>4. OneNumberEach' /\ HandedOver'
    BY <1>1, Zenon DEF EchoInv, OneNumberEach, HandedOver, Accepted
  <1>5. OneThreadEach'
    BY <1>1, <1>2 DEF EchoInv, OneThreadEach, Accepted
  <1>6. ASSUME NEW t \in Echo!Threads PROVE HoldsItsNumber(t)' /\ EchoBuffer(t)'
    <2>1. HoldsItsNumber(t) /\ EchoBuffer(t)
      BY Zenon DEF EchoInv
    <2>2. CASE t = u
      BY <1>1, <1>2, <2>1, <2>2, Zenon DEF HoldsItsNumber, EchoBuffer
    <2>3. CASE t # u
      BY <1>1, <1>2, <2>1, <2>3, Zenon DEF HoldsItsNumber, EchoBuffer
    <2> QED
      BY <2>2, <2>3, Zenon
  <1>7. ASSUME NEW c \in Peers PROVE EchoStream(c)'
    <2>1. (\A t \in Echo!Threads : ~(thread'[t] = "write" /\ owner[t] = c)) =>
          (\A t \in Echo!Threads : ~(thread[t] = "write" /\ owner[t] = c))
      BY <1>1, <1>2, Zenon
    <2> QED
      BY <1>1, <2>1, Zenon DEF EchoInv, EchoStream
  <1> QED
    BY <1>3, <1>4, <1>5, <1>6, <1>7, Zenon DEF EchoInv

(* The thread closes its number: nobody else's. *)
LEMMA EchoCloses ==
    ASSUME EchoInv, NEW u \in Echo!Threads, Echo!read_eof(u) PROVE EchoInv'
  <1>1. /\ thread[u] = "read" /\ fds' = [fds EXCEPT ![served[u]] = None]
        /\ thread' = [thread EXCEPT ![u] = "gone"]
        /\ UNCHANGED <<main, newconn, peer, cell, owner, served, recvbuf, client, nsent, inbox, echoed>>
    BY Zenon DEF Echo!read_eof, Echo!mainVars, Echo!netVars
  <1>2. /\ served[u] \in Echo!Fds /\ fds[served[u]] = owner[u]
        /\ owner[u] \in Peers /\ owner[u] # None
    BY <1>1 DEF EchoInv, HoldsItsNumber, OneThreadEach, EchoTypes, Echo!TypeOK
  <1>3. /\ thread'[u] = "gone" /\ \A t \in Echo!Threads : t # u => thread'[t] = thread[t]
        /\ fds'[served[u]] = None /\ \A f \in Echo!Fds : f # served[u] => fds'[f] = fds[f]
    BY <1>1, <1>2, Zenon DEF EchoInv, EchoTypes, Echo!TypeOK
  <1>4. EchoTypes'
    BY <1>1, Zenon DEF EchoInv, EchoTypes, Echo!TypeOK
  <1>5. OneNumberEach'
    <2>1. \A f \in Echo!Fds : fds'[f] # None => fds'[f] = fds[f]
      BY <1>3, Zenon
    <2> QED
      BY <1>1, <2>1 DEF EchoInv, OneNumberEach, Accepted
  <1>6. OneThreadEach'
    BY <1>1, <1>3 DEF EchoInv, OneThreadEach, Accepted
  <1>7. HandedOver'
    BY <1>1, <1>2, <1>3 DEF EchoInv, HandedOver, Accepted
  <1>8. ASSUME NEW t \in Echo!Threads PROVE HoldsItsNumber(t)' /\ EchoBuffer(t)'
    <2>1. HoldsItsNumber(t) /\ EchoBuffer(t)
      BY Zenon DEF EchoInv
    <2>2. thread[t] # "none" /\ t # u => owner[t] # owner[u]
      BY <1>1, <1>2, Zenon DEF EchoInv, OneThreadEach
    <2>3. CASE t = u
      BY <1>1, <1>3, <2>3, Zenon DEF HoldsItsNumber, EchoBuffer
    <2>4. CASE t # u
      <3>1. HoldsItsNumber(t)'
        BY <1>1, <1>2, <1>3, <2>1, <2>2, <2>4, Zenon DEF HoldsItsNumber
      <3> QED
        BY <1>1, <1>3, <2>1, <2>4, <3>1, Zenon DEF EchoBuffer
    <2> QED
      BY <2>3, <2>4, Zenon
  <1>9. ASSUME NEW c \in Peers PROVE EchoStream(c)'
    <2>1. (\A t \in Echo!Threads : ~(thread'[t] = "write" /\ owner[t] = c)) =>
          (\A t \in Echo!Threads : ~(thread[t] = "write" /\ owner[t] = c))
      BY <1>1, <1>3, Zenon
    <2> QED
      BY <1>1, <2>1, Zenon DEF EchoInv, EchoStream
  <1> QED
    BY <1>4, <1>5, <1>6, <1>7, <1>8, <1>9, Zenon DEF EchoInv

(* Threads that serve another client than c are not concerned. *)
LEMMA EchoServes ==
    ASSUME EchoInv, NEW u \in Echo!Threads, thread[u] \in {"read", "write"}
    PROVE  /\ owner[u] \in Peers /\ owner[u] # None /\ Echo!Peer(u) = owner[u]
           /\ \A t \in Echo!Threads : owner[t] = owner[u] => t = u
  BY DEF EchoInv, HoldsItsNumber, OneThreadEach, EchoTypes, Echo!TypeOK, Echo!Peer

LEMMA FirstPart ==
    ASSUME NEW s \in Seq(Nat), NEW n \in Nat, n <= Len(s)
    PROVE  /\ SubSeq(s, 1, n) \in Seq(Nat) /\ Len(SubSeq(s, 1, n)) = n
           /\ \A i \in 1..n : SubSeq(s, 1, n)[i] = s[i]
  <1>1. SubSeq(s, 1, n) \in Seq(Nat)
    OBVIOUS
  <1>2. Len(SubSeq(s, 1, n)) = n
    OBVIOUS
  <1>3. \A i \in 1..n : SubSeq(s, 1, n)[i] = s[i]
    OBVIOUS
  <1> QED
    BY <1>1, <1>2, <1>3, Zenon

LEMMA Joined ==
    ASSUME NEW s \in Seq(Nat), NEW t \in Seq(Nat)
    PROVE  /\ s \o t \in Seq(Nat) /\ Len(s \o t) = Len(s) + Len(t)
           /\ \A i \in 1..Len(s) : (s \o t)[i] = s[i]
           /\ \A i \in 1..Len(t) : (s \o t)[Len(s) + i] = t[i]
  <1>1. s \o t \in Seq(Nat)
    OBVIOUS
  <1>2. Len(s \o t) = Len(s) + Len(t)
    OBVIOUS
  <1>3. \A i \in 1..Len(s) : (s \o t)[i] = s[i]
    OBVIOUS
  <1>4. \A i \in 1..Len(t) : (s \o t)[Len(s) + i] = t[i]
    OBVIOUS
  <1> QED
    BY <1>1, <1>2, <1>3, <1>4, Zenon

LEMMA EchoRead ==
    ASSUME Echo!EchoAssumption, EchoInv, NEW u \in Echo!Threads, Echo!read(u) PROVE EchoInv'
  <1> DEFINE c == owner[u]
  <1>1. thread[u] = "read" /\ Echo!Peer(u) = c /\ c \in Peers
        /\ \A t \in Echo!Threads : owner[t] = c => t = u
    BY EchoServes, Zenon DEF Echo!read
  <1>2. PICK n \in 1..BufSize :
            /\ n <= Len(inbox[c])
            /\ recvbuf' = [recvbuf EXCEPT ![u] = SubSeq(inbox[c], 1, n)]
            /\ inbox' = [inbox EXCEPT ![c] = SubSeq(inbox[c], n + 1, Len(inbox[c]))]
    BY <1>1, Zenon DEF Echo!read
  <1>3. /\ thread' = [thread EXCEPT ![u] = "write"]
        /\ UNCHANGED <<main, newconn, peer, cell, owner, served, fds, client, nsent, echoed>>
    BY Zenon DEF Echo!read, Echo!mainVars
  <1> HIDE DEF c
  <1>4. /\ inbox[c] \in Seq(Nat) /\ Len(inbox[c]) \in Nat /\ nsent[c] \in Nat
        /\ echoed[c] \in Seq(Nat) /\ Len(echoed[c]) \in Nat /\ n \in Nat /\ n >= 1 /\ n <= BufSize
    BY <1>1, <1>2 DEF EchoInv, EchoTypes, Echo!EchoAssumption
  <1>5. /\ thread'[u] = "write" /\ \A t \in Echo!Threads : t # u => thread'[t] = thread[t]
        /\ recvbuf'[u] = SubSeq(inbox[c], 1, n)
        /\ \A t \in Echo!Threads : t # u => recvbuf'[t] = recvbuf[t]
        /\ inbox'[c] = SubSeq(inbox[c], n + 1, Len(inbox[c]))
        /\ \A d \in Peers : d # c => inbox'[d] = inbox[d]
    <2>1. /\ DOMAIN thread = Echo!Threads /\ DOMAIN recvbuf = Echo!Threads /\ DOMAIN inbox = Peers
          /\ recvbuf \in [Echo!Threads -> Seq(Nat)] /\ inbox \in [Peers -> Seq(Nat)]
          /\ thread \in [Echo!Threads -> {"none", "born", "read", "write", "gone", "failed"}]
      BY Zenon DEF EchoInv, EchoTypes, Echo!TypeOK
    <2> QED
      BY <1>1, <1>2, <1>3, <2>1, Zenon
  <1>6. /\ recvbuf'[u] \in Seq(Nat) /\ Len(recvbuf'[u]) = n
        /\ \A i \in 1..n : recvbuf'[u][i] = inbox[c][i]
    <2> DEFINE s == inbox[c]
    <2>1. s \in Seq(Nat) /\ n \in Nat /\ n <= Len(s) /\ recvbuf'[u] = SubSeq(s, 1, n)
      BY <1>2, <1>4, <1>5, Zenon
    <2> HIDE DEF s
    <2>2. /\ recvbuf'[u] \in Seq(Nat) /\ Len(recvbuf'[u]) = n
          /\ \A i \in 1..n : recvbuf'[u][i] = s[i]
      BY <2>1, FirstPart, Zenon
    <2> QED
      BY <2>2, Zenon DEF s
  <1>7. /\ inbox'[c] \in Seq(Nat) /\ Len(inbox'[c]) = Len(inbox[c]) - n
        /\ \A i \in 1..(Len(inbox[c]) - n) : inbox'[c][i] = inbox[c][n + i]
    BY <1>2, <1>4, <1>5, SMTT(30)
  <1>8. EchoTypes'
    <2>1. recvbuf' \in [Echo!Threads -> Seq(Nat)] /\ inbox' \in [Peers -> Seq(Nat)]
      BY <1>1, <1>2, <1>5, <1>6, <1>7, Zenon DEF EchoInv, EchoTypes
    <2>2. thread' \in [Echo!Threads -> {"none", "born", "read", "write", "gone", "failed"}]
      BY <1>3, Zenon DEF EchoInv, EchoTypes, Echo!TypeOK
    <2>3. \A t \in Echo!Threads : Len(recvbuf'[t]) <= BufSize
      BY <1>4, <1>5, <1>6, Zenon DEF EchoInv, EchoTypes, Echo!TypeOK
    <2> QED
      BY <1>3, <2>1, <2>2, <2>3, Zenon DEF EchoInv, EchoTypes, Echo!TypeOK
  <1>9. OneNumberEach' /\ HandedOver'
    BY <1>3, Zenon DEF EchoInv, OneNumberEach, HandedOver, Accepted
  <1>10. OneThreadEach'
    BY <1>1, <1>3, <1>5 DEF EchoInv, OneThreadEach, Accepted
  <1>11. /\ Len(echoed[c]) + Len(inbox[c]) = nsent[c]
         /\ \A i \in 1..Len(inbox[c]) : inbox[c][i] = (nsent[c] - Len(inbox[c])) + i
    <2>1. \A t \in Echo!Threads : ~(thread[t] = "write" /\ owner[t] = c)
      BY <1>1, Zenon
    <2> QED
      BY <1>1, <2>1, Zenon DEF EchoInv, EchoStream
  <1> DEFINE e == Len(echoed[c])
             m == Len(inbox[c])
             k == nsent[c]
  <1>12. /\ e \in Nat /\ m \in Nat /\ k \in Nat /\ e + m = k /\ n \in Nat /\ n <= m
         /\ Len(inbox'[c]) = m - n /\ \A i \in 1..m : inbox[c][i] = (k - m) + i
         /\ \A i \in 1..(m - n) : inbox'[c][i] = inbox[c][n + i]
         /\ \A i \in 1..n : recvbuf'[u][i] = inbox[c][i]
    BY <1>2, <1>4, <1>6, <1>7, <1>11, Zenon
  <1> HIDE DEF e, m, k
  <1>13. e + n + (m - n) = k /\ e + (m - n) <= k /\ k - m = e /\ k - (m - n) = e + n
    BY <1>12, SMTT(30)
  <1>14. /\ \A i \in 1..n : recvbuf'[u][i] = e + i
         /\ \A i \in 1..(m - n) : inbox'[c][i] = (k - (m - n)) + i
    BY <1>12, <1>13, SMTT(30)
  <1>15. ASSUME NEW t \in Echo!Threads PROVE HoldsItsNumber(t)' /\ EchoBuffer(t)'
    <2>1. HoldsItsNumber(t) /\ EchoBuffer(t)
      BY Zenon DEF EchoInv
    <2>2. HoldsItsNumber(t)'
      BY <1>1, <1>3, <1>5, <2>1, Zenon DEF HoldsItsNumber
    <2>3. CASE t = u
      BY <1>3, <1>6, <1>12, <1>13, <1>14, <2>2, <2>3, Zenon DEF EchoBuffer, c, e, m, k
    <2>4. CASE t # u
      <3>1. thread[t] = "write" => owner[t] # c /\ owner[t] \in Peers
        BY <1>1, <2>4, Zenon DEF EchoInv, OneThreadEach, EchoTypes, Echo!TypeOK
      <3> QED
        BY <1>3, <1>5, <2>1, <2>2, <2>4, <3>1, Zenon DEF EchoBuffer
    <2> QED
      BY <2>3, <2>4, Zenon
  <1>16. ASSUME NEW d \in Peers PROVE EchoStream(d)'
    <2>1. EchoStream(d)
      BY Zenon DEF EchoInv
    <2>2. CASE d # c
      <3>1. (\A t \in Echo!Threads : ~(thread'[t] = "write" /\ owner[t] = d)) =>
            (\A t \in Echo!Threads : ~(thread[t] = "write" /\ owner[t] = d))
        BY <1>1, <1>5, Zenon
      <3> QED
        BY <1>3, <1>5, <2>1, <2>2, <3>1, Zenon DEF EchoStream
    <2>3. CASE d = c
      <3>1. \E t \in Echo!Threads : thread'[t] = "write" /\ owner[t] = c
        BY <1>5, Zenon DEF c
      <3> QED
        BY <1>3, <1>12, <1>13, <1>14, <2>1, <2>3, <3>1, Zenon DEF EchoStream, e, m, k
    <2> QED
      BY <2>2, <2>3, Zenon
  <1> QED
    BY <1>8, <1>9, <1>10, <1>15, <1>16, Zenon DEF EchoInv

LEMMA EchoWrite ==
    ASSUME Echo!EchoAssumption, EchoInv, NEW u \in Echo!Threads, Echo!write(u) PROVE EchoInv'
  <1> DEFINE c == owner[u]
  <1>1. thread[u] = "write" /\ Echo!Peer(u) = c /\ c \in Peers
        /\ \A t \in Echo!Threads : owner[t] = c => t = u
    BY EchoServes, Zenon DEF Echo!write
  <1>2. /\ echoed' = [echoed EXCEPT ![c] = echoed[c] \o recvbuf[u]]
        /\ recvbuf' = [recvbuf EXCEPT ![u] = <<>>]
        /\ thread' = [thread EXCEPT ![u] = "read"]
        /\ UNCHANGED <<main, newconn, peer, cell, owner, served, fds, client, nsent, inbox>>
    BY <1>1, Zenon DEF Echo!write, Echo!mainVars
  <1>3. /\ Len(echoed[c]) + Len(recvbuf[u]) + Len(inbox[c]) = nsent[c]
        /\ \A i \in 1..Len(recvbuf[u]) : recvbuf[u][i] = Len(echoed[c]) + i
    BY <1>1, Zenon DEF EchoInv, EchoBuffer
  <1> HIDE DEF c
  <1>4. /\ inbox[c] \in Seq(Nat) /\ Len(inbox[c]) \in Nat /\ nsent[c] \in Nat
        /\ echoed[c] \in Seq(Nat) /\ Len(echoed[c]) \in Nat
        /\ recvbuf[u] \in Seq(Nat) /\ Len(recvbuf[u]) \in Nat
    BY <1>1 DEF EchoInv, EchoTypes
  <1>5. /\ thread'[u] = "read" /\ \A t \in Echo!Threads : t # u => thread'[t] = thread[t]
        /\ recvbuf'[u] = <<>> /\ \A t \in Echo!Threads : t # u => recvbuf'[t] = recvbuf[t]
        /\ echoed'[c] = echoed[c] \o recvbuf[u]
        /\ \A d \in Peers : d # c => echoed'[d] = echoed[d]
    <2>1. /\ recvbuf \in [Echo!Threads -> Seq(Nat)] /\ echoed \in [Peers -> Seq(Nat)]
          /\ thread \in [Echo!Threads -> {"none", "born", "read", "write", "gone", "failed"}]
      BY Zenon DEF EchoInv, EchoTypes, Echo!TypeOK
    <2> QED
      BY <1>1, <1>2, <2>1, Zenon
  <1>6. /\ echoed'[c] \in Seq(Nat) /\ Len(echoed'[c]) = Len(echoed[c]) + Len(recvbuf[u])
        /\ \A i \in 1..Len(echoed[c]) : echoed'[c][i] = echoed[c][i]
        /\ \A i \in 1..Len(recvbuf[u]) : echoed'[c][Len(echoed[c]) + i] = recvbuf[u][i]
    <2> DEFINE s == echoed[c]
               t == recvbuf[u]
    <2>1. s \in Seq(Nat) /\ t \in Seq(Nat) /\ echoed'[c] = s \o t
      BY <1>4, <1>5, Zenon
    <2> HIDE DEF s, t
    <2>2. /\ echoed'[c] \in Seq(Nat) /\ Len(echoed'[c]) = Len(s) + Len(t)
          /\ \A i \in 1..Len(s) : echoed'[c][i] = s[i]
          /\ \A i \in 1..Len(t) : echoed'[c][Len(s) + i] = t[i]
      BY <2>1, Joined
    <2> QED
      BY <2>2, Zenon DEF s, t
  <1>7. EchoTypes'
    <2>1. recvbuf' \in [Echo!Threads -> Seq(Nat)] /\ echoed' \in [Peers -> Seq(Nat)]
      <3>1. <<>> \in Seq(Nat)
        OBVIOUS
      <3> QED
        BY <1>1, <1>2, <1>5, <1>6, <3>1, Zenon DEF EchoInv, EchoTypes
    <2>2. thread' \in [Echo!Threads -> {"none", "born", "read", "write", "gone", "failed"}]
      BY <1>2, Zenon DEF EchoInv, EchoTypes, Echo!TypeOK
    <2>3. \A t \in Echo!Threads : Len(recvbuf'[t]) <= BufSize
      <3>1. Len(recvbuf'[u]) = 0 /\ 0 <= BufSize
        BY <1>5 DEF Echo!EchoAssumption
      <3> QED
        BY <1>5, <3>1, Zenon DEF EchoInv, EchoTypes, Echo!TypeOK
    <2> QED
      BY <1>2, <2>1, <2>2, <2>3, Zenon DEF EchoInv, EchoTypes, Echo!TypeOK
  <1>8. OneNumberEach' /\ HandedOver'
    BY <1>2, Zenon DEF EchoInv, OneNumberEach, HandedOver, Accepted
  <1>9. OneThreadEach'
    BY <1>1, <1>2, <1>5 DEF EchoInv, OneThreadEach, Accepted
  <1>10. ASSUME NEW t \in Echo!Threads PROVE HoldsItsNumber(t)' /\ EchoBuffer(t)'
    <2>1. HoldsItsNumber(t) /\ EchoBuffer(t)
      BY Zenon DEF EchoInv
    <2>2. HoldsItsNumber(t)'
      BY <1>1, <1>2, <1>5, <2>1, Zenon DEF HoldsItsNumber
    <2>3. CASE t = u
      BY <1>5, <2>2, <2>3, Zenon DEF EchoBuffer
    <2>4. CASE t # u
      <3>1. thread[t] = "write" => owner[t] # c /\ owner[t] \in Peers
        BY <1>1, <2>4, Zenon DEF EchoInv, OneThreadEach, EchoTypes, Echo!TypeOK
      <3> QED
        <4>1. thread'[t] = thread[t] /\ owner'[t] = owner[t] /\ recvbuf'[t] = recvbuf[t]
          BY <1>2, <1>5, <2>4, Zenon
        <4>2. thread[t] = "write" => /\ echoed'[owner[t]] = echoed[owner[t]]
                                     /\ inbox'[owner[t]] = inbox[owner[t]]
                                     /\ nsent'[owner[t]] = nsent[owner[t]]
          BY <1>2, <1>5, <3>1, Zenon
        <4> QED
          BY <2>1, <2>2, <4>1, <4>2, Zenon DEF EchoBuffer
    <2> QED
      BY <2>3, <2>4, Zenon
  <1> DEFINE e == Len(echoed[c])
             b == Len(recvbuf[u])
             m == Len(inbox[c])
             k == nsent[c]
  <1>11. /\ e \in Nat /\ b \in Nat /\ m \in Nat /\ k \in Nat /\ e + b + m = k
         /\ Len(echoed'[c]) = e + b /\ \A i \in 1..e : echoed'[c][i] = i
         /\ \A i \in 1..b : echoed'[c][e + i] = e + i
         /\ \A i \in 1..m : inbox[c][i] = (k - m) + i
    BY <1>1, <1>3, <1>4, <1>6, Zenon DEF EchoInv, EchoStream
  <1>12. /\ e + b + m <= k /\ \A i \in 1..(e + b) : echoed'[c][i] = i
    <2> HIDE DEF e, b, m, k
    <2>1. e + b + m <= k
      BY <1>11
    <2>2. ASSUME NEW i \in 1..(e + b) PROVE echoed'[c][i] = i
      <3>1. CASE i <= e
        BY <1>11, <2>2, <3>1
      <3>2. CASE i > e
        <4>1. i - e \in 1..b /\ e + (i - e) = i
          BY <1>11, <2>2, <3>2
        <4> QED
          BY <1>11, <4>1, Zenon
      <3> QED
        BY <1>11, <2>2, <3>1, <3>2
    <2> QED
      BY <2>1, <2>2, Zenon
  <1>13. ASSUME NEW d \in Peers PROVE EchoStream(d)'
    <2>1. EchoStream(d)
      BY Zenon DEF EchoInv
    <2>2. CASE d # c
      <3>1. (\A t \in Echo!Threads : ~(thread'[t] = "write" /\ owner[t] = d)) =>
            (\A t \in Echo!Threads : ~(thread[t] = "write" /\ owner[t] = d))
        BY <1>5, <2>2, Zenon DEF c
      <3> QED
        BY <1>2, <1>5, <2>1, <2>2, <3>1, Zenon DEF EchoStream
    <2>3. CASE d = c
      BY <1>2, <1>11, <1>12, <2>3, Zenon DEF EchoStream
    <2> QED
      BY <2>2, <2>3, Zenon
  <1> QED
    BY <1>7, <1>8, <1>9, <1>10, <1>13, Zenon DEF EchoInv

LEMMA EchoStep ==
    ASSUME Echo!EchoAssumption, EchoInv, [Echo!Next]_(Echo!vars) PROVE EchoInv'
  <1> USE DEF Echo!mainVars, Echo!threadVars, Echo!netVars
  <1>1. client \in [Peers -> {"new", "waiting", "open", "shut", "reset"}] /\ main \in {"setup", "accept", "create", "exit"}
    BY Zenon DEF EchoInv, EchoTypes, Echo!TypeOK
  <1>2. ASSUME NEW c \in Peers, Echo!Connect(c) \/ Echo!Shutdown(c) \/ Echo!Reset(c) PROVE EchoInv'
    <2>1. PICK s \in {"waiting", "shut", "reset"} :
              /\ client' = [client EXCEPT ![c] = s] /\ (client[c] = "new" \/ s # "waiting")
              /\ UNCHANGED <<main, newconn, peer, cell, owner, thread, served, recvbuf, fds, nsent, inbox, echoed>>
      BY <1>2, Zenon DEF Echo!Connect, Echo!Shutdown, Echo!Reset
    <2>2. /\ client' \in [Peers -> {"new", "waiting", "open", "shut", "reset"}]
          /\ client'[c] = s /\ \A d \in Peers : d # c => client'[d] = client[d]
      BY <1>1, <2>1, Zenon
    <2>3. \A d \in Peers : Accepted(d) => Accepted(d)'
      BY <2>1, <2>2, Zenon DEF Accepted
    <2> QED
      BY <1>1, <2>1, <2>2, <2>3, EchoElsewhere, Zenon
  <1>3. CASE Echo!setup \/ Echo!accept_fails \/ \E t \in Echo!Threads : Echo!peer_reset(t)
    <2>1. /\ main' \in {"accept", "exit"}
          /\ UNCHANGED <<newconn, peer, cell, owner, thread, served, recvbuf, fds, client, nsent, inbox, echoed>>
      BY <1>3, Zenon DEF Echo!setup, Echo!accept_fails, Echo!peer_reset, Echo!ERR_EXIT
    <2>2. \A d \in Peers : Accepted(d) => Accepted(d)'
      BY <2>1, Zenon DEF Accepted
    <2> QED
      BY <1>1, <2>1, <2>2, EchoElsewhere, Zenon
  <1>4. CASE UNCHANGED Echo!vars
    <2>1. UNCHANGED <<main, newconn, peer, cell, owner, thread, served, recvbuf, fds, client, nsent, inbox, echoed>>
      BY <1>4, Zenon DEF Echo!vars
    <2>2. \A d \in Peers : Accepted(d) => Accepted(d)'
      BY <2>1, Zenon DEF Accepted
    <2> QED
      BY <1>1, <2>1, <2>2, EchoElsewhere, Zenon
  <1> QED
    BY <1>2, <1>3, <1>4, EchoSend, EchoAccept, EchoCreate, EchoRoutine, EchoCloses, EchoRead, EchoWrite, Zenon
    DEF Echo!Next, Echo!Main, Echo!Thread, Echo!Client

(* clientThread.c: whatever number accept reuses and however late a thread *)
(* reads its cell, each thread serves the connection it was created for,   *)
(* and what a client gets back is what it sent, in order.                  *)
THEOREM EachServesItsOwn ==
    ASSUME Echo!EchoAssumption PROVE Echo!Spec => []ServesItsOwn
  <1>1. Echo!Init => EchoInv
    BY EchoInit, Zenon
  <1>2. EchoInv /\ [Echo!Next]_(Echo!vars) => EchoInv'
    BY EchoStep, Zenon
  <1>3. EchoInv => ServesItsOwn
    <2> SUFFICES ASSUME EchoInv PROVE ServesItsOwn
      OBVIOUS
    <2>1. \A t \in Echo!Threads : thread[t] \in {"read", "write"} => Echo!Peer(t) = owner[t]
      BY EchoServes, Zenon
    <2>2. ASSUME NEW c \in Peers PROVE Len(echoed[c]) <= nsent[c] /\ \A i \in 1..Len(echoed[c]) : echoed[c][i] = i
      <3>1. Len(echoed[c]) \in Nat /\ Len(inbox[c]) \in Nat /\ nsent[c] \in Nat
        BY DEF EchoInv, EchoTypes
      <3>2. Len(echoed[c]) + Len(inbox[c]) <= nsent[c] /\ \A i \in 1..Len(echoed[c]) : echoed[c][i] = i
        BY Zenon DEF EchoInv, EchoStream
      <3> DEFINE e == Len(echoed[c])
                 m == Len(inbox[c])
      <3>3. e \in Nat /\ m \in Nat /\ e + m <= nsent[c]
        BY <3>1, <3>2, Zenon
      <3>4. e <= nsent[c]
        <4> HIDE DEF e, m
        <4> QED
          BY <3>1, <3>3
      <3> QED
        BY <3>2, <3>4, Zenon
    <2> QED
      BY <2>1, <2>2, Zenon DEF ServesItsOwn, Echo!ServesItsOwn
  <1> QED
    BY <1>1, <1>2, <1>3, PTL DEF Echo!Spec

-----------------------------------------------------------------------------
(* The asynchronous reads.  test_aio_sample leaves its loop only when the  *)
(* read is done; until it returns, its frame is there, and                 *)
(* test_aio_suspend has started nothing.                                   *)

SampleRuns ==
    test = "sample" =>
        /\ req["suspend"] = "none" /\ frame["sample"] /\ ~stray
        /\ at \notin {"wait", "main returns"}
        /\ at \in {"open", "poll"} => shown["sample"] = -1
        /\ at \in {"print", "return"} => req["sample"] = "done"

SuspendRuns ==
    test = "suspend" =>
        /\ req["sample"] = "done"
        /\ at = "open" => req["suspend"] = "none" /\ ~stray

AioInv ==
    /\ test \in {"sample", "suspend"}
    /\ req \in [{"sample", "suspend"} -> {"none", "in progress", "done"}]
    /\ shown = [t \in {"sample", "suspend"} |-> shown[t]]
    /\ SampleRuns /\ SuspendRuns /\ Aio!SampleComplete

LEMMA AioStep ==
    ASSUME AioInv, [Aio!Next]_(Aio!vars) PROVE AioInv'
  <1> USE DEF AioInv, SampleRuns, SuspendRuns, Aio!SampleComplete
  <1>1. CASE Aio!start_fails
    BY <1>1, Zenon DEF Aio!start_fails
  <1>2. CASE Aio!aio_read
    BY <1>2, Zenon DEF Aio!aio_read
  <1>3. CASE Aio!aio_error
    BY <1>3, Zenon DEF Aio!aio_error
  <1>4. CASE Aio!aio_suspend
    BY <1>4, Zenon DEF Aio!aio_suspend
  <1>5. CASE Aio!print
    <2>1. PICK len : shown' = [shown EXCEPT ![test] = len]
      BY <1>5, Zenon DEF Aio!print
    <2>2. /\ shown' = [t \in {"sample", "suspend"} |-> shown'[t]]
          /\ test = "suspend" => shown'["sample"] = shown["sample"]
      BY <2>1, Zenon
    <2> QED
      BY <1>5, <2>2, Zenon DEF Aio!print
  <1>6. CASE Aio!return
    BY <1>6, Zenon DEF Aio!return
  <1>7. CASE Aio!main_returns
    BY <1>7, Zenon DEF Aio!main_returns
  <1>8. ASSUME NEW t \in Aio!Tests, Aio!Complete(t) PROVE AioInv'
    <2>1. t = "sample" \/ t = "suspend"
      BY Zenon DEF Aio!Tests
    <2> QED
      BY <1>8, <2>1, Zenon DEF Aio!Complete
  <1>9. CASE UNCHANGED Aio!vars
    BY <1>9, Zenon DEF Aio!vars
  <1> QED
    BY <1>1, <1>2, <1>3, <1>4, <1>5, <1>6, <1>7, <1>8, <1>9, Zenon DEF Aio!Next, Aio!Main

(* aio_sample.cpp: when test_aio_sample prints, its read is done, and no   *)
(* result is written into its frame after it has gone.                     *)
THEOREM SampleReadIsDone ==
    Aio!Spec => []SampleComplete
  <1>1. Aio!Init => AioInv
    <2> SUFFICES ASSUME Aio!Init PROVE AioInv
      OBVIOUS
    <2>1. frame["sample"] /\ ~stray
      BY Zenon DEF Aio!Init, Aio!Tests
    <2>2. /\ req = [t \in {"sample", "suspend"} |-> "none"] /\ shown = [t \in {"sample", "suspend"} |-> -1]
          /\ test = "sample" /\ at = "open"
      BY Zenon DEF Aio!Init, Aio!Tests
    <2> QED
      BY <2>1, <2>2, Zenon DEF AioInv, SampleRuns, SuspendRuns, SampleComplete, Aio!SampleComplete
  <1>2. AioInv /\ [Aio!Next]_(Aio!vars) => AioInv'
    BY AioStep, Zenon
  <1>3. AioInv => SampleComplete
    BY Zenon DEF AioInv, SampleComplete
  <1> QED
    BY <1>1, <1>2, <1>3, PTL DEF Aio!Spec

-----------------------------------------------------------------------------
(* close_all_fd.  As long as a walk has closed nothing, whatever is to be  *)
(* closed is still ahead of it.                                            *)

WalkInv ==
    /\ dir \in (open \cap Closefd!Fds) \ initial /\ open \subseteq initial \cup {dir}
    /\ left \subseteq Closefd!Fds
    /\ (pc = "walk" /\ ~rewind) => open \ (Closefd!Std \cup {dir}) \subseteq left
    /\ (pc = "closedir" /\ retval = 0) => open \subseteq Closefd!Std \cup {dir}

CloseInv ==
    /\ pc \in {"opendir", "walk", "closedir", "returned"}
    /\ open \subseteq Closefd!Fds /\ Closefd!Std \subseteq open /\ Closefd!Std \subseteq initial
    /\ initial \subseteq Closefd!Fds /\ rewind \in BOOLEAN
    /\ pc = "opendir" => open = initial /\ Closefd!Fds \ open # {} /\ rewind = FALSE
    /\ pc \in {"walk", "closedir"} => WalkInv
    /\ pc = "returned" => open \subseteq initial /\ (retval = 0 => open = Closefd!Std)

LEMMA CloseInit == ASSUME Closefd!FdAssumption, Closefd!Init PROVE CloseInv
  <1>1. PICK s \in SUBSET (Closefd!Fds \ Closefd!Std) :
            s # Closefd!Fds \ Closefd!Std /\ open = Closefd!Std \cup s
    BY Zenon DEF Closefd!Init
  <1>2. Closefd!Std \subseteq Closefd!Fds
    BY DEF Closefd!Std, Closefd!Fds, Closefd!FdAssumption
  <1> QED
    BY <1>1, <1>2, Zenon DEF CloseInv, Closefd!Init

LEMMA CloseStep ==
    ASSUME Closefd!FdAssumption, CloseInv, [Closefd!Next]_(Closefd!vars) PROVE CloseInv'
  <1>1. CASE Closefd!opendir
    <2>2. dir' \in Closefd!Fds \ open
      BY <1>1, Zenon DEF Closefd!opendir, Closefd!Lowest
    <2> QED
      BY <1>1, <2>2, Zenon DEF CloseInv, WalkInv, Closefd!opendir
  <1>2. CASE Closefd!opendir_fails
    BY <1>2 DEF CloseInv, WalkInv, Closefd!opendir_fails
  <1>3. CASE Closefd!readdir_fails
    BY <1>3 DEF CloseInv, WalkInv, Closefd!readdir_fails
  <1>4. CASE Closefd!walk_ends
    <2>1. CASE rewind
      BY <1>4, <2>1, Zenon DEF CloseInv, WalkInv, Closefd!walk_ends
    <2>2. CASE ~rewind
      BY <1>4, <2>2, Zenon DEF CloseInv, WalkInv, Closefd!walk_ends
    <2> QED
      BY <2>1, <2>2, Zenon
  <1>5. CASE Closefd!skip
    <2>0. \A link \in Closefd!LinkResults : ~Closefd!IsSkipped(link)
      <3> TAKE link \in Closefd!LinkResults
      <3>1. CASE link = [ret |-> -1, name |-> ""]
        <4>1. link.ret = -1
          BY <3>1, Zenon
        <4> QED
          BY <4>1 DEF Closefd!IsSkipped
      <3>2. CASE link = [ret |-> 0, name |-> ""]
        <4>1. link.name = ""
          BY <3>2, Zenon
        <4> QED
          BY <4>1, Zenon DEF Closefd!IsSkipped
      <3>3. CASE link = [ret |-> 7, name |-> "socket:"]
        <4>1. link.ret = 7
          BY <3>3, Zenon
        <4> QED
          BY <4>1 DEF Closefd!IsSkipped
      <3> QED
        BY <3>1, <3>2, <3>3, Zenon DEF Closefd!LinkResults
    <2>1. PICK fd \in left : (fd = dir \/ fd < 3) /\ left' = left \ {fd}
      BY <1>5, <2>0, Zenon DEF Closefd!skip, Closefd!Kept
    <2>2. fd = dir \/ fd \in Closefd!Std
      BY <1>5, <2>1 DEF CloseInv, WalkInv, Closefd!skip, Closefd!Std, Closefd!Fds, Closefd!FdAssumption
    <2> QED
      BY <1>5, <2>1, <2>2, Zenon DEF CloseInv, WalkInv, Closefd!skip
  <1>6. CASE Closefd!close
    <2>1. PICK fd \in left : /\ fd # dir /\ ~(fd < 3) /\ open' = open \ {fd}
                             /\ left' \subseteq left
      BY <1>6, Zenon DEF Closefd!close, Closefd!Kept
    <2>2. fd \notin Closefd!Std
      BY <2>1 DEF Closefd!Std
    <2> QED
      BY <1>6, <2>1, <2>2, Zenon DEF CloseInv, WalkInv, Closefd!close
  <1>7. CASE Closefd!close_fails
    BY <1>7 DEF CloseInv, WalkInv, Closefd!close_fails
  <1>8. CASE Closefd!closedir
    BY <1>8, Zenon DEF CloseInv, WalkInv, Closefd!closedir
  <1>9. CASE UNCHANGED Closefd!vars
    BY <1>9, Zenon DEF CloseInv, WalkInv, Closefd!vars
  <1> QED
    BY <1>1, <1>2, <1>3, <1>4, <1>5, <1>6, <1>7, <1>8, <1>9, Zenon DEF Closefd!Next, Closefd!Step

(* tcp_reuse_port_test.c: however many entries single walks miss, when     *)
(* close_all_fd returns 0 the standard streams are open and nothing else.  *)
THEOREM AllIsClosed ==
    ASSUME Closefd!FdAssumption PROVE Closefd!Spec => []ClosesAll
  <1>1. Closefd!Init => CloseInv
    BY CloseInit, Zenon
  <1>2. CloseInv /\ [Closefd!Next]_(Closefd!vars) => CloseInv'
    BY CloseStep, Zenon
  <1>3. CloseInv => ClosesAll
    BY Zenon DEF CloseInv, ClosesAll, Closefd!ClosesAll
  <1> QED
    BY <1>1, <1>2, <1>3, PTL DEF Closefd!Spec
=============================================================================
