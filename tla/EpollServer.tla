----------------------------- MODULE EpollServer ----------------------------
(***************************************************************************)
(* The epoll servers of src/IO: epoll_test.c, and epoll_lt_et.c with the   *)
(* trigger modes its main and its comments choose between.  One thread     *)
(* waits for events, takes a batch of them, accepts one connection for an  *)
(* event of the listening socket and reads from the others.                *)
(*                                                                         *)
(* External, from how the servers use it: the kernel's accept queue        *)
(* (backlog), receive buffers (unread, fin, rst) and epoll's ready list    *)
(* (edge).  A level-triggered descriptor is ready while it is readable, an *)
(* edge-triggered one if something arrived since it was last reported.     *)
(***************************************************************************)
EXTENDS Naturals, Sequences, FiniteSets

CONSTANTS
    Clients,
    MaxSend,        \* bound: sends of a client
    MAX_BUFFER_SIZE,
    MaxEvents,      \* MAX_EPOLL_EVENTS, MAX_EVENT_FD_SIZE
    Backlog,        \* listen's second argument
    ListenMode,     \* "LT" or "ET": how the listening socket is registered
    ConnMode,       \* the same for the accepted ones
    NonBlock,       \* accepted sockets are set non-blocking
    Listener,       \* the listening socket
    None

ASSUME EpollAssumption ==
    /\ Listener \notin Clients /\ None \notin Clients \cup {Listener}
    /\ MAX_BUFFER_SIZE \in Nat \ {0} /\ MaxEvents \in Nat \ {0} /\ Backlog \in Nat
    /\ MaxSend \in Nat /\ NonBlock \in BOOLEAN
    /\ ListenMode \in {"LT", "ET"} /\ ConnMode \in {"LT", "ET"}

VARIABLES
    backlog,    \* connections not accepted yet, in order
    sends,      \* sends each client made (the bound)
    unread,     \* bytes in the receive buffer of a connection
    fin,        \* clients that closed their side
    rst,        \* clients that reset the connection
    edge,       \* epoll's ready list
    conn,       \* the server's descriptor for a client: "none", "open", "closed"
    batch,      \* events of the last epoll_wait still to be handled
    reading,    \* the connection the server is reading, or None
    connected   \* clients that have connected

kernel == <<backlog, sends, unread, fin, rst, connected>>
vars   == <<backlog, sends, unread, fin, rst, edge, conn, batch, reading, connected>>

(* The listening socket, before anybody connects. *)
create_socket == backlog = <<>> /\ connected = {}

Init ==
    /\ create_socket
    /\ sends = [c \in Clients |-> 0] /\ unread = [c \in Clients |-> 0]
    /\ fin = {} /\ rst = {}
    /\ edge = {}
    /\ conn = [c \in Clients |-> "none"]
    /\ batch = {} /\ reading = None

Readable(c) == unread[c] > 0 \/ c \in fin \cup rst

Open == {c \in Clients : conn[c] = "open"}

-----------------------------------------------------------------------------
(* The clients and the kernel.                                             *)

(* Input of c: epoll hears of it if the server has registered c. *)
Notify(c) == edge' = edge \cup ({c} \cap Open)

Connect(c) ==
    /\ c \notin connected /\ Len(backlog) < Backlog
    /\ connected' = connected \cup {c}
    /\ backlog' = Append(backlog, c)
    /\ edge' = edge \cup {Listener}
    /\ UNCHANGED <<sends, unread, fin, rst, conn, batch, reading>>

Send(c) ==
    /\ c \in connected \ (fin \cup rst) /\ conn[c] # "closed" /\ sends[c] < MaxSend
    /\ sends' = [sends EXCEPT ![c] = @ + 1]
    /\ \E n \in 1..MAX_BUFFER_SIZE + 1 : unread' = [unread EXCEPT ![c] = @ + n]
    /\ Notify(c)
    /\ UNCHANGED <<backlog, fin, rst, conn, batch, reading, connected>>

Shut(c) ==
    /\ c \in connected \ (fin \cup rst)
    /\ fin' = fin \cup {c}
    /\ Notify(c)
    /\ UNCHANGED <<backlog, sends, unread, rst, conn, batch, reading, connected>>

(* A reset discards what was not read. *)
Reset(c) ==
    /\ c \in connected \ rst
    /\ rst' = rst \cup {c}
    /\ unread' = [unread EXCEPT ![c] = 0]
    /\ Notify(c)
    /\ UNCHANGED <<backlog, sends, fin, conn, batch, reading, connected>>

-----------------------------------------------------------------------------
(* The server.                                                             *)

(* What epoll_wait can report: descriptors with input, if edge-triggered   *)
(* only those in the ready list.                                           *)
Ready == {c \in Open : Readable(c) /\ (ConnMode = "ET" => c \in edge)}
           \cup {l \in {Listener} : backlog # <<>> /\ (ListenMode = "ET" => l \in edge)}

(* epoll_wait: up to MaxEvents ready descriptors.  What is reported leaves *)
(* the ready list.                                                         *)
epoll_wait ==
    /\ batch = {} /\ reading = None
    /\ Ready # {}
    /\ batch' \in SUBSET Ready
    /\ Cardinality(batch') = IF Cardinality(Ready) < MaxEvents THEN Cardinality(Ready)
                             ELSE MaxEvents
    /\ edge' = edge \ batch'
    /\ UNCHANGED <<kernel, conn, reading>>

(* An event of the listening socket: one accept, and the new socket goes   *)
(* into epoll, which looks at once whether there is input already.         *)
process_accept ==
    /\ reading = None /\ Listener \in batch /\ backlog # <<>>
    /\ batch' = batch \ {Listener}
    /\ LET c == Head(backlog) IN
         /\ conn' = [conn EXCEPT ![c] = "open"]
         /\ edge' = IF Readable(c) THEN edge \cup {c} ELSE edge
    /\ backlog' = Tail(backlog)
    /\ UNCHANGED <<sends, unread, fin, rst, reading, connected>>

(* An event of a connection: the server goes to read it. *)
process_input(c) ==
    /\ reading = None /\ c \in batch \cap Clients
    /\ batch' = batch \ {c}
    /\ reading' = c
    /\ UNCHANGED <<kernel, edge, conn>>

(* Mutant: the edge-triggered handler reads once (epoll_et_once). *)
recv_data_Once(c) ==
    /\ reading = c /\ c \notin rst /\ unread[c] > 0
    /\ unread' = [unread EXCEPT ![c] = IF @ < MAX_BUFFER_SIZE THEN 0 ELSE @ - MAX_BUFFER_SIZE]
    /\ reading' = None
    /\ UNCHANGED <<backlog, sends, fin, rst, edge, conn, batch, connected>>

(* recv returns data: the edge-triggered handler reads on, the             *)
(* level-triggered one is done.                                            *)
recv_data(c) ==
    /\ reading = c /\ c \notin rst /\ unread[c] > 0
    /\ unread' = [unread EXCEPT ![c] = IF @ < MAX_BUFFER_SIZE THEN 0 ELSE @ - MAX_BUFFER_SIZE]
    /\ reading' = IF ConnMode = "ET" THEN c ELSE None
    /\ UNCHANGED <<backlog, sends, fin, rst, edge, conn, batch, connected>>

(* recv returns 0 (the client closed) or an error: close, which also takes *)
(* the descriptor out of epoll.                                            *)
recv_end(c) ==
    /\ reading = c
    /\ c \in rst \/ (c \in fin /\ unread[c] = 0)
    /\ conn' = [conn EXCEPT ![c] = "closed"]
    /\ edge' = edge \ {c}
    /\ reading' = None
    /\ UNCHANGED <<kernel, batch>>

(* Mutant: sockets are left blocking, so recv waits for more. *)
recv_again_Blocks(c) == FALSE /\ UNCHANGED vars

(* recv on an empty buffer returns EAGAIN if the socket does not block.    *)
(* The edge-triggered handler is done, the level-triggered one closes.     *)
recv_again(c) ==
    /\ NonBlock
    /\ reading = c /\ ~Readable(c)
    /\ IF ConnMode = "ET"
       THEN UNCHANGED <<conn, edge>>
       ELSE /\ conn' = [conn EXCEPT ![c] = "closed"]
            /\ edge' = edge \ {c}
    /\ reading' = None
    /\ UNCHANGED <<kernel, batch>>

ServerStep == \/ epoll_wait \/ process_accept
              \/ \E c \in Clients : \/ process_input(c) \/ recv_data(c)
                                    \/ recv_end(c) \/ recv_again(c)

ClientStep == \E c \in Clients : Connect(c) \/ Send(c) \/ Shut(c) \/ Reset(c)

Next == ServerStep \/ ClientStep

Spec == Init /\ [][Next]_vars

(* The server's thread runs; clients do as they like. *)
FairSpec == Spec /\ WF_vars(ServerStep)

-----------------------------------------------------------------------------
TypeOK ==
    /\ backlog \in Seq(Clients)
    /\ sends \in [Clients -> Nat] /\ unread \in [Clients -> Nat]
    /\ fin \subseteq Clients /\ rst \subseteq Clients /\ connected \subseteq Clients
    /\ edge \subseteq Clients \cup {Listener}
    /\ conn \in [Clients -> {"none", "open", "closed"}]
    /\ batch \subseteq Clients \cup {Listener}
    /\ reading \in Clients \cup {None}

(* Input the server has not read is never forgotten: its connection is     *)
(* ready for epoll_wait, in the batch, or being read.  This is what the    *)
(* loop until EAGAIN is for: an edge is reported once.                     *)
InputNoticed ==
    \A c \in Open : Readable(c) => c \in Ready \cup batch \cup {reading}

(* The server only closes connections the client has ended. *)
HealthyStaysOpen == \A c \in Clients : conn[c] = "closed" => c \in fin \cup rst

(* Events and reads are about connections that are open: nothing is read   *)
(* from a descriptor after its close.                                      *)
HandledAreOpen == (batch \cup {reading}) \cap Clients \subseteq Open

(* Whatever an accepted client sends is read, and a client that left is    *)
(* closed, however busy the other clients are with a bounded amount.       *)
InputRead == \A c \in Clients : conn[c] = "open" /\ Readable(c) ~> ~Readable(c) \/ conn[c] = "closed"

(* "如果是新的连接,需要把新的socket添加到 epollfd 中": every connection is    *)
(* accepted and registered.                                                *)
EveryConnectionAdded == \A c \in Clients : c \in connected ~> conn[c] # "none"
=============================================================================
