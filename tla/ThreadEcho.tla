----------------------------- MODULE ThreadEcho -----------------------------
(***************************************************************************)
(* clientThread.c: an echo server with one detached thread for each        *)
(* connection.  main gives the thread the descriptor in a cell of its own; *)
(* the descriptor's number is free for the next accept once it is closed.  *)
(*                                                                         *)
(* External: the kernel's descriptors and sockets, and pthread_create.     *)
(***************************************************************************)
EXTENDS Naturals, Sequences, FiniteSets

CONSTANTS Clients,
          Chunks,           \* what each client sends: 1..Chunks
          BufSize,          \* sizeof(recvbuf), in chunks
          MaxResets,        \* connections the peer resets (bound)
          None,             \* no connection
          MaxCreateFails    \* threads that cannot be created (bound)

EchoAssumption ==
    /\ Clients # {} /\ IsFiniteSet(Clients) /\ None \notin Clients
    /\ Chunks \in Nat /\ BufSize \in Nat \ {0}
    /\ MaxResets \in Nat /\ MaxCreateFails \in Nat

Fds == 1..Cardinality(Clients)
Threads == 1..Cardinality(Clients)      \* in the order of the accepts

VARIABLES
    pc,         \* main: "setup", "accept", "create" or "exit" (the process)
    conn,       \* main's variable
    peer,       \* what accept has just returned
    cell,       \* the malloc'ed ints, by thread
    thread,     \* by thread: "none", "born", "read", "write", "gone" or "failed"
    served,     \* by thread, the descriptor in its own conn
    recvbuf,    \* by thread
    fds,        \* the descriptor table
    client,     \* by client: "new", "waiting", "open", "shut" or "reset"
    nsent, inbox, echoed,
    owner       \* by thread, the connection it was created for

mainVars == <<pc, conn, peer, cell, owner>>
threadVars == <<thread, served, recvbuf>>
netVars == <<client, nsent, inbox, echoed>>
vars == <<mainVars, threadVars, fds, netVars>>

Init ==
    /\ pc = "setup" /\ conn = 0 /\ peer = None
    /\ cell = [t \in Threads |-> 0] /\ owner = [t \in Threads |-> None]
    /\ thread = [t \in Threads |-> "none"]
    /\ served = [t \in Threads |-> 0] /\ recvbuf = [t \in Threads |-> <<>>]
    /\ fds = [f \in Fds |-> None]
    /\ client = [c \in Clients |-> "new"] /\ nsent = [c \in Clients |-> 0]
    /\ inbox = [c \in Clients |-> <<>>] /\ echoed = [c \in Clients |-> <<>>]

Running == pc # "exit"

-----------------------------------------------------------------------------
(* The clients: connect, send, shut down or reset. *)
Connect(c) ==
    /\ client[c] = "new"
    /\ client' = [client EXCEPT ![c] = "waiting"]
    /\ UNCHANGED <<mainVars, threadVars, fds, nsent, inbox, echoed>>

Send(c) ==
    /\ client[c] \in {"waiting", "open"} /\ nsent[c] < Chunks
    /\ nsent' = [nsent EXCEPT ![c] = @ + 1]
    /\ inbox' = [inbox EXCEPT ![c] = Append(@, nsent[c] + 1)]
    /\ UNCHANGED <<mainVars, threadVars, fds, client, echoed>>

Shutdown(c) ==
    /\ client[c] = "open" /\ nsent[c] = Chunks
    /\ client' = [client EXCEPT ![c] = "shut"]
    /\ UNCHANGED <<mainVars, threadVars, fds, nsent, inbox, echoed>>

Reset(c) ==
    /\ client[c] = "open"
    /\ Cardinality({d \in Clients : client[d] = "reset"}) < MaxResets
    /\ client' = [client EXCEPT ![c] = "reset"]
    /\ UNCHANGED <<mainVars, threadVars, fds, nsent, inbox, echoed>>

-----------------------------------------------------------------------------
(* ERR_EXIT ends the process, with all its threads. *)
ERR_EXIT == pc' = "exit"

setup ==
    /\ pc = "setup"
    /\ pc' = "accept" \/ ERR_EXIT
    /\ UNCHANGED <<conn, peer, cell, owner, threadVars, fds, netVars>>

Lowest(S) == {n \in S : \A m \in S : n <= m}

(* The number the kernel gives out next. *)
LowestFree == Lowest({f \in Fds : fds[f] = None})

accept ==
    /\ pc = "accept"
    /\ \E c \in Clients, f \in LowestFree :
        /\ client[c] = "waiting"
        /\ client' = [client EXCEPT ![c] = "open"]
        /\ conn' = f /\ fds' = [fds EXCEPT ![f] = c] /\ peer' = c
    /\ pc' = "create"
    /\ UNCHANGED <<cell, owner, threadVars, nsent, inbox, echoed>>

accept_fails ==
    /\ pc = "accept" /\ ERR_EXIT
    /\ UNCHANGED <<conn, peer, cell, owner, threadVars, fds, netVars>>

NextThread == Lowest({t \in Threads : thread[t] = "none"})

(* malloc, and pthread_create, whose result is not looked at. *)
pthread_create ==
    /\ pc = "create"
    /\ \E u \in NextThread :
        /\ cell' = [cell EXCEPT ![u] = conn]
        /\ owner' = [owner EXCEPT ![u] = peer]
        /\ \/ thread' = [thread EXCEPT ![u] = "born"]
           \/ /\ Cardinality({t \in Threads : thread[t] = "failed"}) < MaxCreateFails
              /\ thread' = [thread EXCEPT ![u] = "failed"]
    /\ pc' = "accept"
    /\ UNCHANGED <<conn, peer, served, recvbuf, fds, netVars>>

-----------------------------------------------------------------------------
(* Mutant: the thread is given &conn (line 86). *)
thread_routine_Shared(t) ==
    /\ Running /\ thread[t] = "born"
    /\ served' = [served EXCEPT ![t] = conn]
    /\ thread' = [thread EXCEPT ![t] = "read"]
    /\ UNCHANGED <<mainVars, recvbuf, fds, netVars>>

thread_routine(t) ==
    /\ Running /\ thread[t] = "born"
    /\ served' = [served EXCEPT ![t] = cell[t]]
    /\ thread' = [thread EXCEPT ![t] = "read"]
    /\ UNCHANGED <<mainVars, recvbuf, fds, netVars>>

Peer(t) == fds[served[t]]
Readable(t) == Peer(t) # None /\ (inbox[Peer(t)] # <<>> \/ client[Peer(t)] # "open")

(* Something is read: at most a buffer of it. *)
read(t) ==
    /\ Running /\ thread[t] = "read" /\ Readable(t)
    /\ client[Peer(t)] # "reset" /\ inbox[Peer(t)] # <<>>
    /\ \E n \in 1..BufSize :
        /\ n <= Len(inbox[Peer(t)])
        /\ recvbuf' = [recvbuf EXCEPT ![t] = SubSeq(inbox[Peer(t)], 1, n)]
        /\ inbox' = [inbox EXCEPT ![Peer(t)] = SubSeq(@, n + 1, Len(@))]
    /\ thread' = [thread EXCEPT ![t] = "write"]
    /\ UNCHANGED <<mainVars, served, fds, client, nsent, echoed>>

(* The end of the stream: close, and the thread returns. *)
read_eof(t) ==
    /\ Running /\ thread[t] = "read" /\ Readable(t)
    /\ client[Peer(t)] = "shut" /\ inbox[Peer(t)] = <<>>
    /\ fds' = [fds EXCEPT ![served[t]] = None]
    /\ thread' = [thread EXCEPT ![t] = "gone"]
    /\ UNCHANGED <<mainVars, served, recvbuf, netVars>>

(* read returns -1; a write to such a connection raises SIGPIPE. *)
peer_reset(t) ==
    /\ Running /\ thread[t] \in {"read", "write"}
    /\ Peer(t) # None /\ client[Peer(t)] = "reset"
    /\ ERR_EXIT
    /\ UNCHANGED <<conn, peer, cell, owner, threadVars, fds, netVars>>

write(t) ==
    /\ Running /\ thread[t] = "write" /\ Peer(t) # None /\ client[Peer(t)] # "reset"
    /\ echoed' = [echoed EXCEPT ![Peer(t)] = @ \o recvbuf[t]]
    /\ recvbuf' = [recvbuf EXCEPT ![t] = <<>>]
    /\ thread' = [thread EXCEPT ![t] = "read"]
    /\ UNCHANGED <<mainVars, served, fds, client, nsent, inbox>>

-----------------------------------------------------------------------------
Main == setup \/ accept \/ pthread_create
Thread(t) == thread_routine(t) \/ read(t) \/ read_eof(t) \/ peer_reset(t) \/ write(t)
Client(c) == Connect(c) \/ Send(c) \/ Shutdown(c) \/ Reset(c)

Next ==
    \/ Main \/ accept_fails
    \/ \E t \in Threads : Thread(t)
    \/ \E c \in Clients : Client(c)

Spec == Init /\ [][Next]_vars

-----------------------------------------------------------------------------
(* The types. *)
TypeOK ==
    /\ pc \in {"setup", "accept", "create", "exit"}
    /\ conn \in Fds \union {0} /\ peer \in Clients \cup {None}
    /\ cell \in [Threads -> Fds \cup {0}] /\ served \in [Threads -> Fds \cup {0}]
    /\ thread \in [Threads -> {"none", "born", "read", "write", "gone", "failed"}]
    /\ fds \in [Fds -> Clients \cup {None}] /\ owner \in [Threads -> Clients \cup {None}]
    /\ \A t \in Threads : Len(recvbuf[t]) <= BufSize
    /\ client \in [Clients -> {"new", "waiting", "open", "shut", "reset"}]

(* Although main goes on to accept before the thread has read its cell,    *)
(* and numbers are used again, each thread serves the connection it was    *)
(* created for: its number means that connection until it closes it.  So   *)
(* what a client gets back is what it sent, in order, with nothing of      *)
(* another client's.                                                       *)
ServesItsOwn ==
    /\ \A t \in Threads : thread[t] \in {"read", "write"} => Peer(t) = owner[t]
    /\ \A c \in Clients : /\ Len(echoed[c]) <= nsent[c]
                          /\ \A i \in 1..Len(echoed[c]) : echoed[c][i] = i

(* A connection whose thread could not be created stays open and unserved; *)
(* every other descriptor has a thread that will close it, or main to hand *)
(* it on.                                                                  *)
NoDescriptorLeaks ==
    Cardinality({f \in Fds : fds[f] # None})
        = Cardinality({t \in Threads : thread[t] \in {"born", "read", "write", "failed"}})
          + (IF pc = "create" \/ (pc = "exit" /\ peer # None /\ \A t \in Threads : owner[t] # peer)
             THEN 1 ELSE 0)
=============================================================================
