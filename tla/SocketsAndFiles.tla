-------------------------- MODULE SocketsAndFiles ---------------------------
(* The programs that hold descriptors of sockets and files: the epoll      *)
(* servers, with EpollServer's constants and variables, the server with a  *)
(* thread for each connection, the two tests of asynchronous reads and     *)
(* close_all_fd.                                                           *)
EXTENDS EpollServer, Integers

CONSTANTS
    \* thread
    Peers, Chunks, BufSize, MaxResets, MaxCreateFails,
    \* aio
    MaxLen,
    \* closefd
    LastFd, MaxErrors

VARIABLES
    \* thread
    main, newconn, peer, cell, thread, served, recvbuf, fds, client, nsent,
    inbox, echoed, owner,
    \* aio
    flen, at, test, req, ret, frame, stray, shown,
    \* closefd
    pc, open, sockets, initial, dir, left, rewind, retval, errors

threadVars  == <<main, newconn, peer, cell, thread, served, recvbuf, fds, client,
                 nsent, inbox, echoed, owner>>
aioVars     == <<flen, at, test, req, ret, frame, stray, shown>>
closefdVars == <<pc, open, sockets, initial, dir, left, rewind, retval, errors>>

Echo    == INSTANCE ThreadEcho WITH Clients <- Peers, pc <- main, conn <- newconn
Aio     == INSTANCE AioRead WITH pc <- at
Closefd == INSTANCE CloseAllFd WITH MaxFd <- LastFd

-----------------------------------------------------------------------------
(* Properties of the last three, which say in their modules what they      *)
(* state.                                                                  *)

(* clientThread.c: a thread serves the connection it was created for. *)
ServesItsOwn == Echo!ServesItsOwn

(* aio_sample.cpp: the polling test prints a read that is done. *)
SampleComplete == Aio!SampleComplete

(* tcp_reuse_port_test.c: close_all_fd closes all it is to close. *)
ClosesAll == Closefd!ClosesAll
=============================================================================
