------------------------------ MODULE HttpCall ------------------------------
(***************************************************************************)
(* One HTTP request over libuv (learn_uv/uv_http_req): resolve, connect,   *)
(* write, read, close, each the callback of the one before.  Bytes are     *)
(* counted; the request's text and the headers are left out.               *)
(*                                                                         *)
(* External: libuv and http_parser.  uv__read reads until a buffer is not  *)
(* filled; a read that finds nothing after a full one calls the callback   *)
(* with nread = 0.  No callback but the close's runs after uv_close.  A    *)
(* write on a stream that failed to connect fails.  The parser reports the *)
(* message complete with its last byte (Content-Length).                   *)
(***************************************************************************)
EXTENDS Integers

CONSTANTS RespLen,      \* bytes of the response
          ChunkSizes,   \* of the constructor; 0: libuv's suggestion
          Suggested     \* suggested_size

CallAssumption ==
    /\ RespLen \in Nat \ {0} /\ ChunkSizes \subseteq Nat /\ Suggested \in Nat \ {0}

VARIABLES
    step,       \* what the loop has pending: "resolve", "connect", "write", "read", "none"
    chunk_size,
    status,     \* of on_connect
    message,    \* message_to_send: "null", "allocated", "freed"
    handle,     \* the uv_tcp_t: "none", "open", "closing", "closed"
    closecb,    \* the callback given to uv_close is on_close
    memory,     \* of the uv_tcp_t: "null", "allocated", "freed"
    handle_to_close,    \* is set
    filled,     \* uv__read filled a buffer and reads again
    sent,       \* bytes of the response the server has sent
    fin,        \* the server has closed, or reset, the connection
    parsed,     \* bytes given to the parser
    completed,  \* calls of on_message_complete
    zero        \* receive_response was called with nread = 0

call == <<message, memory, handle_to_close, parsed, completed>>
loop == <<step, handle, closecb, filled>>
server == <<sent, fin>>
vars == <<loop, chunk_size, status, call, server, zero>>

(* The constructor and send. *)
Init ==
    /\ chunk_size \in ChunkSizes
    /\ step = "resolve" /\ message = "allocated" /\ memory = "null"
    /\ handle = "none" /\ closecb = FALSE /\ handle_to_close = FALSE
    /\ status = 0 /\ filled = FALSE /\ fin = FALSE /\ zero = FALSE
    /\ sent = 0 /\ parsed = 0 /\ completed = 0

-----------------------------------------------------------------------------
uv_close(cb) ==
    /\ handle' = "closing" /\ closecb' = cb
    /\ step' = "none" /\ filled' = FALSE

on_dns_resolved ==
    /\ step = "resolve"
    /\ \/ (* status < 0 *)
          step' = "none" /\ UNCHANGED <<memory, handle>>
       \/ (* send_request_to_ip4 *)
          step' = "connect" /\ memory' = "allocated" /\ handle' = "open"
    /\ UNCHANGED <<chunk_size, status, message, handle_to_close, closecb, filled, server, parsed, completed, zero>>

(* The check is for -1 (UV_EPERM): with any other error the request is     *)
(* written to a stream that is not connected.                              *)
on_connect ==
    /\ step = "connect"
    /\ status' \in {0, -1, -111}
    /\ step' = IF status' = -1 THEN "none" ELSE "write"
    /\ UNCHANGED <<chunk_size, call, handle, closecb, filled, server, zero>>

after_write ==
    /\ step = "write"
    /\ message' = "freed"
    /\ \/ status = 0 /\ step' = "read" /\ UNCHANGED <<handle, closecb, filled>>
       \/ IF handle = "open" THEN uv_close(TRUE) ELSE UNCHANGED loop
    /\ UNCHANGED <<chunk_size, status, memory, handle_to_close, server, parsed, completed, zero>>

-----------------------------------------------------------------------------
(* The server. *)
ServerSends ==
    /\ step = "read" /\ ~fin /\ sent < RespLen
    /\ sent' \in (sent + 1)..RespLen
    /\ UNCHANGED <<loop, chunk_size, status, call, fin, zero>>

ServerCloses ==
    /\ step = "read" /\ ~fin
    /\ fin' = TRUE
    /\ UNCHANGED <<loop, chunk_size, status, call, sent, zero>>

-----------------------------------------------------------------------------
alloc_buffer == IF chunk_size > 0 THEN chunk_size ELSE Suggested

Avail == sent - parsed
nread == IF Avail < alloc_buffer THEN Avail ELSE alloc_buffer

(* Mutant: the connection is left to the server to close. *)
receive_response_KeepsAlive ==
    /\ step = "read" /\ Avail > 0
    /\ parsed' = parsed + nread
    /\ filled' = (nread = alloc_buffer)
    /\ handle_to_close' = TRUE
    /\ completed' = IF parsed + nread = RespLen THEN completed + 1 ELSE completed
    /\ UNCHANGED <<step, handle, closecb, chunk_size, status, message, memory, server, zero>>

(* nread > 0: http_parser_execute, with _on_body_cb and, at the last byte, *)
(* _on_message_complete_cb.                                                *)
receive_response ==
    /\ step = "read" /\ Avail > 0
    /\ parsed' = parsed + nread
    /\ IF parsed + nread = RespLen
       THEN /\ handle_to_close' = FALSE
            /\ completed' = completed + 1
            /\ uv_close(FALSE)
       ELSE /\ handle_to_close' = TRUE
            /\ filled' = (nread = alloc_buffer)
            /\ UNCHANGED <<step, handle, closecb, completed>>
    /\ UNCHANGED <<chunk_size, status, message, memory, server, zero>>

(* nread < 0: an error or the end of the stream. *)
receive_eof ==
    /\ step = "read" /\ Avail = 0 /\ fin
    /\ uv_close(TRUE)
    /\ UNCHANGED <<chunk_size, status, call, server, zero>>

(* nread = 0. *)
receive_nothing ==
    /\ step = "read" /\ Avail = 0 /\ ~fin /\ filled
    /\ uv_close(FALSE)
    /\ zero' = TRUE
    /\ UNCHANGED <<chunk_size, status, call, server>>

(* The loop finishes the close; on_close, if given, frees the handle.      *)
on_close ==
    /\ handle = "closing"
    /\ handle' = "closed"
    /\ memory' = IF closecb THEN "freed" ELSE memory
    /\ UNCHANGED <<step, chunk_size, status, message, closecb, handle_to_close, filled, server, parsed, completed, zero>>

-----------------------------------------------------------------------------
(* uv_run returns: nothing is pending. *)
Returned == step = "none" /\ handle # "closing"

(* What the loop runs when it is ready: one of these at a time. *)
Loop == \/ on_dns_resolved \/ on_connect \/ after_write
        \/ receive_response \/ receive_eof \/ receive_nothing \/ on_close

Next == Loop \/ ServerSends \/ ServerCloses

Spec == Init /\ [][Next]_vars

(* The loop runs what is ready.  The server goes on sending its response;  *)
(* it need not close the connection (Keep-Alive).                          *)
FairSpec == Spec /\ WF_vars(Loop) /\ WF_vars(ServerSends)

-----------------------------------------------------------------------------
(* The types; no more is parsed than the response has, and it is reported  *)
(* at most once.                                                           *)
TypeOK ==
    /\ step \in {"resolve", "connect", "write", "read", "none"}
    /\ chunk_size \in ChunkSizes /\ status \in {0, -1, -111}
    /\ message \in {"allocated", "freed"} /\ memory \in {"null", "allocated", "freed"}
    /\ handle \in {"none", "open", "closing", "closed"}
    /\ closecb \in BOOLEAN /\ handle_to_close \in BOOLEAN /\ zero \in BOOLEAN
    /\ filled \in BOOLEAN /\ fin \in BOOLEAN
    /\ sent \in 0..RespLen /\ parsed \in 0..RespLen /\ completed \in 0..1

(* While a callback of the connection can still come, its handle is open   *)
(* and in memory, and on_close frees it only when libuv has let go of it.  *)
HandleOutlivesCallbacks ==
    /\ step \in {"connect", "write", "read"} => handle = "open" /\ memory = "allocated"
    /\ memory = "freed" => handle = "closed"

(* A connection that was made, or that failed with anything but -1, has    *)
(* been closed when uv_run returns: the errors that on_connect's check     *)
(* lets through are caught by after_write.                                 *)
ClosedAtTheEnd ==
    Returned /\ handle # "none" /\ status # -1 => handle = "closed"

(* The loop comes to an end though the server keeps the connection alive,  *)
(* and with buffers longer than the response (the default) a response that *)
(* the server sends in any pieces has been reported by then, unless the    *)
(* server breaks off.                                                      *)
LoopReturns ==
    /\ <>Returned
    /\ (step = "read" /\ alloc_buffer > RespLen) ~> (completed = 1 \/ (fin /\ sent < RespLen))

(* receive_response, nread = 0: "Everything OK, nothing read (all readed   *)
(* now)".                                                                  *)
AllReadAtZero == zero => parsed = RespLen
=============================================================================
