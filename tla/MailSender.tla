----------------------------- MODULE MailSender -----------------------------
(***************************************************************************)
(* The SMTP client of mail_wrapper/send_email.c: a fixed dialogue, each    *)
(* command followed by one read_socket, with the HTML body and the base64  *)
(* attachment between DATA and the final dot.  Commands are numbered in    *)
(* the order they are sent; their text is left out.                        *)
(*                                                                         *)
(* External: the socket (write takes any part of what it is given, or      *)
(* fails; read returns one segment, or nothing once the server has closed) *)
(* and the server, which greets and then answers each command.             *)
(***************************************************************************)
EXTENDS Integers, Sequences

CONSTANTS Files,        \* contents of HTML_FILE and DOC_FILE
          IN_BUF_SIZE

Byte == 0..255

MailAssumption == Files \subseteq Seq(Byte) /\ IN_BUF_SIZE \in Nat \ {0}

OUT_BUF_SIZE == ((IN_BUF_SIZE + 2) \div 3) * 4 + 1

(* HELO, AUTH LOGIN, user, password, MAIL, RCPT, DATA, dot, QUIT. *)
DATA == 7
QUIT == 9

-----------------------------------------------------------------------------
(* base64_encode.  A character is its index in base64tab; PAD stands for   *)
(* '='.                                                                    *)
PAD == 64

convlen(ilen) == ((ilen + 2) \div 3) * 4

(* Mutant: the low bits of the second byte are dropped. *)
Quad_DropsBits(b) ==
    <<b[1] \div 4,
      (b[1] % 4) * 16 + (IF Len(b) > 1 THEN b[2] \div 16 ELSE 0),
      IF Len(b) = 1 THEN PAD ELSE (IF Len(b) > 2 THEN b[3] \div 64 ELSE 0),
      IF Len(b) < 3 THEN PAD ELSE b[3] % 64>>

(* The four characters for one, two or three bytes. *)
Quad(b) ==
    <<b[1] \div 4,
      (b[1] % 4) * 16 + (IF Len(b) > 1 THEN b[2] \div 16 ELSE 0),
      IF Len(b) = 1 THEN PAD
      ELSE (b[2] % 16) * 4 + (IF Len(b) > 2 THEN b[3] \div 64 ELSE 0),
      IF Len(b) < 3 THEN PAD ELSE b[3] % 64>>

Group(in, g) == SubSeq(in, 3 * g + 1, IF Len(in) < 3 * g + 3 THEN Len(in) ELSE 3 * g + 3)

base64_encode(in) ==
    [k \in 1..convlen(Len(in)) |-> Quad(Group(in, (k - 1) \div 4))[((k - 1) % 4) + 1]]

(* What a receiver makes of it: the characters before the first '=', six   *)
(* bits each, cut into bytes.                                              *)
Data(s) ==
    LET pads == {i \in 1..Len(s) : s[i] = PAD}
    IN IF pads = {} THEN s
       ELSE SubSeq(s, 1, (CHOOSE i \in pads : \A j \in pads : i <= j) - 1)

Decode(s) ==
    LET c == Data(s)
        byte(i) == LET q == (8 * (i - 1)) \div 6 + 1
                       r == (8 * (i - 1)) % 6
                   IN CASE r = 0 -> c[q] * 4 + c[q + 1] \div 16
                        [] r = 2 -> (c[q] % 16) * 16 + c[q + 1] \div 4
                        [] r = 4 -> (c[q] % 4) * 64 + c[q + 1]
    IN [i \in 1..((Len(c) * 6) \div 8) |-> byte(i)]

-----------------------------------------------------------------------------
VARIABLES
    pc,         \* "connect", "read", "command", "fopen", "fread", "send", "closed", "failed"
    cmd,        \* commands sent
    part,       \* "none", "html", "doc": what lies between DATA and the dot
    file, length, count,    \* of the part
    out_buf,    \* what send_socket has still to write
    body, attachment,       \* written to the socket, by part
    segments,   \* replies in the socket, unread
    answered,   \* commands the server has answered; -1 before the greeting
    hangup      \* the server has closed

vars == <<pc, cmd, part, file, length, count, out_buf, body, attachment, segments, answered, hangup>>

Parts == {"html", "doc"}

(* The length is taken with ftell; the file may be cut short before it is  *)
(* read.                                                                   *)
Init ==
    /\ pc = "connect" /\ cmd = 0 /\ part = "none"
    /\ file \in [Parts -> Files]
    /\ \E cut \in [Parts -> 0..1] : length = [p \in Parts |-> Len(file[p]) + cut[p]]
    /\ count = 0 /\ out_buf = <<>> /\ body = <<>> /\ attachment = <<>>
    /\ segments = 0 /\ answered = -1 /\ hangup = FALSE

server == <<segments, answered, hangup>>
wire == <<body, attachment>>

-----------------------------------------------------------------------------
Connected == pc # "connect"

Answer ==
    /\ Connected /\ answered < cmd /\ ~hangup
    /\ answered' = answered + 1 /\ segments' = segments + 1
    /\ UNCHANGED <<pc, cmd, part, file, length, count, out_buf, wire, hangup>>

HangUp ==
    /\ Connected /\ ~hangup /\ hangup' = TRUE
    /\ UNCHANGED <<pc, cmd, part, file, length, count, out_buf, wire, segments, answered>>

-----------------------------------------------------------------------------
(* socket, gethostbyname or connect can fail. *)
connect ==
    /\ pc = "connect"
    /\ pc' \in {"read", "failed"}
    /\ UNCHANGED <<cmd, part, file, length, count, out_buf, wire, server>>

(* The reply is printed and not looked at; nothing is read once the server *)
(* has closed.                                                             *)
read_socket ==
    /\ pc = "read"
    /\ \/ segments > 0 /\ segments' = segments - 1
       \/ segments = 0 /\ hangup /\ UNCHANGED segments
    /\ pc' = CASE cmd = QUIT -> "closed" [] cmd = DATA -> "fopen" [] OTHER -> "command"
    /\ UNCHANGED <<cmd, part, file, length, count, out_buf, wire, answered, hangup>>

(* The send_socket calls of one command; a write can fail (exit). *)
command ==
    /\ pc = "command"
    /\ \/ cmd' = cmd + 1 /\ pc' = "read"
       \/ pc' = "failed" /\ UNCHANGED cmd
    /\ UNCHANGED <<part, file, length, count, out_buf, wire, server>>

-----------------------------------------------------------------------------
(* The headers of a part are sent and its file is opened; either can fail. *)
fopen ==
    /\ pc = "fopen"
    /\ \/ /\ pc' = "fread" /\ count' = 0
          /\ part' = IF part = "none" THEN "html" ELSE "doc"
       \/ pc' = "failed" /\ UNCHANGED <<part, count>>
    /\ UNCHANGED <<cmd, file, length, out_buf, wire, server>>

Chunk == SubSeq(file[part], count + 1,
                IF count + IN_BUF_SIZE < Len(file[part]) THEN count + IN_BUF_SIZE ELSE Len(file[part]))

(* One turn of the loop that sends a file.  A read of nothing ends the     *)
(* program in the body's loop; the attachment's loop goes round again.     *)
fread ==
    /\ pc = "fread" /\ count < length[part]
    /\ IF Chunk = <<>> /\ part = "html"
       THEN pc' = "failed" /\ UNCHANGED <<out_buf, count>>
       ELSE /\ out_buf' = (IF part = "html" THEN Chunk ELSE base64_encode(Chunk))
            /\ count' = count + Len(Chunk)
            /\ pc' = IF Chunk = <<>> THEN "fread"
                     ELSE IF part = "doc" /\ convlen(Len(Chunk)) >= OUT_BUF_SIZE THEN "failed" ELSE "send"
    /\ UNCHANGED <<cmd, part, file, length, wire, server>>

(* One write of send_socket's loop. *)
send_socket ==
    /\ pc = "send"
    /\ \/ \E n \in 1..Len(out_buf) :
             /\ body' = IF part = "html" THEN body \o SubSeq(out_buf, 1, n) ELSE body
             /\ attachment' = IF part = "doc" THEN attachment \o SubSeq(out_buf, 1, n) ELSE attachment
             /\ out_buf' = SubSeq(out_buf, n + 1, Len(out_buf))
             /\ pc' = IF n = Len(out_buf) THEN "fread" ELSE "send"
       \/ pc' = "failed" /\ UNCHANGED <<body, attachment, out_buf>>
    /\ UNCHANGED <<cmd, part, file, length, count, server>>

fclose ==
    /\ pc = "fread" /\ count >= length[part]
    /\ pc' = IF part = "html" THEN "fopen" ELSE "command"
    /\ UNCHANGED <<cmd, part, file, length, count, out_buf, wire, server>>

-----------------------------------------------------------------------------
Main == connect \/ read_socket \/ command \/ fopen \/ fread \/ send_socket \/ fclose

Next == \/ Main \/ Answer \/ HangUp
        \/ pc \in {"closed", "failed"} /\ UNCHANGED vars

Spec == Init /\ [][Next]_vars

(* The program runs, and the server answers. *)
FairSpec == Spec /\ WF_vars(Main) /\ WF_vars(Answer)

-----------------------------------------------------------------------------
(* The types; what is encoded fits out_buf. *)
TypeOK ==
    /\ pc \in {"connect", "read", "command", "fopen", "fread", "send", "closed", "failed"}
    /\ cmd \in 0..QUIT /\ part \in Parts \union {"none"}
    /\ file \in [Parts -> Files] /\ length \in [Parts -> Nat] /\ count \in Nat
    /\ out_buf \in Seq(Byte) /\ Len(out_buf) < OUT_BUF_SIZE
    /\ body \in Seq(Byte) /\ attachment \in Seq(0..PAD)
    /\ segments \in Nat /\ answered \in -1..QUIT /\ hangup \in BOOLEAN

(* SMTP without pipelining: when main sends a command, the server has      *)
(* answered the one before and the answer has been read.                   *)
InStep == pc = "command" /\ ~hangup => answered = cmd /\ segments = 0

Sent == cmd > DATA \/ (cmd = DATA /\ pc = "command")

(* What main sends between DATA and the dot (send_email.c:204-252) is what *)
(* the files hold, however write splits it: the body byte for byte, an     *)
(* attachment of at most one buffer once its base64 is decoded.            *)
PartsArrive ==
    Sent => /\ body = file["html"]
            /\ Len(file["doc"]) <= IN_BUF_SIZE => Decode(attachment) = file["doc"]

(* The program ends, also when the body is cut short while it is read.     *)
Ends == length["doc"] = Len(file["doc"]) ~> pc \in {"closed", "failed"}

(* main, at the headers of the attachment: "attachments are transferred in *)
(* base64", and the header CONTENT-TRANSFER-ENCODING:BASE64 says so.       *)
AttachmentDecodes == Sent => Decode(attachment) = file["doc"]
=============================================================================
