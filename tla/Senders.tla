------------------------------ MODULE Senders -------------------------------
(* The clients that hand over data: the SMTP client and the Kafka producer. *)
EXTENDS Integers, Sequences

CONSTANTS
    Files, IN_BUF_SIZE,                     \* mail
    QueueMax, MaxCount                      \* kafka

VARIABLES
    \* mail
    pc, cmd, part, content, length, count, out_buf, body, attachment, segments,
    answered, hangup,
    \* kafka
    at, global_is_run, produced, outq, reports, reported, rejected, timedout

mailVars  == <<pc, cmd, part, content, length, count, out_buf, body, attachment, segments,
               answered, hangup>>
kafkaVars == <<at, global_is_run, produced, outq, reports, reported, rejected, timedout>>

Mail  == INSTANCE MailSender WITH file <- content
Kafka == INSTANCE KafkaProducer WITH pc <- at, count <- produced

(* Files of 0 to 4 bytes, which fit a buffer of 4, and one of 6, which     *)
(* takes two reads.                                                        *)
SmallFiles == {<<>>, <<77>>, <<255, 19>>, <<1, 254, 131>>, <<0, 90, 165, 63>>,
               <<18, 240, 77, 255, 3, 129>>}

-----------------------------------------------------------------------------
(* Properties of the two, which say in their modules what they state. *)

(* send_email.c: body and attachment arrive as the files hold them. *)
PartsArrive == Mail!PartsArrive

(* send_email.c, at the attachment's headers: it is sent in base64. *)
AttachmentDecodes == Mail!AttachmentDecodes

(* kafka_producer.cpp: no message is lost to a full queue or reported twice. *)
ReportedOnce == Kafka!ReportedOnce
=============================================================================
