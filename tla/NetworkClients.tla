--------------------------- MODULE NetworkClients ---------------------------
(* The five network clients, one at a time: program says which of them a   *)
(* behaviour is about, and the others stay as they began.                  *)
(*   curl   CurlHttpClient; CurlClient's constants and variables;          *)
(*   wget   uvwget;                                                        *)
(*   http   a request over libuv;                                          *)
(*   mail, kafka   the two of Senders.                                     *)
EXTENDS CurlClient, Senders

CONSTANTS
    MaxDownloads,                           \* wget: at most, and at least one
    RespLen, ChunkSizes, Suggested          \* http

VARIABLES
    program,
    \* wget
    main, argc, file, timeout, contexts, handles, fds, wishes,
    \* http
    step, chunk_size, status, message, handle, closecb, memory, handle_to_close,
    filled, sent, fin, parsed, completed, zero

wgetVars == <<main, argc, file, timeout, contexts, handles, fds, wishes>>
httpVars == <<step, chunk_size, status, message, handle, closecb, memory, handle_to_close,
              filled, sent, fin, parsed, completed, zero>>

Wget == INSTANCE UvWget WITH Downloads <- 1..MaxDownloads, pc <- main, polls <- contexts,
                             easy <- handles, sock <- fds, wish <- wishes
Http == INSTANCE HttpCall

ASSUME ClientsAssumption ==
    CurlAssumption /\ Http!CallAssumption /\ Mail!MailAssumption /\ Kafka!KafkaAssumption

ClientsInit ==
    /\ program \in {"curl", "wget", "http", "mail", "kafka"}
    /\ program = "wget" \/ argc = 1
    /\ program = "http" \/ chunk_size = 0
    /\ program = "mail" \/ (content = [p \in {"html", "doc"} |-> <<>>] /\ length = [p \in {"html", "doc"} |-> 0])
    /\ Init /\ Wget!Init /\ Http!Init /\ Mail!Init /\ Kafka!Init

ClientsNext ==
    /\ UNCHANGED program
    /\ \/ program = "curl" /\ Next /\ UNCHANGED <<wgetVars, httpVars, mailVars, kafkaVars>>
       \/ program = "wget" /\ Wget!Next /\ UNCHANGED <<vars, httpVars, mailVars, kafkaVars>>
       \/ program = "http" /\ Http!Next /\ UNCHANGED <<vars, wgetVars, mailVars, kafkaVars>>
       \/ program = "mail" /\ Mail!Next /\ UNCHANGED <<vars, wgetVars, httpVars, kafkaVars>>
       \/ program = "kafka" /\ Kafka!Next /\ UNCHANGED <<vars, wgetVars, httpVars, mailVars>>

(* The fairness of each program's FairSpec, while it is the one that runs. *)
ClientsSpec ==
    /\ ClientsInit /\ [][ClientsNext]_<<program, vars, wgetVars, httpVars, mailVars, kafkaVars>>
    /\ WF_vars(program = "curl" /\ TimerFinishes)
    /\ WF_vars(program = "curl" /\ on_close_uv_hdl)
    /\ \A s \in Sockets : WF_vars(program = "curl" /\ on_close_ctx_cb(s))
    /\ WF_wgetVars(program = "wget" /\ Wget!Main)
    /\ WF_wgetVars(program = "wget" /\ Wget!TimerFinishes)
    /\ WF_wgetVars(program = "wget" /\ Wget!Contexts)
    /\ WF_httpVars(program = "http" /\ Http!Loop)
    /\ WF_httpVars(program = "http" /\ Http!ServerSends)

-----------------------------------------------------------------------------
(* Properties of wget and http, which say in their modules what they state. *)

(* uvwget.cpp: the loop ends, with every file closed. *)
DownloadsEnd == program = "wget" => Wget!DownloadsEnd

(* uv_http_req: the loop ends, with the response reported. *)
LoopReturns == program = "http" => Http!LoopReturns
=============================================================================
