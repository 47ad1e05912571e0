---------------------------- MODULE ClientProofs ----------------------------
(***************************************************************************)
(* The safety of network clients: CurlHttpClient, for any number of        *)
(* requests and sockets, and the Kafka producer, for any length of its     *)
(* queue and any number of messages.                                       *)
(***************************************************************************)
EXTENDS CurlClient, Senders, FiniteSetTheorems, TLAPS

-----------------------------------------------------------------------------
(* CurlHttpClient. *)

(* A request not yet sent has left no trace, and one that libcurl runs has *)
(* not been answered.                                                      *)
Unanswered ==
    \A r \in Requests :
        /\ r > m_reqid => easy[r] = "none" /\ resp[r] = "none" /\ answers[r] = 0
        /\ easy[r] \in {"added", "active"} => answers[r] = 0

(* The timer is only closed with the multi handle, and without a multi     *)
(* handle nothing runs.                                                    *)
TimerLives ==
    /\ m_curl_multi_hdl = "open" => timer \in {"idle", "armed"} /\ m_timer_hdl = "set"
    /\ m_curl_multi_hdl # "open" => timer # "armed" /\ m_timer_hdl = "null"
    /\ m_curl_multi_hdl # "open" => \A r \in Requests : easy[r] \in {"none", "gone"}

CurlInv == TypeOK /\ Unanswered /\ AnsweredOnce /\ TimerLives /\ TimerDrives /\ PollsAreWishes

-----------------------------------------------------------------------------
(* handle_socket makes the poll of a socket what libcurl asks for, if it   *)
(* was what libcurl had asked for before.                                  *)
LEMMA HandleSocketFollows ==
    ASSUME NEW p \in [socketp : {"null", "live"}, events : SUBSET {"in", "out"}, closing : Nat],
           NEW ev \in SUBSET {"in", "out"},
           p.socketp = (IF p.events = {} THEN "null" ELSE "live")
    PROVE  /\ handle_socket(p, ev) \in [socketp : {"null", "live"},
                                        events : SUBSET {"in", "out"}, closing : Nat]
           /\ handle_socket(p, ev).events = ev
           /\ handle_socket(p, ev).socketp = (IF ev = {} THEN "null" ELSE "live")
  <1> USE DEF handle_socket, create_curl_context
  <1>1. CASE ev # {} /\ p.socketp # "null"
    <2>1. handle_socket(p, ev) = [p EXCEPT !.events = ev] /\ p.socketp = "live"
      BY <1>1, Zenon
    <2> QED BY <2>1, <1>1, Zenon
  <1>2. CASE ev # {} /\ p.socketp = "null"
    <2>1. handle_socket(p, ev) = [[p EXCEPT !.socketp = "live"] EXCEPT !.events = ev]
      BY <1>2, Zenon
    <2> QED BY <2>1, <1>2, Zenon
  <1>3. CASE ev = {} /\ p.socketp # "null"
    <2>1. handle_socket(p, ev) = [p EXCEPT !.socketp = "null", !.events = {}, !.closing = @ + 1]
      BY <1>3, Zenon
    <2>2. p.closing + 1 \in Nat
      OBVIOUS
    <2>3. handle_socket(p, ev).events = {} /\ handle_socket(p, ev).socketp = "null"
      BY <2>1, Zenon
    <2>4. handle_socket(p, ev) \in [socketp : {"null", "live"},
                                    events : SUBSET {"in", "out"}, closing : Nat]
      BY <2>1, <2>2, Zenon
    <2> QED BY <2>3, <2>4, <1>3, Zenon
  <1>4. CASE ev = {} /\ p.socketp = "null"
    BY <1>4, Zenon
  <1> QED BY <1>1, <1>2, <1>3, <1>4, Zenon

(* A call of libcurl that finishes running requests and lets one running   *)
(* request wait for events on a socket keeps the invariant.                *)
LEMMA SocketActionKeeps ==
    ASSUME CurlAssumption, CurlInv, m_curl_multi_hdl = "open",
           NEW done \in SUBSET Running,
           NEW r \in Requests \cup {0}, r = 0 \/ r \in Running \ done,
           NEW s \in Sockets \cup {NoSocket}, NEW ev \in SUBSET {"in", "out"},
           SocketAction(done, r, s, ev), UNCHANGED <<uvars, lost>>
    PROVE  CurlInv'
  <1> USE DEF CurlAssumption
  <1>1. easy' \in [Requests -> {"none", "added", "active", "gone"}]
    BY Zenon DEF CurlInv, TypeOK, SocketAction
  <1>2. sock' \in [Requests -> Sockets \cup {NoSocket}]
    BY Zenon DEF CurlInv, TypeOK, SocketAction
  <1>3. wish' \in [Sockets -> SUBSET {"in", "out"}]
    BY Zenon DEF CurlInv, TypeOK, SocketAction
  <1>4. answers' \in [Requests -> Nat] /\ resp' \in [Requests -> {"none", "held", "deleted"}]
    BY DEF CurlInv, TypeOK, SocketAction, check_multi_info
  <1>5. \A t \in Sockets :
           /\ polls[t] \in [socketp : {"null", "live"}, events : SUBSET {"in", "out"}, closing : Nat]
           /\ polls[t].socketp = (IF polls[t].events = {} THEN "null" ELSE "live")
           /\ polls[t].events = wish[t]
    BY Zenon DEF CurlInv, TypeOK, PollsAreWishes
  <1>6. \A t \in Sockets :
           \/ polls'[t] = polls[t] /\ wish'[t] = wish[t]
           \/ \E a \in SUBSET {"in", "out"} : polls'[t] = handle_socket(polls[t], a) /\ wish'[t] = a
    BY Zenon DEF SocketAction
  <1>7. \A t \in Sockets :
           /\ polls'[t] \in [socketp : {"null", "live"}, events : SUBSET {"in", "out"}, closing : Nat]
           /\ polls'[t].events = wish'[t]
           /\ polls'[t].socketp = (IF wish'[t] = {} THEN "null" ELSE "live")
    <2> TAKE t \in Sockets
    <2>1. CASE polls'[t] = polls[t] /\ wish'[t] = wish[t]
      BY <2>1, <1>5, Zenon
    <2>2. ASSUME NEW a \in SUBSET {"in", "out"}, polls'[t] = handle_socket(polls[t], a), wish'[t] = a
          PROVE  /\ polls'[t] \in [socketp : {"null", "live"}, events : SUBSET {"in", "out"}, closing : Nat]
                 /\ polls'[t].events = wish'[t]
                 /\ polls'[t].socketp = (IF wish'[t] = {} THEN "null" ELSE "live")
      BY <2>2, <1>5, HandleSocketFollows
    <2> QED BY <2>1, <2>2, <1>6, Zenon
  <1>8. polls' \in [Sockets -> [socketp : {"null", "live"}, events : SUBSET {"in", "out"}, closing : Nat]]
    <2>1. polls' = [t \in Sockets |-> polls'[t]]
      BY Zenon DEF SocketAction
    <2> QED BY <2>1, <1>7, Zenon
  <1>9. timer' = (IF Running \ done = {} THEN "idle" ELSE "armed") /\ stopped' = FALSE
    BY DEF SocketAction, start_timer
  <1>10. TypeOK'
    BY <1>1, <1>2, <1>3, <1>4, <1>8, <1>9, Zenon DEF CurlInv, TypeOK, uvars
  <1>11. \A q \in Requests :
            /\ q \in done => /\ easy'[q] = "gone" /\ answers'[q] = 1 /\ resp'[q] = "deleted"
                             /\ q <= m_reqid
            /\ q \notin done => /\ answers'[q] = answers[q] /\ resp'[q] = resp[q]
                                /\ easy'[q] \in {"added", "active"} <=> q \in Running
                                /\ easy'[q] = "none" <=> easy[q] = "none"
    <2> TAKE q \in Requests
    <2>1. q \in Running => answers[q] = 0 /\ q <= m_reqid
      BY DEF CurlInv, TypeOK, Unanswered, Running, Requests
    <2>2. CASE q \in done
      BY <2>1, <2>2 DEF SocketAction, check_multi_info
    <2>3. CASE q \notin done
      BY <2>3 DEF SocketAction, check_multi_info, Running, Requests, CurlInv, TypeOK
    <2> QED BY <2>2, <2>3, Zenon
  <1>12. Unanswered' /\ AnsweredOnce'
    BY <1>11 DEF CurlInv, Unanswered, AnsweredOnce, uvars, Running, TypeOK, Requests
  <1>13. TimerLives'
    BY <1>9, <1>11, Zenon DEF TimerLives, uvars, CurlInv
  <1>14. Running' \subseteq Running \ done
    BY <1>11, Zenon DEF Running
  <1>15. TimerDrives'
    BY <1>9, <1>14, Zenon DEF TimerDrives
  <1>16. PollsAreWishes'
    BY <1>7, Zenon DEF PollsAreWishes
  <1> QED BY <1>10, <1>12, <1>13, <1>15, <1>16, Zenon DEF CurlInv

-----------------------------------------------------------------------------
(* The inductive invariant.  The calls of libcurl are the lemma above; the *)
(* user's calls and the close callbacks change little each.                *)
THEOREM CurlInvariance ==
    ASSUME CurlAssumption PROVE Spec => []CurlInv
<1> USE DEF CurlAssumption
<1>1. Init => CurlInv
  <2> SUFFICES ASSUME Init PROVE CurlInv
    OBVIOUS
  <2>1. TypeOK
    <3>1. m_reqid \in 0..MaxReq /\ lost \subseteq Requests /\ stopped \in BOOLEAN
      <4>1. m_reqid = 0 /\ lost = {} /\ stopped = FALSE
        BY Zenon DEF Init
      <4>2. m_reqid \in 0..MaxReq
        BY <4>1
      <4>3. lost \subseteq Requests
        BY <4>1, Zenon
      <4>4. stopped \in BOOLEAN
        BY <4>1, Zenon
      <4> QED BY <4>2, <4>3, <4>4, Zenon
    <3>2. polls \in [Sockets -> [socketp : {"null", "live"}, events : SUBSET {"in", "out"},
                                closing : Nat]]
      BY Zenon DEF Init
    <3>3. wish \in [Sockets -> SUBSET {"in", "out"}]
      BY Zenon DEF Init
    <3> QED BY <3>1, <3>2, <3>3, Zenon DEF Init, TypeOK
  <2>2. Unanswered /\ AnsweredOnce
    BY DEF Init, Unanswered, AnsweredOnce
  <2>3. TimerLives /\ TimerDrives
    BY Zenon DEF Init, TimerLives, TimerDrives
  <2>4. PollsAreWishes
    BY Zenon DEF Init, PollsAreWishes
  <2> QED BY <2>1, <2>2, <2>3, <2>4, Zenon DEF CurlInv
<1>2. CurlInv /\ [Next]_vars => CurlInv'
  <2> SUFFICES ASSUME CurlInv, [Next]_vars PROVE CurlInv'
    OBVIOUS
  <2> USE DEF CurlInv
  <2>1. timer = "armed" \/ Running # {} => m_curl_multi_hdl = "open"
    BY Zenon DEF TimerLives, Running
  <2>2. CASE StartPoll
    BY Zenon, <2>2 DEF StartPoll, TypeOK, Unanswered, AnsweredOnce, TimerLives, TimerDrives,
                PollsAreWishes, Running
  <2>3. CASE StopPoll
    BY Zenon, <2>3 DEF StopPoll, uvars, TypeOK, Unanswered, AnsweredOnce, TimerLives, TimerDrives,
                PollsAreWishes, Running
  <2>4. CASE SendGet
    <3> DEFINE n == m_reqid + 1
    <3>1. n \in Requests /\ m_reqid' = n /\ resp' = [resp EXCEPT ![n] = "held"]
      BY <2>4, Zenon DEF SendGet
    <3>2. easy[n] = "none" /\ resp[n] = "none" /\ answers[n] = 0
      BY <3>1 DEF Unanswered, TypeOK, Requests
    <3>3. CASE m_curl_multi_hdl = "open"
      <4>1. /\ easy' = [easy EXCEPT ![n] = "added"] /\ timer' = "armed" /\ stopped' = FALSE
            /\ UNCHANGED <<lost, m_curl_multi_hdl, m_timer_hdl, polls, sock, wish, answers>>
        BY <2>4, <3>3 DEF SendGet, start_timer
      <4>2. TypeOK'
        <5>1. m_reqid' \in 0..MaxReq
          BY <3>1 DEF Requests
        <5>2. easy' \in [Requests -> {"none", "added", "active", "gone"}]
              /\ resp' \in [Requests -> {"none", "held", "deleted"}]
          BY <3>1, <4>1, Zenon DEF TypeOK
        <5> QED BY <4>1, <5>1, <5>2, Zenon DEF TypeOK
      <4>3. Unanswered' /\ AnsweredOnce'
        BY <3>1, <3>2, <4>1 DEF TypeOK, Unanswered, AnsweredOnce, Requests
      <4>4. TimerLives' /\ TimerDrives' /\ PollsAreWishes'
        BY <3>3, <4>1, Zenon DEF TimerLives, TimerDrives, PollsAreWishes
      <4> QED BY <4>2, <4>3, <4>4, Zenon
    <3>4. CASE m_curl_multi_hdl # "open"
      <4>1. /\ lost' = lost \cup {n}
            /\ UNCHANGED <<easy, timer, stopped, m_curl_multi_hdl, m_timer_hdl, polls, sock,
                           wish, answers>>
        BY <2>4, <3>4, Zenon DEF SendGet
      <4> QED
        BY <3>1, <3>2, <3>4, <4>1 DEF TypeOK, Unanswered, AnsweredOnce, TimerLives,
           TimerDrives, PollsAreWishes, Requests
    <3> QED BY <3>3, <3>4, Zenon
  <2>5. CASE TimerFinishes
    <3>1. PICK done \in SUBSET Running : SocketAction(done, 0, NoSocket, {})
      BY <2>5, Zenon DEF TimerFinishes
    <3> QED BY <2>1, <2>5, <3>1, SocketActionKeeps, Zenon DEF TimerFinishes
  <2>6. CASE TimerConnects
    <3>1. PICK r \in Running, s \in Sockets, ev \in Events : SocketAction({}, r, s, ev)
      BY <2>6, Zenon DEF TimerConnects
    <3> QED BY <2>1, <2>6, <3>1, SocketActionKeeps, Zenon DEF TimerConnects, Running, Events
  <2>7. CASE TimerWaits
    BY <2>1, <2>7, SocketActionKeeps, Zenon DEF TimerWaits
  <2>8. ASSUME NEW s \in Sockets, curl_perform(s) PROVE CurlInv'
    <3>1. PICK r \in Running : \/ SocketAction({r}, 0, NoSocket, {})
                               \/ \E ev \in Events : SocketAction({}, r, s, ev)
      BY <2>8, Zenon DEF curl_perform
    <3>2. CASE SocketAction({r}, 0, NoSocket, {})
      BY <2>1, <2>8, <3>1, <3>2, SocketActionKeeps, Zenon DEF curl_perform
    <3>3. ASSUME NEW ev \in Events, SocketAction({}, r, s, ev) PROVE CurlInv'
      BY <2>1, <2>8, <3>1, <3>3, SocketActionKeeps, Zenon DEF curl_perform, Running, Events
    <3> QED BY <3>1, <3>2, <3>3, Zenon
  <2>9. ASSUME NEW s \in Sockets, on_close_ctx_cb(s) PROVE CurlInv'
    <3>1. \A t \in Sockets : polls'[t].events = polls[t].events /\ polls'[t].socketp = polls[t].socketp
      BY <2>9 DEF on_close_ctx_cb, TypeOK
    <3>2. polls' \in [Sockets -> [socketp : {"null", "live"}, events : SUBSET {"in", "out"},
                                  closing : Nat]]
      BY <2>9, SMTT(30) DEF on_close_ctx_cb, TypeOK
    <3> QED
      BY <2>9, <3>1, <3>2 DEF on_close_ctx_cb, uvars, TypeOK, Unanswered, AnsweredOnce,
         TimerLives, TimerDrives, PollsAreWishes, Running
  <2>10. CASE on_close_uv_hdl
    BY Zenon, <2>10 DEF on_close_uv_hdl, uvars, TypeOK, Unanswered, AnsweredOnce, TimerLives,
       TimerDrives, PollsAreWishes, Running
  <2>11. CASE Destructor
    <3>1. \A t \in Sockets :
             /\ polls'[t] \in [socketp : {"null", "live"}, events : SUBSET {"in", "out"}, closing : Nat]
             /\ polls'[t].events = {} /\ polls'[t].socketp = "null" /\ wish'[t] = {}
      <4> TAKE t \in Sockets
      <4>1. polls'[t] = handle_socket(polls[t], {}) /\ wish'[t] = {}
        BY <2>11, Zenon DEF Destructor
      <4>2. /\ polls[t] \in [socketp : {"null", "live"}, events : SUBSET {"in", "out"}, closing : Nat]
            /\ polls[t].socketp = (IF polls[t].events = {} THEN "null" ELSE "live")
        BY Zenon DEF TypeOK, PollsAreWishes
      <4> DEFINE p == polls[t]
      <4>3. /\ handle_socket(p, {}) \in [socketp : {"null", "live"},
                                              events : SUBSET {"in", "out"}, closing : Nat]
            /\ handle_socket(p, {}).events = {}
            /\ handle_socket(p, {}).socketp = (IF {} = {} THEN "null" ELSE "live")
        <5> HIDE DEF p
        <5>1. {} \in SUBSET {"in", "out"}
          OBVIOUS
        <5> QED
          BY <4>2, <5>1, HandleSocketFollows, Zenon DEF p
      <4> QED
        BY <4>1, <4>3, Zenon
    <3>2. polls' \in [Sockets -> [socketp : {"null", "live"}, events : SUBSET {"in", "out"},
                                  closing : Nat]]
      BY <2>11, <3>1, Zenon DEF Destructor
    <3>3. easy' \in [Requests -> {"none", "added", "active", "gone"}]
          /\ \A r \in Requests : easy'[r] \in {"none", "gone"} /\ (easy[r] = "none" => easy'[r] = "none")
      BY <2>11, Zenon DEF Destructor, Running, TypeOK
    <3> QED
      BY SMTT(30), <2>11, <3>1, <3>2, <3>3 DEF Destructor, TypeOK, Unanswered, AnsweredOnce,
         TimerLives, TimerDrives, PollsAreWishes
  <2>12. CASE UNCHANGED vars
    BY Zenon, <2>12 DEF vars, uvars, TypeOK, Unanswered, AnsweredOnce, TimerLives, TimerDrives,
       PollsAreWishes, Running
  <2> QED
    BY <2>2, <2>3, <2>4, <2>5, <2>6, <2>7, <2>8, <2>9, <2>10, <2>11, <2>12, Zenon DEF Next, LoopStep
<1> QED BY <1>1, <1>2, PTL DEF Spec

(* handle_socket: whatever libcurl asks for in whatever order, the loop    *)
(* polls exactly that, and a closing context is never polled.              *)
THEOREM PollsFollowWishes ==
    ASSUME CurlAssumption PROVE Spec => []PollsAreWishes
BY CurlInvariance, PTL DEF CurlInv

(* check_multi_info answers no request twice and deletes each buffer once. *)
THEOREM AnswersAtMostOnce ==
    ASSUME CurlAssumption PROVE Spec => []AnsweredOnce
BY CurlInvariance, PTL DEF CurlInv

(* start_timer leaves the timer armed for as long as requests run, unless  *)
(* the user stops it: what EveryoneAnswered rests on.                      *)
THEOREM TimerStaysArmed ==
    ASSUME CurlAssumption PROVE Spec => []TimerDrives
BY CurlInvariance, PTL DEF CurlInv

-----------------------------------------------------------------------------
(* Facts about joining lists that the steps below use. *)
LEMMA ConcatProperties ==
    ASSUME NEW S, NEW s \in Seq(S), NEW t \in Seq(S)
    PROVE  s \o t \in Seq(S) /\ Len(s \o t) = Len(s) + Len(t)
  OBVIOUS

LEMMA ConcatEmpty ==
    ASSUME NEW S, NEW s \in Seq(S)
    PROVE  s \o <<>> = s /\ <<>> \o s = s
  OBVIOUS

LEMMA ConcatAssociative ==
    ASSUME NEW S, NEW s \in Seq(S), NEW t \in Seq(S), NEW u \in Seq(S)
    PROVE  (s \o t) \o u = s \o (t \o u)
  OBVIOUS

LEMMA AppendIsConcat ==
    ASSUME NEW S, NEW s \in Seq(S), NEW e \in S
    PROVE  Append(s, e) = s \o <<e>>
  OBVIOUS

-----------------------------------------------------------------------------
(* The Kafka producer.  The messages reported, and those that wait to be,  *)
(* are one list, which polls leave as it is and deliveries make longer;    *)
(* the message being produced is in none of the places yet.                *)

KafkaReports == reported \o reports

KafkaPlaces ==
    /\ \A i, j \in 1..Len(KafkaReports) : KafkaReports[i] = KafkaReports[j] => i = j
    /\ \A i \in 1..Len(KafkaReports) : KafkaReports[i] \in Kafka!Made \ (outq \cup rejected)
    /\ outq \cup rejected \subseteq Kafka!Made
    /\ \A m \in Kafka!Made : m \in outq \cup rejected \/ Kafka!In(m, KafkaReports)
    /\ outq \cap rejected = {}

KafkaInv ==
    /\ Kafka!TypeOK
    /\ at \in {"produce", "poll1000"} => produced > 0
    /\ KafkaPlaces
    /\ at \in {"destroy", "exited"} /\ ~timedout => outq = {} /\ reports = <<>>

LEMMA KafkaCardinality == \A S : Kafka!Cardinality(S) = Cardinality(S)
  BY Zenon DEF Kafka!Cardinality, Cardinality

(* The internal queue never holds more than queue.buffering.max.messages. *)
LEMMA KafkaTypeStep ==
    ASSUME Kafka!KafkaAssumption, KafkaInv, [Kafka!Next]_(Kafka!vars)
    PROVE  Kafka!TypeOK' /\ (at \in {"produce", "poll1000"} => produced > 0)'
  <1> USE DEF Kafka!TypeOK, KafkaInv
  <1>0. Len(reports) \in Nat /\ IsFiniteSet(outq) /\ Cardinality(outq) \in Nat
    <2>1. IsFiniteSet(Kafka!Messages)
      BY FS_Interval DEF Kafka!Messages, Kafka!KafkaAssumption
    <2>2. IsFiniteSet(outq)
      BY <2>1, FS_Subset, Zenon
    <2> QED
      BY <2>2, FS_CardinalityType
  <1>1. ASSUME NEW m \in Kafka!Messages, Kafka!Deliver(m)
        PROVE  Kafka!TypeOK' /\ UNCHANGED <<at, produced>>
    <2>1. Cardinality(outq') = Cardinality(outq) - 1
      BY <1>0, <1>1, FS_RemoveElement, Zenon DEF Kafka!Deliver
    <2>2. reports' \in Seq(Kafka!Messages) /\ Len(reports') = Len(reports) + 1
      BY <1>1 DEF Kafka!Deliver
    <2>3. Kafka!InQueue' = Kafka!InQueue
      BY <1>0, <2>1, <2>2, KafkaCardinality DEF Kafka!InQueue
    <2> QED
      BY <1>1, <2>2, <2>3, Zenon DEF Kafka!Deliver
  <1>2. CASE Kafka!rd_kafka_produce
    <2>1. Kafka!InQueue' <= QueueMax
      <3>1. CASE outq' = outq
        BY <1>2, <3>1, Zenon DEF Kafka!rd_kafka_produce, Kafka!InQueue
      <3>2. CASE Kafka!InQueue < QueueMax /\ outq' = outq \cup {produced}
        <4>1. Cardinality(outq') <= Cardinality(outq) + 1 /\ Cardinality(outq') \in Nat
          <5>1. /\ IsFiniteSet(outq \cup {produced})
                /\ Cardinality(outq \cup {produced}) = IF produced \in outq THEN Cardinality(outq)
                                                     ELSE Cardinality(outq) + 1
            BY <1>0, FS_AddElement, Zenon
          <5> QED
            BY <1>0, <3>2, <5>1
        <4> QED
          BY <1>0, <1>2, <3>2, <4>1, KafkaCardinality
          DEF Kafka!rd_kafka_produce, Kafka!InQueue, Kafka!KafkaAssumption
      <3> QED
        BY <1>2, <3>1, <3>2, Zenon DEF Kafka!rd_kafka_produce
    <2>2. produced \in Kafka!Messages
      BY <1>2 DEF Kafka!rd_kafka_produce, Kafka!Messages, Kafka!KafkaAssumption
    <2> QED
      BY <1>2, <2>1, <2>2, Zenon DEF Kafka!rd_kafka_produce
  <1>3. CASE Kafka!retry \/ Kafka!rd_kafka_poll \/ Kafka!rd_kafka_flush
    <2>1. /\ reported' = reported \o reports /\ reports' = <<>>
          /\ UNCHANGED <<global_is_run, outq, rejected, produced>>
      BY <1>3, Zenon DEF Kafka!serve, Kafka!retry, Kafka!rd_kafka_poll, Kafka!rd_kafka_flush
    <2>2. reported' \in Seq(Kafka!Messages) /\ reports' \in Seq(Kafka!Messages)
      BY <2>1
    <2>3. Kafka!InQueue' <= QueueMax
      BY <1>0, <2>1, KafkaCardinality DEF Kafka!InQueue, Kafka!KafkaAssumption
    <2>4. timedout' \in BOOLEAN
      BY <1>3, Zenon DEF Kafka!retry, Kafka!rd_kafka_poll, Kafka!rd_kafka_flush
    <2>5. /\ at' \in {"while", "produce", "destroy", "flush"}
          /\ at' = "produce" => at = "poll1000"
      BY <1>3, Zenon DEF Kafka!retry, Kafka!rd_kafka_poll, Kafka!rd_kafka_flush
    <2> QED
      BY <2>1, <2>2, <2>3, <2>4, <2>5, Zenon
  <1>4. CASE Kafka!while
    BY <1>4 DEF Kafka!while, Kafka!InQueue, Kafka!KafkaAssumption
  <1>5. CASE Kafka!stop
    <2>1. global_is_run' \in BOOLEAN
      BY <1>5, Zenon DEF Kafka!stop
    <2> QED
      BY <1>5, <2>1, Zenon DEF Kafka!stop, Kafka!InQueue
  <1>6. CASE Kafka!rd_kafka_destroy \/ UNCHANGED Kafka!vars
    BY <1>6, Zenon DEF Kafka!rd_kafka_destroy, Kafka!vars, Kafka!InQueue
  <1> QED
    BY <1>1, <1>2, <1>3, <1>4, <1>5, <1>6, Zenon DEF Kafka!Next, Kafka!Main, Kafka!Ended

(* Where the messages are is the same after a step that only serves reports. *)
LEMMA KafkaServe ==
    ASSUME Kafka!TypeOK, KafkaPlaces, UNCHANGED <<outq, rejected>>,
           Kafka!serve \/ UNCHANGED <<reports, reported>>, Kafka!Made' = Kafka!Made
    PROVE  KafkaPlaces'
  <1>1. KafkaReports' = KafkaReports
    <2>1. reports \in Seq(Kafka!Messages) /\ reported \in Seq(Kafka!Messages)
      BY Zenon DEF Kafka!TypeOK
    <2>2. (reported \o reports) \o <<>> = reported \o reports
      BY <2>1, ConcatProperties, ConcatEmpty, Zenon
    <2> QED
      BY <2>2, Zenon DEF Kafka!serve, KafkaReports
  <1> QED
    BY <1>1, Zenon DEF KafkaPlaces, Kafka!In

(* A delivery moves a message from outq to the end of the list. *)
LEMMA KafkaDeliver ==
    ASSUME Kafka!TypeOK, KafkaPlaces, NEW m \in Kafka!Messages, Kafka!Deliver(m)
    PROVE  KafkaPlaces'
  <1> DEFINE r == KafkaReports
             n == Len(KafkaReports)
  <1>1. r \in Seq(Kafka!Messages) /\ n \in Nat
    BY DEF Kafka!TypeOK, KafkaReports
  <1>2. r' = Append(r, m)
    <2>1. /\ reports \in Seq(Kafka!Messages) /\ reported \in Seq(Kafka!Messages)
          /\ <<m>> \in Seq(Kafka!Messages)
      BY DEF Kafka!TypeOK
    <2>2. Append(reports, m) = reports \o <<m>> /\ Append(r, m) = r \o <<m>>
      BY <1>1, <2>1, AppendIsConcat, Zenon
    <2>3. r \o <<m>> = reported \o (reports \o <<m>>)
      BY <2>1, ConcatAssociative DEF KafkaReports
    <2> QED
      BY <2>2, <2>3, Zenon DEF Kafka!Deliver, KafkaReports
  <1>3. /\ Len(r') = n + 1 /\ r'[n + 1] = m /\ \A i \in 1..n : r'[i] = r[i]
    BY <1>1, <1>2
  <1>4. /\ outq' = outq \ {m} /\ m \in outq /\ rejected' = rejected
        /\ Kafka!Made' = Kafka!Made
    BY Zenon DEF Kafka!Deliver, Kafka!Made
  <1>5. \A i \in 1..Len(r') : i = n + 1 \/ i \in 1..n
    BY <1>1, <1>3
  <1> HIDE DEF r, n
  <1>6. /\ \A i, j \in 1..n : r[i] = r[j] => i = j
        /\ \A i \in 1..n : r[i] \in Kafka!Made \ (outq \cup rejected)
        /\ outq \cup rejected \subseteq Kafka!Made
        /\ \A x \in Kafka!Made : x \in outq \cup rejected \/ \E i \in 1..n : r[i] = x
        /\ outq \cap rejected = {}
    BY Zenon DEF KafkaPlaces, r, n, Kafka!In
  <1>7. \A i, j \in 1..Len(r') : r'[i] = r'[j] => i = j
    BY <1>3, <1>4, <1>5, <1>6, Zenon
  <1>8. \A i \in 1..Len(r') : r'[i] \in Kafka!Made \ (outq' \cup rejected')
    BY <1>3, <1>4, <1>5, <1>6, Zenon
  <1>9. ASSUME NEW x \in Kafka!Made
        PROVE  x \in outq' \cup rejected' \/ \E i \in 1..Len(r') : r'[i] = x
    <2>1. 1..n \subseteq 1..Len(r') /\ n + 1 \in 1..Len(r')
      BY <1>1, <1>3 DEF n, r
    <2> QED
      BY <1>3, <1>4, <1>6, <2>1, Zenon
  <1>10. outq' \cup rejected' \subseteq Kafka!Made /\ outq' \cap rejected' = {}
    BY <1>4, <1>6, Zenon
  <1> QED
    BY <1>4, <1>7, <1>8, <1>9, <1>10, Zenon DEF KafkaPlaces, Kafka!In, r

LEMMA KafkaStep ==
    ASSUME Kafka!KafkaAssumption, KafkaInv, [Kafka!Next]_(Kafka!vars)
    PROVE  KafkaInv'
  <1>0. Kafka!TypeOK /\ KafkaPlaces /\ produced \in Nat
    BY DEF KafkaInv, Kafka!TypeOK, Kafka!KafkaAssumption
  <1>1. Kafka!TypeOK' /\ (at \in {"produce", "poll1000"} => produced > 0)'
    BY KafkaTypeStep, Zenon
  <1>2. KafkaPlaces'
    <2>1. ASSUME NEW m \in Kafka!Messages, Kafka!Deliver(m) PROVE KafkaPlaces'
      BY <1>0, <2>1, KafkaDeliver, Zenon
    <2>2. CASE Kafka!rd_kafka_produce
      <3>1. CASE at' = "poll1000" /\ UNCHANGED <<outq, rejected>>
        BY <1>0, <2>2, <3>1, KafkaServe, Zenon DEF Kafka!rd_kafka_produce, Kafka!Made
      <3>2. CASE /\ at' = "poll0" /\ produced' = produced
                 /\ \/ outq' = outq \cup {produced} /\ rejected' = rejected
                    \/ outq' = outq /\ rejected' = rejected \cup {produced}
        <4>1. Kafka!Made' = Kafka!Made \cup {produced} /\ produced \notin Kafka!Made
          BY <1>0, <2>2, <3>2 DEF KafkaInv, Kafka!rd_kafka_produce, Kafka!Made
        <4>2. KafkaReports' = KafkaReports
          BY <2>2, Zenon DEF Kafka!rd_kafka_produce, KafkaReports
        <4> QED
          BY <1>0, <3>2, <4>1, <4>2 DEF KafkaPlaces, Kafka!In
      <3> QED
        BY <2>2, <3>1, <3>2, Zenon DEF Kafka!rd_kafka_produce
    <2>3. CASE Kafka!while
      <3>1. Kafka!Made' = Kafka!Made
        BY <1>0, <2>3 DEF Kafka!while, Kafka!Made
      <3> QED
        BY <1>0, <2>3, <3>1, KafkaServe, Zenon DEF Kafka!while
    <2>4. CASE Kafka!retry \/ Kafka!rd_kafka_poll \/ Kafka!rd_kafka_flush
      <3>1. Kafka!Made' = Kafka!Made /\ Kafka!serve /\ UNCHANGED <<outq, rejected>>
        BY <2>4, Zenon DEF Kafka!retry, Kafka!rd_kafka_poll, Kafka!rd_kafka_flush, Kafka!Made
      <3> QED
        BY <1>0, <3>1, KafkaServe, Zenon
    <2>5. CASE Kafka!rd_kafka_destroy \/ Kafka!stop \/ UNCHANGED Kafka!vars
      <3>1. Kafka!Made' = Kafka!Made /\ UNCHANGED <<outq, rejected, reports, reported>>
        BY <2>5, Zenon DEF Kafka!rd_kafka_destroy, Kafka!stop, Kafka!vars, Kafka!Made
      <3> QED
        BY <1>0, <3>1, KafkaServe, Zenon
    <2> QED
      BY <2>1, <2>2, <2>3, <2>4, <2>5, Zenon DEF Kafka!Next, Kafka!Main, Kafka!Ended
  <1>3. (at \in {"destroy", "exited"} /\ ~timedout => outq = {} /\ reports = <<>>)'
    BY Zenon DEF KafkaInv, Kafka!Next, Kafka!Main, Kafka!Ended, Kafka!vars, Kafka!while, Kafka!stop,
           Kafka!rd_kafka_produce, Kafka!retry, Kafka!rd_kafka_poll, Kafka!rd_kafka_flush,
           Kafka!rd_kafka_destroy, Kafka!Deliver, Kafka!serve
  <1> QED
    BY <1>1, <1>2, <1>3, Zenon DEF KafkaInv

(* kafka_producer.cpp: whatever is retried, every message main has done    *)
(* with is refused, on its way or reported, dr_msg_cb runs at most once    *)
(* for it, and a flush that has not timed out leaves none unreported; for  *)
(* any limit of the queue and any number of messages.                      *)
THEOREM EachReportedOnce ==
    ASSUME Kafka!KafkaAssumption
    PROVE  Kafka!Spec => [](Kafka!TypeOK /\ ReportedOnce)
  <1>1. Kafka!Init => KafkaInv
    <2> SUFFICES ASSUME Kafka!Init PROVE KafkaInv
      OBVIOUS
    <2>1. /\ outq = {} /\ reports = <<>> /\ reported = <<>> /\ rejected = {}
          /\ at = "while" /\ produced = 0 /\ Kafka!Made = {}
      BY DEF Kafka!Init, Kafka!Made
    <2>2. Kafka!InQueue = 0
      BY <2>1, FS_EmptySet, KafkaCardinality DEF Kafka!InQueue
    <2>3. global_is_run \in BOOLEAN /\ timedout \in BOOLEAN
      BY Zenon DEF Kafka!Init
    <2>4. Kafka!TypeOK
      BY <2>1, <2>2, <2>3 DEF Kafka!TypeOK, Kafka!KafkaAssumption
    <2>5. Len(KafkaReports) = 0
      BY <2>1 DEF KafkaReports
    <2>6. KafkaPlaces
      BY <2>1, <2>5 DEF KafkaPlaces
    <2> QED
      BY <2>1, <2>4, <2>6, Zenon DEF KafkaInv
  <1>2. KafkaInv /\ [Kafka!Next]_(Kafka!vars) => KafkaInv'
    BY KafkaStep, Zenon
  <1>3. KafkaInv => Kafka!TypeOK /\ ReportedOnce
    <2> SUFFICES ASSUME KafkaInv PROVE ReportedOnce
      BY Zenon DEF KafkaInv
    <2>1. /\ reports \in Seq(Kafka!Messages) /\ reported \in Seq(Kafka!Messages)
          /\ Len(reports) \in Nat /\ Len(reported) \in Nat
      BY DEF KafkaInv, Kafka!TypeOK
    <2>2. /\ Len(KafkaReports) = Len(reported) + Len(reports)
          /\ \A i \in 1..Len(reported) : KafkaReports[i] = reported[i]
          /\ \A i \in 1..Len(KafkaReports) :
                 \/ i \in 1..Len(reported)
                 \/ i - Len(reported) \in 1..Len(reports)
                    /\ KafkaReports[i] = reports[i - Len(reported)]
      BY <2>1 DEF KafkaReports
    <2>3. 1..Len(reported) \subseteq 1..Len(KafkaReports)
      BY <2>1, <2>2
    <2>4. ASSUME NEW m \in Kafka!Made
          PROVE  m \in outq \union rejected \/ Kafka!In(m, reports) \/ Kafka!In(m, reported)
      BY <2>2 DEF KafkaInv, KafkaPlaces, Kafka!In
    <2>5. \A i, j \in 1..Len(reported) : reported[i] = reported[j] => i = j
      BY <2>2, <2>3, Zenon DEF KafkaInv, KafkaPlaces
    <2>6. \A i \in 1..Len(reported) : reported[i] \notin outq \union rejected
      BY <2>2, <2>3, Zenon DEF KafkaInv, KafkaPlaces
    <2> QED
      BY <2>4, <2>5, <2>6, Zenon DEF ReportedOnce, Kafka!ReportedOnce, KafkaInv
  <1> QED
    BY <1>1, <1>2, <1>3, PTL DEF Kafka!Spec
=============================================================================
