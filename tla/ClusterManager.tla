--------------------------- MODULE ClusterManager ---------------------------
(***************************************************************************)
(* Leader election by CClusterManager of                                   *)
(*   Languages/cpp/15_zookeeper_multi_thread_demo/cluster_manager.cpp      *)
(* Every node of the cluster creates an ephemeral child of one ZooKeeper   *)
(* path and calls itself Leader when it finds its own name first in the    *)
(* child list.  A one-shot watch on the list is set when the node starts   *)
(* and again by each reading of the list.                                  *)
(*                                                                         *)
(* A node has the thread that calls its methods, and one completion thread *)
(* per ZooKeeper handle.  The handler of an expired session runs on the    *)
(* completion thread of the old handle and reinitialises the manager while *)
(* the new handle's thread already delivers events and while the caller    *)
(* may be in Stop.                                                         *)
(*                                                                         *)
(* ZooKeeper is external: live or expired sessions, connections that are   *)
(* lost and come back, one-shot watches delivered in order, and a child    *)
(* list whose order is arbitrary but the same for every reader.            *)
(***************************************************************************)
EXTENDS Naturals

CONSTANTS Nodes,         \* the managers; also the names of their children
          Listening,     \* the nodes whose client registers a handler
          MaxSessions,   \* bound: handles a node opens
          MaxFaults      \* bound: connections lost, nodes that crash, readings
                         \* of the child list that fail

NoNode == "none"   \* the first name of an empty child list

ASSUME ListeningAssumption == Listening \subseteq Nodes
ASSUME NoNodeAssumption == NoNode \notin Nodes
ASSUME MaxSessionsAssumption == MaxSessions \in Nat \ {0}
ASSUME MaxFaultsAssumption == MaxFaults \in Nat

EN_State    == {"UnKnown", "Initialized", "Started", "Running", "Stopped"}
EN_NodeMode == {"Leader", "Follower", "Other"}

Handles  == Nodes \X (1..MaxSessions)
NoHandle == <<>>

(* m_eventHandlers, down to one handler: not registered, told nothing yet  *)
(* ("Other"), or told that its node is the master or not.                  *)
NoHandler == "none"

VARIABLES
    \* ZooKeeper
    sess,       \* [Handles -> state of the session]
    conn,       \* [Handles -> the client is connected]
    armed,      \* handles whose child watch is set
    ev,         \* [Handles -> events not yet handled by the completion thread]
    eph,        \* [Nodes -> the handle whose session owns the node's child]
    head,       \* the first name of the child list
    faults,     \* connections lost, crashes and failed readings so far
    \* the managers
    m_runState, m_nodeMode,
    m_zkhandle, \* [Nodes -> m_zkhandlePtr]
    main,       \* [Nodes -> where the calling thread is]
    freed,      \* [Nodes -> the handle Stop is closing]
    cb,         \* [Handles -> where the completion thread is]
    told,       \* [Nodes -> what the registered handler was last told]
    \* history
    blind,      \* handles on which a reading of the list failed
    stoppedBy,  \* nodes whose Stop or DeInitialize has returned, or that crashed
    overlapped  \* nodes a call of whose client has overlapped with the expiry loop

zk      == <<sess, conn, armed, ev, eph, head, faults>>
manager == <<m_runState, m_nodeMode, m_zkhandle, main, freed, cb, told>>
history == <<blind, stoppedBy, overlapped>>
vars    == <<zk, manager, history>>

NodeOf(h) == h[1]
Opened(n) == {h \in Handles : NodeOf(h) = n /\ sess[h] # "none"}

Init ==
    /\ sess = [h \in Handles |-> "none"]
    /\ conn = [h \in Handles |-> FALSE]
    /\ armed = {}
    /\ ev = [h \in Handles |-> {}]
    /\ eph = [n \in Nodes |-> NoHandle]
    /\ head = NoNode
    /\ faults = 0
    /\ m_runState = [n \in Nodes |-> "UnKnown"]
    /\ m_nodeMode = [n \in Nodes |-> "Other"]
    /\ m_zkhandle = [n \in Nodes |-> NoHandle]
    /\ main = [n \in Nodes |-> "idle"]
    /\ freed = [n \in Nodes |-> NoHandle]
    /\ cb = [h \in Handles |-> "idle"]
    /\ told = [n \in Nodes |-> NoHandler]
    /\ blind = {}
    /\ stoppedBy = {}
    /\ overlapped = {}

-----------------------------------------------------------------------------
(* ZooKeeper.                                                              *)

Children(e) == {n \in Nodes : e[n] # NoHandle}

(* The child list becomes e's: any of its names may be first, and every    *)
(* watch is fired and cleared, except those of the sessions that end.  A   *)
(* closed handle delivers no more events.                                  *)
ListChanges(e, ended, closed) ==
    /\ eph' = e
    /\ head' \in (IF Children(e) = {} THEN {NoNode} ELSE Children(e))
    /\ ev' = [h \in Handles |->
                IF h \in closed THEN {}
                ELSE IF h \in armed \ ended THEN ev[h] \cup {"child"} ELSE ev[h]]
    /\ armed' = {}

(* The child list stays; the watches of the sessions that end go. *)
ListStays(ended, closed) ==
    /\ armed' = armed \ ended
    /\ ev' = [h \in Handles |-> IF h \in closed THEN {} ELSE ev[h]]
    /\ UNCHANGED <<eph, head>>

(* The session h ends: its child goes with it. *)
EndSession(h, st) == LET closed == IF st = "closed" THEN {h} ELSE {} IN
    /\ sess' = [sess EXCEPT ![h] = st]
    /\ \/ /\ eph[NodeOf(h)] = h
          /\ ListChanges([eph EXCEPT ![NodeOf(h)] = NoHandle], {h}, closed)
       \/ eph[NodeOf(h)] # h /\ ListStays({h}, closed)

(* zoo_get_children fails on a session that lives, for instance because    *)
(* the connection is lost under way: no watch is set.                      *)
ReadingFails(h) ==
    /\ faults < MaxFaults
    /\ faults' = faults + 1
    /\ blind' = blind \cup {h}

LoseConnection(h) ==
    /\ sess[h] = "live" /\ conn[h] /\ faults < MaxFaults
    /\ conn' = [conn EXCEPT ![h] = FALSE]
    /\ faults' = faults + 1
    /\ UNCHANGED <<sess, armed, ev, eph, head, manager, history>>

(* The server gives up a session whose client is away or dead. *)
Expire(h) ==
    /\ ~conn[h]
    /\ \/ sess[h] = "live" /\ EndSession(h, "expired")
       \/ sess[h] = "orphan" /\ EndSession(h, "closed")
    /\ UNCHANGED <<conn, faults, manager, history>>

(* The client library reconnects and learns what became of the session. *)
Reconnect(h) ==
    /\ ~conn[h]
    /\ \/ /\ sess[h] = "live"
          /\ conn' = [conn EXCEPT ![h] = TRUE]
          /\ UNCHANGED <<sess, ev>>
       \/ /\ sess[h] = "expired"
          /\ sess' = [sess EXCEPT ![h] = "dead"]
          /\ ev' = [ev EXCEPT ![h] = @ \cup {"expired"}]
          /\ UNCHANGED conn
    /\ UNCHANGED <<armed, eph, head, faults, manager, history>>

-----------------------------------------------------------------------------
(* Initialize: nothing if the manager is initialised or running; otherwise *)
(* a new handle replaces, and thereby closes, the old one.                 *)
Unopened(n) == {h \in Handles : NodeOf(h) = n /\ sess[h] = "none"}
NewHandle(n) == {h \in Unopened(n) : \A g \in Unopened(n) : h[2] <= g[2]}

(* The first disjunct is also a failing zookeeper_init. *)
Initialize(n) ==
    \/ UNCHANGED <<zk, m_runState, m_zkhandle>>
    \/ /\ m_runState[n] \notin {"Initialized", "Running"}
       /\ \E new \in NewHandle(n) : LET old == m_zkhandle[n] IN
             /\ sess' = [h \in Handles |->
                            IF h = new THEN "live"
                            ELSE IF h = old THEN "closed" ELSE sess[h]]
             /\ conn' = [h \in Handles |-> h = new \/ (conn[h] /\ h # old)]
             /\ m_zkhandle' = [m_zkhandle EXCEPT ![n] = new]
             /\ \/ /\ old # NoHandle /\ eph[n] = old
                   /\ ListChanges([eph EXCEPT ![n] = NoHandle], {old}, {old})
                \/ /\ old = NoHandle \/ eph[n] # old
                   /\ ListStays({old}, {old})
       /\ m_runState' = [m_runState EXCEPT ![n] = "Initialized"]
       /\ UNCHANGED faults

(* createNode, first part: the path exists, the child list is read and     *)
(* watched.  Its last zoo_exists overwrites the result of the reading.     *)
Usable(n) == /\ m_zkhandle[n] # NoHandle
             /\ sess[m_zkhandle[n]] = "live" /\ conn[m_zkhandle[n]]

CreateNodeWatches(n) ==
    /\ Usable(n)
    /\ \/ /\ armed' = armed \cup {m_zkhandle[n]}
          /\ UNCHANGED <<faults, blind>>
       \/ ReadingFails(m_zkhandle[n]) /\ UNCHANGED armed
    /\ UNCHANGED <<sess, conn, ev, eph, head>>

(* createNode, second part: the node's own child is created unless one of  *)
(* that name is there, be it of an earlier session.                        *)
CreateNodeCreates(n) ==
    /\ Usable(n)
    /\ \/ eph[n] # NoHandle /\ UNCHANGED <<eph, head, ev, armed>>
       \/ /\ eph[n] = NoHandle
          /\ ListChanges([eph EXCEPT ![n] = m_zkhandle[n]], {}, {})
    /\ UNCHANGED <<sess, conn, faults>>

-----------------------------------------------------------------------------
(* The thread that calls the manager's methods.  The client initialises a  *)
(* new manager or one it has stopped; a crashed node starts as a new one.  *)
(* History: a call that runs while the expiry loop of its node does, or    *)
(* while a session's expiry is handled, has overlapped.                    *)

InLoop(n) == \E h \in Handles :
                NodeOf(h) = n /\ cb[h] \in {"init", "start", "create", "sleep"}

Overlaps(n, overlap) ==
    overlapped' = IF overlap THEN overlapped \cup {n} ELSE overlapped

InitializeCalled(n) ==
    /\ main[n] = "idle"
    /\ Opened(n) = {} \/ n \in stoppedBy
    /\ m_zkhandle[n] # NoHandle => cb[m_zkhandle[n]] = "idle"
    /\ Initialize(n)
    /\ stoppedBy' = stoppedBy \ {n}
    /\ Overlaps(n, InLoop(n))
    /\ UNCHANGED <<m_nodeMode, main, freed, cb, told, blind>>

(* m_startMutex *)
StartFree(n) == /\ main[n] # "create"
                /\ \A h \in Handles : NodeOf(h) = n => cb[h] # "create"

StartCalled(n) ==
    /\ main[n] = "idle" /\ StartFree(n) /\ m_runState[n] = "Initialized"
    /\ CreateNodeWatches(n)
    /\ main' = [main EXCEPT ![n] = "create"]
    /\ UNCHANGED <<m_runState, m_nodeMode, m_zkhandle, freed, cb, told,
                   stoppedBy, overlapped>>

(* Start returns 0 and the manager runs, or the handle went away under it. *)
StartReturns(n) ==
    /\ main[n] = "create"
    /\ \/ /\ CreateNodeCreates(n)
          /\ m_runState' = [m_runState EXCEPT ![n] = "Running"]
       \/ /\ ~Usable(n)
          /\ UNCHANGED <<zk, m_runState>>
    /\ main' = [main EXCEPT ![n] = "idle"]
    /\ UNCHANGED <<m_nodeMode, m_zkhandle, freed, cb, told, history>>

(* Register, called between Initialize and Start as the interface lists    *)
(* the calls.                                                              *)
Register(n) ==
    /\ main[n] = "idle" /\ m_runState[n] = "Initialized"
    /\ n \in Listening /\ told[n] = NoHandler
    /\ told' = [told EXCEPT ![n] = "Other"]
    /\ UNCHANGED <<zk, m_runState, m_nodeMode, m_zkhandle, main, freed, cb, history>>

(* Stop and DeInitialize: clearEventHandlers, then the pointer is emptied  *)
(* and its handle closed, which waits for the handle's completion thread.  *)
StopCalled(n) ==
    /\ main[n] = "idle" /\ m_runState[n] \in {"Initialized", "Running"}
    /\ told' = [told EXCEPT ![n] = NoHandler]
    /\ freed' = [freed EXCEPT ![n] = m_zkhandle[n]]
    /\ m_zkhandle' = [m_zkhandle EXCEPT ![n] = NoHandle]
    /\ main' = [main EXCEPT ![n] = "stop"]
    /\ Overlaps(n, InLoop(n))
    /\ UNCHANGED <<zk, m_runState, m_nodeMode, cb, blind, stoppedBy>>

StopReturns(n) ==
    /\ main[n] = "stop"
    /\ \/ /\ freed[n] = NoHandle
          /\ UNCHANGED zk
       \/ /\ freed[n] # NoHandle /\ cb[freed[n]] = "idle"
          /\ EndSession(freed[n], "closed")
          /\ conn' = [conn EXCEPT ![freed[n]] = FALSE]
          /\ UNCHANGED faults
    /\ \E st \in {"Stopped", "UnKnown"} : m_runState' = [m_runState EXCEPT ![n] = st]
    /\ freed' = [freed EXCEPT ![n] = NoHandle]
    /\ main' = [main EXCEPT ![n] = "idle"]
    /\ stoppedBy' = stoppedBy \cup {n}
    /\ UNCHANGED <<m_nodeMode, m_zkhandle, cb, told, blind, overlapped>>

(* The process dies; its session lives on until the server expires it. *)
Crash(n) ==
    /\ faults < MaxFaults /\ Opened(n) # {}
    /\ faults' = faults + 1
    /\ sess' = [h \in Handles |-> IF NodeOf(h) # n \/ sess[h] \in {"none", "closed"}
                                  THEN sess[h]
                                  ELSE IF sess[h] \in {"expired", "dead"} THEN "closed" ELSE "orphan"]
    /\ conn' = [h \in Handles |-> conn[h] /\ NodeOf(h) # n]
    /\ armed' = {h \in armed : NodeOf(h) # n}
    /\ ev' = [h \in Handles |-> IF NodeOf(h) = n THEN {} ELSE ev[h]]
    /\ cb' = [h \in Handles |-> IF NodeOf(h) = n THEN "idle" ELSE cb[h]]
    /\ m_runState' = [m_runState EXCEPT ![n] = "UnKnown"]
    /\ m_nodeMode' = [m_nodeMode EXCEPT ![n] = "Other"]
    /\ m_zkhandle' = [m_zkhandle EXCEPT ![n] = NoHandle]
    /\ main' = [main EXCEPT ![n] = "idle"]
    /\ freed' = [freed EXCEPT ![n] = NoHandle]
    /\ told' = [told EXCEPT ![n] = NoHandler]
    /\ stoppedBy' = stoppedBy \cup {n}
    /\ overlapped' = overlapped \ {n}
    /\ UNCHANGED <<eph, head, blind>>

-----------------------------------------------------------------------------
(* The completion thread of handle h, in watcher.                          *)

(* The mode a list that is not empty gives the node. *)
ModeRead(n) == IF head = n THEN "Leader" ELSE "Follower"

(* Mutant: the list is read without a new watch. *)
ReadChildren_NoWatch(h) ==
    /\ UNCHANGED armed
    /\ \/ head = NoNode /\ UNCHANGED <<m_nodeMode, cb>>
       \/ /\ head # NoNode
          /\ m_nodeMode' = [m_nodeMode EXCEPT ![NodeOf(h)] = ModeRead(NodeOf(h))]
          /\ cb' = [cb EXCEPT ![h] = ModeRead(NodeOf(h))]

(* Mutant: a node is promoted but never demoted. *)
ReadChildren_NeverDemotes(h) ==
    /\ armed' = armed \cup {h}
    /\ \/ head = NoNode /\ UNCHANGED <<m_nodeMode, cb>>
       \/ /\ head # NoNode
          /\ m_nodeMode' = IF m_nodeMode[NodeOf(h)] = "Leader" THEN m_nodeMode
                           ELSE [m_nodeMode EXCEPT ![NodeOf(h)] = ModeRead(NodeOf(h))]
          /\ cb' = [cb EXCEPT ![h] = ModeRead(NodeOf(h))]

(* The list is read and watched again.  A list that is not empty gives the *)
(* mode, of which the handlers are to be told.                             *)
ReadChildren(h) ==
    /\ armed' = armed \cup {h}
    /\ \/ head = NoNode /\ UNCHANGED <<m_nodeMode, cb>>
       \/ /\ head # NoNode
          /\ m_nodeMode' = [m_nodeMode EXCEPT ![NodeOf(h)] = ModeRead(NodeOf(h))]
          /\ cb' = [cb EXCEPT ![h] = ModeRead(NodeOf(h))]

(* onZOO_CHILD_EVENT; an error ends the handler. *)
OnChildEvent(h) ==
    /\ cb[h] = "idle" /\ sess[h] \notin {"none", "closed"} /\ "child" \in ev[h]
    /\ sess[h] = "live" => conn[h]
    /\ ev' = [ev EXCEPT ![h] = @ \ {"child"}]
    /\ \/ sess[h] = "live" /\ ReadChildren(h) /\ UNCHANGED <<faults, blind>>
       \/ /\ \/ sess[h] = "live" /\ ReadingFails(h)
             \/ sess[h] # "live" /\ UNCHANGED <<faults, blind>>
          /\ UNCHANGED <<armed, m_nodeMode, cb>>
    /\ UNCHANGED <<sess, conn, eph, head, m_runState, m_zkhandle,
                   main, freed, told, stoppedBy, overlapped>>

(* Mutant: the handlers are told of a promotion only. *)
TriggerMasterEvent_PromotionOnly(h) ==
    /\ cb[h] \in {"Leader", "Follower"}
    /\ told' = IF cb[h] = "Follower" \/ told[NodeOf(h)] = NoHandler THEN told
               ELSE [told EXCEPT ![NodeOf(h)] = cb[h]]
    /\ cb' = [cb EXCEPT ![h] = "idle"]
    /\ UNCHANGED <<zk, m_runState, m_nodeMode, m_zkhandle, main, freed, history>>

(* triggerMasterEvent, holding m_ehMutex: a handler that is still there is *)
(* told what the list said, whatever became of the manager since.          *)
TriggerMasterEvent(h) ==
    /\ cb[h] \in {"Leader", "Follower"}
    /\ told' = IF told[NodeOf(h)] = NoHandler THEN told
               ELSE [told EXCEPT ![NodeOf(h)] = cb[h]]
    /\ cb' = [cb EXCEPT ![h] = "idle"]
    /\ UNCHANGED <<zk, m_runState, m_nodeMode, m_zkhandle, main, freed, history>>

(* onZOO_SESSION_EVENT, session expired: the mode is reset and the loop    *)
(* entered, whose first test therefore fails.                              *)
OnExpired(h) ==
    /\ cb[h] = "idle" /\ ev[h] = {"expired"} /\ sess[h] = "dead"
    /\ ev' = [ev EXCEPT ![h] = {}]
    /\ m_nodeMode' = [m_nodeMode EXCEPT ![NodeOf(h)] = "Other"]
    /\ m_runState' = [m_runState EXCEPT ![NodeOf(h)] = "UnKnown"]
    /\ cb' = [cb EXCEPT ![h] = "init"]
    /\ Overlaps(NodeOf(h), main[NodeOf(h)] = "stop")
    /\ UNCHANGED <<sess, conn, armed, eph, head, faults, m_zkhandle,
                   main, freed, told, blind, stoppedBy>>

LoopInitialize(h) ==
    /\ cb[h] = "init"
    /\ Initialize(NodeOf(h))
    /\ cb' = [cb EXCEPT ![h] = "start"]
    /\ UNCHANGED <<m_nodeMode, main, freed, told, history>>

LoopStart(h) ==
    /\ cb[h] = "start" /\ StartFree(NodeOf(h))
    /\ \/ /\ m_runState[NodeOf(h)] = "Initialized"
          /\ CreateNodeWatches(NodeOf(h))
          /\ cb' = [cb EXCEPT ![h] = "create"]
       \/ /\ m_runState[NodeOf(h)] = "Initialized" => ~Usable(NodeOf(h))
          /\ cb' = [cb EXCEPT ![h] = "sleep"]
          /\ UNCHANGED <<zk, blind>>
    /\ UNCHANGED <<m_runState, m_nodeMode, m_zkhandle, main, freed, told,
                   stoppedBy, overlapped>>

LoopCreate(h) ==
    /\ cb[h] = "create"
    /\ \/ /\ CreateNodeCreates(NodeOf(h))
          /\ m_runState' = [m_runState EXCEPT ![NodeOf(h)] = "Running"]
       \/ /\ ~Usable(NodeOf(h))
          /\ UNCHANGED <<zk, m_runState>>
    /\ cb' = [cb EXCEPT ![h] = "sleep"]
    /\ UNCHANGED <<m_nodeMode, m_zkhandle, main, freed, told, history>>

(* After the sleep: leave unless running, leave if the mode is known,      *)
(* otherwise start over.                                                   *)
LoopAgain(h) ==
    /\ cb[h] = "sleep"
    /\ \/ /\ \/ m_runState[NodeOf(h)] # "Running"
             \/ m_nodeMode[NodeOf(h)] # "Other"
          /\ cb' = [cb EXCEPT ![h] = "idle"]
          /\ UNCHANGED m_runState
       \/ /\ m_runState[NodeOf(h)] = "Running"
          /\ m_nodeMode[NodeOf(h)] = "Other"
          /\ cb' = [cb EXCEPT ![h] = "init"]
          /\ m_runState' = [m_runState EXCEPT ![NodeOf(h)] = "UnKnown"]
    /\ UNCHANGED <<zk, m_nodeMode, m_zkhandle, main, freed, told, history>>

-----------------------------------------------------------------------------
ServerStep(h) == Expire(h) \/ Reconnect(h)

CallbackStep(h) == \/ OnChildEvent(h) \/ TriggerMasterEvent(h) \/ OnExpired(h)
                   \/ LoopInitialize(h) \/ LoopStart(h) \/ LoopCreate(h)
                   \/ LoopAgain(h)

CallReturns(n) == StartReturns(n) \/ StopReturns(n)

Next == \/ \E h \in Handles : ServerStep(h) \/ LoseConnection(h) \/ CallbackStep(h)
        \/ \E n \in Nodes : \/ InitializeCalled(n) \/ Register(n) \/ StartCalled(n)
                            \/ StopCalled(n) \/ CallReturns(n) \/ Crash(n)

Spec == Init /\ [][Next]_vars

(* Connections come back or sessions expire, and threads run. *)
Fairness == /\ \A h \in Handles : WF_vars(ServerStep(h)) /\ WF_vars(CallbackStep(h))
            /\ \A n \in Nodes : WF_vars(CallReturns(n))

FairSpec == Spec /\ Fairness

-----------------------------------------------------------------------------
(* The manager's fields, its threads' positions and ZooKeeper's view of it *)
(* keep their types.                                                       *)
TypeOK ==
    /\ sess \in [Handles -> {"none", "live", "orphan", "expired", "dead", "closed"}]
    /\ conn \in [Handles -> BOOLEAN]
    /\ armed \subseteq Handles
    /\ ev \in [Handles -> SUBSET {"child", "expired"}]
    /\ eph \in [Nodes -> Handles \cup {NoHandle}]
    /\ head \in Nodes \cup {NoNode}
    /\ faults \in 0..MaxFaults
    /\ m_runState \in [Nodes -> EN_State \ {"Started"}]
    /\ m_nodeMode \in [Nodes -> EN_NodeMode]
    /\ m_zkhandle \in [Nodes -> Handles \cup {NoHandle}]
    /\ main \in [Nodes -> {"idle", "create", "stop"}]
    /\ freed \in [Nodes -> Handles \cup {NoHandle}]
    /\ cb \in [Handles -> {"idle", "Leader", "Follower",
                           "init", "start", "create", "sleep"}]
    /\ told \in [Nodes -> EN_NodeMode \cup {NoHandler}]
    /\ blind \subseteq Handles
    /\ stoppedBy \subseteq Nodes
    /\ overlapped \subseteq Nodes

(* Once the expiry loop is over, a running manager whose reading of the    *)
(* list has not failed has the list under watch, or an event on its way    *)
(* that makes it read the list again.                                      *)
Watching(n) == LET h == m_zkhandle[n] IN
    /\ m_runState[n] = "Running" /\ h # NoHandle
    /\ sess[h] = "live" /\ h \notin blind
    /\ \A g \in Handles : NodeOf(g) = n => cb[g] = "idle"
    => h \in armed \/ "child" \in ev[h]

(* createNode, onZOO_CHILD_EVENT and the expiry loop: however sessions      *)
(* expire, in the middle of Start or of the loop itself, no running manager *)
(* is left without a watch on the child list, as long as no call of its     *)
(* client has overlapped with its expiry loop.                              *)
WatchCoverage == \A n \in Nodes \ overlapped : Watching(n)

(* The same for every manager.  Stop takes no lock and createNode asks for  *)
(* the handle three times: after Stop and Initialize in the middle of the   *)
(* loop's createNode the child is created on a handle without a watch.      *)
WatchCoverageAlways == \A n \in Nodes : Watching(n)

(* The node's current session works and has nothing left to tell it. *)
UpToDate(n) == LET h == m_zkhandle[n] IN
    /\ h # NoHandle /\ n \notin overlapped
    /\ sess[h] = "live" /\ conn[h] /\ ev[h] = {} /\ h \notin blind
    /\ m_runState[n] = "Running" /\ main[n] = "idle"
    /\ \A g \in Handles : NodeOf(g) = n => cb[g] = "idle"

(* Whatever sessions expire and managers restart, two nodes that are both   *)
(* registered by their current sessions, connected and up to date never     *)
(* both call themselves Leader.                                             *)
NoSplitBrain ==
    \A m, n \in {x \in Nodes : /\ UpToDate(x) /\ eph[x] = m_zkhandle[x]
                               /\ m_nodeMode[x] = "Leader"} : m = n

(* The same for nodes whose child is of an earlier session.  Stop and       *)
(* Initialize leave m_nodeMode as it was, and a Start that finds the child  *)
(* of a crashed session there changes no list: no event corrects the mode   *)
(* until that session expires.                                              *)
NoSplitBrainAlways ==
    \A m, n \in {x \in Nodes : UpToDate(x) /\ m_nodeMode[x] = "Leader"} : m = n

Knows(n) ==
    /\ m_runState[n] = "Running" /\ m_zkhandle[n] # NoHandle
    /\ sess[m_zkhandle[n]] = "live" /\ head # NoNode
    => m_nodeMode[n] = ModeRead(n) /\ told[n] \in {NoHandler, ModeRead(n)}

(* OnMasterEvent's documentation: true says the node is the cluster's       *)
(* master, false that it is not.  In the end every running node whose       *)
(* reading of the list has not failed knows, and its handler has been told, *)
(* whoever stopped, crashed or expired between the reading of the list and  *)
(* the telling.                                                             *)
Convergence ==
    <>[](\A n \in Nodes \ overlapped : m_zkhandle[n] \notin blind => Knows(n))

(* The same for every node: a failed zoo_get_children sets no watch, and    *)
(* neither the handler nor createNode tries again.                          *)
ConvergenceAlways == <>[](\A n \in Nodes : Knows(n))

(* Stop waits for the completion thread, which may be in the expiry loop,   *)
(* and the loop ends.                                                       *)
StopTerminates == \A n \in Nodes : main[n] = "stop" ~> main[n] = "idle"

(* EN_NodeMode::Other is documented as the mode of a node that is starting  *)
(* or has lost contact.                                                     *)
OtherWhenLost ==
    \A n \in Nodes : LET h == m_zkhandle[n] IN
        h # NoHandle /\ ~conn[h] /\ ev[h] = {} => m_nodeMode[n] = "Other"

(* Stop is documented as leaving the cluster: the node's child is gone,     *)
(* unless it is of a session that a crash left behind.                      *)
StopLeavesCluster ==
    \A n \in stoppedBy : eph[n] # NoHandle => sess[eph[n]] = "orphan"

(* Start returning 0 is documented as success: the running manager's own    *)
(* session has the node registered.                                         *)
RunningIsRegistered ==
    <>[](\A n \in Nodes :
            m_runState[n] = "Running" /\ m_zkhandle[n] # NoHandle
            /\ sess[m_zkhandle[n]] = "live" => eph[n] = m_zkhandle[n])
=============================================================================
