----------------------- MODULE ClusterManagerProofs -------------------------
(***************************************************************************)
(* The safety of the election for any set of nodes, any number of sessions *)
(* and any number of faults: the inductive invariant, that the steps of    *)
(* the ZooKeeper server, of the thread that calls Initialize, Start and    *)
(* Stop and of the completion threads keep it, and what follows from it.   *)
(***************************************************************************)
EXTENDS ClusterManager, TLAPS

-----------------------------------------------------------------------------
Open == {"live", "expired", "dead"}

(* A handle in use is the manager's or the one Stop is closing; the node's *)
(* child is of a session that has not ended.                               *)
PointersOk(n) ==
    /\ m_zkhandle[n] # NoHandle => /\ NodeOf(m_zkhandle[n]) = n
                                   /\ sess[m_zkhandle[n]] \in Open
                                   /\ m_zkhandle[n] # freed[n]
    /\ freed[n] # NoHandle => /\ NodeOf(freed[n]) = n
                              /\ sess[freed[n]] \in Open
                              /\ main[n] = "stop"
    /\ eph[n] # NoHandle => /\ NodeOf(eph[n]) = n
                            /\ sess[eph[n]] \in {"live", "orphan"}
                            /\ head # NoNode
    /\ \A h \in Handles : NodeOf(h) = n /\ sess[h] \in Open
                          => h \in {m_zkhandle[n], freed[n]}

Creating(n) == \/ main[n] = "create"
               \/ \E h \in Handles : NodeOf(h) = n /\ cb[h] = "create"

(* m_startMutex: one thread is in createNode, the manager does not run     *)
(* then, and its current handle has not created the child yet.             *)
StartOk(n) ==
    /\ main[n] = "create" => \A h \in Handles : NodeOf(h) = n => cb[h] # "create"
    /\ \A g, h \in Handles : /\ NodeOf(g) = n /\ cb[g] = "create"
                             /\ NodeOf(h) = n /\ cb[h] = "create"
                             => g = h
    /\ Creating(n) => m_runState[n] # "Running"
    /\ /\ Creating(n) \/ m_runState[n] = "Initialized"
       /\ m_zkhandle[n] # NoHandle
       => eph[n] # m_zkhandle[n]

Sees(n) == /\ m_zkhandle[n] # NoHandle
           /\ sess[m_zkhandle[n]] = "live" /\ m_zkhandle[n] \notin blind

Covered(n) == m_zkhandle[n] \in armed \/ "child" \in ev[m_zkhandle[n]]

(* The expiry loop will find the mode unknown and open another handle. *)
LoopWillRepeat(n, pos) ==
    /\ m_nodeMode[n] = "Other"
    /\ \E g \in Handles : NodeOf(g) = n /\ cb[g] \in pos

(* A running manager has an event on its way, or its watch is set and its  *)
(* mode is what the list says, or the loop will start over.                *)
InStep(n) ==
    \/ "child" \in ev[m_zkhandle[n]]
    \/ /\ m_zkhandle[n] \in armed
       /\ eph[n] = m_zkhandle[n] => m_nodeMode[n] = ModeRead(n)
    \/ LoopWillRepeat(n, {"start", "sleep"})

OrderlyOk(n) ==
    /\ main[n] = "stop" => m_zkhandle[n] = NoHandle /\ ~InLoop(n)
    /\ Creating(n) /\ m_runState[n] # "Initialized"
       => /\ m_nodeMode[n] = "Other"
          /\ m_zkhandle[n] # NoHandle => sess[m_zkhandle[n]] = "dead"
    /\ Creating(n) /\ Sees(n) => Covered(n) \/ LoopWillRepeat(n, {"start"})
    /\ m_runState[n] = "Running" /\ Sees(n) => InStep(n)

NodeOk(n) == PointersOk(n) /\ StartOk(n) /\ (n \notin overlapped => OrderlyOk(n))

IInv == TypeOK /\ \A n \in Nodes : NodeOk(n)

-----------------------------------------------------------------------------
LEMMA HandleFacts ==
    /\ NoHandle \notin Handles
    /\ \A h \in Handles : NodeOf(h) \in Nodes
  BY DEF NoHandle, Handles, NodeOf

LEMMA NodeFacts ==
    ASSUME IInv, NEW n \in Nodes
    PROVE  /\ PointersOk(n) /\ StartOk(n) /\ (n \notin overlapped => OrderlyOk(n))
           /\ m_zkhandle[n] \in Handles \cup {NoHandle}
           /\ freed[n] \in Handles \cup {NoHandle}
           /\ eph[n] \in Handles \cup {NoHandle}
  <1>1. NodeOk(n)
    BY Zenon DEF IInv
  <1>2. /\ m_zkhandle[n] \in Handles \cup {NoHandle}
        /\ freed[n] \in Handles \cup {NoHandle}
        /\ eph[n] \in Handles \cup {NoHandle}
    BY Zenon DEF IInv, TypeOK
  <1> QED
    BY <1>1, <1>2, Zenon DEF NodeOk

(* What a step that leaves h's session open does to its watch and events:  *)
(* an event stays, and a watch that is gone has fired.                     *)
Kept(h) ==
    /\ "child" \in ev[h] => "child" \in ev'[h]
    /\ h \in armed => "child" \in ev'[h] \/ (h \in armed' /\ head' = head)

LEMMA ListChangesKeeps ==
    ASSUME TypeOK, NEW e, NEW ended, NEW closed, ListChanges(e, ended, closed),
           NEW h \in Handles, h \notin ended, h \notin closed
    PROVE  Kept(h)
  BY Zenon DEF TypeOK, ListChanges, Kept

LEMMA ListStaysKeeps ==
    ASSUME TypeOK, NEW ended, NEW closed, ListStays(ended, closed),
           NEW h \in Handles, h \notin ended, h \notin closed
    PROVE  Kept(h)
  BY Zenon DEF TypeOK, ListStays, Kept

LEMMA ListHead ==
    ASSUME NEW e, NEW ended, NEW closed, ListChanges(e, ended, closed),
           NEW m \in Nodes, e[m] # NoHandle
    PROVE  head' # NoNode
  BY NoNodeAssumption, Zenon DEF ListChanges, Children

(* A step that leaves a node's manager alone preserves what is true of the *)
(* node, whatever it does to the child list, and also when the server ends *)
(* a session of the node or the client library learns of it.               *)
ServerKeeps(h) ==
    /\ cb'[h] = cb[h] /\ (h \in blind => h \in blind')
    /\ \/ sess'[h] = sess[h]
       \/ sess[h] = "live" /\ sess'[h] = "expired"
       \/ sess[h] = "expired" /\ sess'[h] = "dead"
       \/ sess[h] = "orphan" /\ sess'[h] = "closed"
    /\ sess'[h] = "live" => Kept(h)

Untouched(m) ==
    /\ m_runState'[m] = m_runState[m] /\ m_nodeMode'[m] = m_nodeMode[m]
    /\ m_zkhandle'[m] = m_zkhandle[m] /\ main'[m] = main[m] /\ freed'[m] = freed[m]
    /\ m \in overlapped' <=> m \in overlapped
    /\ \/ eph'[m] = NoHandle
       \/ /\ eph'[m] = eph[m]
          /\ eph[m] # NoHandle => sess'[eph[m]] = sess[eph[m]] /\ head' # NoNode
    /\ \A h \in Handles : NodeOf(h) = m => ServerKeeps(h)

LEMMA UntouchedKeeps ==
    ASSUME IInv, NEW m \in Nodes, Untouched(m)
    PROVE  NodeOk(m)'
  <1> USE HandleFacts
  <1>0. NodeOk(m) /\ TypeOK
    BY Zenon DEF IInv
  <1>1. /\ m_zkhandle[m] \in Handles \cup {NoHandle} /\ freed[m] \in Handles \cup {NoHandle}
        /\ eph[m] \in Handles \cup {NoHandle}
    BY <1>0, Zenon DEF TypeOK
  <1>2. PointersOk(m)'
    BY <1>0, <1>1 DEF NodeOk, PointersOk, Untouched, ServerKeeps, Open
  <1>3. Creating(m)' <=> Creating(m)
    BY Zenon DEF Creating, Untouched, ServerKeeps
  <1>4. StartOk(m)'
    BY <1>0, <1>1, <1>3 DEF NodeOk, StartOk, Untouched, ServerKeeps
  <1>5. ASSUME m \notin overlapped' PROVE OrderlyOk(m)'
    <2>1. OrderlyOk(m)
      BY <1>0, <1>5, Zenon DEF NodeOk, Untouched
    <2>2. InLoop(m)' <=> InLoop(m)
      BY Zenon DEF InLoop, Untouched, ServerKeeps
    <2>3. Sees(m)' => Sees(m) /\ Kept(m_zkhandle[m])
      BY <1>0, <1>1 DEF Sees, Untouched, ServerKeeps, NodeOk, PointersOk
    <2>4. ASSUME NEW pos, LoopWillRepeat(m, pos) PROVE LoopWillRepeat(m, pos)'
      BY <2>4, Zenon DEF LoopWillRepeat, Untouched, ServerKeeps
    <2>5. Sees(m)' /\ Covered(m) => Covered(m)'
      BY <2>3, Zenon DEF Covered, Kept, Untouched
    <2>6. Sees(m)' /\ InStep(m) => InStep(m)'
      <3>1. Sees(m)' => m_zkhandle'[m] # NoHandle
        BY Zenon DEF Sees
      <3> QED
        BY <2>3, <2>4, <3>1, Zenon DEF InStep, Kept, Untouched, ModeRead
    <2>7. (Creating(m) /\ m_runState[m] # "Initialized"
           => (m_zkhandle[m] # NoHandle => sess[m_zkhandle[m]] = "dead"))'
      BY <2>1, <1>0, <1>1, <1>3, Zenon DEF OrderlyOk, Untouched, ServerKeeps, NodeOk, PointersOk
    <2> QED
      BY <2>1, <2>2, <2>3, <2>4, <2>5, <2>6, <2>7, <1>3, Zenon DEF OrderlyOk, Untouched
  <1> QED
    BY <1>2, <1>4, <1>5, Zenon DEF NodeOk

(* A step of another node's manager. *)
Still(m) ==
    /\ m_runState'[m] = m_runState[m] /\ m_nodeMode'[m] = m_nodeMode[m]
    /\ m_zkhandle'[m] = m_zkhandle[m] /\ main'[m] = main[m] /\ freed'[m] = freed[m]
    /\ m \in overlapped' <=> m \in overlapped
    /\ eph'[m] = eph[m]
    /\ head' = head \/ (eph[m] # NoHandle => head' # NoNode)
    /\ \A h \in Handles : NodeOf(h) = m =>
          /\ cb'[h] = cb[h] /\ sess'[h] = sess[h] /\ (h \in blind => h \in blind')
          /\ Kept(h)

LEMMA StillKeeps ==
    ASSUME IInv, NEW m \in Nodes, Still(m)
    PROVE  NodeOk(m)'
  <1>1. PointersOk(m) /\ eph[m] \in Handles \cup {NoHandle}
    BY NodeFacts, Zenon
  <1>2. eph[m] # NoHandle => sess'[eph[m]] = sess[eph[m]] /\ head' # NoNode
    BY <1>1, Zenon DEF PointersOk, Still
  <1>3. Untouched(m)
    BY <1>2, Zenon DEF Still, Untouched, ServerKeeps
  <1> QED
    BY <1>3, UntouchedKeeps, Zenon

-----------------------------------------------------------------------------
(* The server's steps. *)

LEMMA EndSessionFacts ==
    ASSUME IInv, NEW h \in Handles, NEW st, st # "live", EndSession(h, st)
    PROVE  /\ sess' = [sess EXCEPT ![h] = st]
           /\ \A g \in Handles : g # h => Kept(g)
           /\ \A m \in Nodes : \/ eph'[m] = NoHandle
                               \/ /\ eph'[m] = eph[m] /\ eph[m] # h
                                  /\ eph[m] # NoHandle => head' # NoNode
           /\ \A m \in Nodes : m # NodeOf(h) => eph'[m] = eph[m]
           /\ eph' \in [Nodes -> Handles \cup {NoHandle}]
           /\ head' \in Nodes \cup {NoNode}
           /\ armed' \subseteq Handles
           /\ ev' \in [Handles -> SUBSET {"child", "expired"}]
  <1> DEFINE closed == IF st = "closed" THEN {h} ELSE {}
             e == [eph EXCEPT ![NodeOf(h)] = NoHandle]
  <1>0. TypeOK /\ NodeOf(h) \in Nodes /\ \A m \in Nodes : PointersOk(m)
    BY HandleFacts, Zenon DEF IInv, NodeOk
  <1>1. \A m \in Nodes : eph[m] = h => m = NodeOf(h)
    BY <1>0, HandleFacts DEF PointersOk
  <1>2. CASE eph[NodeOf(h)] = h /\ ListChanges(e, {h}, closed)
    <2>1. \A g \in Handles : g # h => Kept(g)
      BY <1>0, <1>2, ListChangesKeeps
    <2>2. eph' = e /\ e \in [Nodes -> Handles \cup {NoHandle}]
      BY <1>0, <1>2, Zenon DEF ListChanges, TypeOK
    <2>3. \A m \in Nodes : e[m] # NoHandle => head' # NoNode
      BY <1>2, ListHead, Zenon
    <2>4. /\ \A m \in Nodes : e[m] = NoHandle \/ (e[m] = eph[m] /\ eph[m] # h)
          /\ \A m \in Nodes : m # NodeOf(h) => e[m] = eph[m]
      BY <1>0, <1>1, Zenon DEF TypeOK
    <2>5. /\ head' \in Nodes \cup {NoNode} /\ armed' \subseteq Handles
          /\ ev' \in [Handles -> SUBSET {"child", "expired"}]
      BY <1>0, <1>2, Zenon DEF ListChanges, TypeOK, Children
    <2> QED
      BY <2>1, <2>2, <2>3, <2>4, <2>5, Zenon DEF EndSession
  <1>3. CASE eph[NodeOf(h)] # h /\ ListStays({h}, closed)
    <2>1. \A g \in Handles : g # h => Kept(g)
      BY <1>0, <1>3, ListStaysKeeps
    <2>2. UNCHANGED <<eph, head>> /\ armed' \subseteq Handles
      BY <1>0, <1>3, Zenon DEF ListStays, TypeOK
    <2>3. ev' \in [Handles -> SUBSET {"child", "expired"}]
      BY <1>0, <1>3, Zenon DEF ListStays, TypeOK
    <2>4. sess' = [sess EXCEPT ![h] = st]
      BY Zenon DEF EndSession
    <2>5. \A m \in Nodes : eph[m] # h /\ (eph[m] # NoHandle => head # NoNode)
      BY <1>0, <1>1, <1>3, Zenon DEF PointersOk
    <2>6. eph' \in [Nodes -> Handles \cup {NoHandle}] /\ head' \in Nodes \cup {NoNode}
      BY <1>0, <2>2, Zenon DEF TypeOK
    <2> QED
      BY <1>0, <1>1, <1>3, <2>1, <2>2, <2>3, <2>4, <2>5, <2>6, Zenon
  <1> QED
    BY <1>2, <1>3, Zenon DEF EndSession

LEMMA ServerStepKeeps ==
    ASSUME IInv, NEW h \in Handles, ServerStep(h) \/ LoseConnection(h)
    PROVE  IInv'
  <1> USE HandleFacts
  <1>0. TypeOK /\ \A m \in Nodes : PointersOk(m)
    BY Zenon DEF IInv, NodeOk
  <1>1. CASE LoseConnection(h)
    <2>1. TypeOK'
      BY <1>0, <1>1, MaxFaultsAssumption DEF LoseConnection, TypeOK, manager, history
    <2>2. \A m \in Nodes : Untouched(m)
      BY <1>0, <1>1, Zenon DEF LoseConnection, Untouched, ServerKeeps, Kept, manager, history, PointersOk
    <2> QED
      BY <2>1, <2>2, UntouchedKeeps, Zenon DEF IInv
  <1>2. CASE Reconnect(h)
    <2>1. TypeOK'
      <3>1. sess' \in [Handles -> {"none", "live", "orphan", "expired", "dead", "closed"}]
        BY <1>0, <1>2 DEF Reconnect, TypeOK
      <3>2. ev' \in [Handles -> SUBSET {"child", "expired"}]
        BY <1>0, <1>2 DEF Reconnect, TypeOK
      <3>3. conn' \in [Handles -> BOOLEAN]
        BY <1>0, <1>2, Zenon DEF Reconnect, TypeOK
      <3> QED
        BY <1>0, <1>2, <3>1, <3>2, <3>3, Zenon DEF Reconnect, TypeOK, manager, history
    <2>2. /\ \A g \in Handles : Kept(g)
          /\ \A g \in Handles : \/ sess'[g] = sess[g]
                                \/ sess[g] = "expired" /\ sess'[g] = "dead"
      BY <1>0, <1>2 DEF Reconnect, Kept, TypeOK
    <2>3. UNCHANGED <<eph, head, manager, history>>
      BY <1>2, Zenon DEF Reconnect
    <2>4. \A m \in Nodes : Untouched(m)
      BY <1>0, <2>2, <2>3 DEF Untouched, ServerKeeps, manager, history, PointersOk, TypeOK
    <2> QED
      BY <2>1, <2>4, UntouchedKeeps, Zenon DEF IInv
  <1>3. CASE Expire(h)
    <2>1. PICK st \in {"expired", "closed"} :
              /\ EndSession(h, st)
              /\ \/ sess[h] = "live" /\ st = "expired"
                 \/ sess[h] = "orphan" /\ st = "closed"
      BY <1>3, Zenon DEF Expire
    <2>2. UNCHANGED <<conn, faults, manager, history>>
      BY <1>3, Zenon DEF Expire
    <2>3. /\ sess' = [sess EXCEPT ![h] = st]
          /\ \A g \in Handles : g # h => Kept(g)
          /\ \A m \in Nodes : \/ eph'[m] = NoHandle
                              \/ /\ eph'[m] = eph[m] /\ eph[m] # h
                                 /\ eph[m] # NoHandle => head' # NoNode
      BY <2>1, EndSessionFacts, Zenon
    <2>4. TypeOK'
      <3>1. /\ eph' \in [Nodes -> Handles \cup {NoHandle}]
            /\ head' \in Nodes \cup {NoNode}
            /\ armed' \subseteq Handles
            /\ ev' \in [Handles -> SUBSET {"child", "expired"}]
        BY <2>1, EndSessionFacts, Zenon
      <3> QED
        BY <1>0, <2>2, <2>3, <3>1, Zenon DEF TypeOK, manager, history
    <2>5. \A g \in Handles : ServerKeeps(g)
      BY <1>0, <2>1, <2>2, <2>3, Zenon DEF ServerKeeps, manager, history, TypeOK
    <2>6. \A m \in Nodes : Untouched(m)
      BY <1>0, <2>2, <2>3, <2>5 DEF Untouched, manager, history, TypeOK
    <2> QED
      BY <2>4, <2>6, UntouchedKeeps, Zenon DEF IInv
  <1> QED
    BY <1>1, <1>2, <1>3, Zenon DEF ServerStep

-----------------------------------------------------------------------------
(* What opening a new handle does. *)
Opens(n, new) ==
    /\ NodeOf(new) = n /\ sess[new] = "none"
    /\ m_runState[n] \notin {"Initialized", "Running"}
    /\ m_runState' = [m_runState EXCEPT ![n] = "Initialized"]
    /\ m_zkhandle' = [m_zkhandle EXCEPT ![n] = new]
    /\ sess' = [h \in Handles |-> IF h = new THEN "live"
                                  ELSE IF h = m_zkhandle[n] THEN "closed" ELSE sess[h]]
    /\ \A g \in Handles : NodeOf(g) # n => Kept(g)
    /\ \A m \in Nodes : \/ eph'[m] = NoHandle
                        \/ /\ eph'[m] = eph[m] /\ eph[m] # m_zkhandle[n]
                           /\ eph[m] # NoHandle => head' # NoNode
    /\ \A m \in Nodes : m # n => eph'[m] = eph[m]

LEMMA InitializeFacts ==
    ASSUME IInv, NEW n \in Nodes, Initialize(n)
    PROVE  /\ \/ UNCHANGED <<zk, m_runState, m_zkhandle>>
              \/ \E new \in Handles : Opens(n, new)
           /\ sess' \in [Handles -> {"none", "live", "orphan", "expired", "dead", "closed"}]
           /\ conn' \in [Handles -> BOOLEAN] /\ faults' \in 0..MaxFaults
           /\ eph' \in [Nodes -> Handles \cup {NoHandle}]
           /\ head' \in Nodes \cup {NoNode}
           /\ armed' \subseteq Handles
           /\ ev' \in [Handles -> SUBSET {"child", "expired"}]
           /\ m_zkhandle' \in [Nodes -> Handles \cup {NoHandle}]
           /\ m_runState' \in [Nodes -> EN_State \ {"Started"}]
  <1> DEFINE old == m_zkhandle[n]
             e == [eph EXCEPT ![n] = NoHandle]
             O(new) == /\ sess' = [h \in Handles |-> IF h = new THEN "live"
                                          ELSE IF h = old THEN "closed" ELSE sess[h]]
                       /\ conn' = [h \in Handles |-> h = new \/ (conn[h] /\ h # old)]
                       /\ m_zkhandle' = [m_zkhandle EXCEPT ![n] = new]
                       /\ \/ /\ old # NoHandle /\ eph[n] = old
                             /\ ListChanges(e, {old}, {old})
                          \/ /\ old = NoHandle \/ eph[n] # old
                             /\ ListStays({old}, {old})
  <1> USE HandleFacts
  <1>0. TypeOK /\ \A m \in Nodes : PointersOk(m)
    BY Zenon DEF IInv, NodeOk
  <1>1. CASE UNCHANGED <<zk, m_runState, m_zkhandle>>
    BY <1>0, <1>1, Zenon DEF TypeOK, zk
  <1>2. CASE /\ m_runState[n] \notin {"Initialized", "Running"}
             /\ \E new \in NewHandle(n) : O(new)
             /\ m_runState' = [m_runState EXCEPT ![n] = "Initialized"]
             /\ UNCHANGED faults
    <2>1. PICK new \in NewHandle(n) : O(new)
      BY <1>2, Zenon
    <2>2. new \in Handles /\ NodeOf(new) = n /\ sess[new] = "none"
      BY Zenon DEF NewHandle, Unopened
    <2>3. \A g \in Handles : NodeOf(g) # n => g # old
      BY <1>0 DEF PointersOk
    <2>4. \A m \in Nodes : m # n => eph[m] # old \/ eph[m] = NoHandle
      BY <1>0 DEF PointersOk
    <2>5. /\ \A g \in Handles : NodeOf(g) # n => Kept(g)
          /\ \A m \in Nodes : \/ eph'[m] = NoHandle
                              \/ /\ eph'[m] = eph[m] /\ eph[m] # old
                                 /\ eph[m] # NoHandle => head' # NoNode
          /\ \A m \in Nodes : m # n => eph'[m] = eph[m]
          /\ eph' \in [Nodes -> Handles \cup {NoHandle}]
          /\ head' \in Nodes \cup {NoNode}
          /\ armed' \subseteq Handles
          /\ ev' \in [Handles -> SUBSET {"child", "expired"}]
      <3>1. CASE old # NoHandle /\ eph[n] = old /\ ListChanges(e, {old}, {old})
        <4>1. \A g \in Handles : NodeOf(g) # n => Kept(g)
          BY <1>0, <2>3, <3>1, ListChangesKeeps
        <4>2. eph' = e /\ e \in [Nodes -> Handles \cup {NoHandle}]
          BY <1>0, <3>1, Zenon DEF ListChanges, TypeOK
        <4>3. \A m \in Nodes : e[m] # NoHandle => head' # NoNode
          BY <3>1, ListHead, Zenon
        <4>4. /\ \A m \in Nodes : e[m] = NoHandle \/ (e[m] = eph[m] /\ eph[m] # old)
              /\ \A m \in Nodes : m # n => e[m] = eph[m]
          BY <1>0, <2>4, Zenon DEF TypeOK
        <4>5. /\ head' \in Nodes \cup {NoNode} /\ armed' \subseteq Handles
              /\ ev' \in [Handles -> SUBSET {"child", "expired"}]
          BY <1>0, <3>1, Zenon DEF ListChanges, TypeOK, Children
        <4> QED
          BY <4>1, <4>2, <4>3, <4>4, <4>5, Zenon
      <3>2. CASE (old = NoHandle \/ eph[n] # old) /\ ListStays({old}, {old})
        <4>1. \A g \in Handles : NodeOf(g) # n => Kept(g)
          BY <1>0, <2>3, <3>2, ListStaysKeeps
        <4>2. UNCHANGED <<eph, head>> /\ armed' \subseteq Handles
          BY <1>0, <3>2, Zenon DEF ListStays, TypeOK
        <4>3. ev' \in [Handles -> SUBSET {"child", "expired"}]
          BY <1>0, <3>2, Zenon DEF ListStays, TypeOK
        <4>4. \A m \in Nodes : \/ eph[m] = NoHandle
                               \/ eph[m] # old /\ head # NoNode
          BY <1>0, <2>4, <3>2, Zenon DEF PointersOk
        <4>5. eph' \in [Nodes -> Handles \cup {NoHandle}] /\ head' \in Nodes \cup {NoNode}
          BY <1>0, <4>2, Zenon DEF TypeOK
        <4> QED
          BY <4>1, <4>2, <4>3, <4>4, <4>5, Zenon
      <3> QED
        BY <2>1, <3>1, <3>2, Zenon
    <2>6. Opens(n, new)
      BY <1>2, <2>1, <2>2, <2>5, Zenon DEF Opens
    <2>7. /\ sess' \in [Handles -> {"none", "live", "orphan", "expired", "dead", "closed"}]
          /\ conn' \in [Handles -> BOOLEAN] /\ faults' \in 0..MaxFaults
          /\ m_zkhandle' \in [Nodes -> Handles \cup {NoHandle}]
          /\ m_runState' \in [Nodes -> EN_State \ {"Started"}]
      BY <1>0, <1>2, <2>1, <2>2, Zenon DEF TypeOK, EN_State
    <2> QED
      BY <2>2, <2>5, <2>6, <2>7, Zenon
  <1> QED
    BY <1>1, <1>2, Zenon DEF Initialize

(* What the two parts of createNode do. *)
LEMMA WatchFacts ==
    ASSUME TypeOK, NEW n \in Nodes, CreateNodeWatches(n)
    PROVE  /\ UNCHANGED <<sess, conn, ev, eph, head>>
           /\ m_zkhandle[n] \in armed' \cup blind'
           /\ \A g \in Handles : Kept(g) /\ (g \in blind => g \in blind')
           /\ armed' \subseteq Handles /\ blind' \subseteq Handles /\ faults' \in 0..MaxFaults
  <1>1. m_zkhandle[n] \in Handles
    BY Zenon DEF CreateNodeWatches, Usable, TypeOK
  <1> QED
    BY <1>1, MaxFaultsAssumption DEF CreateNodeWatches, ReadingFails, Kept, TypeOK

LEMMA CreateFacts ==
    ASSUME IInv, NEW n \in Nodes, CreateNodeCreates(n), eph[n] # m_zkhandle[n]
    PROVE  /\ UNCHANGED <<sess, conn, faults>>
           /\ \A g \in Handles : Kept(g)
           /\ \A m \in Nodes : m # n => eph'[m] = eph[m]
           /\ \A m \in Nodes : eph'[m] # NoHandle => head' # NoNode
           /\ \/ eph'[n] = eph[n]
              \/ /\ eph'[n] = m_zkhandle[n] /\ m_zkhandle[n] # NoHandle
                 /\ sess[m_zkhandle[n]] = "live"
           /\ Covered(n) => \/ "child" \in ev'[m_zkhandle[n]]
                            \/ m_zkhandle[n] \in armed' /\ eph'[n] # m_zkhandle[n]
           /\ eph' \in [Nodes -> Handles \cup {NoHandle}]
           /\ head' \in Nodes \cup {NoNode}
           /\ armed' \subseteq Handles
           /\ ev' \in [Handles -> SUBSET {"child", "expired"}]
  <1> DEFINE z == m_zkhandle[n]
             e == [eph EXCEPT ![n] = z]
  <1>0. TypeOK /\ \A m \in Nodes : PointersOk(m)
    BY Zenon DEF IInv, NodeOk
  <1>1. z \in Handles /\ z # NoHandle /\ sess[z] = "live" /\ UNCHANGED <<sess, conn, faults>>
    BY <1>0, Zenon DEF CreateNodeCreates, Usable, TypeOK
  <1>2. CASE eph[n] # NoHandle /\ UNCHANGED <<eph, head, ev, armed>>
    <2>1. \A m \in Nodes : eph[m] # NoHandle => head # NoNode
      BY <1>0, Zenon DEF PointersOk
    <2> QED
      BY <1>0, <1>1, <1>2, <2>1, Zenon DEF Kept, Covered, TypeOK
  <1>3. CASE eph[n] = NoHandle /\ ListChanges(e, {}, {})
    <2>1. \A g \in Handles : Kept(g)
      BY <1>0, <1>3, ListChangesKeeps
    <2>2. eph' = e /\ e \in [Nodes -> Handles \cup {NoHandle}]
      BY <1>0, <1>1, <1>3, Zenon DEF ListChanges, TypeOK
    <2>3. \A m \in Nodes : e[m] # NoHandle => head' # NoNode
      BY <1>3, ListHead, Zenon
    <2>4. Covered(n) => "child" \in ev'[z]
      BY <1>0, <1>1, <1>3, Zenon DEF Covered, ListChanges, TypeOK
    <2>5. /\ head' \in Nodes \cup {NoNode} /\ armed' \subseteq Handles
          /\ ev' \in [Handles -> SUBSET {"child", "expired"}]
      BY <1>0, <1>3, Zenon DEF ListChanges, TypeOK, Children
    <2>6. e[n] = z /\ \A m \in Nodes : m # n => e[m] = eph[m]
      BY <1>0, Zenon DEF TypeOK
    <2> QED
      BY <1>1, <2>1, <2>2, <2>3, <2>4, <2>5, <2>6, Zenon
  <1> QED
    BY <1>2, <1>3, Zenon DEF CreateNodeCreates

-----------------------------------------------------------------------------
(* The calls. *)

LEMMA InitializeCalledKeeps ==
    ASSUME IInv, NEW n \in Nodes, InitializeCalled(n)
    PROVE  IInv'
  <1> USE HandleFacts
  <1>0. TypeOK
    BY Zenon DEF IInv
  <1>a. /\ PointersOk(n) /\ StartOk(n) /\ (n \notin overlapped => OrderlyOk(n))
        /\ m_zkhandle[n] \in Handles \cup {NoHandle}
        /\ freed[n] \in Handles \cup {NoHandle}
        /\ eph[n] \in Handles \cup {NoHandle}
    BY NodeFacts, Zenon
  <1>1. /\ main[n] = "idle" /\ Initialize(n)
        /\ stoppedBy' = stoppedBy \ {n} /\ Overlaps(n, InLoop(n))
        /\ UNCHANGED <<m_nodeMode, main, freed, cb, told, blind>>
    BY Zenon DEF InitializeCalled
  <1>2. TypeOK'
    BY <1>0, <1>1, InitializeFacts, Zenon DEF TypeOK, Overlaps
  <1>3. CASE UNCHANGED <<zk, m_runState, m_zkhandle>>
    <2>1. ASSUME NEW m \in Nodes, m # n PROVE Still(m)
      BY <1>0, <1>1, <1>3, <2>1, Zenon DEF Still, Kept, zk, Overlaps
    <2>2. CASE InLoop(n)
      <3>1. NodeOk(n)'
        <4>1. PointersOk(n)' /\ StartOk(n)' /\ n \in overlapped'
          <5>1. PointersOk(n)'
            BY <1>a, <1>1, <1>3, Zenon DEF PointersOk, zk
          <5>2. StartOk(n)'
            BY <1>a, <1>1, <1>3, Zenon DEF StartOk, Creating, zk
          <5> QED
            BY <1>1, <2>2, <5>1, <5>2, Zenon DEF Overlaps
        <4> QED
          BY <4>1, Zenon DEF NodeOk
      <3> QED
        BY <1>2, <2>1, <3>1, StillKeeps, Zenon DEF IInv
    <2>3. CASE ~InLoop(n)
      <3>1. Still(n)
        BY <1>1, <1>3, <2>3, Zenon DEF Still, Kept, zk, Overlaps
      <3> QED
        BY <1>2, <2>1, <3>1, StillKeeps, Zenon DEF IInv
    <2> QED
      BY <2>2, <2>3, Zenon
  <1>4. ASSUME NEW new \in Handles, Opens(n, new) PROVE IInv'
    <2>1. ASSUME NEW m \in Nodes, m # n PROVE Still(m)
      <3>1. \A h \in Handles : NodeOf(h) = m => sess'[h] = sess[h] /\ Kept(h)
        BY <1>a, <1>4, <2>1, Zenon DEF Opens, PointersOk
      <3>2. eph'[m] = eph[m] /\ (eph[m] # NoHandle => head' # NoNode)
        BY <1>4, <2>1, Zenon DEF Opens
      <3> QED
        BY <1>0, <1>1, <1>4, <2>1, <3>1, <3>2, Zenon DEF Still, Overlaps, Opens, TypeOK
    <2>2. /\ m_zkhandle'[n] = new /\ m_runState'[n] = "Initialized"
          /\ sess'[new] = "live" /\ sess[new] = "none"
          /\ \A h \in Handles : h # new => sess'[h] = IF h = m_zkhandle[n] THEN "closed" ELSE sess[h]
          /\ NodeOf(new) = n
      BY <1>0, <1>4, Zenon DEF Opens, TypeOK
    <2>3. /\ \/ eph'[n] = NoHandle
             \/ /\ eph'[n] = eph[n] /\ eph[n] # m_zkhandle[n]
                /\ eph[n] # NoHandle => head' # NoNode
          /\ eph[n] \in Handles \cup {NoHandle} /\ freed[n] \in Handles \cup {NoHandle}
      BY <1>0, <1>4, Zenon DEF Opens, TypeOK
    <2>4. eph'[n] # new /\ freed[n] = NoHandle
      BY <1>a, <1>1, <2>2, <2>3, Zenon DEF PointersOk
    <2>5. PointersOk(n)'
      BY <1>a, <1>1, <2>2, <2>3, <2>4, Zenon DEF PointersOk, Open
    <2>6. StartOk(n)'
      BY <1>a, <1>1, <2>2, <2>4, Zenon DEF StartOk, Creating
    <2>7. ASSUME n \notin overlapped' PROVE OrderlyOk(n)'
      <3>1. ~InLoop(n) /\ ~Creating(n)'
        BY <1>1, <2>7, Zenon DEF Overlaps, InLoop, Creating
      <3> QED
        BY <1>1, <2>2, <3>1, Zenon DEF OrderlyOk
    <2> QED
      BY <1>2, <2>1, <2>5, <2>6, <2>7, StillKeeps, Zenon DEF IInv, NodeOk
  <1> QED
    BY <1>1, <1>3, <1>4, InitializeFacts, Zenon

LEMMA StartCalledKeeps ==
    ASSUME IInv, NEW n \in Nodes, StartCalled(n)
    PROVE  IInv'
  <1> USE HandleFacts
  <1>0. TypeOK
    BY Zenon DEF IInv
  <1>a. /\ PointersOk(n) /\ StartOk(n) /\ (n \notin overlapped => OrderlyOk(n))
        /\ m_zkhandle[n] \in Handles \cup {NoHandle}
        /\ freed[n] \in Handles \cup {NoHandle}
        /\ eph[n] \in Handles \cup {NoHandle}
    BY NodeFacts, Zenon
  <1>1. /\ main[n] = "idle" /\ StartFree(n) /\ m_runState[n] = "Initialized"
        /\ main' = [main EXCEPT ![n] = "create"]
        /\ UNCHANGED <<m_runState, m_nodeMode, m_zkhandle, freed, cb, told,
                       stoppedBy, overlapped>>
    BY Zenon DEF StartCalled
  <1>2. /\ UNCHANGED <<sess, conn, ev, eph, head>>
        /\ m_zkhandle[n] \in armed' \cup blind'
        /\ \A g \in Handles : Kept(g) /\ (g \in blind => g \in blind')
        /\ armed' \subseteq Handles /\ blind' \subseteq Handles /\ faults' \in 0..MaxFaults
    BY <1>0, WatchFacts, Zenon DEF StartCalled
  <1>3. TypeOK'
    BY <1>0, <1>1, <1>2, Zenon DEF TypeOK
  <1>4. ASSUME NEW m \in Nodes, m # n PROVE Still(m)
    BY <1>0, <1>1, <1>2, <1>4, Zenon DEF Still, TypeOK
  <1>5. main'[n] = "create"
    BY <1>0, <1>1, Zenon DEF TypeOK
  <1>6. PointersOk(n)'
    BY <1>a, <1>1, <1>2, <1>5, Zenon DEF PointersOk
  <1>7. StartOk(n)'
    BY <1>a, <1>1, <1>2, <1>5, Zenon DEF StartOk, StartFree
  <1>8. OrderlyOk(n)'
    BY <1>1, <1>2, <1>5, Zenon DEF OrderlyOk, Sees, Covered
  <1> QED
    BY <1>3, <1>4, <1>6, <1>7, <1>8, StillKeeps, Zenon DEF IInv, NodeOk

(* A createNode that succeeds leaves the manager running and in step. *)
LEMMA RunningInStep ==
    ASSUME IInv, NEW n \in Nodes, Creating(n), CreateNodeCreates(n),
           UNCHANGED <<m_zkhandle, m_nodeMode, blind>>, n \notin overlapped,
           \A g \in Handles : cb[g] = "start" => cb'[g] = "start"
    PROVE  Sees(n)' => InStep(n)'
  <1>1. OrderlyOk(n) /\ StartOk(n) /\ UNCHANGED sess
    BY Zenon DEF IInv, NodeOk, CreateNodeCreates
  <1>2. m_zkhandle[n] # NoHandle /\ eph[n] # m_zkhandle[n]
    BY <1>1, Zenon DEF CreateNodeCreates, Usable, StartOk
  <1>3. Covered(n) => \/ "child" \in ev'[m_zkhandle[n]]
                      \/ m_zkhandle[n] \in armed' /\ eph'[n] # m_zkhandle[n]
    BY <1>2, CreateFacts, Zenon
  <1>4. Sees(n)' => Covered(n) \/ LoopWillRepeat(n, {"start"})
    BY <1>1, Zenon DEF OrderlyOk, Sees
  <1>5. LoopWillRepeat(n, {"start"}) => LoopWillRepeat(n, {"start", "sleep"})'
    BY Zenon DEF LoopWillRepeat
  <1> QED
    BY <1>3, <1>4, <1>5, Zenon DEF InStep

(* A createNode that fails changes nothing but where its thread is. *)
LEMMA StartReturnsKeeps ==
    ASSUME IInv, NEW n \in Nodes, StartReturns(n)
    PROVE  IInv'
  <1> USE HandleFacts
  <1>0. TypeOK
    BY Zenon DEF IInv
  <1>a. /\ PointersOk(n) /\ StartOk(n) /\ (n \notin overlapped => OrderlyOk(n))
        /\ m_zkhandle[n] \in Handles \cup {NoHandle}
        /\ freed[n] \in Handles \cup {NoHandle}
        /\ eph[n] \in Handles \cup {NoHandle}
    BY NodeFacts, Zenon
  <1>1. /\ main[n] = "create" /\ main' = [main EXCEPT ![n] = "idle"]
        /\ UNCHANGED <<m_nodeMode, m_zkhandle, freed, cb, told, history>>
    BY Zenon DEF StartReturns
  <1>2. Creating(n) /\ main'[n] = "idle" /\ ~Creating(n)'
    BY <1>0, <1>a, <1>1, Zenon DEF Creating, StartOk, TypeOK
  <1>3. CASE CreateNodeCreates(n) /\ m_runState' = [m_runState EXCEPT ![n] = "Running"]
    <2>1. m_zkhandle[n] # NoHandle /\ eph[n] # m_zkhandle[n]
      BY <1>a, <1>2, <1>3, Zenon DEF CreateNodeCreates, Usable, StartOk
    <2>2. /\ UNCHANGED <<sess, conn, faults>>
          /\ \A g \in Handles : Kept(g)
          /\ \A m \in Nodes : m # n => eph'[m] = eph[m]
          /\ \A m \in Nodes : eph'[m] # NoHandle => head' # NoNode
          /\ \/ eph'[n] = eph[n]
             \/ /\ eph'[n] = m_zkhandle[n] /\ m_zkhandle[n] # NoHandle
                /\ sess[m_zkhandle[n]] = "live"
      BY <1>3, <2>1, CreateFacts, Zenon
    <2>3. /\ eph' \in [Nodes -> Handles \cup {NoHandle}] /\ head' \in Nodes \cup {NoNode}
          /\ armed' \subseteq Handles /\ ev' \in [Handles -> SUBSET {"child", "expired"}]
      BY <1>3, <2>1, CreateFacts, Zenon
    <2>4. TypeOK'
      BY <1>0, <1>1, <1>3, <2>2, <2>3, Zenon DEF TypeOK, history, EN_State
    <2>5. ASSUME NEW m \in Nodes, m # n PROVE Still(m)
      BY <1>0, <1>1, <1>3, <2>2, <2>5, Zenon DEF Still, history, TypeOK
    <2>6. m_runState'[n] = "Running"
      BY <1>0, <1>3, Zenon DEF TypeOK
    <2>7. PointersOk(n)'
      BY <1>a, <1>1, <1>2, <2>2, Zenon DEF PointersOk
    <2>8. StartOk(n)'
      BY <1>2, <2>6, <1>a, <1>1, Zenon DEF StartOk, Creating
    <2>9. ASSUME n \notin overlapped' PROVE OrderlyOk(n)'
      <3>1. Sees(n)' => InStep(n)'
        BY <1>1, <1>2, <1>3, <2>9, RunningInStep, Zenon DEF history
      <3> QED
        BY <1>2, <2>6, <3>1, Zenon DEF OrderlyOk
    <2> QED
      BY <2>4, <2>5, <2>7, <2>8, <2>9, StillKeeps, Zenon DEF IInv, NodeOk
  <1>4. CASE UNCHANGED <<zk, m_runState>>
    <2>1. TypeOK'
      BY <1>0, <1>1, <1>4, Zenon DEF TypeOK, zk, history
    <2>2. ASSUME NEW m \in Nodes, m # n PROVE Still(m)
      BY <1>0, <1>1, <1>4, <2>2, Zenon DEF Still, Kept, zk, history, TypeOK
    <2>3. PointersOk(n)' /\ StartOk(n)'
      BY <1>a, <1>1, <1>2, <1>4, Zenon DEF PointersOk, StartOk, zk, Creating
    <2>4. m_runState[n] # "Running" /\ m_runState'[n] = m_runState[n]
      BY <1>a, <1>2, <1>4, Zenon DEF StartOk
    <2>5. OrderlyOk(n)'
      BY <1>2, <2>4, Zenon DEF OrderlyOk
    <2> QED
      BY <2>1, <2>2, <2>3, <2>5, StillKeeps, Zenon DEF IInv, NodeOk
  <1> QED
    BY <1>3, <1>4, Zenon DEF StartReturns

LEMMA StopCalledKeeps ==
    ASSUME IInv, NEW n \in Nodes, StopCalled(n)
    PROVE  IInv'
  <1> USE HandleFacts
  <1>0. TypeOK
    BY Zenon DEF IInv
  <1>a. /\ PointersOk(n) /\ StartOk(n) /\ (n \notin overlapped => OrderlyOk(n))
        /\ m_zkhandle[n] \in Handles \cup {NoHandle}
        /\ freed[n] \in Handles \cup {NoHandle}
        /\ eph[n] \in Handles \cup {NoHandle}
    BY NodeFacts, Zenon
  <1>1. /\ main[n] = "idle" /\ freed' = [freed EXCEPT ![n] = m_zkhandle[n]]
        /\ m_zkhandle' = [m_zkhandle EXCEPT ![n] = NoHandle]
        /\ main' = [main EXCEPT ![n] = "stop"]
        /\ told' = [told EXCEPT ![n] = NoHandler]
        /\ Overlaps(n, InLoop(n))
        /\ UNCHANGED <<zk, m_runState, m_nodeMode, cb, blind, stoppedBy>>
    BY Zenon DEF StopCalled
  <1>2. TypeOK'
    BY <1>0, <1>1, Zenon DEF TypeOK, zk, Overlaps
  <1>3. ASSUME NEW m \in Nodes, m # n PROVE Still(m)
    BY <1>0, <1>1, <1>3, Zenon DEF Still, Kept, zk, Overlaps, TypeOK
  <1>4. freed'[n] = m_zkhandle[n] /\ m_zkhandle'[n] = NoHandle /\ main'[n] = "stop"
    BY <1>0, <1>1, Zenon DEF TypeOK
  <1>5. freed[n] = NoHandle
    BY <1>a, <1>1, Zenon DEF PointersOk
  <1>6. PointersOk(n)'
    BY <1>a, <1>1, <1>4, <1>5, Zenon DEF PointersOk, zk
  <1>7. StartOk(n)'
    BY <1>a, <1>1, <1>4, Zenon DEF StartOk, Creating, zk
  <1>8. ASSUME n \notin overlapped' PROVE OrderlyOk(n)'
    <2>1. ~InLoop(n)' /\ ~Creating(n)'
      BY <1>1, <1>4, <1>8, Zenon DEF Overlaps, InLoop, Creating
    <2> QED
      BY <1>4, <2>1, Zenon DEF OrderlyOk, Sees
  <1> QED
    BY <1>2, <1>3, <1>6, <1>7, <1>8, StillKeeps, Zenon DEF IInv, NodeOk

LEMMA StopReturnsKeeps ==
    ASSUME IInv, NEW n \in Nodes, StopReturns(n)
    PROVE  IInv'
  <1> USE HandleFacts
  <1>0. TypeOK
    BY Zenon DEF IInv
  <1>a. /\ PointersOk(n) /\ StartOk(n) /\ (n \notin overlapped => OrderlyOk(n))
        /\ m_zkhandle[n] \in Handles \cup {NoHandle}
        /\ freed[n] \in Handles \cup {NoHandle}
        /\ eph[n] \in Handles \cup {NoHandle}
    BY NodeFacts, Zenon
  <1>1. /\ main[n] = "stop" /\ main' = [main EXCEPT ![n] = "idle"]
        /\ freed' = [freed EXCEPT ![n] = NoHandle]
        /\ stoppedBy' = stoppedBy \cup {n}
        /\ UNCHANGED <<m_nodeMode, m_zkhandle, cb, told, blind, overlapped>>
    BY Zenon DEF StopReturns
  <1>2. PICK st \in {"Stopped", "UnKnown"} : m_runState' = [m_runState EXCEPT ![n] = st]
    BY Zenon DEF StopReturns
  <1>3. main'[n] = "idle" /\ freed'[n] = NoHandle /\ m_runState'[n] = st
    BY <1>0, <1>1, <1>2, Zenon DEF TypeOK
  <1>4. Creating(n)' <=> Creating(n)
    BY <1>1, <1>3, Zenon DEF Creating
  <1>5. ASSUME n \notin overlapped' PROVE OrderlyOk(n)'
    <2>1. m_zkhandle'[n] = NoHandle /\ ~InLoop(n)
      BY <1>a, <1>1, <1>5, Zenon DEF OrderlyOk
    <2>2. ~Creating(n)'
      BY <1>1, <1>4, <2>1, Zenon DEF Creating, InLoop
    <2> QED
      BY <1>3, <2>1, <2>2, Zenon DEF OrderlyOk, Sees
  <1>6. CASE freed[n] = NoHandle /\ UNCHANGED zk
    <2>1. TypeOK'
      BY <1>0, <1>1, <1>2, <1>6, Zenon DEF TypeOK, zk, EN_State
    <2>2. ASSUME NEW m \in Nodes, m # n PROVE Still(m)
      BY <1>0, <1>1, <1>2, <1>6, <2>2, Zenon DEF Still, Kept, zk, TypeOK
    <2>3. PointersOk(n)'
      BY <1>a, <1>1, <1>3, <1>6, Zenon DEF PointersOk, zk
    <2>4. StartOk(n)'
      BY <1>a, <1>1, <1>3, <1>4, <1>6, Zenon DEF StartOk, zk
    <2> QED
      BY <1>5, <2>1, <2>2, <2>3, <2>4, StillKeeps, Zenon DEF IInv, NodeOk
  <1>7. CASE /\ freed[n] # NoHandle /\ EndSession(freed[n], "closed")
             /\ conn' = [conn EXCEPT ![freed[n]] = FALSE] /\ UNCHANGED faults
    <2> DEFINE f == freed[n]
    <2>1. f \in Handles /\ NodeOf(f) = n
      BY <1>0, <1>a, <1>7, Zenon DEF TypeOK, PointersOk
    <2>2. /\ sess' = [sess EXCEPT ![f] = "closed"]
          /\ \A g \in Handles : g # f => Kept(g)
          /\ \A m \in Nodes : \/ eph'[m] = NoHandle
                              \/ /\ eph'[m] = eph[m] /\ eph[m] # f
                                 /\ eph[m] # NoHandle => head' # NoNode
          /\ \A m \in Nodes : m # n => eph'[m] = eph[m]
      BY <1>7, <2>1, EndSessionFacts, Zenon
    <2>3. TypeOK'
      <3>1. /\ eph' \in [Nodes -> Handles \cup {NoHandle}]
            /\ head' \in Nodes \cup {NoNode}
            /\ armed' \subseteq Handles
            /\ ev' \in [Handles -> SUBSET {"child", "expired"}]
        BY <1>7, <2>1, EndSessionFacts, Zenon
      <3>2. /\ sess' \in [Handles -> {"none", "live", "orphan", "expired", "dead", "closed"}]
            /\ conn' \in [Handles -> BOOLEAN]
        BY <1>0, <1>7, <2>1, <2>2, Zenon DEF TypeOK
      <3> QED
        BY <1>0, <1>1, <1>2, <1>7, <3>1, <3>2, Zenon DEF TypeOK, EN_State
    <2>4. \A g \in Handles : g # f => sess'[g] = sess[g]
      BY <1>0, <2>1, <2>2, Zenon DEF TypeOK
    <2>5. ASSUME NEW m \in Nodes, m # n PROVE Still(m)
      <3>1. \A h \in Handles : NodeOf(h) = m => sess'[h] = sess[h] /\ Kept(h)
        BY <2>1, <2>2, <2>4, <2>5, Zenon
      <3>2. eph'[m] = eph[m] /\ (eph[m] # NoHandle => head' # NoNode)
        BY <2>2, <2>5, Zenon
      <3> QED
        BY <1>0, <1>1, <1>2, <2>5, <3>1, <3>2, Zenon DEF Still, TypeOK
    <2>6. sess'[f] = "closed" /\ m_zkhandle[n] # f
      BY <1>0, <1>a, <1>7, <2>1, <2>2, Zenon DEF TypeOK, PointersOk
    <2>7. PointersOk(n)'
      <3>1. m_zkhandle[n] # NoHandle => /\ NodeOf(m_zkhandle[n]) = n
                                        /\ sess'[m_zkhandle[n]] \in Open
        BY <1>a, <2>4, <2>6, Zenon DEF PointersOk
      <3>2. eph'[n] # NoHandle => /\ NodeOf(eph'[n]) = n
                                  /\ sess'[eph'[n]] \in {"live", "orphan"}
                                  /\ head' # NoNode
        BY <1>a, <2>2, <2>4, Zenon DEF PointersOk
      <3>3. ASSUME NEW h \in Handles, NodeOf(h) = n, sess'[h] \in Open
            PROVE  h = m_zkhandle[n]
        BY <1>a, <2>4, <2>6, <3>3, Zenon DEF PointersOk, Open
      <3> QED
        BY <1>1, <1>3, <3>1, <3>2, <3>3, Zenon DEF PointersOk
    <2>8. StartOk(n)'
      BY <1>a, <1>1, <1>3, <1>4, <2>2, Zenon DEF StartOk
    <2> QED
      BY <1>5, <2>3, <2>5, <2>7, <2>8, StillKeeps, Zenon DEF IInv, NodeOk
  <1> QED
    BY <1>6, <1>7, Zenon DEF StopReturns

LEMMA RegisterKeeps ==
    ASSUME IInv, NEW n \in Nodes, Register(n)
    PROVE  IInv'
  <1>0. TypeOK
    BY Zenon DEF IInv
  <1>1. TypeOK'
    BY <1>0, Zenon DEF Register, TypeOK, zk, history, EN_NodeMode
  <1>2. ASSUME NEW m \in Nodes PROVE Still(m)
    BY Zenon DEF Register, Still, Kept, zk, history
  <1> QED
    BY <1>1, <1>2, StillKeeps, Zenon DEF IInv

LEMMA CrashKeeps ==
    ASSUME IInv, NEW n \in Nodes, Crash(n)
    PROVE  IInv'
  <1> USE HandleFacts
  <1>0. TypeOK
    BY Zenon DEF IInv
  <1>a. PointersOk(n) /\ eph[n] \in Handles \cup {NoHandle}
    BY NodeFacts, Zenon
  <1>1. /\ m_runState' = [m_runState EXCEPT ![n] = "UnKnown"]
        /\ m_nodeMode' = [m_nodeMode EXCEPT ![n] = "Other"]
        /\ m_zkhandle' = [m_zkhandle EXCEPT ![n] = NoHandle]
        /\ main' = [main EXCEPT ![n] = "idle"]
        /\ freed' = [freed EXCEPT ![n] = NoHandle]
        /\ overlapped' = overlapped \ {n}
        /\ UNCHANGED <<eph, head, blind>>
    BY Zenon DEF Crash
  <1>2. \A h \in Handles : NodeOf(h) # n =>
            sess'[h] = sess[h] /\ cb'[h] = cb[h] /\ Kept(h)
    BY <1>1, Zenon DEF Crash, Kept
  <1>3. \A h \in Handles : NodeOf(h) = n =>
            /\ cb'[h] = "idle"
            /\ sess'[h] = IF sess[h] \in {"none", "closed"} THEN sess[h]
                          ELSE IF sess[h] \in {"expired", "dead"} THEN "closed" ELSE "orphan"
    BY Zenon DEF Crash
  <1>4. TypeOK'
    <2>1. faults' \in 0..MaxFaults
      <3>1. faults \in 0..MaxFaults /\ faults < MaxFaults /\ faults' = faults + 1
        BY <1>0, Zenon DEF Crash, TypeOK
      <3> QED
        BY <3>1, MaxFaultsAssumption
    <2>2. sess' \in [Handles -> {"none", "live", "orphan", "expired", "dead", "closed"}]
      <3>1. sess' = [h \in Handles |-> sess'[h]]
        BY Zenon DEF Crash
      <3>2. \A h \in Handles :
                sess'[h] \in {"none", "live", "orphan", "expired", "dead", "closed"}
        BY <1>0, <1>2, <1>3, Zenon DEF TypeOK
      <3> QED
        BY <3>1, <3>2, Zenon
    <2>3. conn' \in [Handles -> BOOLEAN] /\ armed' \subseteq Handles
      BY <1>0, Zenon DEF Crash, TypeOK
    <2>4. ev' \in [Handles -> SUBSET {"child", "expired"}]
      BY <1>0, Zenon DEF Crash, TypeOK
    <2>5. cb' \in [Handles -> {"idle", "Leader", "Follower",
                               "init", "start", "create", "sleep"}]
      BY <1>0, Zenon DEF Crash, TypeOK
    <2>6. told' \in [Nodes -> EN_NodeMode \cup {NoHandler}] /\ stoppedBy' \subseteq Nodes
      BY <1>0, Zenon DEF Crash, TypeOK
    <2> QED
      BY <1>0, <1>1, <2>1, <2>2, <2>3, <2>4, <2>5, <2>6, Zenon DEF TypeOK, EN_State, EN_NodeMode
  <1>5. ASSUME NEW m \in Nodes, m # n PROVE Still(m)
    BY <1>0, <1>1, <1>2, <1>5, Zenon DEF Still, TypeOK
  <1>6. /\ m_zkhandle'[n] = NoHandle /\ freed'[n] = NoHandle /\ main'[n] = "idle"
        /\ m_runState'[n] = "UnKnown"
    BY <1>0, <1>1, Zenon DEF TypeOK
  <1>7. PointersOk(n)'
    BY <1>a, <1>1, <1>3, <1>6, Zenon DEF PointersOk, Open
  <1>8. ~Creating(n)' /\ StartOk(n)'
    BY <1>3, <1>6, Zenon DEF StartOk, Creating
  <1>9. OrderlyOk(n)'
    BY <1>6, <1>8, Zenon DEF OrderlyOk
  <1> QED
    BY <1>4, <1>5, <1>7, <1>8, <1>9, StillKeeps, Zenon DEF IInv, NodeOk

-----------------------------------------------------------------------------
(* The completion thread of h. *)

LEMMA OnChildEventKeeps ==
    ASSUME IInv, NEW h \in Handles, OnChildEvent(h)
    PROVE  IInv'
  <1> DEFINE n == NodeOf(h)
  <1> USE HandleFacts
  <1>0. TypeOK /\ n \in Nodes
    BY Zenon DEF IInv
  <1>a. /\ PointersOk(n) /\ StartOk(n) /\ (n \notin overlapped => OrderlyOk(n))
        /\ m_zkhandle[n] \in Handles \cup {NoHandle}
        /\ freed[n] \in Handles \cup {NoHandle}
        /\ eph[n] \in Handles \cup {NoHandle}
    BY <1>0, NodeFacts, Zenon
  <1>1. /\ cb[h] = "idle" /\ ev' = [ev EXCEPT ![h] = @ \ {"child"}]
        /\ UNCHANGED <<sess, conn, eph, head, m_runState, m_zkhandle,
                       main, freed, told, stoppedBy, overlapped>>
    BY Zenon DEF OnChildEvent
  <1>2. \/ sess[h] = "live" /\ ReadChildren(h) /\ UNCHANGED <<faults, blind>>
        \/ /\ sess[h] = "live" /\ ReadingFails(h)
           /\ UNCHANGED <<armed, m_nodeMode, cb>>
        \/ /\ sess[h] # "live"
           /\ UNCHANGED <<armed, m_nodeMode, cb, faults, blind>>
    BY Zenon DEF OnChildEvent
  <1>3. /\ \A g \in Handles : g # h => cb'[g] = cb[g]
        /\ cb'[h] \in {"idle", "Leader", "Follower"}
        /\ cb' \in [Handles -> {"idle", "Leader", "Follower",
                                "init", "start", "create", "sleep"}]
    BY <1>0, <1>1, <1>2, Zenon DEF ReadChildren, ModeRead, TypeOK
  <1>4. /\ m_nodeMode' \in [Nodes -> EN_NodeMode]
        /\ \A m \in Nodes : m # n => m_nodeMode'[m] = m_nodeMode[m]
    BY <1>0, <1>2, Zenon DEF ReadChildren, ModeRead, TypeOK, EN_NodeMode
  <1>5. /\ armed' \subseteq Handles /\ blind' \subseteq Handles /\ faults' \in 0..MaxFaults
        /\ armed \subseteq armed' /\ blind \subseteq blind'
    BY <1>0, <1>2, MaxFaultsAssumption DEF ReadChildren, ReadingFails, TypeOK
  <1>6. /\ ev' \in [Handles -> SUBSET {"child", "expired"}]
        /\ \A g \in Handles : g # h => Kept(g)
    <2>1. ev' \in [Handles -> SUBSET {"child", "expired"}]
      BY <1>0, <1>1, Zenon DEF TypeOK
    <2>2. \A g \in Handles : g # h => ev'[g] = ev[g]
      BY <1>0, <1>1, Zenon DEF TypeOK
    <2> QED
      BY <1>1, <1>5, <2>1, <2>2, Zenon DEF Kept
  <1>7. TypeOK'
    BY <1>0, <1>1, <1>3, <1>4, <1>5, <1>6, Zenon DEF TypeOK
  <1>8. ASSUME NEW m \in Nodes, m # n PROVE Still(m)
    BY <1>0, <1>1, <1>3, <1>4, <1>5, <1>6, <1>8, Zenon DEF Still
  <1>9. /\ Creating(n)' <=> Creating(n)
        /\ InLoop(n)' <=> InLoop(n)
        /\ \A g \in Handles : cb'[g] = "create" <=> cb[g] = "create"
    BY <1>1, <1>3, Zenon DEF Creating, InLoop
  <1>10. PointersOk(n)'
    BY <1>a, <1>1, Zenon DEF PointersOk
  <1>12. StartOk(n)'
    BY <1>a, <1>1, <1>9, Zenon DEF StartOk
  <1>11. ASSUME n \notin overlapped' PROVE OrderlyOk(n)'
    <2>0. OrderlyOk(n)
      BY <1>a, <1>1, <1>11, Zenon
    <2>1. CASE m_zkhandle[n] = NoHandle
      <3>1. ~Creating(n) \/ m_nodeMode'[n] = m_nodeMode[n]
        <4>1. sess[h] = "live" => h = freed[n]
          BY <1>a, <2>1, Zenon DEF PointersOk, Open
        <4>2. sess[h] = "live" => main[n] = "stop"
          BY <1>a, <4>1, Zenon DEF PointersOk
        <4>3. sess[h] = "live" => ~Creating(n)
          BY <2>0, <4>2, Zenon DEF OrderlyOk, Creating, InLoop
        <4> QED
          BY <1>2, <4>3, Zenon
      <3> QED
        BY <1>1, <1>9, <2>0, <2>1, <3>1, Zenon DEF OrderlyOk, Sees
    <2>2. CASE m_zkhandle[n] # NoHandle /\ m_zkhandle[n] # h
      <3>1. main[n] # "stop" /\ freed[n] = NoHandle
        BY <1>a, <2>0, <2>2, Zenon DEF OrderlyOk, PointersOk
      <3>2. sess[h] # "live"
        BY <1>a, <2>2, <3>1, Zenon DEF PointersOk, Open
      <3>3. UNCHANGED <<armed, m_nodeMode, cb, blind>> /\ ev'[m_zkhandle[n]] = ev[m_zkhandle[n]]
        BY <1>0, <1>1, <1>2, <2>2, <3>2, Zenon DEF TypeOK
      <3> QED
        BY <1>1, <1>9, <2>0, <3>3, Zenon
        DEF OrderlyOk, Sees, Covered, LoopWillRepeat, InStep, ModeRead
    <2>3. CASE m_zkhandle[n] = h /\ sess[h] = "live" /\ ReadChildren(h)
      <3>1. h \in armed' /\ ~(Creating(n) /\ m_runState[n] # "Initialized")
        BY <2>0, <2>3, Zenon DEF ReadChildren, OrderlyOk
      <3>2. eph'[n] = h => m_nodeMode'[n] = ModeRead(n)'
        BY <1>0, <1>a, <1>1, <2>3 DEF PointersOk, ReadChildren, ModeRead, TypeOK
      <3> QED
        BY <1>1, <1>9, <2>0, <2>3, <3>1, <3>2, Zenon DEF OrderlyOk, Covered, InStep
    <2>4. CASE m_zkhandle[n] = h /\ ~(sess[h] = "live" /\ ReadChildren(h))
      <3>1. m_nodeMode' = m_nodeMode /\ ~Sees(n)'
        BY <1>1, <1>2, <2>4, Zenon DEF Sees, ReadingFails
      <3> QED
        BY <1>1, <1>9, <2>0, <3>1, Zenon DEF OrderlyOk
    <2> QED
      BY <2>1, <2>2, <2>3, <2>4, Zenon
  <1> QED
    BY <1>7, <1>8, <1>10, <1>11, <1>12, StillKeeps, Zenon DEF IInv, NodeOk

LEMMA TriggerMasterEventKeeps ==
    ASSUME IInv, NEW h \in Handles, TriggerMasterEvent(h)
    PROVE  IInv'
  <1> DEFINE n == NodeOf(h)
  <1> USE HandleFacts
  <1>0. TypeOK /\ n \in Nodes
    BY Zenon DEF IInv
  <1>a. /\ PointersOk(n) /\ StartOk(n) /\ (n \notin overlapped => OrderlyOk(n))
        /\ m_zkhandle[n] \in Handles \cup {NoHandle}
        /\ freed[n] \in Handles \cup {NoHandle}
        /\ eph[n] \in Handles \cup {NoHandle}
    BY <1>0, NodeFacts, Zenon
  <1>1. /\ cb[h] \in {"Leader", "Follower"} /\ cb' = [cb EXCEPT ![h] = "idle"]
        /\ UNCHANGED <<zk, m_runState, m_nodeMode, m_zkhandle, main, freed, history>>
    BY Zenon DEF TriggerMasterEvent
  <1>2. TypeOK'
    <2>1. cb' \in [Handles -> {"idle", "Leader", "Follower",
                               "init", "start", "create", "sleep"}]
      BY <1>0, <1>1, Zenon DEF TypeOK
    <2>2. told' \in [Nodes -> EN_NodeMode \cup {NoHandler}]
      BY <1>0, <1>1, Zenon DEF TypeOK, TriggerMasterEvent, EN_NodeMode
    <2> QED
      BY <1>0, <1>1, <2>1, <2>2, Zenon DEF TypeOK, zk, history
  <1>3. ASSUME NEW m \in Nodes, m # n PROVE Still(m)
    BY <1>0, <1>1, <1>3, Zenon DEF Still, Kept, zk, history, TypeOK
  <1>5. \A g \in Handles : /\ cb'[g] = "create" <=> cb[g] = "create"
                           /\ cb'[g] = "start" <=> cb[g] = "start"
                           /\ cb'[g] = "sleep" <=> cb[g] = "sleep"
                           /\ cb'[g] = "init" <=> cb[g] = "init"
    BY <1>0, <1>1, Zenon DEF TypeOK
  <1>6. Creating(n)' <=> Creating(n)
    BY <1>1, <1>5, Zenon DEF Creating
  <1>7. InLoop(n)' <=> InLoop(n)
    BY <1>1, <1>5, Zenon DEF InLoop
  <1>8. PointersOk(n)'
    BY <1>a, <1>1, Zenon DEF PointersOk, zk
  <1>12. StartOk(n)'
    BY <1>a, <1>1, <1>5, <1>6, Zenon DEF StartOk, zk
  <1>9. LoopWillRepeat(n, {"start"}) => LoopWillRepeat(n, {"start"})'
    BY <1>1, <1>5, Zenon DEF LoopWillRepeat
  <1>10. LoopWillRepeat(n, {"start", "sleep"}) => LoopWillRepeat(n, {"start", "sleep"})'
    BY <1>1, <1>5, Zenon DEF LoopWillRepeat
  <1>11. ASSUME n \notin overlapped' PROVE OrderlyOk(n)'
    <2>1. OrderlyOk(n)
      BY <1>a, <1>1, <1>11, Zenon DEF history
    <2> QED
      BY <1>1, <1>6, <1>7, <1>9, <1>10, <2>1, Zenon
      DEF OrderlyOk, Sees, Covered, InStep, ModeRead, zk, history
  <1> QED
    BY <1>2, <1>3, <1>8, <1>11, <1>12, StillKeeps, Zenon DEF IInv, NodeOk

LEMMA OnExpiredKeeps ==
    ASSUME IInv, NEW h \in Handles, OnExpired(h)
    PROVE  IInv'
  <1> DEFINE n == NodeOf(h)
  <1> USE HandleFacts
  <1>0. TypeOK /\ n \in Nodes
    BY Zenon DEF IInv
  <1>a. /\ PointersOk(n) /\ StartOk(n) /\ (n \notin overlapped => OrderlyOk(n))
        /\ m_zkhandle[n] \in Handles \cup {NoHandle}
        /\ freed[n] \in Handles \cup {NoHandle}
        /\ eph[n] \in Handles \cup {NoHandle}
    BY <1>0, NodeFacts, Zenon
  <1>1. /\ cb[h] = "idle" /\ sess[h] = "dead" /\ cb' = [cb EXCEPT ![h] = "init"]
        /\ ev[h] = {"expired"} /\ ev' = [ev EXCEPT ![h] = {}]
        /\ m_nodeMode' = [m_nodeMode EXCEPT ![n] = "Other"]
        /\ m_runState' = [m_runState EXCEPT ![n] = "UnKnown"]
        /\ Overlaps(n, main[n] = "stop")
        /\ UNCHANGED <<sess, conn, armed, eph, head, faults, m_zkhandle,
                       main, freed, told, blind, stoppedBy>>
    BY Zenon DEF OnExpired
  <1>2. TypeOK'
    BY <1>0, <1>1, Zenon DEF TypeOK, Overlaps, EN_State, EN_NodeMode
  <1>3. ASSUME NEW m \in Nodes, m # n PROVE Still(m)
    <2>1. \A g \in Handles : NodeOf(g) = m => cb'[g] = cb[g] /\ Kept(g)
      BY <1>0, <1>1, <1>3, Zenon DEF Kept, TypeOK
    <2> QED
      BY <1>0, <1>1, <1>3, <2>1, Zenon DEF Still, Overlaps, TypeOK
  <1>4. \A g \in Handles : cb'[g] = "create" <=> cb[g] = "create"
    BY <1>0, <1>1, Zenon DEF TypeOK
  <1>5. Creating(n)' <=> Creating(n)
    BY <1>1, <1>4, Zenon DEF Creating
  <1>6. m_runState'[n] = "UnKnown" /\ m_nodeMode'[n] = "Other"
    BY <1>0, <1>1, Zenon DEF TypeOK
  <1>7. PointersOk(n)'
    BY <1>a, <1>1, Zenon DEF PointersOk
  <1>9. StartOk(n)'
    BY <1>a, <1>1, <1>4, <1>5, <1>6, Zenon DEF StartOk
  <1>8. ASSUME n \notin overlapped' PROVE OrderlyOk(n)'
    <2>1. main[n] # "stop"
      BY <1>1, <1>8, Zenon DEF Overlaps
    <2>2. m_zkhandle[n] = h
      BY <1>a, <1>1, <2>1, Zenon DEF PointersOk, Open
    <2> QED
      BY <1>1, <1>6, <2>1, <2>2, Zenon DEF OrderlyOk, Sees
  <1> QED
    BY <1>2, <1>3, <1>7, <1>8, <1>9, StillKeeps, Zenon DEF IInv, NodeOk

LEMMA LoopInitializeKeeps ==
    ASSUME IInv, NEW h \in Handles, LoopInitialize(h)
    PROVE  IInv'
  <1> DEFINE n == NodeOf(h)
  <1> USE HandleFacts
  <1>0. TypeOK /\ n \in Nodes
    BY Zenon DEF IInv
  <1>a. /\ PointersOk(n) /\ StartOk(n) /\ (n \notin overlapped => OrderlyOk(n))
        /\ m_zkhandle[n] \in Handles \cup {NoHandle}
        /\ freed[n] \in Handles \cup {NoHandle}
        /\ eph[n] \in Handles \cup {NoHandle}
    BY <1>0, NodeFacts, Zenon
  <1>1. /\ cb[h] = "init" /\ Initialize(n) /\ cb' = [cb EXCEPT ![h] = "start"]
        /\ UNCHANGED <<m_nodeMode, main, freed, told, history>>
    BY Zenon DEF LoopInitialize
  <1>2. TypeOK'
    <2>1. cb' \in [Handles -> {"idle", "Leader", "Follower",
                               "init", "start", "create", "sleep"}]
      BY <1>0, <1>1, Zenon DEF TypeOK
    <2> QED
      BY <1>0, <1>1, <2>1, InitializeFacts, Zenon DEF TypeOK, history
  <1>3. /\ cb'[h] = "start"
        /\ \A g \in Handles : g # h => cb'[g] = cb[g]
        /\ \A g \in Handles : cb'[g] = "create" <=> cb[g] = "create"
    BY <1>0, <1>1, Zenon DEF TypeOK
  <1>4. (Creating(n)' <=> Creating(n)) /\ InLoop(n) /\ InLoop(n)'
    BY <1>1, <1>3, Zenon DEF Creating, InLoop
  <1>5. CASE UNCHANGED <<zk, m_runState, m_zkhandle>>
    <2>1. ASSUME NEW m \in Nodes, m # n PROVE Still(m)
      BY <1>0, <1>1, <1>3, <1>5, <2>1, Zenon DEF Still, Kept, zk, history
    <2>2. PointersOk(n)'
      BY <1>a, <1>1, <1>5, Zenon DEF PointersOk, zk
    <2>3. StartOk(n)'
      BY <1>a, <1>1, <1>3, <1>4, <1>5, Zenon DEF StartOk, zk
    <2>4. LoopWillRepeat(n, {"start"}) => LoopWillRepeat(n, {"start"})'
      BY <1>1, <1>3, Zenon DEF LoopWillRepeat
    <2>5. LoopWillRepeat(n, {"start", "sleep"}) => LoopWillRepeat(n, {"start", "sleep"})'
      BY <1>1, <1>3, Zenon DEF LoopWillRepeat
    <2>6. ASSUME n \notin overlapped' PROVE OrderlyOk(n)'
      <3>1. OrderlyOk(n)
        BY <1>a, <1>1, <2>6, Zenon DEF history
      <3> QED
        BY <1>1, <1>4, <1>5, <2>4, <2>5, <3>1, Zenon
        DEF OrderlyOk, Sees, Covered, InStep, ModeRead, zk, history
    <2> QED
      BY <1>2, <2>1, <2>2, <2>3, <2>6, StillKeeps, Zenon DEF IInv, NodeOk
  <1>6. ASSUME NEW new \in Handles, Opens(n, new) PROVE IInv'
    <2>1. ASSUME NEW m \in Nodes, m # n PROVE Still(m)
      <3>0. \A g \in Handles : NodeOf(g) = m => g # new /\ g # m_zkhandle[n]
        BY <1>a, <1>6, <2>1 DEF Opens, PointersOk
      <3>a. /\ sess' = [g \in Handles |-> IF g = new THEN "live"
                                          ELSE IF g = m_zkhandle[n] THEN "closed" ELSE sess[g]]
            /\ \A g \in Handles : NodeOf(g) # n => Kept(g)
        BY <1>6, Zenon DEF Opens
      <3>1. \A g \in Handles : NodeOf(g) = m => sess'[g] = sess[g] /\ cb'[g] = cb[g] /\ Kept(g)
        BY <1>3, <2>1, <3>0, <3>a, Zenon
      <3>2. eph'[m] = eph[m] /\ (eph[m] # NoHandle => head' # NoNode)
        BY <1>6, <2>1, Zenon DEF Opens
      <3> QED
        BY <1>0, <1>1, <1>6, <2>1, <3>1, <3>2, Zenon DEF Still, Opens, TypeOK, history
    <2>2. /\ m_zkhandle'[n] = new /\ m_runState'[n] = "Initialized"
          /\ sess'[new] = "live" /\ sess[new] = "none"
          /\ \A g \in Handles : g # new => sess'[g] = IF g = m_zkhandle[n] THEN "closed" ELSE sess[g]
          /\ NodeOf(new) = n /\ m_runState[n] # "Initialized"
      BY <1>0, <1>6, Zenon DEF Opens, TypeOK
    <2>3. /\ \/ eph'[n] = NoHandle
             \/ /\ eph'[n] = eph[n] /\ eph[n] # m_zkhandle[n]
                /\ eph[n] # NoHandle => head' # NoNode
          /\ eph[n] \in Handles \cup {NoHandle} /\ freed[n] \in Handles \cup {NoHandle}
      BY <1>0, <1>6, Zenon DEF Opens, TypeOK
    <2>4. eph'[n] # new /\ freed[n] # new /\ (freed[n] # NoHandle => freed[n] # m_zkhandle[n])
      BY <1>a, <1>1, <2>2, <2>3, Zenon DEF PointersOk, Open
    <2>5. PointersOk(n)'
      BY <1>a, <1>1, <2>2, <2>3, <2>4, Zenon DEF PointersOk, Open
    <2>6. StartOk(n)'
      BY <1>a, <1>1, <1>3, <1>4, <2>2, <2>4 DEF StartOk
    <2>7. ASSUME n \notin overlapped' PROVE OrderlyOk(n)'
      <3>1. OrderlyOk(n) /\ m_nodeMode'[n] = m_nodeMode[n] /\ main'[n] = main[n]
        BY <1>a, <1>1, <2>7, Zenon DEF history
      <3>2. main'[n] # "stop"
        BY <1>4, <3>1, Zenon DEF OrderlyOk
      <3>3. Creating(n)' => m_nodeMode'[n] = "Other"
        BY <1>4, <2>2, <3>1, Zenon DEF OrderlyOk
      <3>4. Creating(n)' => LoopWillRepeat(n, {"start"})'
        BY <1>3, <3>3, Zenon DEF LoopWillRepeat
      <3> QED
        BY <2>2, <3>2, <3>3, <3>4, Zenon DEF OrderlyOk
    <2> QED
      BY <1>2, <2>1, <2>5, <2>6, <2>7, StillKeeps, Zenon DEF IInv, NodeOk
  <1> QED
    BY <1>0, <1>1, <1>5, <1>6, InitializeFacts, Zenon

LEMMA LoopStartKeeps ==
    ASSUME IInv, NEW h \in Handles, LoopStart(h)
    PROVE  IInv'
  <1> DEFINE n == NodeOf(h)
  <1> USE HandleFacts
  <1>0. TypeOK /\ n \in Nodes
    BY Zenon DEF IInv
  <1>a. /\ PointersOk(n) /\ StartOk(n) /\ (n \notin overlapped => OrderlyOk(n))
        /\ m_zkhandle[n] \in Handles \cup {NoHandle}
        /\ freed[n] \in Handles \cup {NoHandle}
        /\ eph[n] \in Handles \cup {NoHandle}
    BY <1>0, NodeFacts, Zenon
  <1>1. /\ cb[h] = "start" /\ StartFree(n)
        /\ UNCHANGED <<m_runState, m_nodeMode, m_zkhandle, main, freed, told,
                       stoppedBy, overlapped>>
    BY Zenon DEF LoopStart
  <1>2. ~Creating(n) /\ InLoop(n)
    BY <1>1, Zenon DEF StartFree, Creating, InLoop
  <1>3. CASE /\ m_runState[n] = "Initialized" /\ CreateNodeWatches(n)
             /\ cb' = [cb EXCEPT ![h] = "create"]
    <2>1. /\ UNCHANGED <<sess, conn, ev, eph, head>>
          /\ m_zkhandle[n] \in armed' \cup blind'
          /\ \A g \in Handles : Kept(g) /\ (g \in blind => g \in blind')
          /\ armed' \subseteq Handles /\ blind' \subseteq Handles /\ faults' \in 0..MaxFaults
      BY <1>0, <1>3, WatchFacts, Zenon
    <2>2. TypeOK'
      BY <1>0, <1>1, <1>3, <2>1, Zenon DEF TypeOK
    <2>3. cb'[h] = "create" /\ \A g \in Handles : g # h => cb'[g] = cb[g]
      BY <1>0, <1>3, Zenon DEF TypeOK
    <2>4. ASSUME NEW m \in Nodes, m # n PROVE Still(m)
      BY <1>0, <1>1, <2>1, <2>3, <2>4, Zenon DEF Still
    <2>5. PointersOk(n)'
      BY <1>a, <1>1, <2>1, Zenon DEF PointersOk
    <2>6. StartOk(n)'
      BY <1>a, <1>1, <1>3, <2>1, <2>3, Zenon DEF StartOk, StartFree
    <2>7. ASSUME n \notin overlapped' PROVE OrderlyOk(n)'
      <3>1. main[n] # "stop"
        BY <1>a, <1>1, <1>2, <2>7, Zenon DEF OrderlyOk
      <3> QED
        BY <1>1, <1>3, <2>1, <3>1, Zenon DEF OrderlyOk, Sees, Covered
    <2> QED
      BY <2>2, <2>4, <2>5, <2>6, <2>7, StillKeeps, Zenon DEF IInv, NodeOk
  <1>4. CASE cb' = [cb EXCEPT ![h] = "sleep"] /\ UNCHANGED <<zk, blind>>
    <2>1. TypeOK'
      BY <1>0, <1>1, <1>4, Zenon DEF TypeOK, zk
    <2>2. cb'[h] = "sleep" /\ \A g \in Handles : g # h => cb'[g] = cb[g]
      BY <1>0, <1>4, Zenon DEF TypeOK
    <2>3. ASSUME NEW m \in Nodes, m # n PROVE Still(m)
      BY <1>0, <1>1, <1>4, <2>2, <2>3, Zenon DEF Still, Kept, zk
    <2>4. ~Creating(n)' /\ InLoop(n)'
      BY <1>1, <1>2, <2>2, Zenon DEF Creating, InLoop
    <2>5. PointersOk(n)'
      BY <1>a, <1>1, <1>4, Zenon DEF PointersOk, zk
    <2>6. StartOk(n)'
      BY <1>a, <1>1, <1>4, <2>4, Zenon DEF StartOk, Creating, zk
    <2>7. LoopWillRepeat(n, {"start", "sleep"}) => LoopWillRepeat(n, {"start", "sleep"})'
      BY <1>1, <2>2, Zenon DEF LoopWillRepeat
    <2>8. ASSUME n \notin overlapped' PROVE OrderlyOk(n)'
      <3>1. OrderlyOk(n) /\ main[n] # "stop"
        BY <1>a, <1>1, <1>2, <2>8, Zenon DEF OrderlyOk
      <3> QED
        BY <1>1, <1>4, <2>4, <2>7, <3>1, Zenon DEF OrderlyOk, Sees, InStep, ModeRead, zk
    <2> QED
      BY <2>1, <2>3, <2>5, <2>6, <2>8, StillKeeps, Zenon DEF IInv, NodeOk
  <1> QED
    BY <1>3, <1>4, Zenon DEF LoopStart

LEMMA LoopCreateKeeps ==
    ASSUME IInv, NEW h \in Handles, LoopCreate(h)
    PROVE  IInv'
  <1> DEFINE n == NodeOf(h)
  <1> USE HandleFacts
  <1>0. TypeOK /\ n \in Nodes
    BY Zenon DEF IInv
  <1>a. /\ PointersOk(n) /\ StartOk(n) /\ (n \notin overlapped => OrderlyOk(n))
        /\ m_zkhandle[n] \in Handles \cup {NoHandle}
        /\ freed[n] \in Handles \cup {NoHandle}
        /\ eph[n] \in Handles \cup {NoHandle}
    BY <1>0, NodeFacts, Zenon
  <1>1. /\ cb[h] = "create" /\ cb' = [cb EXCEPT ![h] = "sleep"]
        /\ UNCHANGED <<m_nodeMode, m_zkhandle, main, freed, told, history>>
    BY Zenon DEF LoopCreate
  <1>2. cb'[h] = "sleep" /\ \A g \in Handles : g # h => cb'[g] = cb[g]
    BY <1>0, <1>1, Zenon DEF TypeOK
  <1>3. /\ Creating(n) /\ ~Creating(n)' /\ InLoop(n)
        /\ \A g \in Handles : cb[g] = "start" => cb'[g] = "start"
    BY <1>a, <1>1, <1>2, Zenon DEF Creating, StartOk, InLoop
  <1>4. CASE CreateNodeCreates(n) /\ m_runState' = [m_runState EXCEPT ![n] = "Running"]
    <2>1. m_zkhandle[n] # NoHandle /\ eph[n] # m_zkhandle[n]
      BY <1>a, <1>3, <1>4, Zenon DEF CreateNodeCreates, Usable, StartOk
    <2>2. /\ UNCHANGED <<sess, conn, faults>>
          /\ \A g \in Handles : Kept(g)
          /\ \A m \in Nodes : m # n => eph'[m] = eph[m]
          /\ \A m \in Nodes : eph'[m] # NoHandle => head' # NoNode
          /\ \/ eph'[n] = eph[n]
             \/ /\ eph'[n] = m_zkhandle[n] /\ m_zkhandle[n] # NoHandle
                /\ sess[m_zkhandle[n]] = "live"
      BY <1>0, <1>4, <2>1, CreateFacts, Zenon
    <2>3. /\ eph' \in [Nodes -> Handles \cup {NoHandle}] /\ head' \in Nodes \cup {NoNode}
          /\ armed' \subseteq Handles /\ ev' \in [Handles -> SUBSET {"child", "expired"}]
      BY <1>0, <1>4, <2>1, CreateFacts, Zenon
    <2>4. TypeOK'
      BY <1>0, <1>1, <1>4, <2>2, <2>3, Zenon DEF TypeOK, history, EN_State
    <2>5. ASSUME NEW m \in Nodes, m # n PROVE Still(m)
      BY <1>0, <1>1, <1>2, <1>4, <2>2, <2>5, Zenon DEF Still, history, TypeOK
    <2>6. m_runState'[n] = "Running"
      BY <1>0, <1>4, Zenon DEF TypeOK
    <2>7. PointersOk(n)'
      BY <1>a, <1>1, <2>2, Zenon DEF PointersOk
    <2>8. StartOk(n)'
      BY <1>3, <2>6, Zenon DEF StartOk, Creating
    <2>9. ASSUME n \notin overlapped' PROVE OrderlyOk(n)'
      <3>1. Sees(n)' => InStep(n)'
        BY <1>0, <1>1, <1>3, <1>4, <2>9, RunningInStep, Zenon DEF history
      <3>2. main'[n] # "stop"
        BY <1>a, <1>1, <1>3, <2>9, Zenon DEF OrderlyOk, history
      <3> QED
        BY <1>3, <2>6, <3>1, <3>2, Zenon DEF OrderlyOk
    <2> QED
      BY <2>4, <2>5, <2>7, <2>8, <2>9, StillKeeps, Zenon DEF IInv, NodeOk
  <1>5. CASE UNCHANGED <<zk, m_runState>>
    <2>1. TypeOK'
      BY <1>0, <1>1, <1>5, Zenon DEF TypeOK, zk, history
    <2>2. ASSUME NEW m \in Nodes, m # n PROVE Still(m)
      BY <1>0, <1>1, <1>2, <1>5, <2>2, Zenon DEF Still, Kept, zk, history
    <2>3. PointersOk(n)'
      BY <1>a, <1>1, <1>5, Zenon DEF PointersOk, zk
    <2>4. m_runState[n] # "Running" /\ m_runState'[n] = m_runState[n]
      BY <1>a, <1>3, <1>5, Zenon DEF StartOk
    <2>5. StartOk(n)'
      BY <1>a, <1>1, <1>3, <1>5, Zenon DEF StartOk, zk, Creating
    <2>6. ASSUME n \notin overlapped' PROVE OrderlyOk(n)'
      <3>1. main'[n] # "stop"
        BY <1>a, <1>1, <1>3, <2>6, Zenon DEF OrderlyOk, history
      <3> QED
        BY <1>3, <2>4, <3>1, Zenon DEF OrderlyOk
    <2> QED
      BY <2>1, <2>2, <2>3, <2>5, <2>6, StillKeeps, Zenon DEF IInv, NodeOk
  <1> QED
    BY <1>4, <1>5, Zenon DEF LoopCreate

LEMMA LoopAgainKeeps ==
    ASSUME IInv, NEW h \in Handles, LoopAgain(h)
    PROVE  IInv'
  <1> DEFINE n == NodeOf(h)
  <1> USE HandleFacts
  <1>0. TypeOK /\ n \in Nodes
    BY Zenon DEF IInv
  <1>a. /\ PointersOk(n) /\ StartOk(n) /\ (n \notin overlapped => OrderlyOk(n))
        /\ m_zkhandle[n] \in Handles \cup {NoHandle}
        /\ freed[n] \in Handles \cup {NoHandle}
        /\ eph[n] \in Handles \cup {NoHandle}
    BY <1>0, NodeFacts, Zenon
  <1>1. /\ cb[h] = "sleep"
        /\ UNCHANGED <<zk, m_nodeMode, m_zkhandle, main, freed, told, history>>
    BY Zenon DEF LoopAgain
  <1>2. PICK pos \in {"idle", "init"} :
            /\ cb' = [cb EXCEPT ![h] = pos]
            /\ \/ /\ pos = "idle" /\ UNCHANGED m_runState
                  /\ m_runState[n] # "Running" \/ m_nodeMode[n] # "Other"
               \/ /\ pos = "init" /\ m_runState[n] = "Running"
                  /\ m_runState' = [m_runState EXCEPT ![n] = "UnKnown"]
    BY Zenon DEF LoopAgain
  <1>3. TypeOK'
    <2>1. cb' \in [Handles -> {"idle", "Leader", "Follower",
                               "init", "start", "create", "sleep"}]
      BY <1>0, <1>2, Zenon DEF TypeOK
    <2>2. m_runState' \in [Nodes -> EN_State \ {"Started"}]
      BY <1>0, <1>2 DEF TypeOK, EN_State
    <2> QED
      BY <1>0, <1>1, <2>1, <2>2, Zenon DEF TypeOK, zk, history
  <1>4. /\ cb'[h] = pos /\ \A g \in Handles : g # h => cb'[g] = cb[g]
        /\ \A m \in Nodes : m # n => m_runState'[m] = m_runState[m]
    BY <1>0, <1>2, Zenon DEF TypeOK
  <1>5. ASSUME NEW m \in Nodes, m # n PROVE Still(m)
    BY <1>0, <1>1, <1>4, <1>5, Zenon DEF Still, Kept, zk, history
  <1>6. /\ \A g \in Handles : cb'[g] = "create" <=> cb[g] = "create"
        /\ \A g \in Handles : cb'[g] = "start" <=> cb[g] = "start"
    BY <1>1, <1>4, Zenon
  <1>7. (Creating(n)' <=> Creating(n)) /\ InLoop(n)
    BY <1>1, <1>6, Zenon DEF Creating, InLoop
  <1>8. PointersOk(n)'
    BY <1>a, <1>1, Zenon DEF PointersOk, zk
  <1>9. \/ m_runState'[n] = m_runState[n]
        \/ m_runState'[n] = "UnKnown" /\ m_runState[n] = "Running"
    BY <1>0, <1>2, Zenon DEF TypeOK
  <1>10. StartOk(n)'
    BY <1>a, <1>1, <1>6, <1>7, <1>9, Zenon DEF StartOk, zk
  <1>11. ASSUME n \notin overlapped' PROVE OrderlyOk(n)'
    <2>1. OrderlyOk(n) /\ main'[n] # "stop"
      BY <1>a, <1>1, <1>7, <1>11, Zenon DEF OrderlyOk, history
    <2>2. LoopWillRepeat(n, {"start"}) => LoopWillRepeat(n, {"start"})'
      BY <1>1, <1>6, Zenon DEF LoopWillRepeat
    <2>3. CASE pos = "idle"
      <3>1. /\ m_runState'[n] = m_runState[n]
            /\ m_runState[n] # "Running" \/ m_nodeMode[n] # "Other"
        BY <1>2, <2>3, Zenon
      <3>2. m_runState[n] = "Running" => ~LoopWillRepeat(n, {"start", "sleep"})
        BY <3>1, Zenon DEF LoopWillRepeat
      <3> QED
        BY <1>1, <1>7, <2>1, <2>2, <3>1, <3>2, Zenon
        DEF OrderlyOk, Sees, Covered, InStep, ModeRead, zk, history
    <2>4. CASE pos = "init"
      <3>1. m_runState[n] = "Running" /\ m_runState'[n] = "UnKnown"
        BY <1>0, <1>2, <2>4, Zenon DEF TypeOK
      <3>2. ~Creating(n)'
        BY <1>a, <1>7, <3>1, Zenon DEF StartOk
      <3> QED
        BY <2>1, <3>1, <3>2, Zenon DEF OrderlyOk
    <2> QED
      BY <2>3, <2>4, Zenon
  <1> QED
    BY <1>3, <1>5, <1>8, <1>10, <1>11, StillKeeps, Zenon DEF IInv, NodeOk

-----------------------------------------------------------------------------
(* The strengthening is an invariant. *)
THEOREM Invariance == Spec => []IInv
  <1>1. Init => IInv
    <2> SUFFICES ASSUME Init PROVE IInv
      OBVIOUS
    <2>1. TypeOK
      BY MaxFaultsAssumption DEF Init, TypeOK, EN_State, EN_NodeMode
    <2>2. ASSUME NEW n \in Nodes PROVE NodeOk(n)
      BY HandleFacts, Zenon DEF Init, NodeOk, PointersOk, StartOk, OrderlyOk, Creating, Sees, Open
    <2> QED
      BY <2>1, <2>2, Zenon DEF IInv
  <1>2. IInv /\ [Next]_vars => IInv'
    <2> SUFFICES ASSUME IInv, [Next]_vars PROVE IInv'
      OBVIOUS
    <2>1. ASSUME NEW h \in Handles,
                 ServerStep(h) \/ LoseConnection(h) \/ CallbackStep(h)
          PROVE  IInv'
      BY Zenon, <2>1, ServerStepKeeps, OnChildEventKeeps, TriggerMasterEventKeeps, OnExpiredKeeps,
         LoopInitializeKeeps, LoopStartKeeps, LoopCreateKeeps, LoopAgainKeeps DEF CallbackStep
    <2>2. ASSUME NEW n \in Nodes,
                 \/ InitializeCalled(n) \/ Register(n) \/ StartCalled(n)
                 \/ StopCalled(n) \/ CallReturns(n) \/ Crash(n)
          PROVE  IInv'
      BY Zenon, <2>2, InitializeCalledKeeps, RegisterKeeps, StartCalledKeeps, StopCalledKeeps,
         StartReturnsKeeps, StopReturnsKeeps, CrashKeeps DEF CallReturns
    <2>3. CASE UNCHANGED vars
      <3>0. TypeOK /\ \A m \in Nodes : PointersOk(m)
        BY Zenon DEF IInv, NodeOk
      <3>1. TypeOK'
        BY <2>3, <3>0, Zenon DEF vars, zk, manager, history, TypeOK
      <3>2. ASSUME NEW m \in Nodes PROVE Still(m)
        BY <2>3, <3>0, Zenon DEF vars, zk, manager, history, Still, Kept
      <3> QED
        BY <3>1, <3>2, StillKeeps, Zenon DEF IInv
    <2> QED
      BY <2>1, <2>2, <2>3, Zenon DEF Next
  <1> QED
    BY <1>1, <1>2, PTL DEF Spec

(* createNode, the watcher and the expiry loop leave no running manager    *)
(* without a watch on the child list, whenever its sessions expire: for    *)
(* any number of nodes, sessions and faults, unless a call of the node's   *)
(* client has overlapped with its expiry loop.                             *)
THEOREM RunningIsWatched == Spec => []WatchCoverage
  <1>1. IInv => WatchCoverage
    <2> SUFFICES ASSUME IInv, NEW n \in Nodes \ overlapped PROVE Watching(n)
      BY Zenon DEF WatchCoverage
    <2>1. OrderlyOk(n)
      BY Zenon DEF IInv, NodeOk
    <2> QED
      BY <2>1, Zenon DEF OrderlyOk, Watching, Sees, InStep, LoopWillRepeat
  <1> QED
    BY <1>1, Invariance, PTL

(* onZOO_CHILD_EVENT: of the nodes that their current sessions register    *)
(* and that are up to date, at most one calls itself Leader, since each    *)
(* has the mode that the present child list gives it.                      *)
THEOREM OneLeader == Spec => []NoSplitBrain
  <1>1. IInv => NoSplitBrain
    <2> SUFFICES ASSUME IInv,
                        NEW n \in Nodes, UpToDate(n), eph[n] = m_zkhandle[n],
                        m_nodeMode[n] = "Leader"
                 PROVE  head = n
      BY Zenon DEF NoSplitBrain
    <2>1. OrderlyOk(n)
      BY Zenon DEF IInv, NodeOk, UpToDate
    <2>2. InStep(n) /\ ev[m_zkhandle[n]] = {}
      BY <2>1, Zenon DEF OrderlyOk, UpToDate, Sees
    <2>3. ~LoopWillRepeat(n, {"start", "sleep"})
      BY Zenon DEF UpToDate, LoopWillRepeat
    <2> QED
      BY <2>2, <2>3, Zenon DEF InStep, ModeRead
  <1> QED
    BY <1>1, Invariance, PTL
=============================================================================
