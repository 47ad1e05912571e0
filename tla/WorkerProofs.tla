---------------------------- MODULE WorkerProofs ----------------------------
(***************************************************************************)
(* What the eventfd and the timerfd workers promise, for any number of     *)
(* producers, consumers, timers, tasks and descriptors.                    *)
(***************************************************************************)
EXTENDS Workers, TLAPS

-----------------------------------------------------------------------------
(* The eventfd workers.  A task is in one place: its producer's hands, the *)
(* ready list, a batch, or done.  Until it is done its number is in the    *)
(* table, and nobody else has it.                                          *)

OneNumber ==
    /\ \A f \in Eventfd!Fds : table[f] <= issued
    /\ \A f, g \in Eventfd!Fds : table[f] # 0 /\ table[f] = table[g] => f = g
    /\ \A t \in Eventfd!Tasks : interest[t] # 0 => table[interest[t]] = t
    /\ \A t \in Eventfd!Tasks : t > issued => counter[t] = 0

WithProducer(p) ==
    pstep[p] # "eventfd" =>
        /\ efd[p] \in Eventfd!Fds /\ task[p] \in Eventfd!Tasks
        /\ table[efd[p]] = task[p] /\ counter[task[p]] = 0
        /\ pstep[p] = "epoll_ctl" => interest[task[p]] = 0
        /\ pstep[p] = "write" => interest[task[p]] = efd[p]
        /\ \A q \in Producers : pstep[q] # "eventfd" /\ task[q] = task[p] => q = p
        /\ \A c \in Consumers : \A i \in 1..Len(events[c]) : events[c][i][2] # task[p]

OnReadyList ==
    /\ \A i \in 1..Len(ready) : interest[ready[i]] # 0 /\ counter[ready[i]] = 1
    /\ \A i, j \in 1..Len(ready) : ready[i] = ready[j] => i = j

InBatch(c) ==
    /\ cstep[c] = "epoll_wait" <=> events[c] = <<>>
    /\ \A i \in 1..Len(events[c]) : table[events[c][i][1]] = events[c][i][2]
    /\ \A i \in 1..Len(events[c]) :
           i > 1 \/ cstep[c] = "read" => counter[events[c][i][2]] = 1

OffReadyList(c) ==
    \A i \in 1..Len(events[c]), j \in 1..Len(ready) : ready[j] # events[c][i][2]

BatchesApart(c, d) ==
    \A i \in 1..Len(events[c]), j \in 1..Len(events[d]) :
        events[c][i][2] = events[d][j][2] => c = d /\ i = j

TasksDone ==
    \A i \in 1..Len(done) : done[i] <= issued /\ \A f \in Eventfd!Fds : table[f] # done[i]

EventfdInv ==
    /\ Eventfd!TypeOK /\ OneNumber /\ OnReadyList /\ TasksDone
    /\ \A p \in Producers : WithProducer(p)
    /\ \A c \in Consumers : InBatch(c) /\ OffReadyList(c)
    /\ \A c, d \in Consumers : BatchesApart(c, d)

LEMMA FunctionIsSequence ==
    ASSUME NEW S, NEW n \in Nat, NEW f \in [1..n -> S]
    PROVE  f \in Seq(S) /\ Len(f) = n
  OBVIOUS

(* The types of the batches' entries, and that 0 stands for no task. *)
LEMMA EventfdTypes ==
    ASSUME Eventfd!WorkerAssumption, EventfdInv
    PROVE  /\ issued \in Nat /\ issued <= MaxTasks /\ MaxTasks \in Nat
           /\ \A f \in Eventfd!Fds : f \in Nat /\ f # 0 /\ table[f] \in Nat
           /\ \A t \in Eventfd!Tasks : t \in Nat /\ t # 0
           /\ \A c \in Consumers : \A i \in 1..Len(events[c]) :
                  /\ events[c][i][1] \in Eventfd!Fds /\ events[c][i][2] \in Eventfd!Tasks
                  /\ events[c][i][2] <= issued
           /\ \A i \in 1..Len(ready) : ready[i] \in Eventfd!Tasks
           /\ \A i \in 1..Len(done) : done[i] \in Eventfd!Tasks
           /\ \A p \in Producers : pstep[p] # "eventfd" => task[p] <= issued
  <1> USE DEF Eventfd!WorkerAssumption, EventfdInv, Eventfd!TypeOK
  <1>1. issued \in Nat /\ issued <= MaxTasks /\ MaxTasks \in Nat
    OBVIOUS
  <1>2. /\ \A f \in Eventfd!Fds : f \in Nat /\ f # 0 /\ table[f] \in Nat
        /\ \A t \in Eventfd!Tasks : t \in Nat /\ t # 0
    BY DEF Eventfd!Fds, Eventfd!Tasks, Eventfd!NONE
  <1>3. ASSUME NEW c \in Consumers, NEW i \in 1..Len(events[c])
        PROVE  /\ events[c][i][1] \in Eventfd!Fds /\ events[c][i][2] \in Eventfd!Tasks
               /\ events[c][i][2] <= issued
    <2>1. events[c][i] \in Eventfd!Fds \X Eventfd!Tasks
      OBVIOUS
    <2>2. InBatch(c)
      OBVIOUS
    <2>3. table[events[c][i][1]] = events[c][i][2]
      BY <2>2, <1>3, Zenon DEF InBatch
    <2> QED
      BY <2>1, <2>3, Zenon DEF OneNumber
  <1>4. \A i \in 1..Len(ready) : ready[i] \in Eventfd!Tasks
    OBVIOUS
  <1>5. \A i \in 1..Len(done) : done[i] \in Eventfd!Tasks
    OBVIOUS
  <1>6. \A p \in Producers : pstep[p] # "eventfd" => task[p] <= issued
    BY Zenon DEF WithProducer, OneNumber
  <1> QED
    BY <1>1, <1>2, <1>3, <1>4, <1>5, <1>6, Zenon

LEMMA EventfdInit ==
    ASSUME Eventfd!WorkerAssumption, Eventfd!Init PROVE EventfdInv
  <1> USE DEF Eventfd!WorkerAssumption, Eventfd!Init, Eventfd!NONE
  <1>1. exited \in BOOLEAN
    BY Zenon
  <1>2. Eventfd!TypeOK
    BY <1>1 DEF Eventfd!TypeOK
  <1>3. OneNumber /\ OnReadyList /\ TasksDone
    BY DEF OneNumber, OnReadyList, TasksDone, Eventfd!Fds, Eventfd!Tasks
  <1>4. \A p \in Producers : WithProducer(p)
    BY Zenon DEF WithProducer
  <1>5. \A c \in Consumers : InBatch(c) /\ OffReadyList(c)
    BY DEF InBatch, OffReadyList
  <1>6. \A c, d \in Consumers : BatchesApart(c, d)
    BY DEF BatchesApart
  <1> QED
    BY <1>2, <1>3, <1>4, <1>5, <1>6, Zenon DEF EventfdInv

(* A new eventfd gets a free number, and no task had its name before. *)
LEMMA EventfdNew ==
    ASSUME Eventfd!WorkerAssumption, EventfdInv, NEW p \in Producers, Eventfd!eventfd(p)
    PROVE  EventfdInv'
  <1> DEFINE new == issued + 1
  <1>1. CASE Eventfd!Free = {}
    <2>1. /\ exited' = TRUE
          /\ UNCHANGED <<table, counter, interest, ready, issued, pstep, efd, task, cstep,
                         events, done>>
      BY <1>1, Zenon DEF Eventfd!eventfd
    <2>2. exited' \in BOOLEAN
      BY <2>1, Zenon
    <2> QED
      BY <2>1, <2>2 DEF EventfdInv, Eventfd!TypeOK, OneNumber, OnReadyList, TasksDone,
         WithProducer, InBatch, OffReadyList, BatchesApart
  <1>2. CASE Eventfd!Free # {}
    <2>0. PICK f \in Eventfd!Lowest(Eventfd!Free) :
              table' = [table EXCEPT ![f] = new] /\ efd' = [efd EXCEPT ![p] = f]
      BY <1>2, Zenon DEF Eventfd!eventfd
    <2>1. f \in Eventfd!Fds /\ table[f] = 0
      BY <2>0, Zenon DEF Eventfd!Lowest, Eventfd!Free, Eventfd!NONE
    <2>2. /\ pstep[p] = "eventfd" /\ issued < MaxTasks
          /\ issued' = new /\ table' = [table EXCEPT ![f] = new]
          /\ efd' = [efd EXCEPT ![p] = f] /\ task' = [task EXCEPT ![p] = new]
          /\ pstep' = [pstep EXCEPT ![p] = "epoll_ctl"]
          /\ UNCHANGED <<counter, interest, ready, cstep, events, done, exited>>
      BY <1>2, <2>0, Zenon DEF Eventfd!eventfd
    <2>3. new \in Eventfd!Tasks /\ new \in Nat /\ new > issued /\ new # 0
      BY <2>2, EventfdTypes DEF Eventfd!Tasks
    <2> HIDE DEF new
    <2>4. \A g \in Eventfd!Fds : table'[g] = IF g = f THEN new ELSE table[g]
      BY <2>1, <2>2, Zenon DEF EventfdInv, Eventfd!TypeOK
    <2>5. Eventfd!TypeOK'
      <3>1. exited' \in BOOLEAN
        BY <2>2, Zenon DEF EventfdInv, Eventfd!TypeOK
      <3> QED
        BY <2>1, <2>2, <2>3, <3>1, EventfdTypes DEF EventfdInv, Eventfd!TypeOK, new
    <2>6. OneNumber'
      <3>1. \A g \in Eventfd!Fds : table[g] # new /\ table'[g] <= issued'
        <4>1. \A g \in Eventfd!Fds : table[g] \in Nat /\ table[g] <= issued
          BY EventfdTypes, Zenon DEF EventfdInv, OneNumber
        <4>2. \A g \in Eventfd!Fds : table[g] # new /\ table[g] <= new /\ new <= new
          BY <2>3, <4>1, EventfdTypes
        <4> QED
          BY <2>2, <2>4, <4>2, Zenon
      <3>2. \A g, h \in Eventfd!Fds : table'[g] # 0 /\ table'[g] = table'[h] => g = h
        BY <2>4, <3>1, Zenon DEF EventfdInv, OneNumber
      <3>3. \A t \in Eventfd!Tasks : interest[t] # 0 => table'[interest[t]] = t
        BY <2>1, <2>4, EventfdTypes DEF EventfdInv, OneNumber, Eventfd!TypeOK, Eventfd!NONE
      <3>4. \A t \in Eventfd!Tasks : t > issued' => counter[t] = 0
        BY <2>2, <2>3, EventfdTypes DEF EventfdInv, OneNumber
      <3> QED
        BY <2>2, <3>1, <3>2, <3>3, <3>4, Zenon DEF OneNumber
    <2>7. OnReadyList'
      BY <2>2, Zenon DEF EventfdInv, OnReadyList
    <2>8. TasksDone'
      <3>1. \A i \in 1..Len(done) : done[i] \in Nat /\ done[i] <= issued
        BY EventfdTypes, Zenon DEF EventfdInv, TasksDone
      <3>2. \A i \in 1..Len(done) : done[i] <= new /\ done[i] # new
        BY <2>3, <3>1, EventfdTypes
      <3> QED
        BY <2>2, <2>4, <3>2 DEF EventfdInv, TasksDone
    <2>9. ASSUME NEW q \in Producers PROVE WithProducer(q)'
      <3>1. CASE q = p
        <4>1. efd'[p] = f /\ task'[p] = new /\ pstep'[p] = "epoll_ctl"
          BY <2>2, Zenon DEF EventfdInv, Eventfd!TypeOK
        <4>2. counter[new] = 0 /\ interest[new] = 0
          BY <2>3, EventfdTypes DEF EventfdInv, OneNumber, Eventfd!TypeOK, Eventfd!NONE
        <4>3. \A r \in Producers : pstep'[r] # "eventfd" /\ task'[r] = new => r = p
          BY <2>2, <2>3, EventfdTypes DEF EventfdInv, Eventfd!TypeOK
        <4>4. \A c \in Consumers : \A i \in 1..Len(events[c]) : events[c][i][2] # new
          BY <2>3, EventfdTypes
        <4> QED
          BY <2>1, <2>2, <2>3, <2>4, <3>1, <4>1, <4>2, <4>3, <4>4, Zenon DEF WithProducer
      <3>2. CASE q # p
        <4>1. efd'[q] = efd[q] /\ task'[q] = task[q] /\ pstep'[q] = pstep[q]
          BY <2>2, <3>2, Zenon DEF EventfdInv, Eventfd!TypeOK
        <4>2. WithProducer(q) /\ (pstep[q] # "eventfd" => task[q] # 0 /\ task[q] # new)
          BY <2>3, EventfdTypes DEF EventfdInv, WithProducer
        <4>3. \A r \in Producers : pstep'[r] # "eventfd" /\ pstep[q] # "eventfd"
                                     /\ task'[r] = task[q] => r = q
          BY <2>2, <4>2, SMTT(30) DEF EventfdInv, Eventfd!TypeOK, WithProducer
        <4> QED
          BY <2>1, <2>2, <2>4, <4>1, <4>2, <4>3 DEF WithProducer
      <3> QED
        BY <3>1, <3>2, Zenon
    <2>10. ASSUME NEW c \in Consumers PROVE InBatch(c)'
      <3>1. InBatch(c)
        BY Zenon DEF EventfdInv
      <3>2. \A i \in 1..Len(events[c]) : table'[events[c][i][1]] = table[events[c][i][1]]
        <4> TAKE i \in 1..Len(events[c])
        <4>1. events[c][i][1] \in Eventfd!Fds /\ table[events[c][i][1]] # 0
          BY <3>1, EventfdTypes, Zenon DEF InBatch
        <4> QED
          BY <2>1, <2>4, <4>1, Zenon
      <3> QED
        BY <2>2, <3>1, <3>2, Zenon DEF InBatch
    <2>11. \A c, d \in Consumers : OffReadyList(c)' /\ BatchesApart(c, d)'
      BY <2>2 DEF EventfdInv, OffReadyList, BatchesApart
    <2> QED
      BY <2>5, <2>6, <2>7, <2>8, <2>9, <2>10, <2>11, Zenon DEF EventfdInv
  <1> QED
    BY <1>1, <1>2, Zenon

(* The producer's eventfd joins the epoll set, with nothing to be read. *)
LEMMA EventfdAdd ==
    ASSUME Eventfd!WorkerAssumption, EventfdInv, NEW p \in Producers, Eventfd!epoll_ctl(p)
    PROVE  EventfdInv'
  <1> DEFINE t == task[p]
  <1>1. /\ pstep[p] = "epoll_ctl" /\ efd[p] \in Eventfd!Fds /\ t \in Eventfd!Tasks /\ t # 0
        /\ table[efd[p]] = t /\ counter[t] = 0 /\ interest[t] = 0 /\ efd[p] # 0
    BY EventfdTypes, Zenon DEF Eventfd!epoll_ctl, EventfdInv, WithProducer
  <1>2. /\ interest' = [interest EXCEPT ![t] = efd[p]] /\ ready' = ready
        /\ pstep' = [pstep EXCEPT ![p] = "write"]
        /\ UNCHANGED <<exited, table, counter, issued, efd, task, cstep, events, done>>
    BY <1>1 DEF Eventfd!epoll_ctl, Eventfd!NONE
  <1>3. \A u \in Eventfd!Tasks : interest'[u] = IF u = t THEN efd[p] ELSE interest[u]
    BY <1>2, Zenon DEF EventfdInv, Eventfd!TypeOK
  <1>4. \A q \in Producers : pstep'[q] = IF q = p THEN "write" ELSE pstep[q]
    BY <1>2, Zenon DEF EventfdInv, Eventfd!TypeOK
  <1>5. Eventfd!TypeOK'
    <2>1. exited' \in BOOLEAN
      BY <1>2, Zenon DEF EventfdInv, Eventfd!TypeOK
    <2> QED
      BY <1>1, <1>2, <2>1, Zenon DEF EventfdInv, Eventfd!TypeOK
  <1>6. OneNumber'
    BY <1>1, <1>2, <1>3 DEF EventfdInv, OneNumber
  <1>7. OnReadyList' /\ TasksDone'
    BY <1>1, <1>2, <1>3, EventfdTypes DEF EventfdInv, OnReadyList, TasksDone
  <1>8. ASSUME NEW q \in Producers PROVE WithProducer(q)'
    <2>1. WithProducer(q) /\ (q # p /\ pstep[q] # "eventfd" => task[q] # t)
      BY <1>1, Zenon DEF EventfdInv, WithProducer
    <2> QED
      BY <1>1, <1>2, <1>3, <1>4, <2>1, SMTT(30) DEF WithProducer
  <1>9. \A c \in Consumers : InBatch(c)' /\ OffReadyList(c)'
    BY <1>2, Zenon DEF EventfdInv, InBatch, OffReadyList
  <1>10. \A c, d \in Consumers : BatchesApart(c, d)'
    BY <1>2 DEF EventfdInv, BatchesApart
  <1> QED
    BY <1>5, <1>6, <1>7, <1>8, <1>9, <1>10, Zenon DEF EventfdInv

(* The write raises the edge; the task leaves its producer's hands. *)
LEMMA EventfdWrite ==
    ASSUME Eventfd!WorkerAssumption, EventfdInv, NEW p \in Producers, Eventfd!write(p)
    PROVE  EventfdInv'
  <1> DEFINE t == task[p]
  <1>1. /\ pstep[p] = "write" /\ efd[p] \in Eventfd!Fds /\ t \in Eventfd!Tasks /\ t # 0
        /\ table[efd[p]] = t /\ counter[t] = 0 /\ interest[t] = efd[p] /\ efd[p] # 0
        /\ \A c \in Consumers : \A i \in 1..Len(events[c]) : events[c][i][2] # t
        /\ \A q \in Producers : pstep[q] # "eventfd" /\ task[q] = t => q = p
    <2>1. WithProducer(p) /\ pstep[p] = "write"
      BY Zenon DEF Eventfd!write, EventfdInv
    <2>2. /\ efd[p] \in Eventfd!Fds /\ t \in Eventfd!Tasks
          /\ table[efd[p]] = t /\ counter[t] = 0 /\ interest[t] = efd[p]
          /\ \A c \in Consumers : \A i \in 1..Len(events[c]) : events[c][i][2] # t
          /\ \A q \in Producers : pstep[q] # "eventfd" /\ task[q] = t => q = p
      BY <2>1, Zenon DEF WithProducer
    <2>3. t # 0 /\ efd[p] # 0
      BY <2>2, EventfdTypes, Zenon
    <2> QED
      BY <2>1, <2>2, <2>3, Zenon
  <1>2. ~ \E i \in 1..Len(ready) : ready[i] = t
    BY <1>1 DEF EventfdInv, OnReadyList
  <1>3. /\ counter' = [counter EXCEPT ![t] = 1] /\ ready' = Append(ready, t)
        /\ pstep' = [pstep EXCEPT ![p] = "eventfd"]
        /\ UNCHANGED <<exited, table, interest, issued, efd, task, cstep, events, done>>
    BY <1>1, <1>2 DEF Eventfd!write, Eventfd!Without, Eventfd!NONE, EventfdInv, Eventfd!TypeOK
  <1>4. \A u \in Eventfd!Tasks : counter'[u] = IF u = t THEN 1 ELSE counter[u]
    BY <1>3, Zenon DEF EventfdInv, Eventfd!TypeOK
  <1>5. \A q \in Producers : pstep'[q] = IF q = p THEN "eventfd" ELSE pstep[q]
    BY <1>3, Zenon DEF EventfdInv, Eventfd!TypeOK
  <1>6. /\ ready' \in Seq(Eventfd!Tasks) /\ Len(ready') = Len(ready) + 1 /\ Len(ready) \in Nat
        /\ \A i \in 1..Len(ready) : ready'[i] = ready[i]
        /\ ready'[Len(ready) + 1] = t
    BY <1>1, <1>3 DEF EventfdInv, Eventfd!TypeOK
  <1>7. \A i \in 1..Len(ready') : i \in 1..Len(ready) \/ i = Len(ready) + 1
    BY <1>6
  <1>8. Eventfd!TypeOK'
    <2>1. exited' \in BOOLEAN
      BY <1>3, Zenon DEF EventfdInv, Eventfd!TypeOK
    <2> QED
      BY <1>1, <1>3, <1>6, <2>1 DEF EventfdInv, Eventfd!TypeOK
  <1>9. OneNumber'
    <2>1. t <= issued
      BY <1>1, EventfdTypes, Zenon
    <2>2. \A u \in Eventfd!Tasks : u > issued => counter'[u] = 0
      BY <1>4, <2>1, EventfdTypes DEF EventfdInv, OneNumber
    <2> QED
      BY <1>3, <2>2, Zenon DEF EventfdInv, OneNumber
  <1>10. OnReadyList'
    <2>1. \A i \in 1..Len(ready) : interest[ready[i]] # 0 /\ counter'[ready[i]] = 1
      BY <1>2, <1>4, EventfdTypes, Zenon DEF EventfdInv, OnReadyList
    <2>2. interest[t] # 0 /\ counter'[t] = 1
      BY <1>1, <1>4, Zenon
    <2>3. \A i \in 1..Len(ready') : interest[ready'[i]] # 0 /\ counter'[ready'[i]] = 1
      BY <1>6, <1>7, <2>1, <2>2, Zenon
    <2>4. \A i, j \in 1..Len(ready') : ready'[i] = ready'[j] => i = j
      BY <1>2, <1>6, <1>7, Zenon DEF EventfdInv, OnReadyList
    <2> QED
      BY <1>3, <2>3, <2>4, Zenon DEF OnReadyList
  <1>11. TasksDone'
    BY <1>3, Zenon DEF EventfdInv, TasksDone
  <1>12. ASSUME NEW q \in Producers PROVE WithProducer(q)'
    BY <1>1, <1>3, <1>4, <1>5 DEF EventfdInv, WithProducer
  <1>13. ASSUME NEW c \in Consumers PROVE InBatch(c)'
    <2>1. \A i \in 1..Len(events[c]) :
              counter'[events[c][i][2]] = counter[events[c][i][2]]
      BY <1>1, <1>4, EventfdTypes, Zenon
    <2>2. InBatch(c)
      BY Zenon DEF EventfdInv
    <2> QED
      BY <1>3, <2>1, <2>2, Zenon DEF InBatch
  <1>14. ASSUME NEW c \in Consumers PROVE OffReadyList(c)'
    <2>1. \A i \in 1..Len(events[c]), j \in 1..Len(ready') : ready'[j] # events[c][i][2]
      BY <1>1, <1>6, <1>7 DEF EventfdInv, OffReadyList
    <2> QED
      BY <1>3, <2>1, Zenon DEF OffReadyList
  <1>15. ASSUME NEW c \in Consumers, NEW d \in Consumers PROVE BatchesApart(c, d)'
    <2>1. BatchesApart(c, d)
      BY Zenon DEF EventfdInv
    <2>2. events'[c] = events[c] /\ events'[d] = events[d]
      BY <1>3, Zenon
    <2> QED
      BY <2>1, <2>2, Zenon DEF BatchesApart
  <1> QED
    BY <1>8, <1>9, <1>10, <1>11, <1>12, <1>13, <1>14, <1>15, Zenon DEF EventfdInv

(* A batch is the front of the ready list, under the numbers registered. *)
LEMMA EventfdWait ==
    ASSUME Eventfd!WorkerAssumption, EventfdInv, NEW c \in Consumers, Eventfd!epoll_wait(c)
    PROVE  EventfdInv'
  <1> DEFINE n == Eventfd!Taken
             batch == [i \in 1..n |-> <<interest[ready[i]], ready[i]>>]
  <1>1. /\ cstep[c] = "epoll_wait" /\ ready # <<>> /\ events[c] = <<>>
        /\ events' = [events EXCEPT ![c] = batch]
        /\ ready' = SubSeq(ready, n + 1, Len(ready))
        /\ cstep' = [cstep EXCEPT ![c] = "read"]
        /\ UNCHANGED <<table, counter, interest, issued, pstep, efd, task, done, exited>>
    BY Zenon DEF Eventfd!epoll_wait, EventfdInv, InBatch
  <1>2. n \in Nat /\ n >= 1 /\ n <= Len(ready) /\ Len(ready) \in Nat
    BY <1>1 DEF Eventfd!Taken, EventfdInv, Eventfd!TypeOK, Eventfd!WorkerAssumption
  <1> HIDE DEF n
  <1>3. \A i \in 1..n : /\ i \in 1..Len(ready)
                        /\ interest[ready[i]] \in Eventfd!Fds /\ ready[i] \in Eventfd!Tasks
                        /\ table[interest[ready[i]]] = ready[i] /\ counter[ready[i]] = 1
    <2>1. \A i \in 1..n : i \in 1..Len(ready)
      BY <1>2
    <2> QED
      BY <2>1, EventfdTypes, SMTT(30) DEF EventfdInv, OnReadyList, OneNumber, Eventfd!TypeOK, Eventfd!NONE
  <1>4. /\ batch \in Seq(Eventfd!Fds \X Eventfd!Tasks) /\ Len(batch) = n
        /\ \A i \in 1..n : batch[i][1] = interest[ready[i]] /\ batch[i][2] = ready[i]
    <2> DEFINE F == Eventfd!Fds \X Eventfd!Tasks
    <2>1. \A i \in 1..n : <<interest[ready[i]], ready[i]>> \in F
      BY <1>3, Zenon
    <2> HIDE DEF F
    <2>2. batch \in [1..n -> F]
      BY <2>1, Zenon
    <2>3. batch \in Seq(F) /\ Len(batch) = n
      BY <1>2, <2>2, FunctionIsSequence, Zenon
    <2> QED
      BY <2>3, Zenon DEF F
  <1> HIDE DEF batch
  <1>5. /\ ready' \in Seq(Eventfd!Tasks) /\ Len(ready') = Len(ready) - n
        /\ \A i \in 1..Len(ready') : ready'[i] = ready[n + i] /\ n + i \in 1..Len(ready)
    <2>1. \A i \in (n + 1)..Len(ready) : ready[i] \in Eventfd!Tasks
      BY <1>2, EventfdTypes
    <2> QED
      BY <1>1, <1>2, <2>1, SMTT(30) DEF EventfdInv, Eventfd!TypeOK
  <1>6. /\ events'[c] = batch /\ cstep'[c] = "read"
        /\ \A d \in Consumers : d # c => events'[d] = events[d] /\ cstep'[d] = cstep[d]
    BY <1>1, Zenon DEF EventfdInv, Eventfd!TypeOK
  <1>7. Eventfd!TypeOK'
    <2>1. exited' \in BOOLEAN
      BY <1>1, Zenon DEF EventfdInv, Eventfd!TypeOK
    <2> QED
      BY <1>1, <1>4, <1>5, <2>1, Zenon DEF EventfdInv, Eventfd!TypeOK
  <1>8. OneNumber' /\ TasksDone'
    BY <1>1, Zenon DEF EventfdInv, OneNumber, TasksDone
  <1>9. OnReadyList'
    <2>1. \A i \in 1..Len(ready') : interest[ready'[i]] # 0 /\ counter[ready'[i]] = 1
      BY <1>5 DEF EventfdInv, OnReadyList
    <2>2. \A i, j \in 1..Len(ready') : ready'[i] = ready'[j] => i = j
      <3>1. \A i, j \in 1..Len(ready) : ready[i] = ready[j] => i = j
        BY Zenon DEF EventfdInv, OnReadyList
      <3> TAKE i, j \in 1..Len(ready')
      <3>2. ready'[i] = ready'[j] => n + i = n + j
        BY <1>5, <3>1, Zenon
      <3>3. n + i = n + j => i = j
        BY <1>2, <1>5
      <3> QED
        BY <3>2, <3>3, Zenon
    <2> QED
      BY <1>1, <2>1, <2>2, Zenon DEF OnReadyList
  <1>10. ASSUME NEW p \in Producers PROVE WithProducer(p)'
    <2>1. WithProducer(p)
      BY Zenon DEF EventfdInv
    <2>2. \A i \in 1..n : pstep[p] # "eventfd" => ready[i] # task[p]
      BY <1>3, <2>1 DEF WithProducer
    <2>3. pstep[p] # "eventfd" =>
              \A d \in Consumers : \A i \in 1..Len(events'[d]) : events'[d][i][2] # task[p]
      BY <1>4, <1>6, <2>1, <2>2 DEF WithProducer
    <2> QED
      BY <1>1, <2>1, <2>3, Zenon DEF WithProducer
  <1>11. ASSUME NEW d \in Consumers PROVE InBatch(d)'
    <2>1. CASE d = c
      <3>1. batch # <<>>
        BY <1>2, <1>4, SMTT(30)
      <3>2. \A i \in 1..n : table[batch[i][1]] = batch[i][2] /\ counter[batch[i][2]] = 1
        BY <1>3, <1>4, Zenon
      <3>3. events'[d] = batch /\ cstep'[d] = "read" /\ table' = table /\ counter' = counter
        BY <1>1, <1>6, <2>1, Zenon
      <3> QED
        BY <1>4, <3>1, <3>2, <3>3, Zenon DEF InBatch
    <2>2. CASE d # c
      <3>1. InBatch(d) /\ events'[d] = events[d] /\ cstep'[d] = cstep[d]
        BY <1>6, <2>2, Zenon DEF EventfdInv
      <3> QED
        BY <1>1, <3>1, Zenon DEF InBatch
    <2> QED
      BY <2>1, <2>2, Zenon
  <1>12. ASSUME NEW d \in Consumers PROVE OffReadyList(d)'
    <2>1. CASE d = c
      <3>1. \A i \in 1..n, j \in 1..Len(ready') : ready'[j] # ready[i]
        <4> TAKE i \in 1..n, j \in 1..Len(ready')
        <4>1. i \in 1..Len(ready) /\ n + j \in 1..Len(ready) /\ n + j # i /\ ready'[j] = ready[n + j]
          BY <1>2, <1>3, <1>5
        <4> QED
          BY <4>1, Zenon DEF EventfdInv, OnReadyList
      <3> QED
        BY <1>4, <1>6, <2>1, <3>1 DEF OffReadyList
    <2>2. CASE d # c
      <3>1. OffReadyList(d) /\ events'[d] = events[d]
        BY <1>6, <2>2, Zenon DEF EventfdInv
      <3> QED
        BY <1>5, <3>1, Zenon DEF OffReadyList
    <2> QED
      BY <2>1, <2>2, Zenon
  <1>13. ASSUME NEW d \in Consumers, NEW e \in Consumers PROVE BatchesApart(d, e)'
    <2>1. CASE d # c /\ e # c
      BY <1>6, <2>1, SMTT(30) DEF EventfdInv, BatchesApart
    <2>2. CASE d = c /\ e = c
      <3>1. \A i, j \in 1..n : batch[i][2] = batch[j][2] => i = j
        BY <1>3, <1>4, SMTT(30) DEF EventfdInv, OnReadyList
      <3> QED
        BY <1>4, <1>6, <2>2, <3>1, Zenon DEF BatchesApart
    <2>3. ASSUME NEW o \in Consumers, o # c
          PROVE  \A i \in 1..n, j \in 1..Len(events'[o]) : batch[i][2] # events'[o][j][2]
      <3>1. OffReadyList(o) /\ events'[o] = events[o]
        BY <1>6, <2>3, Zenon DEF EventfdInv
      <3> QED
        BY <1>3, <1>4, <3>1, SMTT(30) DEF OffReadyList
    <2>4. CASE d = c /\ e # c
      BY <1>4, <1>6, <2>3, <2>4 DEF BatchesApart
    <2>5. CASE d # c /\ e = c
      BY <1>4, <1>6, <2>3, <2>5 DEF BatchesApart
    <2> QED
      BY <2>1, <2>2, <2>4, <2>5, Zenon
  <1> QED
    BY <1>7, <1>8, <1>9, <1>10, <1>11, <1>12, <1>13, Zenon DEF EventfdInv

(* What a consumer that reads or closes has at the head of its batch. *)
LEMMA EventfdHead ==
    ASSUME Eventfd!WorkerAssumption, EventfdInv, NEW c \in Consumers, cstep[c] # "epoll_wait"
    PROVE  LET t == Head(events[c])[2] IN
           /\ events[c] # <<>> /\ Head(events[c]) = events[c][1] /\ 1 \in 1..Len(events[c])
           /\ Head(events[c])[1] \in Eventfd!Fds /\ t \in Eventfd!Tasks /\ t # 0 /\ t <= issued
           /\ table[Head(events[c])[1]] = t
           /\ cstep[c] = "read" => counter[t] = 1
           /\ \A i \in 1..Len(ready) : ready[i] # t
           /\ \A d \in Consumers : \A j \in 1..Len(events[d]) :
                  events[d][j][2] = t => d = c /\ j = 1
           /\ \A p \in Producers : pstep[p] # "eventfd" => task[p] # t
  <1>1. events[c] # <<>> /\ events[c] \in Seq(Eventfd!Fds \X Eventfd!Tasks) /\ InBatch(c)
    BY Zenon DEF EventfdInv, InBatch, Eventfd!TypeOK
  <1>2. Head(events[c]) = events[c][1] /\ 1 \in 1..Len(events[c])
    BY <1>1
  <1>3. \A p \in Producers : pstep[p] # "eventfd" => task[p] # events[c][1][2]
    BY <1>2, Zenon DEF EventfdInv, WithProducer
  <1>4. /\ events[c][1][1] \in Eventfd!Fds /\ events[c][1][2] \in Eventfd!Tasks
        /\ events[c][1][2] # 0 /\ events[c][1][2] <= issued
    BY <1>2, EventfdTypes, Zenon
  <1>5. /\ table[events[c][1][1]] = events[c][1][2]
        /\ cstep[c] = "read" => counter[events[c][1][2]] = 1
    BY <1>1, <1>2, Zenon DEF InBatch
  <1>6. \A i \in 1..Len(ready) : ready[i] # events[c][1][2]
    BY <1>2, Zenon DEF EventfdInv, OffReadyList
  <1>7. \A d \in Consumers : \A j \in 1..Len(events[d]) :
            events[d][j][2] = events[c][1][2] => d = c /\ j = 1
    BY <1>2 DEF EventfdInv, BatchesApart
  <1> QED
    BY <1>1, <1>2, <1>3, <1>4, <1>5, <1>6, <1>7, Zenon

(* A read succeeds, and takes the count of the task it is for. *)
LEMMA EventfdRead ==
    ASSUME Eventfd!WorkerAssumption, EventfdInv, NEW c \in Consumers, Eventfd!read(c)
    PROVE  EventfdInv'
  <1> DEFINE t == Head(events[c])[2]
  <1>1. cstep[c] = "read"
    BY Zenon DEF Eventfd!read
  <1>2. /\ events[c] # <<>> /\ Head(events[c]) = events[c][1]
        /\ t \in Eventfd!Tasks /\ t # 0 /\ t <= issued /\ table[Head(events[c])[1]] = t
        /\ counter[t] = 1
        /\ \A i \in 1..Len(ready) : ready[i] # t
        /\ \A d \in Consumers : \A j \in 1..Len(events[d]) :
               events[d][j][2] = t => d = c /\ j = 1
        /\ \A p \in Producers : pstep[p] # "eventfd" => task[p] # t
    BY <1>1, EventfdHead, Zenon
  <1>3. /\ counter' = [counter EXCEPT ![t] = 0] /\ cstep' = [cstep EXCEPT ![c] = "close"]
        /\ UNCHANGED <<events, table, interest, ready, issued, pstep, efd, task, done, exited>>
    BY <1>2 DEF Eventfd!read, Eventfd!NONE
  <1> HIDE DEF t
  <1>4. \A u \in Eventfd!Tasks : counter'[u] = IF u = t THEN 0 ELSE counter[u]
    BY <1>3, Zenon DEF EventfdInv, Eventfd!TypeOK
  <1>5. \A d \in Consumers : cstep'[d] = IF d = c THEN "close" ELSE cstep[d]
    BY <1>3, Zenon DEF EventfdInv, Eventfd!TypeOK
  <1>6. Eventfd!TypeOK'
    <2>1. exited' \in BOOLEAN
      BY <1>3, Zenon DEF EventfdInv, Eventfd!TypeOK
    <2>2. counter' \in [Eventfd!Tasks -> 0..1]
      <3>1. counter \in [Eventfd!Tasks -> 0..1] /\ 0 \in 0..1
        BY DEF EventfdInv, Eventfd!TypeOK
      <3>2. counter' = [counter EXCEPT ![t] = 0]
        BY <1>3, Zenon
      <3> QED
        BY <3>1, <3>2, Zenon
    <2>3. cstep' \in [Consumers -> {"epoll_wait", "read", "close"}]
      BY <1>3, Zenon DEF EventfdInv, Eventfd!TypeOK
    <2> QED
      BY <1>3, <2>1, <2>2, <2>3, Zenon DEF EventfdInv, Eventfd!TypeOK
  <1>7. OneNumber' /\ TasksDone'
    BY <1>3, <1>4, Zenon DEF EventfdInv, OneNumber, TasksDone
  <1>8. OnReadyList'
    <2>1. \A i \in 1..Len(ready) : ready[i] \in Eventfd!Tasks /\ ready[i] # t
      BY <1>2, EventfdTypes, Zenon
    <2>2. OnReadyList
      BY Zenon DEF EventfdInv
    <2>3. ready' = ready /\ interest' = interest
      BY <1>3, Zenon
    <2>4. \A i \in 1..Len(ready) : counter'[ready[i]] = counter[ready[i]]
      BY <1>4, <2>1, Zenon
    <2> QED
      BY <2>2, <2>3, <2>4, Zenon DEF OnReadyList
  <1>9. ASSUME NEW p \in Producers PROVE WithProducer(p)'
    <2>1. WithProducer(p) /\ (pstep[p] # "eventfd" => task[p] # t)
      BY <1>2, Zenon DEF EventfdInv
    <2>2. pstep[p] # "eventfd" => counter'[task[p]] = counter[task[p]]
      BY <1>4, <2>1, Zenon DEF WithProducer
    <2> QED
      BY <1>3, <2>1, <2>2, Zenon DEF WithProducer
  <1>10. ASSUME NEW d \in Consumers PROVE InBatch(d)'
    <2>1. InBatch(d)
      BY Zenon DEF EventfdInv
    <2>2. \A i \in 1..Len(events[d]) :
              i > 1 \/ cstep'[d] = "read" => counter'[events[d][i][2]] = 1
      <3> TAKE i \in 1..Len(events[d])
      <3> HAVE i > 1 \/ cstep'[d] = "read"
      <3>1. counter[events[d][i][2]] = 1
        BY <1>5, <2>1, Zenon DEF InBatch
      <3>2. events[d][i][2] # t
        BY <1>2, <1>5
      <3> QED
        BY <1>4, <3>1, <3>2, EventfdTypes, Zenon
    <2>3. cstep'[d] = "epoll_wait" <=> events[d] = <<>>
      BY <1>2, <1>5, <2>1, Zenon DEF InBatch
    <2> QED
      BY <1>3, <2>1, <2>2, <2>3, Zenon DEF InBatch
  <1>11. ASSUME NEW d \in Consumers, NEW e \in Consumers
         PROVE  OffReadyList(d)' /\ BatchesApart(d, e)'
    <2>1. OffReadyList(d) /\ BatchesApart(d, e)
      BY Zenon DEF EventfdInv
    <2>2. ready' = ready /\ events'[d] = events[d] /\ events'[e] = events[e]
      BY <1>3, Zenon
    <2> QED
      BY <2>1, <2>2, Zenon DEF OffReadyList, BatchesApart
  <1> QED
    BY <1>6, <1>7, <1>8, <1>9, <1>10, <1>11, Zenon DEF EventfdInv

(* Closing frees the number of the task that is then done, and no other. *)
LEMMA EventfdClose ==
    ASSUME Eventfd!WorkerAssumption, EventfdInv, NEW c \in Consumers, Eventfd!close(c)
    PROVE  EventfdInv'
  <1> DEFINE f == Head(events[c])[1]
             t == Head(events[c])[2]
  <1>1. cstep[c] = "close"
    BY Zenon DEF Eventfd!close
  <1>2. /\ events[c] # <<>> /\ Head(events[c]) = events[c][1] /\ f \in Eventfd!Fds
        /\ t \in Eventfd!Tasks /\ t # 0 /\ t <= issued /\ table[f] = t
        /\ \A i \in 1..Len(ready) : ready[i] # t
        /\ \A d \in Consumers : \A j \in 1..Len(events[d]) :
               events[d][j][2] = t => d = c /\ j = 1
        /\ \A p \in Producers : pstep[p] # "eventfd" => task[p] # t
    BY <1>1, EventfdHead, Zenon
  <1>3. /\ table' = [table EXCEPT ![f] = 0] /\ interest' = [interest EXCEPT ![t] = 0]
        /\ ready' = ready /\ done' = Append(done, t)
        /\ events' = [events EXCEPT ![c] = Tail(events[c])]
        /\ cstep' = [cstep EXCEPT ![c] = IF Len(events[c]) > 1 THEN "read" ELSE "epoll_wait"]
        /\ UNCHANGED <<counter, issued, pstep, efd, task, exited>>
    BY <1>2, Zenon DEF Eventfd!close, Eventfd!Closed, Eventfd!NextEvent, Eventfd!Without, Eventfd!NONE
  <1> HIDE DEF f, t
  <1>4. /\ \A g \in Eventfd!Fds : table'[g] = IF g = f THEN 0 ELSE table[g]
        /\ \A u \in Eventfd!Tasks : interest'[u] = IF u = t THEN 0 ELSE interest[u]
    BY <1>3, Zenon DEF EventfdInv, Eventfd!TypeOK
  <1>5. \A g \in Eventfd!Fds : table[g] = t => g = f
    BY <1>2, Zenon DEF EventfdInv, OneNumber
  <1>6. /\ events'[c] \in Seq(Eventfd!Fds \X Eventfd!Tasks) /\ Len(events[c]) \in Nat
        /\ Len(events'[c]) = Len(events[c]) - 1
        /\ \A i \in 1..Len(events'[c]) :
               events'[c][i] = events[c][i + 1] /\ i + 1 \in 1..Len(events[c])
        /\ cstep'[c] = IF Len(events[c]) > 1 THEN "read" ELSE "epoll_wait"
        /\ \A d \in Consumers : d # c => events'[d] = events[d] /\ cstep'[d] = cstep[d]
    <2>1. events[c] \in Seq(Eventfd!Fds \X Eventfd!Tasks) /\ events'[c] = Tail(events[c])
      BY <1>3, Zenon DEF EventfdInv, Eventfd!TypeOK
    <2>2. /\ events'[c] \in Seq(Eventfd!Fds \X Eventfd!Tasks) /\ Len(events[c]) \in Nat
          /\ Len(events'[c]) = Len(events[c]) - 1
          /\ \A i \in 1..Len(events'[c]) :
                 events'[c][i] = events[c][i + 1] /\ i + 1 \in 1..Len(events[c])
      BY <1>2, <2>1
    <2> QED
      BY <1>3, <2>2, Zenon DEF EventfdInv, Eventfd!TypeOK
  <1>7. Eventfd!TypeOK'
    <2>1. exited' \in BOOLEAN
      BY <1>3, Zenon DEF EventfdInv, Eventfd!TypeOK
    <2>2. /\ table' \in [Eventfd!Fds -> Eventfd!Tasks \cup {Eventfd!NONE}]
          /\ interest' \in [Eventfd!Tasks -> Eventfd!Fds \cup {Eventfd!NONE}]
          /\ done' \in Seq(Eventfd!Tasks)
      BY <1>2, <1>3 DEF EventfdInv, Eventfd!TypeOK, Eventfd!NONE
    <2>3. /\ events' \in [Consumers -> Seq(Eventfd!Fds \X Eventfd!Tasks)]
          /\ cstep' \in [Consumers -> {"epoll_wait", "read", "close"}]
      BY <1>3, <1>6, Zenon DEF EventfdInv, Eventfd!TypeOK
    <2> QED
      BY <1>3, <2>1, <2>2, <2>3, Zenon DEF EventfdInv, Eventfd!TypeOK
  <1>8. OneNumber'
    <2>1. \A g \in Eventfd!Fds : table'[g] <= issued
      BY <1>4, EventfdTypes DEF EventfdInv, OneNumber
    <2>2. \A g, h \in Eventfd!Fds : table'[g] # 0 /\ table'[g] = table'[h] => g = h
      BY <1>4 DEF EventfdInv, OneNumber
    <2>3. ASSUME NEW u \in Eventfd!Tasks, interest'[u] # 0 PROVE table'[interest'[u]] = u
      <3>1. u # t /\ interest'[u] = interest[u] /\ interest[u] \in Eventfd!Fds
        BY <1>4, <2>3, Zenon DEF EventfdInv, Eventfd!TypeOK, Eventfd!NONE
      <3>2. table[interest[u]] = u
        BY <2>3, <3>1, Zenon DEF EventfdInv, OneNumber
      <3> QED
        BY <1>2, <1>4, <3>1, <3>2, Zenon
    <2> QED
      BY <1>3, <2>1, <2>2, <2>3, Zenon DEF EventfdInv, OneNumber
  <1>9. OnReadyList'
    <2>1. \A i \in 1..Len(ready) : interest'[ready[i]] = interest[ready[i]]
      BY <1>2, <1>4, EventfdTypes, Zenon
    <2> QED
      BY <1>3, <2>1 DEF EventfdInv, OnReadyList
  <1>10. TasksDone'
    <2>1. /\ Len(done') = Len(done) + 1 /\ Len(done) \in Nat /\ done'[Len(done) + 1] = t
          /\ \A i \in 1..Len(done) : done'[i] = done[i]
      BY <1>3 DEF EventfdInv, Eventfd!TypeOK
    <2>2. \A i \in 1..Len(done') : i \in 1..Len(done) \/ i = Len(done) + 1
      BY <2>1, SMTT(30)
    <2>3. \A g \in Eventfd!Fds : table'[g] # t
      BY <1>2, <1>4, <1>5, Zenon
    <2>4. \A i \in 1..Len(done) : done[i] # 0
      BY EventfdTypes, Zenon
    <2>5. \A i \in 1..Len(done) : done[i] <= issued /\ \A g \in Eventfd!Fds : table'[g] # done[i]
      BY <1>4, <2>4, Zenon DEF EventfdInv, TasksDone
    <2>6. \A i \in 1..Len(done') :
              done'[i] <= issued /\ \A g \in Eventfd!Fds : table'[g] # done'[i]
      BY <1>2, <2>1, <2>2, <2>3, <2>5, Zenon
    <2> QED
      BY <1>3, <2>6, Zenon DEF TasksDone
  <1> DEFINE old(d, i) == IF d = c THEN i + 1 ELSE i
  <1>11. ASSUME NEW d \in Consumers, NEW i \in 1..Len(events'[d])
         PROVE  /\ old(d, i) \in 1..Len(events[d]) /\ events'[d][i] = events[d][old(d, i)]
                /\ events[d][old(d, i)][2] # t
    <2>1. CASE d = c
      BY <1>2, <1>6, <2>1
    <2>2. CASE d # c
      BY <1>2, <1>6, <2>2, Zenon
    <2> QED
      BY <2>1, <2>2, Zenon
  <1>12. ASSUME NEW p \in Producers PROVE WithProducer(p)'
    <2>1. WithProducer(p)
      BY Zenon DEF EventfdInv
    <2>2. CASE pstep[p] = "eventfd"
      BY <1>3, <2>2, Zenon DEF WithProducer
    <2>3. CASE pstep[p] # "eventfd"
      <3>1. \A d \in Consumers : \A i \in 1..Len(events'[d]) : events'[d][i][2] # task[p]
        BY <1>11, <2>1, <2>3, Zenon DEF WithProducer
      <3>2. task[p] # t /\ efd[p] # f
        BY <1>2, <2>1, <2>3, Zenon DEF WithProducer
      <3>3. /\ efd[p] \in Eventfd!Fds /\ task[p] \in Eventfd!Tasks
            /\ table'[efd[p]] = task[p] /\ interest'[task[p]] = interest[task[p]]
        BY <1>4, <2>1, <2>3, <3>2, Zenon DEF WithProducer
      <3> QED
        BY <1>3, <2>1, <2>3, <3>1, <3>3, Zenon DEF WithProducer
    <2> QED
      BY <2>2, <2>3, Zenon
  <1>13. ASSUME NEW d \in Consumers PROVE InBatch(d)'
    <2>1. InBatch(d)
      BY Zenon DEF EventfdInv
    <2>2. cstep'[d] = "epoll_wait" <=> events'[d] = <<>>
      <3>1. CASE d # c
        BY <1>6, <2>1, <3>1, Zenon DEF InBatch
      <3>2. CASE d = c
        BY <1>2, <1>6, <3>2
      <3> QED
        BY <3>1, <3>2, Zenon
    <2>3. ASSUME NEW i \in 1..Len(events'[d])
          PROVE  /\ table'[events'[d][i][1]] = events'[d][i][2]
                 /\ i > 1 \/ cstep'[d] = "read" => counter[events'[d][i][2]] = 1
      <3> DEFINE o == old(d, i)
      <3>1. o \in 1..Len(events[d]) /\ events'[d][i] = events[d][o] /\ events[d][o][2] # t
        BY <1>11, Zenon
      <3>2. i > 1 \/ cstep'[d] = "read" => o > 1 \/ cstep[d] = "read"
        BY <1>6
      <3> HIDE DEF o
      <3>3. /\ table[events[d][o][1]] = events[d][o][2]
            /\ o > 1 \/ cstep[d] = "read" => counter[events[d][o][2]] = 1
        BY <2>1, <3>1, Zenon DEF InBatch
      <3>4. events[d][o][1] \in Eventfd!Fds /\ events[d][o][1] # f
        BY <1>2, <3>1, <3>3, EventfdTypes, Zenon
      <3> QED
        BY <1>4, <3>1, <3>2, <3>3, <3>4, Zenon
    <2> QED
      BY <1>3, <2>2, <2>3, Zenon DEF InBatch
  <1>14. ASSUME NEW d \in Consumers PROVE OffReadyList(d)'
    <2>1. OffReadyList(d)
      BY Zenon DEF EventfdInv
    <2>2. ready' = ready
      BY <1>3, Zenon
    <2>3. \A i \in 1..Len(events'[d]) :
              old(d, i) \in 1..Len(events[d]) /\ events'[d][i] = events[d][old(d, i)]
      BY <1>11, Zenon
    <2> HIDE DEF old
    <2> QED
      BY <2>1, <2>2, <2>3, Zenon DEF OffReadyList
  <1>15. ASSUME NEW d \in Consumers, NEW e \in Consumers PROVE BatchesApart(d, e)'
    <2>1. ASSUME NEW i \in 1..Len(events'[d]), NEW j \in 1..Len(events'[e]),
                 events'[d][i][2] = events'[e][j][2]
          PROVE  d = e /\ i = j
      <3> DEFINE m == old(d, i)
                 n == old(e, j)
      <3>1. m \in 1..Len(events[d]) /\ events'[d][i] = events[d][m]
        BY <1>11, Zenon
      <3>2. n \in 1..Len(events[e]) /\ events'[e][j] = events[e][n]
        BY <1>11, Zenon
      <3>3. BatchesApart(d, e)
        BY Zenon DEF EventfdInv
      <3> HIDE DEF m, n
      <3>4. d = e /\ m = n
        BY <2>1, <3>1, <3>2, <3>3, Zenon DEF BatchesApart
      <3> QED
        BY <3>4 DEF m, n
    <2> QED
      BY <2>1, Zenon DEF BatchesApart
  <1> QED
    BY <1>7, <1>8, <1>9, <1>10, <1>12, <1>13, <1>14, <1>15, Zenon DEF EventfdInv

(* eventfd_worker.c: a number that a producer or a batch holds means the   *)
(* eventfd it was got for, which still has its count, and a task that is   *)
(* done holds none; for any numbers of threads, descriptors and tasks.     *)
THEOREM NumbersAreCurrent ==
    ASSUME Eventfd!WorkerAssumption
    PROVE  Eventfd!Spec => [](Eventfd!TypeOK /\ DescriptorsAreCurrent)
  <1>1. Eventfd!Init => EventfdInv
    BY EventfdInit, Zenon
  <1>2. EventfdInv /\ [Eventfd!Next]_(Eventfd!vars) => EventfdInv'
    <2> SUFFICES ASSUME EventfdInv, [Eventfd!Next]_(Eventfd!vars) PROVE EventfdInv'
      OBVIOUS
    <2>1. CASE UNCHANGED Eventfd!vars
      <3>1. /\ UNCHANGED <<table, counter, interest, ready, issued, pstep, efd, task>>
            /\ UNCHANGED <<cstep, events, done, exited>>
        BY <2>1, Zenon DEF Eventfd!vars, Eventfd!kernel
      <3>2. Eventfd!TypeOK' /\ OneNumber' /\ OnReadyList' /\ TasksDone'
        BY <3>1, Zenon DEF EventfdInv, Eventfd!TypeOK, OneNumber, OnReadyList, TasksDone
      <3>3. \A p \in Producers : WithProducer(p)'
        BY <3>1, Zenon DEF EventfdInv, WithProducer
      <3>4. \A c \in Consumers : InBatch(c)' /\ OffReadyList(c)'
        BY <3>1, SMTT(30) DEF EventfdInv, InBatch, OffReadyList
      <3>5. \A c, d \in Consumers : BatchesApart(c, d)'
        BY <3>1 DEF EventfdInv, BatchesApart
      <3> QED
        BY <3>2, <3>3, <3>4, <3>5, Zenon DEF EventfdInv
    <2>2. CASE Eventfd!Next
      BY Zenon, <2>1, <2>2, EventfdNew, EventfdAdd, EventfdWrite, EventfdWait, EventfdRead,
         EventfdClose DEF Eventfd!Next, Eventfd!Finished
    <2> QED
      BY <2>1, <2>2, Zenon
  <1>3. EventfdInv => Eventfd!TypeOK /\ DescriptorsAreCurrent
    <2> SUFFICES ASSUME EventfdInv PROVE Eventfd!TypeOK /\ DescriptorsAreCurrent
      OBVIOUS
    <2>1. \A c \in Consumers : \A i \in 1..Len(events[c]) :
              /\ table[events[c][i][1]] = events[c][i][2]
              /\ i > 1 \/ cstep[c] = "read" => counter[events[c][i][2]] = 1
      BY Zenon DEF EventfdInv, InBatch
    <2>2. \A p \in Producers : pstep[p] # "eventfd" => table[efd[p]] = task[p]
      BY Zenon DEF EventfdInv, WithProducer
    <2>3. \A f \in Eventfd!Fds : \A i \in 1..Len(done) : done[i] # table[f]
      BY Zenon DEF EventfdInv, TasksDone
    <2> QED
      BY <2>1, <2>2, <2>3, Zenon DEF EventfdInv, DescriptorsAreCurrent, Eventfd!DescriptorsAreCurrent
  <1> QED
    BY <1>1, <1>2, <1>3, PTL DEF Eventfd!Spec

-----------------------------------------------------------------------------
(* The timerfd workers. *)

Batched(t) == \E c \in Consumers : \E i \in 1..Len(tevents[c]) : tevents[c][i] = t
Noticed(t) == ticks[t] > 0 => Timerfd!OnList(t) \/ Batched(t)

TimerTypes ==
    /\ tstep \in [Timers -> {"timerfd_create", "epoll_ctl", "timerfd_settime", "returned"}]
    /\ added \subseteq Timers /\ tready \in Seq(Timers)
    /\ ticks \in [Timers -> 0..MaxTicks] /\ expired \in [Timers -> 0..MaxTicks]
    /\ wstep \in [Consumers -> {"epoll_wait", "read"}] /\ tevents \in [Consumers -> Seq(Timers)]
    /\ num_done \in [Consumers -> Nat] /\ tasks \in [Consumers -> Seq(Timers \X (1..MaxTicks))]

(* A producer returns only when its timer is in the set; a batch is held   *)
(* only while it is read.                                                  *)
Registered == \A t \in Timers : tstep[t] \in {"timerfd_settime", "returned"} => t \in added
BatchIsRead == \A c \in Consumers : wstep[c] = "read" <=> Len(tevents[c]) > 0

Counted == \A t \in Timers : ticks[t] <= expired[t]

(* The expirations for which a task was done have been read. *)
TasksOf(c) ==
    /\ num_done[c] = Len(tasks[c])
    /\ \A i \in 1..Len(tasks[c]) :
           tasks[c][i][2] <= expired[tasks[c][i][1]] - ticks[tasks[c][i][1]]

(* No two tasks are done for the same expiration. *)
TasksApart(c, d) ==
    \A i \in 1..Len(tasks[c]), j \in 1..Len(tasks[d]) : tasks[c][i] = tasks[d][j] => c = d /\ i = j

TimerInv ==
    /\ TimerTypes /\ Registered /\ BatchIsRead /\ Counted
    /\ \A t \in Timers : Noticed(t)
    /\ \A c \in Consumers : TasksOf(c)
    /\ \A c, d \in Consumers : TasksApart(c, d)

LEMMA TimerInit == ASSUME Timerfd!TimerAssumption, Timerfd!Init PROVE TimerInv
  <1>1. TimerTypes
    <2>1. <<>> \in Seq(Timers)
      OBVIOUS
    <2> QED
      BY <2>1 DEF TimerTypes, Timerfd!Init, Timerfd!TimerAssumption
  <1>2. Registered /\ BatchIsRead /\ Counted
    BY DEF Registered, BatchIsRead, Counted, Timerfd!Init
  <1>3. \A t \in Timers : Noticed(t)
    BY DEF Noticed, Timerfd!Init
  <1>4. \A c \in Consumers : TasksOf(c)
    BY DEF TasksOf, Timerfd!Init
  <1>5. \A c, d \in Consumers : TasksApart(c, d)
    BY DEF TasksApart, Timerfd!Init
  <1> QED
    BY <1>1, <1>2, <1>3, <1>4, <1>5, Zenon DEF TimerInv

(* Nothing leaves the ready list when a timer is added to it. *)
LEMMA TimerOnList ==
    ASSUME TimerTypes, NEW t \in Timers, tready' = Append(tready, t)
    PROVE  /\ tready' \in Seq(Timers) /\ Timerfd!OnList(t)'
           /\ \A u \in Timers : Timerfd!OnList(u) => Timerfd!OnList(u)'
  <1>1. /\ tready' \in Seq(Timers) /\ Len(tready') = Len(tready) + 1 /\ tready'[Len(tready) + 1] = t
        /\ \A i \in 1..Len(tready) : tready'[i] = tready[i]
        /\ Len(tready) \in Nat
    BY DEF TimerTypes
  <1>2. Len(tready) + 1 \in 1..Len(tready') /\ \A i \in 1..Len(tready) : i \in 1..Len(tready')
    BY <1>1
  <1> QED
    BY <1>1, <1>2, Zenon DEF Timerfd!OnList

(* A task is done for a timer, and remembers which expiration it was. *)
LEMMA TimerTask ==
    ASSUME TimerInv, NEW c \in Consumers, NEW i \in 1..Len(tasks[c])
    PROVE  tasks[c][i][1] \in Timers /\ tasks[c][i][2] \in Int
  <1>1. tasks[c] \in Seq(Timers \X (1..MaxTicks))
    BY Zenon DEF TimerInv, TimerTypes
  <1>2. tasks[c][i] \in Timers \X (1..MaxTicks)
    BY <1>1
  <1> QED
    BY <1>2

LEMMA TimerProducer ==
    ASSUME Timerfd!TimerAssumption, TimerInv, NEW t \in Timers,
           Timerfd!timerfd_create(t) \/ Timerfd!epoll_ctl(t) \/ Timerfd!timerfd_settime(t)
    PROVE  TimerInv'
  <1>1. /\ UNCHANGED <<ticks, expired, wstep, tevents, num_done, tasks>>
        /\ tready' = tready \/ tready' = Append(tready, t)
        /\ added' = added \/ added' = added \cup {t}
        /\ \E s \in {"epoll_ctl", "timerfd_settime", "returned"} :
               /\ tstep' = [tstep EXCEPT ![t] = s]
               /\ s # "epoll_ctl" => t \in added'
    BY Zenon DEF Timerfd!timerfd_create, Timerfd!epoll_ctl, Timerfd!timerfd_settime, TimerInv, Registered
  <1>2. tready' \in Seq(Timers) /\ \A u \in Timers : Timerfd!OnList(u) => Timerfd!OnList(u)'
    <2>1. CASE tready' = tready
      BY <2>1, Zenon DEF TimerInv, TimerTypes, Timerfd!OnList
    <2> QED
      BY <1>1, <2>1, TimerOnList, Zenon DEF TimerInv
  <1>3. PICK s \in {"epoll_ctl", "timerfd_settime", "returned"} :
            tstep' = [tstep EXCEPT ![t] = s] /\ (s # "epoll_ctl" => t \in added')
    BY <1>1, Zenon
  <1>4. TimerTypes'
    BY <1>1, <1>2, <1>3, Zenon DEF TimerInv, TimerTypes
  <1>5. Registered'
    <2>1. tstep'[t] = s /\ \A u \in Timers : u # t => tstep'[u] = tstep[u]
      BY <1>3, Zenon DEF TimerInv, TimerTypes
    <2> QED
      BY <1>1, <1>3, <2>1, Zenon DEF TimerInv, Registered
  <1>6. BatchIsRead' /\ Counted'
    BY <1>1, Zenon DEF TimerInv, BatchIsRead, Counted
  <1>7. \A u \in Timers : Noticed(u)'
    BY <1>1, <1>2, Zenon DEF TimerInv, Noticed, Batched
  <1>8. \A c \in Consumers : TasksOf(c)'
    BY <1>1, Zenon DEF TimerInv, TasksOf
  <1>9. \A c, d \in Consumers : TasksApart(c, d)'
    BY <1>1 DEF TimerInv, TasksApart
  <1> QED
    BY <1>4, <1>5, <1>6, <1>7, <1>8, <1>9, Zenon DEF TimerInv

LEMMA TimerExpire ==
    ASSUME Timerfd!TimerAssumption, TimerInv, NEW t \in Timers, Timerfd!Expire(t) PROVE TimerInv'
  <1>1. /\ tstep[t] = "returned" /\ expired[t] < MaxTicks
        /\ expired' = [expired EXCEPT ![t] = expired[t] + 1] /\ ticks' = [ticks EXCEPT ![t] = ticks[t] + 1]
        /\ UNCHANGED <<tstep, added, wstep, tevents, num_done, tasks>>
    BY Zenon DEF Timerfd!Expire
  <1>2. (Timerfd!OnList(t) /\ tready' = tready) \/ tready' = Append(tready, t)
    BY <1>1, Zenon DEF Timerfd!Expire, TimerInv, Registered
  <1>3. /\ tready' \in Seq(Timers) /\ Timerfd!OnList(t)'
        /\ \A u \in Timers : Timerfd!OnList(u) => Timerfd!OnList(u)'
    <2>1. CASE Timerfd!OnList(t) /\ tready' = tready
      BY <2>1, Zenon DEF TimerInv, TimerTypes, Timerfd!OnList
    <2> QED
      BY <1>2, <2>1, TimerOnList, Zenon DEF TimerInv
  <1>4. /\ expired'[t] = expired[t] + 1 /\ ticks'[t] = ticks[t] + 1
        /\ \A u \in Timers : u # t => expired'[u] = expired[u] /\ ticks'[u] = ticks[u]
        /\ \A u \in Timers : expired[u] \in 0..MaxTicks /\ ticks[u] \in 0..MaxTicks /\ ticks[u] <= expired[u]
        /\ MaxTicks \in Nat
    BY <1>1, Zenon DEF TimerInv, TimerTypes, Counted, Timerfd!TimerAssumption
  <1>5. TimerTypes' /\ Counted'
    <2>1. expired[t] + 1 \in 0..MaxTicks /\ ticks[t] + 1 \in 0..MaxTicks
      <3>1. /\ expired[t] \in 0..MaxTicks /\ ticks[t] \in 0..MaxTicks /\ MaxTicks \in Nat
            /\ ticks[t] <= expired[t] /\ expired[t] < MaxTicks
        BY <1>1, <1>4, Zenon
      <3> QED
        BY <3>1
    <2>2. expired' \in [Timers -> 0..MaxTicks] /\ ticks' \in [Timers -> 0..MaxTicks]
      BY <1>1, <2>1, Zenon DEF TimerInv, TimerTypes
    <2>3. Counted'
      BY <1>4 DEF Counted
    <2> QED
      BY <1>1, <1>3, <2>2, <2>3, Zenon DEF TimerInv, TimerTypes
  <1>6. Registered' /\ BatchIsRead'
    BY <1>1, Zenon DEF TimerInv, Registered, BatchIsRead
  <1>7. \A u \in Timers : Noticed(u)'
    BY <1>1, <1>3, <1>4, Zenon DEF TimerInv, Noticed, Batched
  <1>8. ASSUME NEW c \in Consumers PROVE TasksOf(c)'
    <2>1. \A u \in Timers : expired'[u] - ticks'[u] = expired[u] - ticks[u]
      BY <1>4
    <2> QED
      BY <1>1, <2>1, TimerTask, Zenon DEF TimerInv, TasksOf
  <1>9. \A c, d \in Consumers : TasksApart(c, d)'
    BY <1>1 DEF TimerInv, TasksApart
  <1> QED
    BY <1>5, <1>6, <1>7, <1>8, <1>9, Zenon DEF TimerInv

(* epoll_wait moves the front of the ready list into an empty batch. *)
LEMMA TimerWait ==
    ASSUME Timerfd!TimerAssumption, TimerInv, NEW c \in Consumers, Timerfd!epoll_wait(c) PROVE TimerInv'
  <1> DEFINE k == Timerfd!Taken
             L == Len(tready)
  <1>1. /\ wstep[c] = "epoll_wait" /\ tready # <<>>
        /\ tevents' = [tevents EXCEPT ![c] = SubSeq(tready, 1, k)]
        /\ tready' = SubSeq(tready, k + 1, L)
        /\ wstep' = [wstep EXCEPT ![c] = "read"]
        /\ UNCHANGED <<tstep, added, ticks, expired, num_done, tasks>>
    BY Zenon DEF Timerfd!epoll_wait
  <1>2. tready \in Seq(Timers) /\ L \in Nat /\ L > 0
    BY <1>1 DEF TimerInv, TimerTypes
  <1>3. k \in Nat /\ k >= 1 /\ k <= L
    BY <1>2 DEF Timerfd!Taken, Timerfd!TimerAssumption
  <1> HIDE DEF k
  <1>4. /\ tevents'[c] = SubSeq(tready, 1, k) /\ wstep'[c] = "read"
        /\ \A d \in Consumers : d # c => tevents'[d] = tevents[d] /\ wstep'[d] = wstep[d]
        /\ Len(tevents[c]) = 0
    <2>1. tevents \in [Consumers -> Seq(Timers)] /\ wstep \in [Consumers -> {"epoll_wait", "read"}]
      BY Zenon DEF TimerInv, TimerTypes
    <2>2. Len(tevents[c]) \in Nat /\ ~(Len(tevents[c]) > 0)
      BY <1>1, <2>1 DEF TimerInv, BatchIsRead
    <2>3. Len(tevents[c]) = 0
      BY <2>2
    <2>4. tevents'[c] = SubSeq(tready, 1, k) /\ \A d \in Consumers : d # c => tevents'[d] = tevents[d]
      BY <1>1, <2>1, Zenon
    <2>5. wstep'[c] = "read" /\ \A d \in Consumers : d # c => wstep'[d] = wstep[d]
      BY <1>1, <2>1, Zenon
    <2> QED
      BY <2>3, <2>4, <2>5, Zenon
  <1>5. /\ tevents'[c] \in Seq(Timers) /\ Len(tevents'[c]) = k
        /\ \A i \in 1..k : tevents'[c][i] = tready[i]
    BY <1>2, <1>3, <1>4
  <1>6. /\ tready' \in Seq(Timers) /\ Len(tready') = L - k
        /\ \A i \in 1..(L - k) : tready'[i] = tready[k + i]
    BY <1>1, <1>2, <1>3
  <1>7. TimerTypes'
    <2>1. tevents' \in [Consumers -> Seq(Timers)]
      <3>1. tevents \in [Consumers -> Seq(Timers)] /\ SubSeq(tready, 1, k) \in Seq(Timers)
        BY <1>4, <1>5, Zenon DEF TimerInv, TimerTypes
      <3> QED
        BY <1>1, <3>1, Zenon
    <2>2. wstep' \in [Consumers -> {"epoll_wait", "read"}]
      BY <1>1, Zenon DEF TimerInv, TimerTypes
    <2> QED
      BY <1>1, <1>6, <2>1, <2>2, Zenon DEF TimerInv, TimerTypes
  <1>8. Registered' /\ Counted'
    BY <1>1, Zenon DEF TimerInv, Registered, Counted
  <1>9. BatchIsRead'
    BY <1>3, <1>4, <1>5 DEF TimerInv, BatchIsRead
  <1>10. ASSUME NEW t \in Timers, ticks[t] > 0 PROVE Timerfd!OnList(t)' \/ Batched(t)'
    <2>1. CASE Timerfd!OnList(t)
      <3>1. PICK i \in 1..L : tready[i] = t
        BY <2>1, Zenon DEF Timerfd!OnList
      <3>2. CASE i <= k
        <4>1. i \in 1..Len(tevents'[c]) /\ tevents'[c][i] = t
          BY <1>2, <1>3, <1>5, <3>1, <3>2
        <4> QED
          BY <4>1, Zenon DEF Batched
      <3>3. CASE i > k
        <4>1. i - k \in 1..(L - k) /\ k + (i - k) = i
          BY <1>2, <1>3, <3>1, <3>3
        <4>2. i - k \in 1..Len(tready') /\ tready'[i - k] = t
          BY <1>6, <3>1, <4>1, Zenon
        <4> QED
          BY <4>2, Zenon DEF Timerfd!OnList
      <3> QED
        BY <1>2, <1>3, <3>1, <3>2, <3>3
    <2>2. CASE Batched(t)
      <3>1. PICK d \in Consumers : \E i \in 1..Len(tevents[d]) : tevents[d][i] = t
        BY <2>2, Zenon DEF Batched
      <3>2. d # c
        BY <1>4, <3>1
      <3> QED
        BY <1>4, <3>1, <3>2, Zenon DEF Batched
    <2> QED
      BY <1>10, <2>1, <2>2, Zenon DEF TimerInv, Noticed
  <1>11. \A t \in Timers : Noticed(t)'
    BY <1>1, <1>10, Zenon DEF Noticed
  <1>12. \A d \in Consumers : TasksOf(d)'
    BY <1>1, Zenon DEF TimerInv, TasksOf
  <1>13. \A d, e \in Consumers : TasksApart(d, e)'
    BY <1>1 DEF TimerInv, TasksApart
  <1> QED
    BY <1>7, <1>8, <1>9, <1>11, <1>12, <1>13, Zenon DEF TimerInv

(* A timer is gone from the batch only with its count. *)
LEMMA TimerRead ==
    ASSUME Timerfd!TimerAssumption, TimerInv, NEW c \in Consumers, Timerfd!read(c) PROVE TimerInv'
  <1> DEFINE s == tevents[c]
             h == Head(s)
  <1>1. /\ wstep[c] = "read"
        /\ tevents' = [tevents EXCEPT ![c] = Tail(s)]
        /\ wstep' = [wstep EXCEPT ![c] = IF Len(s) > 1 THEN "read" ELSE "epoll_wait"]
        /\ UNCHANGED <<tstep, added, expired, tready>>
    BY Zenon DEF Timerfd!read, Timerfd!NextEvent
  <1>2. \/ ticks[h] = 0 /\ UNCHANGED <<ticks, num_done, tasks>>
        \/ /\ ticks[h] # 0 /\ ticks' = [ticks EXCEPT ![h] = 0]
           /\ num_done' = [num_done EXCEPT ![c] = num_done[c] + 1]
           /\ tasks' = [tasks EXCEPT ![c] = Append(tasks[c], <<h, expired[h]>>)]
    BY Zenon DEF Timerfd!read, Timerfd!do_task
  <1>3. s \in Seq(Timers) /\ Len(s) \in Nat /\ Len(s) > 0
    BY <1>1 DEF TimerInv, TimerTypes, BatchIsRead
  <1>4. /\ h \in Timers /\ h = s[1] /\ tevents'[c] \in Seq(Timers) /\ Len(tevents'[c]) = Len(s) - 1
        /\ \A i \in 1..(Len(s) - 1) : tevents'[c][i] = s[i + 1]
    <2>1. tevents'[c] = Tail(s)
      BY <1>1, Zenon DEF TimerInv, TimerTypes
    <2> HIDE DEF s
    <2> QED
      BY <1>3, <2>1
  <1>5. /\ wstep'[c] = IF Len(s) > 1 THEN "read" ELSE "epoll_wait"
        /\ \A d \in Consumers : d # c => tevents'[d] = tevents[d] /\ wstep'[d] = wstep[d]
    BY <1>1, Zenon DEF TimerInv, TimerTypes
  <1> HIDE DEF h
  <1>6. /\ \A t \in Timers : ticks[t] \in 0..MaxTicks /\ expired[t] \in 0..MaxTicks /\ ticks[t] <= expired[t]
        /\ MaxTicks \in Nat
    BY Zenon DEF TimerInv, TimerTypes, Counted, Timerfd!TimerAssumption
  <1>7. ticks' \in [Timers -> 0..MaxTicks] /\ ticks'[h] = 0 /\ \A t \in Timers : t # h => ticks'[t] = ticks[t]
    <2>1. ticks \in [Timers -> 0..MaxTicks] /\ 0 \in 0..MaxTicks /\ h \in Timers
      BY <1>4, <1>6, SMTT(30) DEF TimerInv, TimerTypes
    <2> QED
      BY <1>2, <2>1, Zenon
  <1>8. Registered' /\ Counted'
    BY <1>1, <1>6, <1>7 DEF TimerInv, Registered, Counted
  <1>9. BatchIsRead'
    <2>1. wstep'[c] = "read" <=> Len(tevents'[c]) > 0
      <3> HIDE DEF s
      <3> QED
        BY <1>3, <1>4, <1>5
    <2> QED
      BY <1>5, <2>1, Zenon DEF TimerInv, BatchIsRead
  <1>10. ASSUME NEW t \in Timers PROVE Noticed(t)'
    <2>1. CASE t = h
      BY <1>7, <2>1 DEF Noticed
    <2>2. CASE t # h /\ Batched(t)
      <3>1. PICK d \in Consumers : \E i \in 1..Len(tevents[d]) : tevents[d][i] = t
        BY <2>2, Zenon DEF Batched
      <3>2. CASE d # c
        BY <1>5, <3>1, <3>2, Zenon DEF Batched, Noticed
      <3>3. CASE d = c
        <4>1. PICK i \in 1..Len(s) : s[i] = t
          BY <3>1, <3>3, Zenon
        <4>2. i - 1 \in 1..(Len(s) - 1) /\ (i - 1) + 1 = i
          <5> HIDE DEF s
          <5>1. i # 1
            BY <1>4, <2>2, <4>1, Zenon
          <5> QED
            BY <1>3, <4>1, <5>1
        <4>3. i - 1 \in 1..Len(tevents'[c]) /\ tevents'[c][i - 1] = t
          <5> HIDE DEF s
          <5> QED
            BY <1>4, <4>1, <4>2, Zenon
        <4> QED
          BY <4>3, Zenon DEF Batched, Noticed
      <3> QED
        BY <3>2, <3>3, Zenon
    <2>3. CASE t # h /\ Timerfd!OnList(t)
      BY <1>1, <2>3, Zenon DEF Noticed, Timerfd!OnList
    <2>4. CASE t # h /\ ~(ticks[t] > 0)
      BY <1>7, <2>4, Zenon DEF Noticed
    <2> QED
      BY <2>1, <2>2, <2>3, <2>4, Zenon DEF TimerInv, Noticed
  <1>11. tevents' \in [Consumers -> Seq(Timers)] /\ wstep' \in [Consumers -> {"epoll_wait", "read"}]
    <2>1. tevents \in [Consumers -> Seq(Timers)] /\ wstep \in [Consumers -> {"epoll_wait", "read"}]
      BY Zenon DEF TimerInv, TimerTypes
    <2>2. tevents'[c] = Tail(s)
      BY <1>1, <2>1, Zenon
    <2> HIDE DEF s
    <2> QED
      BY <1>1, <1>4, <2>1, <2>2, Zenon
  <1>12. CASE ticks[h] = 0 /\ UNCHANGED <<ticks, num_done, tasks>>
    <2>1. TimerTypes'
      BY <1>1, <1>11, <1>12, Zenon DEF TimerInv, TimerTypes
    <2>2. \A d \in Consumers : TasksOf(d)'
      BY <1>1, <1>12, Zenon DEF TimerInv, TasksOf
    <2>3. \A d, e \in Consumers : TasksApart(d, e)'
      BY <1>12 DEF TimerInv, TasksApart
    <2> QED
      BY <1>8, <1>9, <1>10, <2>1, <2>2, <2>3, Zenon DEF TimerInv
  <1>13. CASE /\ ticks[h] # 0 /\ ticks' = [ticks EXCEPT ![h] = 0]
              /\ num_done' = [num_done EXCEPT ![c] = num_done[c] + 1]
              /\ tasks' = [tasks EXCEPT ![c] = Append(tasks[c], <<h, expired[h]>>)]
    <2> DEFINE e == <<h, expired[h]>>
    <2>1. expired[h] \in 1..MaxTicks /\ ~(expired[h] <= expired[h] - ticks[h])
      BY <1>4, <1>6, <1>13
    <2>2. e \in Timers \X (1..MaxTicks)
      BY <1>4, <2>1, Zenon
    <2>3. e[1] = h /\ e[2] = expired[h]
      OBVIOUS
    <2>4. num_done \in [Consumers -> Nat] /\ tasks \in [Consumers -> Seq(Timers \X (1..MaxTicks))]
      BY Zenon DEF TimerInv, TimerTypes
    <2> HIDE DEF e
    <2>5. \A d \in Consumers : \A i \in 1..Len(tasks[d]) : tasks[d][i] # e
      <3> SUFFICES ASSUME NEW d \in Consumers, NEW i \in 1..Len(tasks[d]), tasks[d][i] = e
                   PROVE  FALSE
        OBVIOUS
      <3>1. tasks[d][i][2] <= expired[tasks[d][i][1]] - ticks[tasks[d][i][1]]
        BY Zenon DEF TimerInv, TasksOf
      <3> QED
        BY <2>1, <2>3, <3>1, Zenon
    <2>6. /\ num_done'[c] = num_done[c] + 1 /\ tasks'[c] = Append(tasks[c], e)
          /\ \A d \in Consumers : d # c => num_done'[d] = num_done[d] /\ tasks'[d] = tasks[d]
      BY <1>13, <2>4, Zenon DEF e
    <2>7. /\ Len(tasks'[c]) = Len(tasks[c]) + 1 /\ Len(tasks[c]) \in Nat /\ tasks'[c][Len(tasks[c]) + 1] = e
          /\ tasks'[c] \in Seq(Timers \X (1..MaxTicks))
          /\ \A i \in 1..Len(tasks[c]) : tasks'[c][i] = tasks[c][i]
      <3> DEFINE T == Timers \X (1..MaxTicks)
                 q == tasks[c]
      <3>1. q \in Seq(T) /\ e \in T
        BY <2>2, <2>4, Zenon
      <3> HIDE DEF T, q
      <3>2. /\ Len(Append(q, e)) = Len(q) + 1 /\ Len(q) \in Nat /\ Append(q, e)[Len(q) + 1] = e
            /\ Append(q, e) \in Seq(T)
            /\ \A i \in 1..Len(q) : Append(q, e)[i] = q[i]
        BY <3>1
      <3> QED
        BY <2>6, <3>2, Zenon DEF T, q
    <2>8. TimerTypes'
      <3>1. num_done' \in [Consumers -> Nat] /\ tasks' \in [Consumers -> Seq(Timers \X (1..MaxTicks))]
        BY <1>13, <2>4, <2>6, <2>7
      <3> QED
        BY <1>1, <1>7, <1>11, <3>1, Zenon DEF TimerInv, TimerTypes
    <2>9. \A t \in Timers : expired'[t] - ticks'[t] >= expired[t] - ticks[t] /\ expired'[t] - ticks'[t] \in Int
      <3> TAKE t \in Timers
      <3>1. /\ ticks'[t] \in Int /\ ticks[t] \in Int /\ expired[t] \in Int /\ expired' = expired
            /\ ticks'[t] <= ticks[t]
        BY <1>1, <1>6, <1>7, SMTT(30)
      <3> QED
        BY <3>1
    <2>10. ASSUME NEW d \in Consumers, NEW i \in 1..Len(tasks[d])
           PROVE  tasks[d][i][2] <= expired'[tasks[d][i][1]] - ticks'[tasks[d][i][1]]
      <3>1. /\ tasks[d][i][2] <= expired[tasks[d][i][1]] - ticks[tasks[d][i][1]]
            /\ tasks[d][i][1] \in Timers /\ tasks[d][i][2] \in Int
        BY TimerTask, Zenon DEF TimerInv, TasksOf
      <3>2. ticks[tasks[d][i][1]] \in Int /\ expired[tasks[d][i][1]] \in Int
        BY <1>6, <3>1
      <3> DEFINE t == tasks[d][i][1]
      <3>3. t \in Timers /\ expired'[t] - ticks'[t] >= expired[t] - ticks[t] /\ expired'[t] - ticks'[t] \in Int
        BY <2>9, <3>1, Zenon
      <3> QED
        BY <3>1, <3>2, <3>3
    <2>11. TasksOf(c)'
      <3>1. num_done'[c] = Len(tasks'[c])
        BY <2>6, <2>7, Zenon DEF TimerInv, TasksOf
      <3>2. e[2] <= expired'[e[1]] - ticks'[e[1]]
        BY <1>1, <1>7, <2>1, <2>3
      <3>3. \A i \in 1..Len(tasks'[c]) :
                tasks'[c][i][2] <= expired'[tasks'[c][i][1]] - ticks'[tasks'[c][i][1]]
        <4> TAKE i \in 1..Len(tasks'[c])
        <4>1. i = Len(tasks[c]) + 1 \/ i \in 1..Len(tasks[c])
          BY <2>7
        <4> QED
          BY <2>7, <2>10, <3>2, <4>1, Zenon
      <3> QED
        BY <3>1, <3>3, Zenon DEF TasksOf
    <2>12. ASSUME NEW d \in Consumers, d # c PROVE TasksOf(d)'
      <3>1. tasks'[d] = tasks[d] /\ num_done'[d] = Len(tasks'[d])
        BY <2>6, <2>12, Zenon DEF TimerInv, TasksOf
      <3> QED
        BY <2>10, <3>1, Zenon DEF TasksOf
    <2>13. ASSUME NEW d \in Consumers, NEW f \in Consumers PROVE TasksApart(d, f)'
      <3> SUFFICES ASSUME NEW i \in 1..Len(tasks'[d]), NEW j \in 1..Len(tasks'[f]),
                          tasks'[d][i] = tasks'[f][j]
                   PROVE  d = f /\ i = j
        BY Zenon DEF TasksApart
      <3>0. ASSUME NEW g \in Consumers, NEW l \in 1..Len(tasks'[g])
            PROVE  \/ g = c /\ l = Len(tasks[c]) + 1 /\ tasks'[g][l] = e
                   \/ l \in 1..Len(tasks[g]) /\ tasks'[g][l] = tasks[g][l]
        <4>1. CASE g # c
          BY <2>6, <4>1, Zenon
        <4>2. CASE g = c
          <5>1. l \in 1..(Len(tasks[c]) + 1) /\ Len(tasks[c]) \in Nat
            BY <2>7, <4>2, Zenon
          <5>2. l \in 1..Len(tasks[c]) \/ l = Len(tasks[c]) + 1
            BY <5>1
          <5> QED
            BY <2>7, <4>2, <5>2, Zenon
        <4> QED
          BY <4>1, <4>2, Zenon
      <3>1. \/ d = c /\ i = Len(tasks[c]) + 1 /\ tasks'[d][i] = e
            \/ i \in 1..Len(tasks[d]) /\ tasks'[d][i] = tasks[d][i]
        BY <3>0, Zenon
      <3>2. \/ f = c /\ j = Len(tasks[c]) + 1 /\ tasks'[f][j] = e
            \/ j \in 1..Len(tasks[f]) /\ tasks'[f][j] = tasks[f][j]
        BY <3>0, Zenon
      <3>3. TasksApart(d, f)
        BY Zenon DEF TimerInv
      <3> QED
        BY <2>5, <3>1, <3>2, <3>3, Zenon DEF TasksApart
    <2> QED
      BY <1>8, <1>9, <1>10, <2>8, <2>11, <2>12, <2>13, Zenon DEF TimerInv
  <1> QED
    BY <1>2, <1>12, <1>13, Zenon

(* timerfd_worker.c: an expiration that nobody has read is on the ready    *)
(* list or in a batch, and no two tasks are done for the same one.         *)
THEOREM ExpirationsAreNoticed ==
    ASSUME Timerfd!TimerAssumption PROVE Timerfd!Spec => []NothingUnnoticed
  <1>1. Timerfd!Init => TimerInv
    BY TimerInit, Zenon
  <1>2. TimerInv /\ [Timerfd!Next]_(Timerfd!vars) => TimerInv'
    <2> SUFFICES ASSUME TimerInv, [Timerfd!Next]_(Timerfd!vars) PROVE TimerInv'
      OBVIOUS
    <2>1. CASE UNCHANGED Timerfd!vars
      <3>1. TimerTypes' /\ Registered' /\ BatchIsRead' /\ Counted'
        BY <2>1, Zenon DEF Timerfd!vars, TimerInv, TimerTypes, Registered, BatchIsRead, Counted
      <3>2. \A t \in Timers : Noticed(t)'
        BY <2>1, Zenon DEF Timerfd!vars, TimerInv, Noticed, Batched, Timerfd!OnList
      <3>3. \A c \in Consumers : TasksOf(c)'
        BY <2>1, Zenon DEF Timerfd!vars, TimerInv, TasksOf
      <3>4. \A c, d \in Consumers : TasksApart(c, d)'
        BY <2>1, SMTT(30) DEF Timerfd!vars, TimerInv, TasksApart
      <3> QED
        BY <3>1, <3>2, <3>3, <3>4, Zenon DEF TimerInv
    <2> QED
      BY <2>1, TimerProducer, TimerExpire, TimerWait, TimerRead, Zenon DEF Timerfd!Next, Timerfd!Quiet
  <1>3. TimerInv => NothingUnnoticed
    BY DEF TimerInv, Noticed, Batched, TasksOf, TasksApart, NothingUnnoticed, Timerfd!NothingUnnoticed
  <1> QED
    BY <1>1, <1>2, <1>3, PTL DEF Timerfd!Spec
=============================================================================
