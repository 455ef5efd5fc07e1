----------------------------- MODULE SyncProofs -----------------------------
(***************************************************************************)
(* Proofs about Sync for every set of threads, mutexes, semaphores and     *)
(* condition variables and every bound: no thread is lost or queued twice, *)
(* mutexes exclude each other's owners across the hand-over, a mutex with  *)
(* waiters is locked, and a semaphore's debt is the length of its queue.   *)
(*                                                                         *)
(* The places of threads come first; mutexes and semaphores rest on them.  *)
(***************************************************************************)
EXTENDS Sync, SequenceLemmas

(* The places of threads: what each scheduler and                          *)
(* queue operation does to the ready queue, the CPU, the wait queues and   *)
(* the timer heap, and that every way in which a step moves threads keeps  *)
(* each thread in exactly one place.                                       *)

(* The queues of a family of wait queues are without repetitions and share *)
(* no thread.                                                              *)
QueuesOK(wq) ==
  /\ wq \in [Objects -> Seq(Tasks)]
  /\ \A o \in Objects : IsInjective(wq[o])
  /\ \A o, p \in Objects : o # p => Range(wq[o]) \cap Range(wq[p]) = {}

Members(wq) == UNION {Range(wq[o]) : o \in Objects}

(* The five places of a thread: running, ready, blocked, asleep and gone. *)
Partition(C, R, B, S, G) ==
  /\ C \cup R \cup B \cup S \cup G = Tasks
  /\ R \cap C = {}
  /\ B \cap (C \cup R) = {}
  /\ S \cap (C \cup R \cup B) = {}
  /\ G \cap (C \cup R \cup B \cup S) = {}

(* OnePlace with the types it needs. *)
Places ==
  /\ ready \in Seq(Tasks)
  /\ current \in Tasks \cup {NoTask}
  /\ status \in [Tasks -> TaskStatus]
  /\ timers \subseteq [task : Tasks, expire : Nat]
  /\ IsFiniteSet(timers)
  /\ IsInjective(ready)
  /\ QueuesOK(wait_queue)
  /\ \A x, y \in timers : x.task = y.task => x = y
  /\ Partition(Running, Range(ready), Members(wait_queue), Sleepers, Gone)

-----------------------------------------------------------------------------
(* wait_queue.pop_front() *)
LEMMA PopQueue ==
  ASSUME QueuesOK(wait_queue), NEW o \in Objects
  PROVE  /\ QueuesOK(PopFront(o))
         /\ FrontOf(o) \in Seq(Tasks)
         /\ IsInjective(FrontOf(o))
         /\ Range(FrontOf(o)) \subseteq Queued(o)
         /\ Range(PopFront(o)[o]) = Queued(o) \ Range(FrontOf(o))
         /\ \A p \in Objects \ {o} : PopFront(o)[p] = wait_queue[p]
         /\ Members(PopFront(o)) = Members(wait_queue) \ Range(FrontOf(o))
<1> DEFINE q == wait_queue[o]
           F == Range(FrontOf(o))
           wq == PopFront(o)
<1>1. q \in Seq(Tasks) /\ IsInjective(q)
  BY DEF QueuesOK
<1>2. CASE q = << >>
  <2>1. FrontOf(o) = << >> /\ wq = wait_queue
    BY <1>2 DEF FrontOf, PopFront
  <2>2. FrontOf(o) \in Seq(Tasks) /\ F = {} /\ IsInjective(FrontOf(o))
    BY <2>1, EmptyProperties
  <2> QED
    BY <2>1, <2>2 DEF Queued
<1>3. CASE q # << >>
  <2> DEFINE h == Head(q)
  <2>1. FrontOf(o) = <<h>> /\ wq = [wait_queue EXCEPT ![o] = Tail(q)]
    BY <1>3 DEF FrontOf, PopFront
  <2>2. /\ Tail(q) \in Seq(Tasks) /\ h \in Range(q) /\ h \in Tasks
        /\ Range(Tail(q)) = Range(q) \ {h} /\ IsInjective(Tail(q))
    BY <1>1, <1>3, ShiftProperties
  <2>3. FrontOf(o) \in Seq(Tasks) /\ F = {h} /\ IsInjective(FrontOf(o))
    <3>1. <<h>> \in Seq(Tasks) /\ Range(<<h>>) = {h} /\ IsInjective(<<h>>)
      BY <2>2, SingleProperties
    <3> QED
      BY <2>1, <3>1
  <2> HIDE DEF h, F
  <2>4. /\ wq \in [Objects -> Seq(Tasks)]
        /\ wq[o] = Tail(q)
        /\ \A p \in Objects \ {o} : wq[p] = wait_queue[p]
    BY <2>1, <2>2 DEF QueuesOK
  <2> HIDE DEF wq
  <2>5. Range(wq[o]) = Range(wait_queue[o]) \ F
    BY <2>2, <2>3, <2>4
  <2>6. \A p \in Objects : Range(wq[p]) = Range(wait_queue[p]) \ F
    <3> TAKE p \in Objects
    <3>1. CASE p # o
      BY <3>1, <2>2, <2>3, <2>4 DEF QueuesOK
    <3> QED
      BY <2>5, <3>1
  <2>7. QueuesOK(wq)
    <3>1. \A p \in Objects : IsInjective(wq[p])
      BY <2>2, <2>4, Zenon DEF QueuesOK
    <3>2. \A p, r \in Objects : p # r => Range(wq[p]) \cap Range(wq[r]) = {}
      BY <2>6, Zenon DEF QueuesOK
    <3> QED
      BY <2>4, <3>1, <3>2 DEF QueuesOK
  <2>8. Members(wq) = Members(wait_queue) \ F
    BY <2>6 DEF Members
  <2> QED
    BY <2>2, <2>3, <2>4, <2>5, <2>7, <2>8 DEF Queued, F, wq
<1> QED
  BY <1>2, <1>3

(* wait_queue.push_back(t) *)
Pushed(wq, o, t) == [wq EXCEPT ![o] = Append(@, t)]

(* push_back of a thread that is in no queue. *)
LEMMA PushQueue ==
  ASSUME NEW wq, QueuesOK(wq), NEW o \in Objects, NEW t \in Tasks, t \notin Members(wq)
  PROVE  LET nq == Pushed(wq, o, t)
         IN  /\ QueuesOK(nq)
             /\ Range(nq[o]) = Range(wq[o]) \cup {t}
             /\ Len(nq[o]) = Len(wq[o]) + 1
             /\ \A p \in Objects \ {o} : nq[p] = wq[p]
             /\ Members(nq) = Members(wq) \cup {t}
<1> DEFINE q == wq[o]
           nq == Pushed(wq, o, t)
<1>1. /\ q \in Seq(Tasks) /\ IsInjective(q)
      /\ \A p \in Objects : t \notin Range(wq[p])
  BY DEF QueuesOK, Members
<1>2. /\ Append(q, t) \in Seq(Tasks)
      /\ Range(Append(q, t)) = Range(q) \cup {t}
      /\ IsInjective(Append(q, t))
      /\ Len(Append(q, t)) = Len(q) + 1
  BY <1>1, PushProperties, AppendProperties
<1>3. /\ nq \in [Objects -> Seq(Tasks)]
      /\ nq[o] = Append(q, t)
      /\ \A p \in Objects \ {o} : nq[p] = wq[p]
  BY <1>2 DEF QueuesOK, Pushed
<1> HIDE DEF nq
<1>4. Range(nq[o]) = Range(wq[o]) \cup {t}
  BY <1>2, <1>3
<1>5. \A p, r \in Objects : p # r => Range(nq[p]) \cap Range(nq[r]) = {}
  <2> TAKE p, r \in Objects
  <2> HAVE p # r
  <2>1. Range(wq[p]) \cap Range(wq[r]) = {} /\ t \notin Range(wq[p]) /\ t \notin Range(wq[r])
    BY <1>1 DEF QueuesOK
  <2>2. Range(nq[p]) \subseteq Range(wq[p]) \cup (IF p = o THEN {t} ELSE {})
    BY <1>3, <1>4, Zenon
  <2>3. Range(nq[r]) \subseteq Range(wq[r]) \cup (IF r = o THEN {t} ELSE {})
    BY <1>3, <1>4, Zenon
  <2> QED
    BY <2>1, <2>2, <2>3
<1>6. \A p \in Objects : IsInjective(nq[p])
  BY <1>2, <1>3, Zenon DEF QueuesOK
<1>7. Members(nq) = Members(wq) \cup {t}
  <2>1. \A p \in Objects \ {o} : Range(nq[p]) = Range(wq[p])
    BY <1>3
  <2> QED
    BY <1>4, <2>1 DEF Members
<1> QED
  BY <1>2, <1>3, <1>4, <1>5, <1>6, <1>7 DEF QueuesOK, nq

-----------------------------------------------------------------------------
(* What a step of the scheduler does to the ready queue and the CPU, when  *)
(* the tasks it wakes are neither ready nor running.                       *)
LEMMA WakeTasks ==
  ASSUME Places, NEW w \in Seq(Tasks), IsInjective(w),
         Range(w) \cap (Range(ready) \cup Running) = {}
  PROVE  LET q == AddTasks(ready, w)
         IN  q \in Seq(Tasks) /\ IsInjective(q) /\ Range(q) = Range(ready) \cup Range(w)
<1>1. ready \in Seq(Tasks) /\ IsInjective(ready) /\ Range(ready) \cap Range(w) = {}
  BY DEF Places
<1> QED
  BY <1>1, JoinProperties DEF AddTasks

(* The running thread goes on after waking others. *)
LEMMA KeepRunningPlaces ==
  ASSUME Places, NEW w \in Seq(Tasks), IsInjective(w),
         Range(w) \cap (Range(ready) \cup Running) = {}, KeepRunning(w)
  PROVE  /\ ready' \in Seq(Tasks) /\ IsInjective(ready')
         /\ Range(ready') = Range(ready) \cup Range(w)
         /\ current' = current /\ Running' = Running
         /\ status' \in [Tasks -> TaskStatus]
<1>1. ready' = AddTasks(ready, w) /\ current' = current /\ status' = status
  BY DEF KeepRunning
<1>2. /\ AddTasks(ready, w) \in Seq(Tasks) /\ IsInjective(AddTasks(ready, w))
      /\ Range(AddTasks(ready, w)) = Range(ready) \cup Range(w)
  BY WakeTasks
<1>3. Running' = Running
  BY <1>1 DEF Running
<1> QED
  BY <1>1, <1>2, <1>3 DEF Places

(* block_current_and_run_next frees the CPU. *)
LEMMA BlockCurrentPlaces ==
  ASSUME Places, NEW w \in Seq(Tasks), IsInjective(w),
         Range(w) \cap (Range(ready) \cup Running) = {}, BlockCurrent(w)
  PROVE  /\ ready' \in Seq(Tasks) /\ IsInjective(ready')
         /\ Range(ready') = Range(ready) \cup Range(w)
         /\ current' = NoTask /\ Running' = {}
         /\ status' \in [Tasks -> TaskStatus]
<1>1. ready' = AddTasks(ready, w) /\ current' = NoTask
  BY DEF BlockCurrent
<1>2. /\ AddTasks(ready, w) \in Seq(Tasks) /\ IsInjective(AddTasks(ready, w))
      /\ Range(AddTasks(ready, w)) = Range(ready) \cup Range(w)
  BY WakeTasks
<1>3. Running' = {}
  BY <1>1, NoTaskAssumption DEF Running
<1>4. status' \in [Tasks -> TaskStatus]
  BY Zenon DEF BlockCurrent, Places, TaskStatus
<1> QED
  BY <1>1, <1>2, <1>3, <1>4

(* suspend_current_and_run_next frees the CPU and queues the thread. *)
LEMMA SuspendCurrentPlaces ==
  ASSUME Places, NEW w \in Seq(Tasks), IsInjective(w), current \in Tasks,
         Range(w) \cap (Range(ready) \cup Running) = {}, SuspendCurrent(w)
  PROVE  /\ ready' \in Seq(Tasks) /\ IsInjective(ready')
         /\ Range(ready') = Range(ready) \cup Range(w) \cup Running
         /\ current' = NoTask /\ Running' = {}
         /\ status' \in [Tasks -> TaskStatus]
<1> DEFINE q == AddTasks(ready, w)
           u == <<current>>
<1>1. ready' = AddTasks(q, u) /\ current' = NoTask
  BY DEF SuspendCurrent
<1>2. q \in Seq(Tasks) /\ IsInjective(q) /\ Range(q) = Range(ready) \cup Range(w)
  BY WakeTasks
<1>3. u \in Seq(Tasks) /\ Range(u) = {current} /\ IsInjective(u)
  BY SingleProperties
<1> HIDE DEF q, u
<1>4. Running = {current}
  BY DEF Running
<1>5. Range(q) \cap Range(u) = {}
  BY <1>2, <1>3, <1>4 DEF Places, Partition
<1>6. /\ AddTasks(q, u) \in Seq(Tasks)
      /\ IsInjective(AddTasks(q, u))
      /\ Range(AddTasks(q, u)) = Range(q) \cup Range(u)
  BY <1>2, <1>3, <1>5, JoinProperties DEF AddTasks
<1>7. Running' = {}
  BY <1>1, NoTaskAssumption DEF Running
<1>8. status' \in [Tasks -> TaskStatus]
  BY DEF SuspendCurrent, Places, TaskStatus
<1> QED
  BY <1>1, <1>2, <1>3, <1>4, <1>6, <1>7, <1>8

-----------------------------------------------------------------------------
(* One lemma per way in which a step moves threads between places.         *)

(* Nothing moves. *)
LEMMA NothingMoves ==
  ASSUME Places, KeepRunning(<< >>), wait_queue' = wait_queue, timers' = timers,
         Gone' = Gone
  PROVE  Places'
<1>1. << >> \in Seq(Tasks) /\ Range(<< >>) = {} /\ IsInjective(<< >>)
  BY EmptyProperties
<1>2. /\ ready' \in Seq(Tasks) /\ IsInjective(ready') /\ Range(ready') = Range(ready)
      /\ current' = current /\ Running' = Running /\ status' \in [Tasks -> TaskStatus]
  BY <1>1, KeepRunningPlaces, Zenon
<1>3. Sleepers' = Sleepers
  BY DEF Sleepers
<1> QED
  BY <1>2, <1>3 DEF Places

(* The front of the queue of o, if any, becomes ready. *)
LEMMA FrontMoves ==
  ASSUME Places, NEW o \in Objects, KeepRunning(FrontOf(o)), wait_queue' = PopFront(o),
         timers' = timers, Gone' = Gone
  PROVE  Places'
<1> DEFINE w == FrontOf(o)
           wq == PopFront(o)
<1>1. /\ QueuesOK(wq) /\ w \in Seq(Tasks) /\ IsInjective(w) /\ Range(w) \subseteq Queued(o)
      /\ Members(wq) = Members(wait_queue) \ Range(w)
  BY PopQueue DEF Places
<1>2. Range(w) \subseteq Members(wait_queue)
  BY <1>1 DEF Queued, Members
<1> HIDE DEF w, wq
<1>3. Range(w) \cap (Range(ready) \cup Running) = {}
  BY <1>2 DEF Places, Partition
<1>4. /\ ready' \in Seq(Tasks) /\ IsInjective(ready')
      /\ Range(ready') = Range(ready) \cup Range(w)
      /\ current' = current /\ Running' = Running /\ status' \in [Tasks -> TaskStatus]
  BY <1>1, <1>3, KeepRunningPlaces DEF w
<1>5. Sleepers' = Sleepers
  BY DEF Sleepers
<1>6. wait_queue' = wq
  BY DEF wq
<1>7. Partition(Running', Range(ready'), Members(wq), Sleepers', Gone')
  BY <1>1, <1>2, <1>4, <1>5 DEF Places, Partition
<1> QED
  BY <1>1, <1>4, <1>5, <1>6, <1>7, Zenon DEF Places

(* The current thread goes to the end of the queue of o. *)
LEMMA CurrentBlocks ==
  ASSUME Places, NEW o \in Objects, current \in Tasks, BlockCurrent(<< >>),
         wait_queue' = [wait_queue EXCEPT ![o] = Append(@, current)],
         timers' = timers, Gone' = Gone
  PROVE  Places'
<1> DEFINE wq == Pushed(wait_queue, o, current)
<1>1. << >> \in Seq(Tasks) /\ Range(<< >>) = {} /\ IsInjective(<< >>)
  BY EmptyProperties
<1>2. /\ ready' \in Seq(Tasks) /\ IsInjective(ready') /\ Range(ready') = Range(ready)
      /\ current' = NoTask /\ Running' = {} /\ status' \in [Tasks -> TaskStatus]
  BY <1>1, BlockCurrentPlaces, Zenon
<1>3. Running = {current}
  BY DEF Running
<1>4. QueuesOK(wait_queue) /\ current \notin Members(wait_queue)
  BY <1>3 DEF Places, Partition
<1>5. QueuesOK(wq) /\ Members(wq) = Members(wait_queue) \cup {current}
  BY <1>4, PushQueue
<1> HIDE DEF wq
<1>6. Sleepers' = Sleepers
  BY DEF Sleepers
<1>7. wait_queue' = wq
  BY DEF wq, Pushed
<1>8. Partition(Running', Range(ready'), Members(wq), Sleepers', Gone')
  BY <1>2, <1>3, <1>5, <1>6 DEF Places, Partition
<1> QED
  BY <1>2, <1>5, <1>6, <1>7, <1>8, Zenon DEF Places

(* The front of the queue of m becomes ready and the current thread goes   *)
(* to the end of the queue of c.                                           *)
LEMMA FrontMovesCurrentBlocks ==
  ASSUME Places, NEW m \in Objects, NEW c \in Objects, current \in Tasks,
         BlockCurrent(FrontOf(m)),
         wait_queue' = [PopFront(m) EXCEPT ![c] = Append(@, current)],
         timers' = timers, Gone' = Gone
  PROVE  Places'
<1> DEFINE w == FrontOf(m)
           pq == PopFront(m)
           wq == Pushed(pq, c, current)
<1>1. /\ QueuesOK(pq) /\ w \in Seq(Tasks) /\ IsInjective(w) /\ Range(w) \subseteq Queued(m)
      /\ Members(pq) = Members(wait_queue) \ Range(w)
  BY PopQueue DEF Places
<1>2. Range(w) \subseteq Members(wait_queue)
  BY <1>1 DEF Queued, Members
<1>3. wait_queue' = wq /\ BlockCurrent(w)
  BY DEF Pushed
<1> HIDE DEF w, pq
<1>4. Running = {current}
  BY DEF Running
<1>5. Range(w) \cap (Range(ready) \cup Running) = {} /\ current \notin Members(pq)
  BY <1>1, <1>2, <1>4 DEF Places, Partition
<1>6. /\ ready' \in Seq(Tasks) /\ IsInjective(ready')
      /\ Range(ready') = Range(ready) \cup Range(w)
      /\ current' = NoTask /\ Running' = {} /\ status' \in [Tasks -> TaskStatus]
  BY <1>1, <1>3, <1>5, BlockCurrentPlaces
<1>7. QueuesOK(wq) /\ Members(wq) = Members(pq) \cup {current}
  BY <1>1, <1>5, PushQueue
<1> HIDE DEF wq
<1>8. Sleepers' = Sleepers
  BY DEF Sleepers
<1>9. Partition(Running', Range(ready'), Members(wq), Sleepers', Gone')
  BY <1>1, <1>2, <1>4, <1>6, <1>7, <1>8 DEF Places, Partition
<1> QED
  BY <1>3, <1>6, <1>7, <1>8, <1>9, Zenon DEF Places

(* The current thread goes to sleep. *)
LEMMA CurrentSleeps ==
  ASSUME Places, current \in Tasks, BlockCurrent(<< >>), NEW e \in Nat,
         wait_queue' = wait_queue, timers' = timers \cup {[task |-> current, expire |-> e]},
         Gone' = Gone
  PROVE  Places'
<1> DEFINE x == [task |-> current, expire |-> e]
<1>1. << >> \in Seq(Tasks) /\ Range(<< >>) = {} /\ IsInjective(<< >>)
  BY EmptyProperties
<1>2. /\ ready' \in Seq(Tasks) /\ IsInjective(ready') /\ Range(ready') = Range(ready)
      /\ current' = NoTask /\ Running' = {} /\ status' \in [Tasks -> TaskStatus]
  BY <1>1, BlockCurrentPlaces, Zenon
<1>3. x \in [task : Tasks, expire : Nat] /\ x.task = current
  OBVIOUS
<1>4. timers' = timers \cup {x}
  OBVIOUS
<1> HIDE DEF x
<1>5. Sleepers' = Sleepers \cup {current}
  BY <1>3, <1>4 DEF Sleepers
<1>6. Running = {current}
  BY DEF Running
<1>7. \A y \in timers : y.task # current
  BY <1>6 DEF Places, Partition, Sleepers
<1>8. \A y, z \in timers' : y.task = z.task => y = z
  BY <1>3, <1>4, <1>7 DEF Places
<1>9. IsFiniteSet(timers') /\ timers' \subseteq [task : Tasks, expire : Nat]
  BY <1>3, <1>4, FS_AddElement DEF Places
<1>10. Partition(Running', Range(ready'), Members(wait_queue), Sleepers', Gone')
  BY <1>2, <1>5, <1>6 DEF Places, Partition
<1> QED
  BY <1>2, <1>8, <1>9, <1>10 DEF Places

(* The timers in P are popped, in any order, and their tasks become ready  *)
(* ahead of the current thread.                                            *)
LEMMA SleepersMove ==
  ASSUME Places, current \in Tasks, NEW P \in SUBSET timers, NEW q \in Orders(P),
         SuspendCurrent([i \in DOMAIN q |-> q[i].task]),
         wait_queue' = wait_queue, timers' = timers \ P, Gone' = Gone
  PROVE  Places'
<1> DEFINE w == [i \in DOMAIN q |-> q[i].task]
<1>1. timers \subseteq [task : Tasks, expire : Nat] /\ IsFiniteSet(P)
  BY FS_Subset DEF Places
<1>2. q \in Seq(P) /\ IsInjective(q) /\ Range(q) = P
  BY <1>1, OrdersProperties DEF Orders
<1>3. Len(q) \in Nat /\ DOMAIN q = 1 .. Len(q) /\ \A i \in DOMAIN q : q[i] \in P
  BY <1>2, LenProperties, ElementOfSeq
<1>4. \A x \in P : x.task \in Tasks
  BY <1>1
<1>5. w \in Seq(Tasks)
  BY <1>3, <1>4
<1>6. DOMAIN w = DOMAIN q /\ \A i \in DOMAIN q : w[i] = q[i].task
  OBVIOUS
<1>7. SuspendCurrent(w)
  OBVIOUS
<1> HIDE DEF w
<1>8. Range(w) = {x.task : x \in P}
  <2>1. \A x \in P : \E i \in DOMAIN q : q[i] = x
    BY <1>2 DEF Range
  <2> QED
    BY <1>3, <1>6, <2>1 DEF Range
<1>9. IsInjective(w)
  <2> SUFFICES ASSUME NEW i \in DOMAIN q, NEW j \in DOMAIN q, w[i] = w[j] PROVE i = j
    BY <1>6 DEF IsInjective
  <2>1. q[i] \in timers /\ q[j] \in timers /\ q[i].task = q[j].task
    BY <1>3, <1>6
  <2>2. q[i] = q[j]
    BY <2>1 DEF Places
  <2> QED
    BY <1>2, <2>2 DEF IsInjective
<1>10. Range(w) \subseteq Sleepers /\ Sleepers' = Sleepers \ Range(w)
  BY <1>8 DEF Sleepers, Places
<1>11. Range(w) \cap (Range(ready) \cup Running) = {}
  BY <1>10 DEF Places, Partition
<1>12. /\ ready' \in Seq(Tasks) /\ IsInjective(ready')
       /\ Range(ready') = Range(ready) \cup Range(w) \cup Running
       /\ current' = NoTask /\ Running' = {} /\ status' \in [Tasks -> TaskStatus]
  BY <1>5, <1>7, <1>9, <1>11, SuspendCurrentPlaces
<1>13. Partition(Running', Range(ready'), Members(wait_queue), Sleepers', Gone')
  BY <1>10, <1>12 DEF Places, Partition
<1>14. IsFiniteSet(timers') /\ timers' \subseteq timers
  BY FS_Subset DEF Places
<1> QED
  BY <1>12, <1>13, <1>14 DEF Places

(* The current thread goes to the end of the ready queue. *)
LEMMA CurrentYields ==
  ASSUME Places, current \in Tasks, SuspendCurrent(<< >>),
         wait_queue' = wait_queue, timers' = timers, Gone' = Gone
  PROVE  Places'
<1>1. << >> \in Seq(Tasks) /\ Range(<< >>) = {} /\ IsInjective(<< >>)
  BY EmptyProperties
<1>2. /\ ready' \in Seq(Tasks) /\ IsInjective(ready')
      /\ Range(ready') = Range(ready) \cup Running
      /\ current' = NoTask /\ Running' = {} /\ status' \in [Tasks -> TaskStatus]
  BY <1>1, SuspendCurrentPlaces, Zenon
<1>3. Sleepers' = Sleepers
  BY DEF Sleepers
<1>4. Partition(Running', Range(ready'), Members(wait_queue), Sleepers', Gone')
  BY <1>2, <1>3 DEF Places, Partition
<1> QED
  BY <1>2, <1>3, <1>4 DEF Places

(* The current thread exits. *)
LEMMA CurrentExits ==
  ASSUME Places, current \in Tasks, ExitCurrent,
         wait_queue' = wait_queue, timers' = timers, Gone' = Gone \cup {current}
  PROVE  Places'
<1>1. ready' = ready /\ current' = NoTask /\ status' = status
  BY DEF ExitCurrent
<1>2. Running = {current} /\ Running' = {}
  BY <1>1, NoTaskAssumption DEF Running
<1>3. Sleepers' = Sleepers
  BY DEF Sleepers
<1>4. Partition(Running', Range(ready), Members(wait_queue), Sleepers', Gone')
  BY <1>2, <1>3 DEF Places, Partition
<1> QED
  BY <1>1, <1>2, <1>3, <1>4 DEF Places

(* The front of the ready queue runs. *)
LEMMA FrontRuns ==
  ASSUME Places, RunTasks, wait_queue' = wait_queue, timers' = timers, Gone' = Gone
  PROVE  Places'
<1> DEFINE h == Head(ready)
<1>1. /\ current = NoTask /\ ready # << >> /\ current' = h /\ ready' = Tail(ready)
      /\ status' = [status EXCEPT ![h] = "Running"]
  BY DEF RunTasks
<1>2. /\ Tail(ready) \in Seq(Tasks) /\ h \in Range(ready) /\ h \in Tasks
      /\ Range(Tail(ready)) = Range(ready) \ {h} /\ IsInjective(Tail(ready))
  BY <1>1, ShiftProperties DEF Places
<1> HIDE DEF h
<1>3. status' \in [Tasks -> TaskStatus]
  BY <1>1, Zenon DEF Places, TaskStatus
<1>4. Running = {} /\ Running' = {h}
  BY <1>1, <1>2, NoTaskAssumption DEF Running
<1>5. Sleepers' = Sleepers
  BY DEF Sleepers
<1>6. Range(ready') = Range(ready) \ {h} /\ ready' \in Seq(Tasks) /\ IsInjective(ready')
  BY <1>1, <1>2
<1>7. Partition(Running', Range(ready'), Members(wait_queue), Sleepers', Gone')
  BY <1>2, <1>4, <1>5, <1>6 DEF Places, Partition
<1> QED
  BY <1>1, <1>2, <1>3, <1>5, <1>6, <1>7 DEF Places

-----------------------------------------------------------------------------
(* A thread that goes on elsewhere, other than by exiting, changes nothing *)
(* in the set of threads that are gone.                                    *)
LEMMA GoneFrame ==
  ASSUME Places, cont \in [Tasks -> Conts], NEW t \in Tasks, current = t, NEW k,
         k # Exited, cont' = [cont EXCEPT ![t] = k]
  PROVE  Gone' = Gone
<1>1. cont[t] # Exited
  BY DEF Places, Partition, Running, Gone
<1> QED
  BY <1>1 DEF Gone

(* Where a thread goes on tells its states apart. *)
LEMMA ContsDiffer ==
  /\ User # Exited
  /\ \A m : /\ InLock(m) # User /\ InLock(m) # Exited
            /\ InSpin(m) # Exited /\ InWait(m) # Exited
            /\ InLock(m).kind = "locked" /\ InLock(m).mutex = m
            /\ \A n : InLock(m) # InSpin(n) /\ InLock(m) # InWait(n)
            /\ \A n : InLock(m) = InLock(n) => m = n
<1>1. User.kind = "user" /\ Exited.kind = "exited"
  BY DEF User, Exited, At
<1>2. \A m : /\ InLock(m).kind = "locked" /\ InSpin(m).kind = "spin"
             /\ InWait(m).kind = "relock" /\ InLock(m).mutex = m
  BY DEF InLock, InSpin, InWait, At
<1> QED
  BY <1>1, <1>2

-----------------------------------------------------------------------------
(* Mutexes and semaphores.                                                 *)

(* The types of the variables Places leaves out. *)
DataOK ==
  /\ created \subseteq Objects
  /\ locked \subseteq Mutexes
  /\ count \in [Semaphores -> -Cardinality(Tasks) .. MaxCount]
  /\ now \in 0 .. MaxTime
  /\ cont \in [Tasks -> Conts]
  /\ holds \in [Tasks -> SUBSET Mutexes]

(* A thread in the queue of a mutex is inside lock on that mutex, so that  *)
(* it becomes the owner as soon as unlock takes it out.                    *)
LockQueues ==
  \A m \in Mutexes : \A t \in Queued(m) : cont[t] = InLock(m)

Locks == LockQueues /\ MutualExclusion /\ WaitersNeedOwner

(* Nobody waits on a semaphore that does not exist yet. *)
FreshSemaphores ==
  \A s \in Semaphores \ created : wait_queue[s] = << >>

Debts == CountIsDebt /\ FreshSemaphores

(* The inductive invariant. *)
IInv == Places /\ DataOK /\ Locks /\ Debts

(* The running thread is in no queue and has not exited. *)
LEMMA RunningIsFree ==
  ASSUME Places, NEW t \in Tasks, current = t
  PROVE  cont[t] # Exited /\ \A o \in Objects : t \notin Range(wait_queue[o])
BY DEF Places, Partition, Running, Gone, Members

(* A step that leaves mutexes and their queues alone. *)
LEMMA LocksFrame ==
  ASSUME Locks, UNCHANGED mutexVars,
         \A m \in Mutexes : wait_queue'[m] = wait_queue[m]
  PROVE  Locks'
<1>1. locked' = locked /\ cont' = cont /\ holds' = holds
  BY DEF mutexVars
<1>2. \A m \in Mutexes : Queued(m)' = Queued(m)
  BY DEF Queued
<1>3. \A m \in Mutexes : Owners(m)' = Owners(m)
  BY <1>1, <1>2 DEF Owners
<1>4. LockQueues'
  BY <1>1, <1>2 DEF Locks, LockQueues
<1>5. MutualExclusion'
  BY <1>1, <1>3 DEF Locks, MutualExclusion
<1>6. WaitersNeedOwner'
  BY <1>1 DEF Locks, WaitersNeedOwner
<1> QED
  BY <1>4, <1>5, <1>6 DEF Locks

(* The running thread goes on elsewhere, outside every lock: the owners    *)
(* are the same.                                                           *)
LEMMA LocksMove ==
  ASSUME Places, DataOK, Locks, NEW t \in Tasks, current = t, NEW k,
         \A n \in Mutexes : k # InLock(n) /\ cont[t] # InLock(n),
         locked' = locked, holds' = holds, cont' = [cont EXCEPT ![t] = k],
         \A m \in Mutexes : wait_queue'[m] = wait_queue[m]
  PROVE  Locks'
<1>1. \A m \in Mutexes : Queued(m)' = Queued(m) /\ t \notin Queued(m)
  BY RunningIsFree DEF Queued, Objects
<1>2. cont'[t] = k /\ \A u \in Tasks \ {t} : cont'[u] = cont[u]
  BY DEF DataOK
<1>3. \A m \in Mutexes : Owners(m)' = Owners(m)
  BY <1>1, <1>2 DEF Owners
<1>4. LockQueues'
  <2> SUFFICES ASSUME NEW m \in Mutexes, NEW u \in Queued(m) PROVE cont'[u] = InLock(m)
    BY <1>1 DEF LockQueues
  <2>1. u \in Tasks /\ u # t
    BY <1>1, RangeOfSeq DEF Queued, Places, QueuesOK, Objects
  <2> QED
    BY <1>2, <2>1 DEF Locks, LockQueues
<1>5. MutualExclusion'
  BY <1>3 DEF Locks, MutualExclusion
<1>6. WaitersNeedOwner'
  BY DEF Locks, WaitersNeedOwner
<1> QED
  BY <1>4, <1>5, <1>6 DEF Locks

(* lock takes a free mutex. *)
LEMMA LocksTake ==
  ASSUME Places, DataOK, Locks, NEW t \in Tasks, current = t, NEW m \in Mutexes,
         \A n \in Mutexes : cont[t] # InLock(n),
         m \notin locked, locked' = locked \cup {m},
         holds' = [holds EXCEPT ![t] = @ \cup {m}], cont' = [cont EXCEPT ![t] = User],
         wait_queue' = wait_queue
  PROVE  Locks'
<1>1. \A n \in Mutexes : Queued(n)' = Queued(n) /\ t \notin Queued(n)
  BY RunningIsFree DEF Queued, Objects
<1>2. /\ cont'[t] = User /\ \A u \in Tasks \ {t} : cont'[u] = cont[u]
      /\ holds'[t] = holds[t] \cup {m} /\ \A u \in Tasks \ {t} : holds'[u] = holds[u]
  BY DEF DataOK
<1>3. Owners(m) = {}
  BY DEF Locks, MutualExclusion
<1>4. Owners(m)' = {t}
  BY <1>1, <1>2, <1>3 DEF Owners
<1>5. \A n \in Mutexes \ {m} : Owners(n)' = Owners(n)
  BY <1>1, <1>2, ContsDiffer DEF Owners
<1>6. LockQueues'
  <2> SUFFICES ASSUME NEW n \in Mutexes, NEW u \in Queued(n) PROVE cont'[u] = InLock(n)
    BY <1>1 DEF LockQueues
  <2>1. u \in Tasks /\ u # t
    BY <1>1, RangeOfSeq DEF Queued, Places, QueuesOK, Objects
  <2> QED
    BY <1>2, <2>1 DEF Locks, LockQueues
<1>7. MutualExclusion'
  BY <1>4, <1>5 DEF Locks, MutualExclusion
<1>8. WaitersNeedOwner'
  BY DEF Locks, WaitersNeedOwner
<1> QED
  BY <1>6, <1>7, <1>8 DEF Locks

(* lock joins the queue of a locked mutex: the owner stays. *)
LEMMA LocksWait ==
  ASSUME Places, DataOK, Locks, NEW t \in Tasks, current = t, NEW m \in Mutexes,
         \A n \in Mutexes : cont[t] # InLock(n),
         m \in locked \cap BlockingMutexes, locked' = locked, holds' = holds,
         cont' = [cont EXCEPT ![t] = InLock(m)],
         wait_queue' = Pushed(wait_queue, m, t)
  PROVE  Locks'
<1>1. \A n \in Mutexes : t \notin Queued(n)
  BY RunningIsFree DEF Queued, Objects
<1>2. cont'[t] = InLock(m) /\ \A u \in Tasks \ {t} : cont'[u] = cont[u]
  BY DEF DataOK
<1>3. m \in Objects /\ QueuesOK(wait_queue) /\ t \notin Members(wait_queue)
  BY RunningIsFree DEF Places, Members, Objects
<1>4. /\ Range(wait_queue'[m]) = Range(wait_queue[m]) \cup {t}
      /\ \A p \in Objects \ {m} : wait_queue'[p] = wait_queue[p]
  BY <1>3, PushQueue
<1>5. Queued(m)' = Queued(m) \cup {t} /\ \A n \in Mutexes \ {m} : Queued(n)' = Queued(n)
  BY <1>4 DEF Queued, Objects
<1>6. \A n \in Mutexes : Owners(n)' = Owners(n)
  BY <1>1, <1>2, <1>5, ContsDiffer DEF Owners
<1>7. LockQueues'
  <2> SUFFICES ASSUME NEW n \in Mutexes, NEW u \in Queued(n)' PROVE cont'[u] = InLock(n)
    BY DEF LockQueues
  <2>1. CASE u = t
    BY <1>1, <1>2, <1>5, <2>1
  <2>2. CASE u # t
    <3>1. u \in Queued(n)
      BY <1>5, <2>2
    <3>2. u \in Tasks
      BY <3>1, RangeOfSeq DEF Queued, Places, QueuesOK, Objects
    <3> QED
      BY <1>2, <2>2, <3>1, <3>2 DEF Locks, LockQueues
  <2> QED
    BY <2>1, <2>2
<1>8. MutualExclusion'
  BY <1>6 DEF Locks, MutualExclusion
<1>9. WaitersNeedOwner'
  BY <1>4 DEF Locks, WaitersNeedOwner, Objects
<1> QED
  BY <1>7, <1>8, <1>9 DEF Locks

(* unlock: the mutex passes to the front of its queue or becomes free; the *)
(* running thread goes on outside every lock.                              *)
LEMMA LocksRelease ==
  ASSUME Places, DataOK, Locks, NEW t \in Tasks, current = t, NEW m \in Mutexes,
         cont[t] = User, m \in holds[t], locked' = UnlockLocked(m),
         holds' = [holds EXCEPT ![t] = @ \ {m}],
         \A n \in Mutexes : cont'[t] # InLock(n),
         \A u \in Tasks \ {t} : cont'[u] = cont[u],
         \A n \in Mutexes : wait_queue'[n] = PopFront(m)[n]
  PROVE  Locks'
<1>1. \A n \in Mutexes : t \notin Queued(n)
  BY RunningIsFree DEF Queued, Objects
<1>2. holds'[t] = holds[t] \ {m} /\ \A u \in Tasks \ {t} : holds'[u] = holds[u]
  BY DEF DataOK
<1>3. m \in Objects /\ QueuesOK(wait_queue)
  BY DEF Places, Objects
<1>4. /\ Queued(m)' = Queued(m) \ Range(FrontOf(m))
      /\ \A n \in Mutexes \ {m} : wait_queue'[n] = wait_queue[n]
  BY <1>3, PopQueue DEF Queued, Objects
<1>5. \A n \in Mutexes \ {m} : Queued(n)' = Queued(n)
  BY <1>4 DEF Queued
<1>6. \A n \in Mutexes : cont[t] # InLock(n)
  BY ContsDiffer
<1>7. \A n \in Mutexes \ {m} : Owners(n)' = Owners(n)
  BY <1>2, <1>5, <1>6 DEF Owners
<1>8. t \in Owners(m)
  BY DEF Owners
<1>9. m \in locked /\ Owners(m) = {t}
  BY <1>8 DEF Locks, MutualExclusion
<1>10. \A n \in Mutexes : \A u \in Queued(n) : u \in Tasks /\ u # t
  BY <1>1, RangeOfSeq DEF Queued, Places, QueuesOK, Objects
<1>11. LockQueues'
  BY <1>4, <1>5, <1>10 DEF Locks, LockQueues
<1>12. CASE wait_queue[m] = << >>
  <2>1. FrontOf(m) = << >> /\ PopFront(m) = wait_queue /\ locked' = locked \ {m}
    BY <1>12 DEF FrontOf, PopFront, UnlockLocked
  <2>2. Queued(m)' = Queued(m) /\ wait_queue'[m] = << >>
    BY <1>12, <2>1 DEF Queued
  <2>3. Owners(m)' = {}
    BY <1>2, <1>9, <2>2 DEF Owners
  <2>4. MutualExclusion'
    BY <1>7, <2>1, <2>3 DEF Locks, MutualExclusion
  <2>5. WaitersNeedOwner'
    BY <1>4, <2>1, <2>2 DEF Locks, WaitersNeedOwner
  <2> QED
    BY <1>11, <2>4, <2>5 DEF Locks
<1>13. CASE wait_queue[m] # << >>
  <2> DEFINE h == Head(wait_queue[m])
  <2>1. FrontOf(m) = <<h>> /\ locked' = locked
    BY <1>13 DEF FrontOf, UnlockLocked
  <2>2. h \in Queued(m) /\ h \in Tasks
    BY <1>3, <1>13, ShiftProperties DEF Queued, QueuesOK
  <2>3. Range(<<h>>) = {h}
    BY <2>2, SingleProperties
  <2> HIDE DEF h
  <2>4. Queued(m)' = Queued(m) \ {h}
    BY <1>4, <2>1, <2>3
  <2>5. h # t /\ cont[h] = InLock(m) /\ cont'[h] = InLock(m)
    BY <1>10, <2>2 DEF Locks, LockQueues
  <2>6. Owners(m)' = {h}
    <3>1. h \in Owners(m)'
      BY <2>2, <2>4, <2>5 DEF Owners
    <3>2. \A u \in Tasks \ {t, h} : u \notin Owners(m)'
      BY <1>2, <1>9, <2>4 DEF Owners
    <3>3. t \notin Owners(m)'
      BY <1>2 DEF Owners
    <3> QED
      BY <3>1, <3>2, <3>3 DEF Owners
  <2>7. MutualExclusion'
    BY <1>7, <1>9, <2>1, <2>2, <2>6 DEF Locks, MutualExclusion
  <2>8. m \in locked \cap BlockingMutexes
    BY <1>13 DEF Locks, WaitersNeedOwner
  <2>9. WaitersNeedOwner'
    BY <1>4, <2>1, <2>8 DEF Locks, WaitersNeedOwner
  <2> QED
    BY <1>11, <2>7, <2>9 DEF Locks
<1> QED
  BY <1>12, <1>13

(* A thread that unlock took out of the queue returns from lock. *)
LEMMA LocksGrant ==
  ASSUME Places, DataOK, Locks, NEW t \in Tasks, current = t, NEW m \in Mutexes,
         cont[t] = InLock(m), locked' = locked, wait_queue' = wait_queue,
         holds' = [holds EXCEPT ![t] = @ \cup {m}], cont' = [cont EXCEPT ![t] = User]
  PROVE  Locks'
<1>1. \A n \in Mutexes : Queued(n)' = Queued(n) /\ t \notin Queued(n)
  BY RunningIsFree DEF Queued, Objects
<1>2. /\ cont'[t] = User /\ \A u \in Tasks \ {t} : cont'[u] = cont[u]
      /\ holds'[t] = holds[t] \cup {m} /\ \A u \in Tasks \ {t} : holds'[u] = holds[u]
  BY DEF DataOK
<1>3. \A n \in Mutexes : Owners(n)' = Owners(n)
  BY <1>1, <1>2, ContsDiffer DEF Owners
<1>4. LockQueues'
  <2> SUFFICES ASSUME NEW n \in Mutexes, NEW u \in Queued(n) PROVE cont'[u] = InLock(n)
    BY <1>1 DEF LockQueues
  <2>1. u \in Tasks /\ u # t
    BY <1>1, RangeOfSeq DEF Queued, Places, QueuesOK, Objects
  <2> QED
    BY <1>2, <2>1 DEF Locks, LockQueues
<1>5. MutualExclusion'
  BY <1>3 DEF Locks, MutualExclusion
<1>6. WaitersNeedOwner'
  BY DEF Locks, WaitersNeedOwner
<1> QED
  BY <1>4, <1>5, <1>6 DEF Locks

(* A step that leaves semaphores and their queues alone. *)
LEMMA DebtsFrame ==
  ASSUME Debts, count' = count, created \subseteq created',
         \A s \in Semaphores : wait_queue'[s] = wait_queue[s]
  PROVE  Debts'
BY DEF Debts, CountIsDebt, FreshSemaphores

(* Mutexes, semaphores and condition variables are different objects. *)
LEMMA ObjectKinds ==
  /\ Mutexes \subseteq Objects /\ Semaphores \subseteq Objects /\ Condvars \subseteq Objects
  /\ \A s \in Semaphores : s \notin Mutexes /\ s \notin Condvars
  /\ \A c \in Condvars : c \notin Mutexes /\ c \notin Semaphores
  /\ \A m \in Mutexes : m \notin Semaphores /\ m \notin Condvars
BY SyncAssumption DEF Objects

(* Where a thread may go on. *)
LEMMA ContsTypes ==
  /\ User \in Conts /\ Exited \in Conts
  /\ \A m \in Mutexes : InLock(m) \in Conts /\ InSpin(m) \in Conts /\ InWait(m) \in Conts
  /\ \A k \in Conts : k.kind = "locked" => k.mutex \in Mutexes /\ k = InLock(k.mutex)
  /\ \A k \in Conts : k.kind \in {"spin", "relock"} => k.mutex \in Mutexes
<1> DEFINE Kinds == {"locked", "spin", "relock"}
           Inside == {At(k, m) : k \in Kinds, m \in Mutexes}
<1>1. Conts = {User, Exited} \cup Inside
  BY DEF Conts
<1>2. \A m \in Mutexes : InLock(m) \in Inside /\ InSpin(m) \in Inside /\ InWait(m) \in Inside
  BY DEF InLock, InSpin, InWait
<1>3. User.kind = "user" /\ Exited.kind = "exited"
  BY DEF User, Exited, At
<1>4. ASSUME NEW k \in Inside
      PROVE  k.mutex \in Mutexes /\ (k.kind = "locked" => k = InLock(k.mutex))
  <2>1. PICK i \in Kinds, m \in Mutexes : k = At(i, m)
    OBVIOUS
  <2>2. k.kind = i /\ k.mutex = m
    BY <2>1 DEF At
  <2> QED
    BY <2>1, <2>2 DEF InLock
<1> HIDE DEF Inside
<1> QED
  BY <1>1, <1>2, <1>3, <1>4

-----------------------------------------------------------------------------
(* The initial state. *)
LEMMA InitIInv == Init => IInv
<1> SUFFICES ASSUME Init PROVE IInv
  OBVIOUS
<1>1. ready \in Seq(Tasks) /\ IsInjective(ready) /\ Range(ready) = Tasks
  BY SyncAssumption, OrdersProperties DEF Init, Orders
<1>2. << >> \in Seq(Tasks) /\ Range(<< >>) = {} /\ IsInjective(<< >>) /\ Len(<< >>) = 0
  BY EmptyProperties
<1>3. wait_queue \in [Objects -> Seq(Tasks)] /\ \A o \in Objects : wait_queue[o] = << >>
  BY <1>2 DEF Init
<1>4. QueuesOK(wait_queue) /\ Members(wait_queue) = {}
  BY <1>2, <1>3 DEF QueuesOK, Members
<1>5. Running = {} /\ Sleepers = {} /\ Gone = {}
  BY NoTaskAssumption, ContsDiffer DEF Init, Running, Sleepers, Gone
<1>6. Partition(Running, Range(ready), Members(wait_queue), Sleepers, Gone)
  BY <1>1, <1>4, <1>5 DEF Partition
<1>7. IsFiniteSet(timers)
  BY FS_EmptySet DEF Init
<1>8. Places
  BY <1>1, <1>4, <1>6, <1>7 DEF Places, Init, TaskStatus
<1>9. Cardinality(Tasks) \in Nat
  BY SyncAssumption, FS_CardinalityType
<1>10. DataOK
  BY <1>9, SyncAssumption, ContsTypes DEF Init, DataOK
<1>11. \A m \in Mutexes : Queued(m) = {} /\ Owners(m) = {} /\ m \notin locked
  BY <1>2, <1>3, ContsDiffer DEF Init, Queued, Owners, Objects
<1>12. Locks
  BY <1>3, <1>11 DEF Locks, LockQueues, MutualExclusion, WaitersNeedOwner, Objects
<1>13. Debts
  BY <1>2, <1>3 DEF Debts, CountIsDebt, FreshSemaphores, Objects, Init
<1> QED
  BY <1>8, <1>10, <1>12, <1>13 DEF IInv

(* Mutex::lock, from wherever it is called. *)
LEMMA MutexLockIInv ==
  ASSUME IInv, NEW t \in Tasks, current = t, NEW m \in Mutexes,
         \A n \in Mutexes : cont[t] # InLock(n), MutexLock(t, m),
         UNCHANGED <<created, count, timeVars>>
  PROVE  IInv'
<1> USE DEF IInv
<1>1. created' = created /\ count' = count /\ timers' = timers /\ now' = now
  BY DEF timeVars
<1>2. m \in Objects
  BY ObjectKinds
<1>3. CASE /\ m \notin locked
           /\ locked' = locked \cup {m}
           /\ holds' = [holds EXCEPT ![t] = @ \cup {m}]
           /\ cont' = [cont EXCEPT ![t] = User]
           /\ KeepRunning(<< >>)
           /\ UNCHANGED wait_queue
  <2>1. Gone' = Gone
    BY <1>3, ContsDiffer, GoneFrame, Zenon DEF DataOK
  <2>2. Places'
    BY <1>1, <1>3, <2>1, NothingMoves
  <2>3. DataOK'
    BY <1>1, <1>3, ContsTypes DEF DataOK
  <2>4. Locks'
    BY <1>3, LocksTake, Zenon
  <2>5. Debts'
    BY <1>1, <1>3, DebtsFrame
  <2> QED
    BY <2>2, <2>3, <2>4, <2>5
<1>4. CASE /\ m \in locked \cap BlockingMutexes
           /\ wait_queue' = [wait_queue EXCEPT ![m] = Append(@, t)]
           /\ cont' = [cont EXCEPT ![t] = InLock(m)]
           /\ BlockCurrent(<< >>)
           /\ UNCHANGED <<locked, holds>>
  <2>1. Gone' = Gone
    BY <1>4, ContsDiffer, GoneFrame, Zenon DEF DataOK
  <2>2. Places'
    BY <1>1, <1>2, <1>4, <2>1, CurrentBlocks, Zenon
  <2>3. DataOK'
    BY <1>1, <1>4, ContsTypes DEF DataOK
  <2>4. wait_queue' = Pushed(wait_queue, m, t)
    BY <1>4 DEF Pushed
  <2>5. Locks'
    BY <1>4, <2>4, LocksWait, Zenon
  <2>6. \A s \in Semaphores : wait_queue'[s] = wait_queue[s]
    BY <1>4, ObjectKinds DEF Places, QueuesOK
  <2>7. Debts'
    BY <1>1, <2>6, DebtsFrame
  <2> QED
    BY <2>2, <2>3, <2>5, <2>7
<1>5. CASE /\ m \in locked \cap SpinMutexes
           /\ cont' = [cont EXCEPT ![t] = InSpin(m)]
           /\ SuspendCurrent(<< >>)
           /\ UNCHANGED <<locked, wait_queue, holds>>
  <2>1. Gone' = Gone
    BY <1>5, ContsDiffer, GoneFrame, Zenon DEF DataOK
  <2>2. Places'
    BY <1>1, <1>5, <2>1, CurrentYields
  <2>3. DataOK'
    BY <1>1, <1>5, ContsTypes DEF DataOK
  <2>4. \A n \in Mutexes : InSpin(m) # InLock(n)
    BY ContsDiffer
  <2>5. Locks'
    BY <1>5, <2>4, LocksMove, Zenon
  <2>6. Debts'
    BY <1>1, <1>5, DebtsFrame
  <2> QED
    BY <2>2, <2>3, <2>5, <2>6
<1> QED
  BY <1>3, <1>4, <1>5 DEF MutexLock, SpinRound

(* sys_mutex_lock calls lock from user mode. *)
LEMMA SysMutexLockIInv ==
  ASSUME IInv, NEW t \in Tasks, NEW m \in Mutexes, SysMutexLock(t, m)
  PROVE  IInv'
<1>1. current = t /\ cont[t] = User /\ MutexLock(t, m) /\ UNCHANGED <<created, count, timeVars>>
  BY DEF SysMutexLock, Calls, InUser
<1>2. \A n \in Mutexes : cont[t] # InLock(n)
  BY <1>1, ContsDiffer
<1> QED
  BY <1>1, <1>2, MutexLockIInv

(* sys_mutex_unlock hands the mutex over or frees it. *)
LEMMA SysMutexUnlockIInv ==
  ASSUME IInv, NEW t \in Tasks, NEW m \in Mutexes, SysMutexUnlock(t, m)
  PROVE  IInv'
<1> USE DEF IInv
<1>1. /\ current = t /\ cont[t] = User /\ m \in holds[t]
      /\ locked' = UnlockLocked(m) /\ wait_queue' = PopFront(m)
      /\ holds' = [holds EXCEPT ![t] = @ \ {m}]
      /\ KeepRunning(FrontOf(m))
      /\ created' = created /\ count' = count /\ cont' = cont
      /\ timers' = timers /\ now' = now
  BY DEF SysMutexUnlock, Calls, InUser, timeVars
<1>2. m \in Objects /\ Gone' = Gone
  BY <1>1, ObjectKinds DEF Gone
<1>3. Places'
  BY <1>1, <1>2, FrontMoves
<1>4. DataOK'
  BY <1>1 DEF DataOK, UnlockLocked
<1>5. \A n \in Mutexes : cont'[t] # InLock(n)
  BY <1>1, ContsDiffer
<1>6. Locks'
  BY <1>1, <1>5, LocksRelease, Zenon
<1>7. \A s \in Semaphores : wait_queue'[s] = wait_queue[s]
  BY <1>1, <1>2, ObjectKinds, PopQueue DEF Places
<1>8. Debts'
  BY <1>1, <1>7, DebtsFrame
<1> QED
  BY <1>3, <1>4, <1>6, <1>8

(* A step that only creates objects. *)
LEMMA CreateIInv ==
  ASSUME IInv, KeepRunning(<< >>), UNCHANGED <<wait_queue, mutexVars, timeVars>>,
         NEW o \in Objects, created' = created \cup {o},
         \/ count' = count
         \/ o \in Semaphores \ created /\ count' = [count EXCEPT ![o] = InitCount[o]]
  PROVE  IInv'
<1> USE DEF IInv
<1>1. /\ wait_queue' = wait_queue /\ timers' = timers /\ now' = now
      /\ locked' = locked /\ cont' = cont /\ holds' = holds
  BY DEF mutexVars, timeVars
<1>2. Gone' = Gone
  BY <1>1 DEF Gone
<1>3. Places'
  BY <1>1, <1>2, NothingMoves
<1>4. Locks'
  BY <1>1, LocksFrame
<1>5. Cardinality(Tasks) \in Nat /\ MaxCount \in Nat /\ InitCount \in [Semaphores -> 0 .. MaxCount]
  BY SyncAssumption, FS_CardinalityType
<1>6. CASE count' = count
  <2>1. Debts'
    BY <1>1, <1>6, DebtsFrame
  <2>2. DataOK'
    BY <1>1, <1>6 DEF DataOK
  <2> QED
    BY <1>3, <1>4, <2>1, <2>2
<1>7. CASE o \in Semaphores \ created /\ count' = [count EXCEPT ![o] = InitCount[o]]
  <2>1. InitCount[o] \in 0 .. MaxCount /\ InitCount[o] \in -Cardinality(Tasks) .. MaxCount
    BY <1>5, <1>7
  <2>2. DataOK'
    BY <1>1, <1>7, <2>1 DEF DataOK
  <2>3. count'[o] = InitCount[o] /\ \A s \in Semaphores \ {o} : count'[s] = count[s]
    BY <1>7 DEF DataOK
  <2>4. wait_queue'[o] = << >> /\ Len(<< >>) = 0
    BY <1>1, <1>7 DEF Debts, FreshSemaphores
  <2>5. CountIsDebt'
    BY <1>1, <2>1, <2>3, <2>4 DEF Debts, CountIsDebt
  <2>6. FreshSemaphores'
    BY <1>1 DEF Debts, FreshSemaphores
  <2> QED
    BY <1>3, <1>4, <2>2, <2>5, <2>6 DEF Debts
<1> QED
  BY <1>6, <1>7

(* An up that leaves the count c above zero finds no debt and leaves none. *)
LEMMA NoDebtLeft ==
  ASSUME NEW c \in Int, NEW n, n = IF c < 0 THEN -c ELSE 0, ~(c + 1 <= 0)
  PROVE  n = IF c + 1 < 0 THEN -(c + 1) ELSE 0
OBVIOUS

(* A down that takes the count c below zero adds one to the debt. *)
LEMMA DebtGrows ==
  ASSUME NEW c \in Int, NEW n, n = IF c < 0 THEN -c ELSE 0, c - 1 < 0
  PROVE  n + 1 = IF c - 1 < 0 THEN -(c - 1) ELSE 0
OBVIOUS

(* up: a negative count means a waiter, which is woken. *)
LEMMA SysSemaphoreUpIInv ==
  ASSUME IInv, NEW t \in Tasks, NEW s \in Semaphores, SysSemaphoreUp(t, s)
  PROVE  IInv'
<1> USE DEF IInv
<1>1. /\ count[s] < MaxCount /\ count' = [count EXCEPT ![s] = @ + 1] /\ s \in created
      /\ wait_queue' = IF UpWakes(s) = << >> THEN wait_queue ELSE PopFront(s)
      /\ KeepRunning(UpWakes(s))
      /\ created' = created /\ locked' = locked /\ cont' = cont /\ holds' = holds
      /\ timers' = timers /\ now' = now
  BY DEF SysSemaphoreUp, mutexVars, timeVars
<1>2. s \in Objects /\ Gone' = Gone /\ QueuesOK(wait_queue)
  BY <1>1, ObjectKinds DEF Gone, Places
<1>3. /\ Cardinality(Tasks) \in Nat /\ MaxCount \in Nat
      /\ count[s] \in Int /\ -Cardinality(Tasks) <= count[s]
  BY SyncAssumption, FS_CardinalityType DEF DataOK
<1>4. count[s] + 1 \in -Cardinality(Tasks) .. MaxCount
  BY <1>1, <1>3
<1>5. DataOK'
  BY <1>1, <1>4 DEF DataOK
<1>6. count'[s] = count[s] + 1 /\ \A r \in Semaphores \ {s} : count'[r] = count[r]
  BY <1>1 DEF DataOK
<1>7. Len(wait_queue[s]) = IF count[s] < 0 THEN -count[s] ELSE 0
  BY DEF Debts, CountIsDebt
<1>8. wait_queue[s] \in Seq(Tasks) /\ IsInjective(wait_queue[s])
  BY <1>2 DEF QueuesOK
<1>9. CASE count[s] + 1 <= 0
  <2>1. wait_queue[s] # << >>
    BY <1>3, <1>7, <1>9, EmptySeq
  <2>2. UpWakes(s) = FrontOf(s) /\ FrontOf(s) # << >>
    BY <1>9, <2>1 DEF UpWakes, FrontOf
  <2>3. wait_queue' = PopFront(s) /\ KeepRunning(FrontOf(s))
    BY <1>1, <2>2
  <2>4. Places'
    BY <1>1, <1>2, <2>3, FrontMoves
  <2>5. \A p \in Objects \ {s} : wait_queue'[p] = wait_queue[p]
    BY <1>2, <2>3, PopQueue
  <2>6. Locks'
    BY <1>1, <2>5, ObjectKinds, LocksFrame DEF mutexVars
  <2>7. wait_queue'[s] = Tail(wait_queue[s])
    BY <1>2, <2>1, <2>3 DEF PopFront, QueuesOK
  <2>8. Len(wait_queue'[s]) = Len(wait_queue[s]) - 1
    BY <1>8, <2>1, <2>7, ShiftProperties
  <2>9. Len(wait_queue'[s]) = IF count'[s] < 0 THEN -count'[s] ELSE 0
    BY <1>3, <1>6, <1>7, <1>9, <2>8
  <2>10. CountIsDebt'
    BY <1>6, <2>5, <2>9, ObjectKinds DEF Debts, CountIsDebt
  <2>11. FreshSemaphores'
    BY <1>1, <2>5, ObjectKinds DEF Debts, FreshSemaphores
  <2> QED
    BY <1>5, <2>4, <2>6, <2>10, <2>11 DEF Debts
<1>10. CASE ~(count[s] + 1 <= 0)
  <2>1. UpWakes(s) = << >>
    BY <1>10 DEF UpWakes
  <2>2. wait_queue' = wait_queue /\ KeepRunning(<< >>)
    BY <1>1, <2>1
  <2>3. Places'
    BY <1>1, <1>2, <2>2, NothingMoves
  <2>4. Locks'
    BY <1>1, <2>2, LocksFrame DEF mutexVars
  <2>5. Len(wait_queue'[s]) = IF count'[s] < 0 THEN -count'[s] ELSE 0
    <3>1. count[s] \in Int /\ count'[s] = count[s] + 1 /\ ~(count[s] + 1 <= 0)
      BY <1>3, <1>6, <1>10
    <3>2. wait_queue'[s] = wait_queue[s]
      BY <2>2
    <3> QED
      BY <1>7, <3>1, <3>2, NoDebtLeft
  <2>6. Debts'
    BY <1>1, <1>6, <2>2, <2>5, Zenon DEF Debts, CountIsDebt, FreshSemaphores
  <2> QED
    BY <1>5, <2>3, <2>4, <2>6
<1> QED
  BY <1>9, <1>10

(* down: a thread that takes the count below zero joins the queue, which   *)
(* holds each thread at most once, so the count is bounded below.          *)
LEMMA SysSemaphoreDownIInv ==
  ASSUME IInv, NEW t \in Tasks, NEW s \in Semaphores, SysSemaphoreDown(t, s)
  PROVE  IInv'
<1> USE DEF IInv
<1>1. /\ current = t /\ s \in created /\ count' = [count EXCEPT ![s] = @ - 1]
      /\ created' = created /\ locked' = locked /\ cont' = cont /\ holds' = holds
      /\ timers' = timers /\ now' = now
  BY DEF SysSemaphoreDown, Calls, InUser, mutexVars, timeVars
<1>2. s \in Objects /\ Gone' = Gone /\ QueuesOK(wait_queue)
  BY <1>1, ObjectKinds DEF Gone, Places
<1>3. /\ Cardinality(Tasks) \in Nat /\ MaxCount \in Nat
      /\ count[s] \in Int /\ count[s] <= MaxCount /\ -Cardinality(Tasks) <= count[s]
  BY SyncAssumption, FS_CardinalityType DEF DataOK
<1>4. count'[s] = count[s] - 1 /\ \A r \in Semaphores \ {s} : count'[r] = count[r]
  BY <1>1 DEF DataOK
<1>5. Len(wait_queue[s]) = IF count[s] < 0 THEN -count[s] ELSE 0
  BY DEF Debts, CountIsDebt
<1>6. CASE /\ count[s] - 1 < 0
           /\ wait_queue' = [wait_queue EXCEPT ![s] = Append(@, t)]
           /\ BlockCurrent(<< >>)
  <2>1. Places'
    BY <1>1, <1>2, <1>6, CurrentBlocks, Zenon
  <2>2. wait_queue' = Pushed(wait_queue, s, t) /\ t \notin Members(wait_queue)
    BY <1>1, <1>6, RunningIsFree DEF Pushed, Members
  <2>3. /\ Len(wait_queue'[s]) = Len(wait_queue[s]) + 1
        /\ \A p \in Objects \ {s} : wait_queue'[p] = wait_queue[p]
    BY <1>2, <2>2, PushQueue
  <2>4. Len(wait_queue'[s]) = IF count'[s] < 0 THEN -count'[s] ELSE 0
    <3>1. count[s] \in Int /\ count'[s] = count[s] - 1 /\ count[s] - 1 < 0
      BY <1>3, <1>4, <1>6
    <3> QED
      BY <1>5, <2>3, <3>1, DebtGrows
  <2>5. wait_queue'[s] \in Seq(Tasks) /\ IsInjective(wait_queue'[s])
    BY <1>2, <2>1 DEF Places, QueuesOK
  <2>6. Len(wait_queue'[s]) <= Cardinality(Tasks)
    BY <2>5, InjectiveLen, SyncAssumption
  <2>7. count[s] - 1 \in -Cardinality(Tasks) .. MaxCount
    BY <1>3, <1>4, <1>6, <2>4, <2>6
  <2>8. DataOK'
    BY <1>1, <2>7 DEF DataOK
  <2>9. Locks'
    BY <1>1, <2>3, ObjectKinds, LocksFrame DEF mutexVars
  <2>10. CountIsDebt'
    BY <1>4, <2>3, <2>4, ObjectKinds DEF Debts, CountIsDebt
  <2>11. FreshSemaphores'
    BY <1>1, <2>3, ObjectKinds DEF Debts, FreshSemaphores
  <2> QED
    BY <2>1, <2>8, <2>9, <2>10, <2>11 DEF Debts
<1>7. CASE count[s] - 1 >= 0 /\ UNCHANGED wait_queue /\ KeepRunning(<< >>)
  <2>1. Places'
    BY <1>1, <1>2, <1>7, NothingMoves
  <2>2. count[s] - 1 \in -Cardinality(Tasks) .. MaxCount
    BY <1>3, <1>7
  <2>3. DataOK'
    BY <1>1, <2>2 DEF DataOK
  <2>4. Locks'
    BY <1>1, <1>7, LocksFrame DEF mutexVars
  <2>5. Len(wait_queue'[s]) = IF count'[s] < 0 THEN -count'[s] ELSE 0
    BY <1>3, <1>4, <1>5, <1>7
  <2>6. Debts'
    BY <1>1, <1>4, <1>7, <2>5 DEF Debts, CountIsDebt, FreshSemaphores
  <2> QED
    BY <2>1, <2>3, <2>4, <2>6
<1> QED
  BY <1>6, <1>7 DEF SysSemaphoreDown

(* sys_condvar_signal moves at most one waiter to the ready queue. *)
LEMMA SysCondvarSignalIInv ==
  ASSUME IInv, NEW t \in Tasks, NEW c \in Condvars, SysCondvarSignal(t, c)
  PROVE  IInv'
<1> USE DEF IInv
<1>1. /\ wait_queue' = PopFront(c) /\ KeepRunning(FrontOf(c))
      /\ created' = created /\ count' = count
      /\ locked' = locked /\ cont' = cont /\ holds' = holds /\ timers' = timers /\ now' = now
  BY DEF SysCondvarSignal, mutexVars, timeVars
<1>2. c \in Objects /\ Gone' = Gone /\ QueuesOK(wait_queue)
  BY <1>1, ObjectKinds DEF Gone, Places
<1>3. Places'
  BY <1>1, <1>2, FrontMoves
<1>4. \A p \in Objects \ {c} : wait_queue'[p] = wait_queue[p]
  BY <1>1, <1>2, PopQueue
<1>5. Locks'
  BY <1>1, <1>4, ObjectKinds, LocksFrame DEF mutexVars
<1>6. Debts'
  BY <1>1, <1>4, ObjectKinds, DebtsFrame
<1>7. DataOK'
  BY <1>1 DEF DataOK
<1> QED
  BY <1>3, <1>5, <1>6, <1>7

(* sys_condvar_wait releases the mutex and waits in one step. *)
LEMMA SysCondvarWaitIInv ==
  ASSUME IInv, NEW t \in Tasks, NEW c \in Condvars, NEW m \in Mutexes, SysCondvarWait(t, c, m)
  PROVE  IInv'
<1> USE DEF IInv
<1>1. /\ current = t /\ cont[t] = User /\ m \in holds[t] /\ locked' = UnlockLocked(m)
      /\ wait_queue' = [PopFront(m) EXCEPT ![c] = Append(@, t)]
      /\ holds' = [holds EXCEPT ![t] = @ \ {m}]
      /\ cont' = [cont EXCEPT ![t] = InWait(m)] /\ BlockCurrent(FrontOf(m))
      /\ created' = created /\ count' = count /\ timers' = timers /\ now' = now
  BY DEF SysCondvarWait, Calls, InUser, timeVars
<1>2. c \in Objects /\ m \in Objects /\ QueuesOK(wait_queue)
  BY ObjectKinds DEF Places
<1>3. Gone' = Gone
  BY <1>1, ContsDiffer, GoneFrame, Zenon DEF DataOK
<1>4. Places'
  BY <1>1, <1>2, <1>3, FrontMovesCurrentBlocks, Zenon
<1>5. DataOK'
  BY <1>1, ContsTypes, Zenon DEF DataOK, UnlockLocked
<1>6. \A p \in Objects \ {m} : PopFront(m)[p] = wait_queue[p]
  BY <1>2, PopQueue
<1>7. PopFront(m) \in [Objects -> Seq(Tasks)]
  BY <1>2, PopQueue DEF QueuesOK
<1>8. \A p \in Objects \ {c} : wait_queue'[p] = PopFront(m)[p]
  BY <1>1, <1>7
<1>9. cont'[t] = InWait(m) /\ \A u \in Tasks \ {t} : cont'[u] = cont[u]
  BY <1>1 DEF DataOK
<1>10. \A n \in Mutexes : cont'[t] # InLock(n)
  BY <1>9, ContsDiffer
<1>11. \A n \in Mutexes : wait_queue'[n] = PopFront(m)[n]
  BY <1>8, ObjectKinds
<1>12. Locks'
  BY <1>1, <1>9, <1>10, <1>11, LocksRelease, Zenon
<1>13. \A s \in Semaphores : wait_queue'[s] = wait_queue[s]
  BY <1>6, <1>8, ObjectKinds
<1>14. Debts'
  BY <1>1, <1>13, DebtsFrame
<1> QED
  BY <1>4, <1>5, <1>12, <1>14

(* A thread that is switched in again finishes or retries its lock. *)
LEMMA ResumeIInv ==
  ASSUME IInv, NEW t \in Tasks, Resume(t)
  PROVE  IInv'
<1> USE DEF IInv
<1> DEFINE m == cont[t].mutex
<1>1. current = t /\ UNCHANGED <<created, count, timeVars>> /\ cont[t] \in Conts
  BY DEF Resume, DataOK
<1>2. created' = created /\ count' = count /\ timers' = timers /\ now' = now
  BY <1>1 DEF timeVars
<1>3. CASE /\ cont[t].kind = "locked"
           /\ holds' = [holds EXCEPT ![t] = @ \cup {m}]
           /\ cont' = [cont EXCEPT ![t] = User]
           /\ KeepRunning(<< >>)
           /\ UNCHANGED <<locked, wait_queue>>
  <2>1. m \in Mutexes /\ cont[t] = InLock(m)
    BY <1>1, <1>3, ContsTypes
  <2> HIDE DEF m
  <2>2. Gone' = Gone
    BY <1>1, <1>3, ContsDiffer, GoneFrame, Zenon DEF DataOK
  <2>3. Places'
    BY <1>2, <1>3, <2>2, NothingMoves
  <2>4. DataOK'
    BY <1>2, <1>3, <2>1, ContsTypes DEF DataOK
  <2>5. Locks'
    BY <1>1, <1>3, <2>1, LocksGrant, Zenon
  <2>6. Debts'
    BY <1>2, <1>3, DebtsFrame
  <2> QED
    BY <2>3, <2>4, <2>5, <2>6
<1>4. CASE cont[t].kind \in {"spin", "relock"} /\ MutexLock(t, m)
  <2>1. m \in Mutexes
    BY <1>1, <1>4, ContsTypes
  <2>2. \A n \in Mutexes : cont[t] # InLock(n)
    BY <1>4, ContsDiffer
  <2> QED
    BY <1>1, <1>4, <2>1, <2>2, MutexLockIInv
<1> QED
  BY <1>3, <1>4 DEF Resume

(* sys_sleep moves the thread to the timer heap. *)
LEMMA SysSleepIInv ==
  ASSUME IInv, NEW t \in Tasks, NEW ms \in SleepTimes, SysSleep(t, ms)
  PROVE  IInv'
<1> USE DEF IInv
<1> DEFINE e == (now + ms) % UsizeCount
<1>1. /\ current = t /\ timers' = timers \cup {[task |-> t, expire |-> e]}
      /\ BlockCurrent(<< >>) /\ created' = created /\ wait_queue' = wait_queue
      /\ count' = count /\ locked' = locked /\ cont' = cont /\ holds' = holds /\ now' = now
  BY DEF SysSleep, Calls, InUser, mutexVars
<1>2. e \in Nat
  BY SyncAssumption DEF DataOK
<1> HIDE DEF e
<1>3. Gone' = Gone
  BY <1>1 DEF Gone
<1>4. Places'
  BY <1>1, <1>2, <1>3, CurrentSleeps
<1>5. Locks' /\ Debts'
  BY <1>1, LocksFrame, DebtsFrame DEF mutexVars
<1>6. DataOK'
  BY <1>1 DEF DataOK
<1> QED
  BY <1>4, <1>5, <1>6

(* The timer interrupt wakes sleepers and preempts. *)
LEMMA TimerInterruptIInv ==
  ASSUME IInv, NEW t \in Tasks, TimerInterrupt(t)
  PROVE  IInv'
<1> USE DEF IInv
<1> DEFINE P == Popped(timers)
<1>1. /\ current = t /\ timers' = timers \ P /\ created' = created
      /\ wait_queue' = wait_queue /\ count' = count /\ locked' = locked
      /\ cont' = cont /\ holds' = holds /\ now' = now
  BY DEF TimerInterrupt, InUser, mutexVars
<1>2. PICK q \in PoppedOrders(timers) : SuspendCurrent([i \in DOMAIN q |-> q[i].task])
  BY Zenon DEF TimerInterrupt
<1>3. q \in Orders(P)
  BY DEF PoppedOrders
<1>4. P \in SUBSET timers
  BY DEF Popped
<1> HIDE DEF P
<1>5. Gone' = Gone
  BY <1>1 DEF Gone
<1>6. Places'
  BY <1>1, <1>2, <1>3, <1>4, <1>5, SleepersMove
<1>7. Locks' /\ Debts'
  BY <1>1, LocksFrame, DebtsFrame DEF mutexVars
<1>8. DataOK'
  BY <1>1 DEF DataOK
<1> QED
  BY <1>6, <1>7, <1>8

(* sys_yield queues the thread again. *)
LEMMA SysYieldIInv ==
  ASSUME IInv, NEW t \in Tasks, SysYield(t)
  PROVE  IInv'
<1> USE DEF IInv
<1>1. /\ current = t /\ SuspendCurrent(<< >>) /\ timers' = timers /\ created' = created
      /\ wait_queue' = wait_queue /\ count' = count /\ locked' = locked
      /\ cont' = cont /\ holds' = holds /\ now' = now
  BY DEF SysYield, InUser, mutexVars, timeVars
<1>2. Gone' = Gone
  BY <1>1 DEF Gone
<1>3. Places'
  BY <1>1, <1>2, CurrentYields
<1>4. Locks' /\ Debts' /\ DataOK'
  BY <1>1, LocksFrame, DebtsFrame DEF mutexVars, DataOK
<1> QED
  BY <1>3, <1>4

(* A thread may exit while it holds mutexes; they stay locked. *)
LEMMA SysExitIInv ==
  ASSUME IInv, NEW t \in Tasks, SysExit(t)
  PROVE  IInv'
<1> USE DEF IInv
<1>1. /\ current = t /\ cont[t] = User /\ cont' = [cont EXCEPT ![t] = Exited]
      /\ ExitCurrent /\ created' = created /\ locked' = locked /\ holds' = holds
      /\ wait_queue' = wait_queue /\ count' = count /\ timers' = timers /\ now' = now
  BY DEF SysExit, Calls, InUser, timeVars
<1>2. Gone' = Gone \cup {current}
  BY <1>1 DEF Gone, DataOK
<1>3. Places'
  BY <1>1, <1>2, CurrentExits
<1>4. \A n \in Mutexes : Exited # InLock(n) /\ cont[t] # InLock(n)
  BY <1>1, ContsDiffer
<1>5. Locks'
  BY <1>1, <1>4, LocksMove, Zenon
<1>6. Debts'
  BY <1>1, DebtsFrame
<1>7. DataOK'
  BY <1>1, ContsTypes DEF DataOK
<1> QED
  BY <1>3, <1>5, <1>6, <1>7

(* run_tasks switches to the front of the ready queue. *)
LEMMA DispatchIInv ==
  ASSUME IInv, Dispatch
  PROVE  IInv'
<1> USE DEF IInv
<1>1. /\ RunTasks /\ created' = created /\ locked' = locked /\ holds' = holds /\ cont' = cont
      /\ wait_queue' = wait_queue /\ count' = count /\ timers' = timers /\ now' = now
  BY DEF Dispatch, mutexVars, timeVars
<1>2. Gone' = Gone
  BY <1>1 DEF Gone
<1>3. Places'
  BY <1>1, <1>2, FrontRuns
<1>4. Locks' /\ Debts' /\ DataOK'
  BY <1>1, LocksFrame, DebtsFrame DEF mutexVars, DataOK
<1> QED
  BY <1>3, <1>4

(* A clock tick, or no step at all. *)
LEMMA QuietIInv ==
  ASSUME IInv, Tick \/ UNCHANGED vars
  PROVE  IInv'
<1> USE DEF IInv
<1>1. /\ ready' = ready /\ current' = current /\ status' = status /\ created' = created
      /\ wait_queue' = wait_queue /\ count' = count /\ locked' = locked
      /\ cont' = cont /\ holds' = holds /\ timers' = timers
  BY DEF Tick, vars, schedVars, mutexVars
<1>2. now' \in 0 .. MaxTime
  BY SyncAssumption DEF Tick, vars, DataOK
<1>3. Places'
  BY <1>1, Zenon DEF Places, Running, Sleepers, Gone
<1>4. Locks' /\ Debts'
  BY <1>1, LocksFrame, DebtsFrame DEF mutexVars
<1>5. DataOK'
  BY <1>1, <1>2 DEF DataOK
<1> QED
  BY <1>3, <1>4, <1>5

-----------------------------------------------------------------------------
(* The invariant is inductive. *)
LEMMA NextIInv == IInv /\ [Next]_vars => IInv'
<1> SUFFICES ASSUME IInv, [Next]_vars PROVE IInv'
  OBVIOUS
<1>1. ASSUME NEW t \in Tasks, Syscall(t) PROVE IInv'
  <2>1. ASSUME NEW m \in Mutexes, SysMutexCreate(t, m) PROVE IInv'
    BY <2>1, CreateIInv, ObjectKinds DEF SysMutexCreate
  <2>2. ASSUME NEW s \in Semaphores, SysSemaphoreCreate(t, s) PROVE IInv'
    BY <2>2, CreateIInv, ObjectKinds, Zenon DEF SysSemaphoreCreate
  <2>3. ASSUME NEW c \in Condvars, SysCondvarCreate(t, c) PROVE IInv'
    BY <2>3, CreateIInv, ObjectKinds DEF SysCondvarCreate
  <2> QED
    BY <1>1, <2>1, <2>2, <2>3, SysMutexLockIInv, SysMutexUnlockIInv, SysSemaphoreUpIInv,
       SysSemaphoreDownIInv, SysCondvarSignalIInv, SysCondvarWaitIInv, SysSleepIInv,
       SysYieldIInv, SysExitIInv DEF Syscall
<1> QED
  BY <1>1, ResumeIInv, TimerInterruptIInv, DispatchIInv, QuietIInv DEF Next

(* The inductive invariant holds in every reachable state. *)
LEMMA SpecIInv == Spec => []IInv
BY InitIInv, NextIInv, PTL DEF Spec

(* Every variable keeps its type, and a semaphore's count never falls      *)
(* below minus the number of threads.                                      *)
THEOREM TypesHold == Spec => []TypeOK
<1>1. IInv => TypeOK
  BY DEF IInv, Places, QueuesOK, DataOK, TypeOK
<1> QED
  BY <1>1, SpecIInv, PTL

(* No thread is lost or scheduled twice, for any number of threads and     *)
(* objects and any order of wakeups, timeouts and preemptions.             *)
THEOREM ThreadsHaveOnePlace == Spec => []OnePlace
<1>1. Members(wait_queue) = Blocked
  BY DEF Members, Blocked, Queued
<1>2. IInv => OnePlace
  BY <1>1 DEF IInv, Places, QueuesOK, Partition, OnePlace, Queued
<1> QED
  BY <1>2, SpecIInv, PTL

(* Mutual exclusion for any number of threads, including the moment of the *)
(* hand-over: the assert in MutexBlocking::unlock cannot fail.             *)
THEOREM MutexesExclude == Spec => []MutualExclusion
<1>1. IInv => MutualExclusion
  BY DEF IInv, Locks
<1> QED
  BY <1>1, SpecIInv, PTL

(* A thread waits only for a mutex that somebody will unlock. *)
THEOREM WaitersHaveOwner == Spec => []WaitersNeedOwner
<1>1. IInv => WaitersNeedOwner
  BY DEF IInv, Locks
<1> QED
  BY <1>1, SpecIInv, PTL

(* The negative count of a semaphore is the length of its queue. *)
THEOREM CountsAreDebts == Spec => []CountIsDebt
<1>1. IInv => CountIsDebt
  BY DEF IInv, Debts
<1> QED
  BY <1>1, SpecIInv, PTL

=============================================================================
