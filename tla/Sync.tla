-------------------------------- MODULE Sync --------------------------------
(***************************************************************************)
(* The synchronisation system calls of os8-ref (syscall/sync.rs, sync/,    *)
(* timer.rs) for the threads of one process, on top of the scheduler:      *)
(* spinning and blocking mutexes, semaphores, condition variables, sleep   *)
(* and the timer interrupt that preempts user code and wakes sleepers.     *)
(*                                                                         *)
(* A thread is in user mode or inside a system call that left the CPU; the *)
(* record cont[t] says where it goes on when it is switched in again.      *)
(* Client programs are arbitrary, except that a thread uses only objects   *)
(* that exist and unlocks (or waits with) only a mutex it has locked:      *)
(* holds is what the client knows.  A poller is a task such as initproc,   *)
(* which only yields and is preempted.                                     *)
(***************************************************************************)
EXTENDS Scheduler

CONSTANTS SpinMutexes, BlockingMutexes, \* entries of mutex_list, by kind
          Semaphores,                   \* entries of semaphore_list
          Condvars,                     \* entries of condvar_list
          InitCount,                    \* res_count of sys_semaphore_create
          MaxCount,                     \* bound on the counts
          NoMutex,
          Pollers,
          SleepTimes,                   \* arguments of sys_sleep, in ms
          MaxTime,                      \* bound on the clock
          UsizeCount                    \* number of values of usize

Mutexes == SpinMutexes \cup BlockingMutexes
Objects == Mutexes \cup Semaphores \cup Condvars

ASSUME SyncAssumption ==
  /\ IsFiniteSet(Tasks)
  /\ SpinMutexes \cap BlockingMutexes = {}
  /\ Mutexes \cap Semaphores = {}
  /\ Mutexes \cap Condvars = {}
  /\ Semaphores \cap Condvars = {}
  /\ NoMutex \notin Mutexes
  /\ MaxCount \in Nat
  /\ InitCount \in [Semaphores -> 0 .. MaxCount]
  /\ Pollers \subseteq Tasks
  /\ SleepTimes \subseteq Nat
  /\ MaxTime \in Nat
  /\ UsizeCount \in Nat \ {0}
  /\ UsizeCount % 2 = 0

(* Every semaphore is created with one resource, as a value of InitCount.  *)
OneEach == [s \in Semaphores |-> 1]

VARIABLES created,    \* the Some entries of the three lists
          locked,     \* mutexes whose locked flag is set
          wait_queue, \* of MutexBlocking, Semaphore and Condvar
          count,      \* of Semaphore
          timers,     \* the heap TIMERS
          now,        \* get_time_ms()
          cont,       \* where a thread goes on when it is switched in
          holds       \* mutexes a client thread has locked and not unlocked

mutexVars == <<locked, cont, holds>>
timeVars == <<timers, now>>
vars == <<ready, current, status, created, locked, wait_queue, count,
          timers, now, cont, holds>>

At(k, m) == [kind |-> k, mutex |-> m]
User == At("user", NoMutex)
Exited == At("exited", NoMutex)
InLock(m) == At("locked", m)   \* blocked in MutexBlocking::lock
InSpin(m) == At("spin", m)     \* suspended in the loop of MutexSpin::lock
InWait(m) == At("relock", m)   \* blocked in Condvar::wait, lock is next
Conts == {User, Exited} \cup
         {At(k, m) : k \in {"locked", "spin", "relock"}, m \in Mutexes}

-----------------------------------------------------------------------------
(* All threads exist and have never run; the process has no objects yet. *)
Init ==
  /\ ready \in Orders(Tasks)
  /\ current = NoTask
  /\ status = [t \in Tasks |-> "Ready"]
  /\ created = {}
  /\ locked = {}
  /\ wait_queue = [o \in Objects |-> << >>]
  /\ count = [s \in Semaphores |-> 0]
  /\ timers = {}
  /\ now = 0
  /\ cont = [t \in Tasks |-> User]
  /\ holds = [t \in Tasks |-> {}]

(* t runs user code and may be interrupted. *)
InUser(t) == current = t /\ cont[t] = User

(* t may make a system call. *)
Calls(t) == InUser(t) /\ t \notin Pollers

-----------------------------------------------------------------------------
(* Faulty variants, for showing that the properties depend on the code. *)

(* lock does not look at the flag. *)
MutexLockUnchecked(t, m) ==
  /\ locked' = locked \cup {m}
  /\ holds' = [holds EXCEPT ![t] = @ \cup {m}]
  /\ cont' = [cont EXCEPT ![t] = User]
  /\ KeepRunning(<< >>)
  /\ UNCHANGED wait_queue

(* unlock clears the flag although it wakes a waiter. *)
UnlockLockedNoHandOff(m) == locked \ {m}

(* up wakes a waiter only while the count is still negative. *)
UpWakesStrict(s) ==
  IF count[s] + 1 < 0 /\ wait_queue[s] # << >>
  THEN <<Head(wait_queue[s])>> ELSE << >>

(* The heap orders timers by expire_ms itself: the latest is on top. *)
TimerKeyNotNegated(x) == x.expire

(* The timer interrupt preempts without calling check_timer. *)
TimerInterruptNoCheck(t) ==
  /\ InUser(t)
  /\ SuspendCurrent(<< >>)
  /\ UNCHANGED <<created, wait_queue, count, mutexVars, timeVars>>

-----------------------------------------------------------------------------
(* sys_mutex_create, sys_semaphore_create, sys_condvar_create: entries are *)
(* never cleared, so the new object gets an id not used before.            *)

SysMutexCreate(t, m) ==
  /\ Calls(t)
  /\ m \notin created
  /\ created' = created \cup {m}
  /\ KeepRunning(<< >>)
  /\ UNCHANGED <<wait_queue, count, mutexVars, timeVars>>

SysSemaphoreCreate(t, s) ==
  /\ Calls(t)
  /\ s \notin created
  /\ created' = created \cup {s}
  /\ count' = [count EXCEPT ![s] = InitCount[s]]
  /\ KeepRunning(<< >>)
  /\ UNCHANGED <<wait_queue, mutexVars, timeVars>>

SysCondvarCreate(t, c) ==
  /\ Calls(t)
  /\ c \notin created
  /\ created' = created \cup {c}
  /\ KeepRunning(<< >>)
  /\ UNCHANGED <<wait_queue, count, mutexVars, timeVars>>

-----------------------------------------------------------------------------
(* Mutexes.                                                                *)

(* A round of the loop of MutexSpin::lock that finds the mutex locked. *)
SpinRound(t, m) ==
  /\ m \in locked \cap SpinMutexes
  /\ cont' = [cont EXCEPT ![t] = InSpin(m)]
  /\ SuspendCurrent(<< >>)
  /\ UNCHANGED <<locked, wait_queue, holds>>

(* Mutex::lock, called by sys_mutex_lock, by the loop of MutexSpin::lock   *)
(* and at the end of Condvar::wait: take a free mutex, wait in the queue   *)
(* of a blocking one, yield the CPU and retry for a spinning one.          *)
MutexLock(t, m) ==
  \/ /\ m \notin locked
     /\ locked' = locked \cup {m}
     /\ holds' = [holds EXCEPT ![t] = @ \cup {m}]
     /\ cont' = [cont EXCEPT ![t] = User]
     /\ KeepRunning(<< >>)
     /\ UNCHANGED wait_queue
  \/ /\ m \in locked \cap BlockingMutexes
     /\ wait_queue' = [wait_queue EXCEPT ![m] = Append(@, t)]
     /\ cont' = [cont EXCEPT ![t] = InLock(m)]
     /\ BlockCurrent(<< >>)
     /\ UNCHANGED <<locked, holds>>
  \/ SpinRound(t, m)

(* wait_queue.pop_front() of object o: the task it yields, what it leaves. *)
FrontOf(o) == IF wait_queue[o] = << >> THEN << >> ELSE <<Head(wait_queue[o])>>
PopFront(o) == IF wait_queue[o] = << >> THEN wait_queue
               ELSE [wait_queue EXCEPT ![o] = Tail(@)]

(* Mutex::unlock wakes FrontOf(m); a mutex with a waiter stays locked for  *)
(* the thread it wakes.                                                    *)
UnlockLocked(m) == IF wait_queue[m] = << >> THEN locked \ {m} ELSE locked

SysMutexLock(t, m) ==
  /\ Calls(t)
  /\ m \in created
  /\ MutexLock(t, m)
  /\ UNCHANGED <<created, count, timeVars>>

SysMutexUnlock(t, m) ==
  /\ Calls(t)
  /\ m \in holds[t]
  /\ locked' = UnlockLocked(m)
  /\ wait_queue' = PopFront(m)
  /\ holds' = [holds EXCEPT ![t] = @ \ {m}]
  /\ KeepRunning(FrontOf(m))
  /\ UNCHANGED <<created, count, cont, timeVars>>

-----------------------------------------------------------------------------
(* Semaphores.                                                             *)

UpWakes(s) == IF count[s] + 1 <= 0 THEN FrontOf(s) ELSE << >>

SysSemaphoreUp(t, s) ==
  /\ Calls(t)
  /\ s \in created
  /\ count[s] < MaxCount
  /\ count' = [count EXCEPT ![s] = @ + 1]
  /\ wait_queue' = IF UpWakes(s) = << >> THEN wait_queue ELSE PopFront(s)
  /\ KeepRunning(UpWakes(s))
  /\ UNCHANGED <<created, mutexVars, timeVars>>

SysSemaphoreDown(t, s) ==
  /\ Calls(t)
  /\ s \in created
  /\ count' = [count EXCEPT ![s] = @ - 1]
  /\ \/ /\ count[s] - 1 < 0
        /\ wait_queue' = [wait_queue EXCEPT ![s] = Append(@, t)]
        /\ BlockCurrent(<< >>)
     \/ /\ count[s] - 1 >= 0
        /\ UNCHANGED wait_queue
        /\ KeepRunning(<< >>)
  /\ UNCHANGED <<created, mutexVars, timeVars>>

-----------------------------------------------------------------------------
(* Condition variables.                                                    *)

SysCondvarSignal(t, c) ==
  /\ Calls(t)
  /\ c \in created
  /\ wait_queue' = PopFront(c)
  /\ KeepRunning(FrontOf(c))
  /\ UNCHANGED <<created, count, mutexVars, timeVars>>

(* Condvar::wait up to its block: unlock, enqueue, leave the CPU; lock is  *)
(* called when the thread is switched in again.                            *)
SysCondvarWait(t, c, m) ==
  /\ Calls(t)
  /\ c \in created
  /\ m \in holds[t]
  /\ locked' = UnlockLocked(m)
  /\ wait_queue' = [PopFront(m) EXCEPT ![c] = Append(@, t)]
  /\ holds' = [holds EXCEPT ![t] = @ \ {m}]
  /\ cont' = [cont EXCEPT ![t] = InWait(m)]
  /\ BlockCurrent(FrontOf(m))
  /\ UNCHANGED <<created, count, timeVars>>

(* The rest of a lock or wait whose thread has been switched in again.     *)
(* Back from block_current_and_run_next, MutexBlocking::lock returns: the  *)
(* unlock that woke the thread left the mutex locked for it.               *)
Resume(t) ==
  /\ current = t
  /\ \/ /\ cont[t].kind = "locked"
        /\ holds' = [holds EXCEPT ![t] = @ \cup {cont[t].mutex}]
        /\ cont' = [cont EXCEPT ![t] = User]
        /\ KeepRunning(<< >>)
        /\ UNCHANGED <<locked, wait_queue>>
     \/ /\ cont[t].kind \in {"spin", "relock"}
        /\ MutexLock(t, cont[t].mutex)
  /\ UNCHANGED <<created, count, timeVars>>

-----------------------------------------------------------------------------
(* Sleep and the timer interrupt.                                          *)

(* as isize, and two's complement negation *)
AsSigned(n) == IF n < UsizeCount \div 2 THEN n ELSE n - UsizeCount
Negate(i) == IF i = -(UsizeCount \div 2) THEN i ELSE -i

(* The order of TimerCondVar: BinaryHeap keeps the greatest on top. *)
TimerKey(x) == Negate(AsSigned(x.expire))

(* check_timer pops while the top has expired: a timer is popped when it   *)
(* and every timer the heap orders before it have expired.                 *)
Popped(T) == {x \in T : \A y \in T : TimerKey(y) >= TimerKey(x) => y.expire <= now}

(* The orders in which check_timer may hand the popped tasks to add_task:  *)
(* by key, ties in any order.                                              *)
PoppedOrders(T) ==
  {q \in Orders(Popped(T)) :
     \A i, j \in DOMAIN q : i < j => TimerKey(q[i]) >= TimerKey(q[j])}

(* Modelled while the sleep ends within the bound on the clock. *)
SysSleep(t, ms) ==
  /\ Calls(t)
  /\ now + ms <= MaxTime
  /\ timers' = timers \cup {[task |-> t, expire |-> (now + ms) % UsizeCount]}
  /\ BlockCurrent(<< >>)
  /\ UNCHANGED <<created, wait_queue, count, mutexVars, now>>

(* The SupervisorTimer arm of trap_handler: wake sleepers, preempt. *)
TimerInterrupt(t) ==
  /\ InUser(t)
  /\ timers' = timers \ Popped(timers)
  /\ \E q \in PoppedOrders(timers) :
       SuspendCurrent([i \in DOMAIN q |-> q[i].task])
  /\ UNCHANGED <<created, wait_queue, count, mutexVars, now>>

(* The hardware clock. *)
Tick ==
  /\ now < MaxTime
  /\ now' = now + 1
  /\ UNCHANGED <<schedVars, created, wait_queue, count, mutexVars, timers>>

-----------------------------------------------------------------------------
SysYield(t) ==
  /\ InUser(t)
  /\ SuspendCurrent(<< >>)
  /\ UNCHANGED <<created, wait_queue, count, mutexVars, timeVars>>

(* sys_exit of a thread that is not the main thread, which may hold locks: *)
(* nothing releases them.                                                  *)
SysExit(t) ==
  /\ Calls(t)
  /\ cont' = [cont EXCEPT ![t] = Exited]
  /\ ExitCurrent
  /\ UNCHANGED <<created, locked, holds, wait_queue, count, timeVars>>

Dispatch ==
  /\ RunTasks
  /\ UNCHANGED <<created, wait_queue, count, mutexVars, timeVars>>

Syscall(t) ==
  \/ \E m \in Mutexes : SysMutexCreate(t, m) \/ SysMutexLock(t, m)
                        \/ SysMutexUnlock(t, m)
  \/ \E s \in Semaphores : SysSemaphoreCreate(t, s) \/ SysSemaphoreUp(t, s)
                           \/ SysSemaphoreDown(t, s)
  \/ \E c \in Condvars : SysCondvarCreate(t, c) \/ SysCondvarSignal(t, c)
  \/ \E c \in Condvars, m \in Mutexes : SysCondvarWait(t, c, m)
  \/ \E ms \in SleepTimes : SysSleep(t, ms)
  \/ SysYield(t)
  \/ SysExit(t)

Next ==
  \/ \E t \in Tasks : Syscall(t) \/ Resume(t) \/ TimerInterrupt(t)
  \/ Dispatch
  \/ Tick

Spec == Init /\ [][Next]_vars

(* The kernel always goes on; time passes; a timer interrupt stays pending *)
(* until the CPU is in user mode, and is then taken.                       *)
Fairness ==
  /\ WF_vars(Dispatch)
  /\ \A t \in Tasks : WF_vars(Resume(t))
  /\ WF_vars(Tick)
  /\ SF_vars(\E t \in Tasks : TimerInterrupt(t))

FairSpec == Spec /\ Fairness

-----------------------------------------------------------------------------
(* Properties.                                                             *)

Sleepers == {x.task : x \in timers}
Queued(o) == Range(wait_queue[o])
Blocked == UNION {Queued(o) : o \in Objects}
Running == {t \in Tasks : t = current}
Gone == {t \in Tasks : cont[t] = Exited}

(* Every variable has its type; a semaphore's count never falls below      *)
(* minus the number of threads, because down blocks the thread that takes  *)
(* it below zero.                                                          *)
TypeOK ==
  /\ ready \in Seq(Tasks)
  /\ current \in Tasks \cup {NoTask}
  /\ status \in [Tasks -> TaskStatus]
  /\ created \subseteq Objects
  /\ locked \subseteq Mutexes
  /\ wait_queue \in [Objects -> Seq(Tasks)]
  /\ count \in [Semaphores -> -Cardinality(Tasks) .. MaxCount]
  /\ timers \subseteq [task : Tasks, expire : Nat]
  /\ now \in 0 .. MaxTime
  /\ cont \in [Tasks -> Conts]
  /\ holds \in [Tasks -> SUBSET Mutexes]

(* No thread is lost and none is scheduled twice: each is exactly one of   *)
(* running, once in the ready queue, once in one wait queue, in the timer  *)
(* heap once, or exited, whatever the order of wakeups and preemptions.    *)
OnePlace ==
  /\ IsInjective(ready)
  /\ \A o \in Objects : IsInjective(wait_queue[o])
  /\ \A o, p \in Objects : o # p => Queued(o) \cap Queued(p) = {}
  /\ \A x, y \in timers : x.task = y.task => x = y
  /\ Running \cup Range(ready) \cup Blocked \cup Sleepers \cup Gone = Tasks
  /\ Range(ready) \cap Running = {}
  /\ Blocked \cap (Running \cup Range(ready)) = {}
  /\ Sleepers \cap (Running \cup Range(ready) \cup Blocked) = {}
  /\ Gone \cap (Running \cup Range(ready) \cup Blocked \cup Sleepers) = {}

(* The threads that own m: those that have locked it, and the one that was *)
(* taken from its queue by unlock and has not returned from lock yet.      *)
Owners(m) ==
  {t \in Tasks : m \in holds[t] \/ (cont[t] = InLock(m) /\ t \notin Queued(m))}

(* Mutual exclusion, over the hand-over too: a locked mutex has exactly    *)
(* one owner and an unlocked one has none, so the assert of                *)
(* MutexBlocking::unlock never fails.                                      *)
MutualExclusion ==
  \A m \in Mutexes : IF m \in locked THEN \E t \in Tasks : Owners(m) = {t}
                     ELSE Owners(m) = {}

(* Only a locked blocking mutex has waiters, so a waiter always has an     *)
(* unlock to wait for.                                                     *)
WaitersNeedOwner ==
  \A m \in Mutexes : wait_queue[m] # << >> => m \in locked \cap BlockingMutexes

(* A negative count is the number of blocked threads: up never finds the   *)
(* queue empty when it should wake a thread, and wakes none too many.      *)
CountIsDebt ==
  \A s \in Semaphores : Len(wait_queue[s]) = IF count[s] < 0 THEN -count[s] ELSE 0

(* No barging: while threads wait for a blocking mutex, it changes hands   *)
(* only to the thread that has waited longest.                             *)
HandOffInOrder ==
  [][\A m \in BlockingMutexes :
       (wait_queue[m] # << >> /\ Owners(m)' # Owners(m))
         => Owners(m)' = {Head(wait_queue[m])}]_vars

(* A timer interrupt leaves no expired sleeper in the heap, and no step    *)
(* wakes a sleeper before its time, whatever the order of the heap.        *)
WakesExactlyExpired ==
  [][/\ (\E t \in Tasks : TimerInterrupt(t)) => \A x \in timers' : x.expire > now
     /\ \A x \in timers \ timers' : x.expire <= now]_vars

(* No thread is forgotten: a ready thread eventually runs, because the     *)
(* scheduler is FIFO, and a sleeping thread eventually leaves the timer    *)
(* heap.                                                                   *)
ReadyRuns == \A t \in Tasks : t \in Range(ready) ~> current = t
SleepersWake == \A t \in Tasks : t \in Sleepers ~> t \notin Sleepers
NobodyForgotten == ReadyRuns /\ SleepersWake

=============================================================================
