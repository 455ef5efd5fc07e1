--------------------------- MODULE ThreadKernel ----------------------------
(***************************************************************************)
(* The threads of one process of os8-ref that run given programs on Sync:  *)
(* thread creation and waittid (syscall/thread.rs), and the memory that    *)
(* the threads share.  A load or a store of a shared variable is visible,  *)
(* and a timer interrupt may come between any two of them.                 *)
(***************************************************************************)
EXTENDS Sync, UserLib, Allocators

CONSTANTS Mains,     \* main programs, with the shared variables they declare
          Threads,   \* from entry points to programs
          MaxSlices  \* bound on the time slices that end between two steps of a thread

VARIABLES prog,      \* the programs of the threads that exist, by tid
          mem,       \* the shared variables
          exit_code, \* of the threads that have exited and not been waited for
          tids,      \* task_res_allocator
          halted,    \* the kernel has panicked
          slices     \* time slices that have ended since the last step of each thread

threadVars == <<prog, mem, exit_code, tids, halted>>
allVars == <<vars, threadVars, slices>>

Main == 0

(* t is in user mode and the next thing it does that is visible is name. *)
About(t, name) == InUser(t) /\ Called(prog[t]) = name
ArgOf(t, i) == Arg(prog[t], i)
Advanced(t, result) == [prog EXCEPT ![t] = Resumed(@, result)]

-----------------------------------------------------------------------------
(* Loads, stores and atomic operations of user code. *)
MemoryAccess(t) ==
  /\ \/ /\ About(t, "load")
        /\ prog' = Advanced(t, mem[ArgOf(t, 1)])
        /\ UNCHANGED mem
     \/ /\ About(t, "store")
        /\ mem' = [mem EXCEPT ![ArgOf(t, 1)] = ArgOf(t, 2)]
        /\ prog' = Advanced(t, 0)
     \/ /\ About(t, "store_item")
        /\ mem' = [mem EXCEPT ![ArgOf(t, 1)][ArgOf(t, 2) + 1] = ArgOf(t, 3)]
        /\ prog' = Advanced(t, 0)
     \/ /\ About(t, "cas")
        /\ prog' = Advanced(t, mem[ArgOf(t, 1)] = ArgOf(t, 2))
        /\ mem' = IF mem[ArgOf(t, 1)] = ArgOf(t, 2)
                  THEN [mem EXCEPT ![ArgOf(t, 1)] = ArgOf(t, 3)] ELSE mem
  /\ UNCHANGED <<vars, exit_code, tids, halted>>

-----------------------------------------------------------------------------
(* A call of Sync.  None of these calls has a result that the programs     *)
(* look at, so the thread is past it when it is in user mode again.        *)
SyncCall(t) ==
  /\ \/ About(t, "mutex_create") /\ SysMutexCreate(t, ArgOf(t, 1))
     \/ About(t, "mutex_lock") /\ SysMutexLock(t, ArgOf(t, 1))
     \/ About(t, "mutex_unlock") /\ SysMutexUnlock(t, ArgOf(t, 1))
     \/ About(t, "semaphore_create") /\ SysSemaphoreCreate(t, ArgOf(t, 1))
     \/ About(t, "semaphore_up") /\ SysSemaphoreUp(t, ArgOf(t, 1))
     \/ About(t, "semaphore_down") /\ SysSemaphoreDown(t, ArgOf(t, 1))
     \/ About(t, "condvar_create") /\ SysCondvarCreate(t, ArgOf(t, 1))
     \/ About(t, "condvar_signal") /\ SysCondvarSignal(t, ArgOf(t, 1))
     \/ About(t, "condvar_wait") /\ SysCondvarWait(t, ArgOf(t, 1), ArgOf(t, 2))
     \/ About(t, "sleep") /\ SysSleep(t, ArgOf(t, 1))
     \/ About(t, "yield") /\ SysYield(t)
  /\ prog' = Advanced(t, 0)
  /\ UNCHANGED <<mem, exit_code, tids, halted>>

(* sys_thread_create(entry, arg): tasks[tid] becomes the new thread, also  *)
(* where it still holds one that has exited and was not waited for.        *)
SysThreadCreate(t) ==
  LET tid == AllocId(tids) IN
  /\ About(t, "thread_create")
  /\ tids' = AllocNext(tids)
  /\ prog' = (tid :> Started(Threads[ArgOf(t, 1)], ArgOf(t, 2))) @@ Advanced(t, tid)
  /\ exit_code' = Restrict(exit_code, DOMAIN exit_code \ {tid})
  /\ ready' = AddTasks(ready, <<tid>>)
  /\ status' = [status EXCEPT ![tid] = "Ready"]
  /\ cont' = [cont EXCEPT ![tid] = User]
  /\ UNCHANGED <<current, created, wait_queue, count, locked, holds, timeVars, mem, halted>>

(* tasks[tid] exists.  The list grows with the ids ever handed out and     *)
(* never shrinks; an entry is None once it has been waited for.            *)
InTasks(tid) == tid < tids.current

Panic == halted' = TRUE /\ UNCHANGED <<vars, prog, mem, exit_code, tids>>

(* sys_waittid(tid): the thread is dropped when its exit code is taken. *)
SysWaittid(t) ==
  LET tid == ArgOf(t, 1)
      Answer(n) == prog' = Advanced(t, n) /\ UNCHANGED exit_code IN
  /\ About(t, "waittid")
  /\ IF tid # t /\ ~InTasks(tid) THEN Panic
     ELSE /\ \/ (tid = t \/ tid \notin DOMAIN prog) /\ Answer(-1)
             \/ tid \in DOMAIN prog \ ({t} \cup DOMAIN exit_code) /\ Answer(-2)
             \/ /\ tid \in DOMAIN exit_code \ {t}
                /\ prog' = Restrict(Advanced(t, exit_code[tid]), DOMAIN prog \ {tid})
                /\ exit_code' = Restrict(exit_code, DOMAIN exit_code \ {tid})
          /\ UNCHANGED <<vars, mem, tids, halted>>

(* exit_current_and_run_next gives the tid back with the TaskUserRes; the  *)
(* exit of the main thread takes those of the threads still alive too, in  *)
(* the order of their tids.                                                *)
GivenBack(t) ==
  LET alive == {u \in DOMAIN prog \ {t} : u \notin DOMAIN exit_code} IN
  IF t = Main THEN <<t>> \o SetToSortSeq(alive, <) ELSE <<t>>

Exit(t) ==
  /\ About(t, "exit")
  /\ SysExit(t)
  /\ exit_code' = (t :> ArgOf(t, 1)) @@ exit_code
  /\ tids' = FoldLeft(DeallocNext, tids, GivenBack(t))
  /\ UNCHANGED <<prog, mem, halted>>

(* The process has exited. *)
Finished == Main \in DOMAIN exit_code

(* A thread that outlives the main thread is fetched again: trap_return    *)
(* unwraps the TaskUserRes that was taken from it.                         *)
Outlives(t) == Finished /\ current = t /\ Panic

-----------------------------------------------------------------------------
ThreadInit ==
  /\ \E s \in Mains : /\ prog = (Main :> Started(s.main, << >>))
                         /\ mem = s.mem
  /\ exit_code = << >>
  /\ tids = AllocNext(NewAllocator)
  /\ halted = FALSE
  /\ slices = [t \in Tasks |-> 0]
  /\ ready = <<Main>>
  /\ current = NoTask
  /\ status = [t \in Tasks |-> "Ready"]
  /\ created = {}
  /\ locked = {}
  /\ wait_queue = [o \in Objects |-> << >>]
  /\ count = [s \in Semaphores |-> 0]
  /\ timers = {}
  /\ now = 0
  /\ cont = [t \in Tasks |-> IF t = Main THEN User ELSE Exited]
  /\ holds = [t \in Tasks |-> {}]

Step(t) ==
  /\ ~halted
  /\ IF Finished THEN Outlives(t)
     ELSE \/ MemoryAccess(t) \/ SyncCall(t) \/ SysThreadCreate(t) \/ SysWaittid(t) \/ Exit(t)
          \/ Resume(t) /\ UNCHANGED threadVars
  /\ slices' = [slices EXCEPT ![t] = 0]

Interrupt(t) ==
  /\ ~halted /\ ~Finished
  /\ slices[t] < MaxSlices
  /\ TimerInterrupt(t)
  /\ slices' = [slices EXCEPT ![t] = @ + 1]
  /\ UNCHANGED threadVars

(* Only sleepers look at the clock: it is left alone while none waits. *)
Clock ==
  /\ \E x \in timers : x.expire > now
  /\ Tick
  /\ UNCHANGED <<threadVars, slices>>

ThreadNext ==
  \/ \E t \in Tasks : Step(t) \/ Interrupt(t)
  \/ ~halted /\ Dispatch /\ UNCHANGED <<threadVars, slices>>
  \/ Clock
  \/ Finished /\ UNCHANGED allVars

ThreadSpec == ThreadInit /\ [][ThreadNext]_allVars

(* The machine goes on until the process has exited, time passes, and the  *)
(* timer is not kept from interrupting for ever.                           *)
FairThreadSpec ==
  /\ ThreadSpec
  /\ []<>Finished \/ []<><<TRUE>>_allVars
  /\ WF_allVars(Clock)
  /\ SF_allVars(\E t \in Tasks : Interrupt(t))

-----------------------------------------------------------------------------
(* Properties.                                                             *)

(* Every assertion in the programs holds, in every interleaving of the     *)
(* threads: locks protect the counter, what one thread waits for another   *)
(* has done; and no thread outlives the main thread or is waited for under *)
(* a tid that was never handed out, either of which stops the kernel.      *)
ThreadAssertsHold == ~halted /\ \A t \in DOMAIN prog : ~prog[t].failed

(* Every program ends: no thread waits for ever for a lock, a semaphore, a *)
(* signal or the end of its sleep.                                         *)
NobodyWaits ==
  /\ Finished /\ ready = << >> /\ current = NoTask /\ timers = {}
  /\ \A o \in Objects : wait_queue[o] = << >>
ThreadsFinish == <>[]NobodyWaits

=============================================================================
