----------------------------- MODULE Processes -----------------------------
(***************************************************************************)
(* Processes and threads of os8-ref (task/process.rs, task/mod.rs,         *)
(* task/task.rs, syscall/process.rs, syscall/thread.rs): fork, thread      *)
(* creation, exit, waitpid and waittid, over the scheduler and the id      *)
(* allocators.  PCBs and TCBs are slots that are used again once the code  *)
(* has dropped them.                                                       *)
(*                                                                         *)
(* A thread that blocks in sys_semaphore_down or sys_condvar_wait, or that *)
(* is suspended in sys_read or sys_write, keeps an Arc of its PCB on its   *)
(* kernel stack (pinned) until it runs again; one in sys_sleep keeps none. *)
(* Which it is, and who wakes it, is all that remains here of those calls. *)
(*                                                                         *)
(* Programs may be required to join their threads: the main thread exits   *)
(* after all others have exited.                                           *)
(***************************************************************************)
EXTENDS Scheduler, Allocators, SequencesExt

CONSTANTS Procs,     \* PCB slots
          InitProc,  \* INITPROC
          InitTask   \* its only thread

ASSUME ProcessesAssumption == InitProc \in Procs /\ InitTask \in Tasks

VARIABLES pcb,      \* ProcessControlBlock of each slot
          tcb,      \* TaskControlBlock of each slot
          pids,     \* PID_ALLOCATOR
          waiting,  \* tasks in a semaphore or condvar queue
          asleep,   \* tasks in the timer heap
          pinned,   \* tasks whose kernel stack holds an Arc of their PCB
          reading,  \* those of them suspended in sys_read or sys_write
          joins,    \* programs join their threads
          panic     \* the assertion or unwrap that stopped the kernel

procVars == <<pcb, tcb, pids>>
blockVars == <<waiting, asleep, pinned, reading>>
vars == <<ready, current, status, pcb, tcb, pids, waiting, asleep, pinned, reading, joins, panic>>

None == -1
NoPcb == [pid |-> None, parent |-> InitProc, children |-> << >>,
          is_zombie |-> "no", tasks |-> << >>, tids |-> NewAllocator]
NoTcb == [proc |-> InitProc, tid |-> None, exited |-> "no"]

Live == {p \in Procs : pcb[p].pid # None}

(* Tasks some Arc refers to. *)
InTasks == UNION {Range(pcb[p].tasks) : p \in Live}
Referenced ==
  InTasks \cup Range(ready) \cup {current} \cup waiting \cup asleep

FreeProcs == Procs \ Live
FreeTasks == Tasks \ Referenced

(* Slots are interchangeable: a new PCB or TCB takes one of the free ones. *)
Slot(free) == CHOOSE x \in free : TRUE

ProcOf(t) == tcb[t].proc

(* res of a TCB is Some while the tid is there. *)
HasRes(t) == tcb[t].tid # None

(* Faulty variant: the count before the removal from the children list. *)
StrongCountInList(p) == 2 + Cardinality({t \in pinned : ProcOf(t) = p})

(* Arc::strong_count of a PCB that is in nobody's children list any more   *)
(* but in a local variable of sys_waitpid.                                 *)
StrongCount(p) == 1 + Cardinality({t \in pinned : ProcOf(t) = p})

Running(t) == panic = "none" /\ current = t

-----------------------------------------------------------------------------
Threads(p) == Range(pcb[p].tasks) \ {NoTask}
Unfinished(p) == {t \in Threads(p) : tcb[t].exited = "no"}

-----------------------------------------------------------------------------
(* Boot: INITPROC is created by ProcessControlBlock::new, its main thread  *)
(* is the only task.                                                       *)
Init ==
  /\ pcb = [p \in Procs |->
              IF p = InitProc
              THEN [NoPcb EXCEPT !.pid = AllocId(NewAllocator), !.tasks = <<InitTask>>,
                                 !.tids = AllocNext(NewAllocator)]
              ELSE NoPcb]
  /\ tcb = [u \in Tasks |->
              IF u = InitTask THEN [NoTcb EXCEPT !.tid = AllocId(NewAllocator)] ELSE NoTcb]
  /\ pids = AllocNext(NewAllocator)
  /\ ready = <<InitTask>>
  /\ current = NoTask
  /\ status = [u \in Tasks |-> IF u = InitTask THEN "Ready" ELSE "UnInit"]
  /\ waiting = {} /\ asleep = {} /\ pinned = {} /\ reading = {}
  /\ joins \in BOOLEAN
  /\ panic = "none"

(* The rest of the kernel does not run after a panic. *)
Panic(what) ==
  /\ panic' = what
  /\ UNCHANGED <<schedVars, procVars, blockVars>>

-----------------------------------------------------------------------------
(* Faulty variants, for showing that the properties depend on the code. *)

(* exit clears the children list without handing the children over. *)
ReparentedLost(p) == [pcb EXCEPT ![p].children = << >>]

(* exit hands the children over without updating their parent. *)
ReparentedParent(p) ==
  [pcb EXCEPT ![InitProc].children = @ \o pcb[p].children, ![p].children = << >>]

-----------------------------------------------------------------------------
(* System calls of thread t.                                               *)

(* initproc forks once and then only waits. *)
Calls(t) ==
  /\ Running(t)
  /\ ProcOf(t) = InitProc => pids.current = 1

(* TaskControlBlock::new for process p, whose tid allocator is a. *)
NewTcb(p, a) == [proc |-> p, tid |-> AllocId(a), exited |-> "no"]

(* The assert on thread_count() in ProcessControlBlock::fork and exec. *)
ThreadCountPanic(t) ==
  LET p == ProcOf(t) IN
  /\ Calls(t)
  /\ Len(pcb[p].tasks) # 1
  /\ Panic("thread_count")

(* sys_fork: the child has a copy of the memory, its own lists and ids.    *)
SysFork(t) ==
  LET p == ProcOf(t) IN
  /\ Calls(t)
  /\ Len(pcb[p].tasks) = 1
  /\ FreeProcs # {} /\ FreeTasks # {}
  /\ LET c == Slot(FreeProcs)
         n == Slot(FreeTasks) IN
       /\ pids' = AllocNext(pids)
       /\ pcb' = [pcb EXCEPT ![p].children = Append(@, c),
                             ![c] = [NoPcb EXCEPT !.pid = AllocId(pids),
                                                  !.parent = p, !.tasks = <<n>>,
                                                  !.tids = AllocNext(NewAllocator)]]
       /\ tcb' = [tcb EXCEPT ![n] = NewTcb(c, NewAllocator)]
       /\ status' = [status EXCEPT ![n] = "Ready"]
       /\ ready' = AddTasks(ready, <<n>>)
  /\ UNCHANGED <<current, blockVars, panic>>

(* tasks after tasks[tid] = Some(n), lengthened with None if it is short. *)
PutTask(tasks, tid, n) ==
  [i \in 1 .. (IF tid < Len(tasks) THEN Len(tasks) ELSE tid + 1) |->
     IF i = tid + 1 THEN n ELSE IF i <= Len(tasks) THEN tasks[i] ELSE NoTask]

SysThreadCreate(t) ==
  LET p == ProcOf(t)
      a == pcb[p].tids IN
  /\ Calls(t)
  /\ p # InitProc
  /\ FreeTasks # {}
  /\ LET n == Slot(FreeTasks) IN
       /\ tcb' = [tcb EXCEPT ![n] = NewTcb(p, a)]
       /\ pcb' = [pcb EXCEPT ![p].tids = AllocNext(a),
                             ![p].tasks = PutTask(@, AllocId(a), n)]
       /\ status' = [status EXCEPT ![n] = "Ready"]
       /\ ready' = AddTasks(ready, <<n>>)
  /\ UNCHANGED <<current, pids, blockVars, panic>>

(* The TaskUserRes that an exit drops: its own, and those of all threads   *)
(* when the main thread exits.                                             *)
TakenRes(t) ==
  IF tcb[t].tid = 0 THEN {u \in Threads(ProcOf(t)) : HasRes(u)} ELSE {t}

(* The tids it gives back, its own first, then in the order of tasks. *)
FreedTids(t) ==
  LET others == SelectSeq(pcb[ProcOf(t)].tasks,
                          LAMBDA u : u \in TakenRes(t) \ {t})
  IN  <<tcb[t].tid>> \o [i \in DOMAIN others |-> tcb[others[i]].tid]

(* Children move to initproc. *)
Reparented(p) ==
  [q \in Procs |->
     CASE q = InitProc -> [pcb[q] EXCEPT !.children = @ \o pcb[p].children]
       [] q = p -> [pcb[q] EXCEPT !.children = << >>]
       [] q \in Range(pcb[p].children) -> [pcb[q] EXCEPT !.parent = InitProc]
       [] OTHER -> pcb[q]]

(* exit_current_and_run_next, from sys_exit or a fault in user code. *)
SysExit(t) ==
  LET p == ProcOf(t)
      isMain == tcb[t].tid = 0
      freed == FoldLeft(DeallocNext, pcb[p].tids, FreedTids(t)) IN
  /\ Calls(t)
  /\ p # InitProc
  /\ joins /\ isMain => Unfinished(p) = {t}
  /\ tcb' = [u \in Tasks |->
               [tcb[u] EXCEPT !.tid = IF u \in TakenRes(t) THEN None ELSE @,
                              !.exited = IF u = t THEN "yes" ELSE @]]
  /\ pcb' = IF isMain
            THEN [Reparented(p) EXCEPT ![p].is_zombie = "yes", ![p].tids = freed]
            ELSE [pcb EXCEPT ![p].tids = freed]
  /\ ExitCurrent
  /\ UNCHANGED <<pids, blockVars, panic>>

(* The children of p that waitpid(w) asks about; None is -1, any child. *)
Asked(p, w) == {i \in DOMAIN pcb[p].children :
                  w = None \/ pcb[pcb[p].children[i]].pid = w}
Zombies(p, w) == {i \in Asked(p, w) : pcb[pcb[p].children[i]].is_zombie = "yes"}

(* sys_waitpid when it finds a zombie: remove the first one; its PCB is    *)
(* dropped, with its pid and the TCBs nobody else refers to.  (With -1 and *)
(* -2 as result nothing changes, and the user library yields after -2.)    *)
SysWaitpid(t, w) ==
  LET p == ProcOf(t) IN
  /\ Running(t)
  /\ Zombies(p, w) # {}
  /\ LET i == CHOOSE j \in Zombies(p, w) : \A k \in Zombies(p, w) : j <= k
         c == pcb[p].children[i] IN
     \/ /\ StrongCount(c) # 1
        /\ Panic("strong_count")
     \/ /\ StrongCount(c) = 1
        /\ pids' = DeallocNext(pids, pcb[c].pid)
        /\ pcb' = [pcb EXCEPT ![p].children = RemoveFirst(@, c), ![c] = NoPcb]
        /\ tcb' = [u \in Tasks |-> IF u \in Threads(c) /\ u \notin Range(ready) \cup asleep
                                   THEN NoTcb ELSE tcb[u]]
        /\ UNCHANGED <<schedVars, blockVars, panic>>

(* sys_waittid, where it changes state or panics: an exited thread is      *)
(* removed from tasks and its TCB dropped; an id beyond the end of tasks   *)
(* fails the index operation.                                              *)
SysWaittid(t, tid) ==
  LET p == ProcOf(t)
      waited == pcb[p].tasks[tid + 1] IN
  /\ Calls(t)
  /\ tid # tcb[t].tid
  /\ \/ /\ tid >= Len(pcb[p].tasks)
        /\ Panic("index")
     \/ /\ tid < Len(pcb[p].tasks)
        /\ waited # NoTask
        /\ tcb[waited].exited = "yes"
        /\ pcb' = [pcb EXCEPT ![p].tasks[tid + 1] = NoTask]
        /\ tcb' = [tcb EXCEPT ![waited] = NoTcb]
        /\ UNCHANGED <<schedVars, pids, blockVars, panic>>

(* sys_semaphore_down or sys_condvar_wait that blocks. *)
SysWait(t) ==
  /\ Calls(t)
  /\ ProcOf(t) # InitProc
  /\ waiting' = waiting \cup {t}
  /\ pinned' = pinned \cup {t}
  /\ BlockCurrent(<< >>)
  /\ UNCHANGED <<procVars, asleep, reading, panic>>

(* sys_semaphore_up or sys_condvar_signal that wakes a thread of the same  *)
(* process.                                                                *)
SysWake(t) ==
  /\ Calls(t)
  /\ \E u \in waiting :
       /\ ProcOf(u) = ProcOf(t)
       /\ waiting' = waiting \ {u}
       /\ KeepRunning(<<u>>)
  /\ UNCHANGED <<procVars, asleep, pinned, reading, panic>>

SysSleep(t) ==
  /\ Calls(t)
  /\ ProcOf(t) # InitProc
  /\ asleep' = asleep \cup {t}
  /\ BlockCurrent(<< >>)
  /\ UNCHANGED <<procVars, waiting, pinned, reading, panic>>

(* sys_read or sys_write that finds a pipe empty or full, or no character: *)
(* it suspends with the Arc of its PCB.                                    *)
SysReadSuspends(t) ==
  /\ Calls(t)
  /\ ProcOf(t) # InitProc
  /\ pinned' = pinned \cup {t}
  /\ reading' = reading \cup {t}
  /\ SuspendCurrent(<< >>)
  /\ UNCHANGED <<procVars, waiting, asleep, panic>>

(* It runs again, finds nothing again and suspends again. *)
ReadsOn ==
  /\ panic = "none"
  /\ current = NoTask
  /\ ready # << >> /\ Head(ready) \in reading
  /\ ready' = AddTasks(Tail(ready), <<Head(ready)>>)
  /\ UNCHANGED <<current, status, procVars, blockVars, panic>>

(* The timer interrupt: check_timer wakes all the sleepers whose time has  *)
(* come, which may be any of them, in that order; then preempt.            *)
TimerInterrupt(t) ==
  /\ Running(t)
  /\ \E woken \in UNION {SetToSeqs(S) : S \in SUBSET asleep} :
       /\ asleep' = asleep \ Range(woken)
       /\ SuspendCurrent(woken)
  /\ UNCHANGED <<procVars, waiting, pinned, reading, panic>>

SysYield(t) ==
  /\ Running(t)
  /\ SuspendCurrent(<< >>)
  /\ UNCHANGED <<procVars, blockVars, panic>>

(* run_tasks switches to a task, which drops the Arc it kept, if any, and  *)
(* goes through trap_return: current_trap_cx_user_va unwraps its res.      *)
Dispatch ==
  /\ panic = "none"
  /\ RunTasks
  /\ pinned' = pinned \ {Head(ready)}
  /\ reading' = reading \ {Head(ready)}
  /\ panic' = IF HasRes(Head(ready)) THEN "none" ELSE "trap_return"
  /\ UNCHANGED <<procVars, waiting, asleep>>

(* The machine is shut down after a panic. *)
Stopped == panic # "none" /\ UNCHANGED vars

Next ==
  \/ /\ \/ \E t \in Tasks :
             \/ ThreadCountPanic(t) \/ SysFork(t) \/ SysThreadCreate(t) \/ SysExit(t)
             \/ \E w \in {None} \cup {pcb[p].pid : p \in Live} : SysWaitpid(t, w)
             \/ \E tid \in 0 .. Cardinality(Tasks) : SysWaittid(t, tid)
             \/ SysWait(t) \/ SysWake(t) \/ SysSleep(t) \/ SysReadSuspends(t)
             \/ TimerInterrupt(t) \/ SysYield(t)
        \/ Dispatch \/ ReadsOn
     /\ UNCHANGED joins
  \/ Stopped

Spec == Init /\ [][Next]_vars

(* The kernel goes on, a pending timer interrupt is taken in user mode,    *)
(* and initproc's loop gets to its waitpid.                                *)
Fairness ==
  /\ WF_vars((Dispatch \/ ReadsOn) /\ UNCHANGED joins)
  /\ SF_vars(\E t \in Tasks : TimerInterrupt(t) /\ UNCHANGED joins)
  /\ SF_vars(SysWaitpid(InitTask, None) /\ UNCHANGED joins)

FairSpec == Spec /\ Fairness

-----------------------------------------------------------------------------
(* Properties.                                                             *)

Ids(a) == (0 .. a.current - 1) \ Range(a.recycled)

(* Types of the variables; pids are small, because an id is minted only    *)
(* when no released one is left.                                           *)
TypeOK ==
  /\ pids \in [current : 0 .. Cardinality(Procs), recycled : Seq(Nat)]
  /\ ready \in Seq(Tasks)
  /\ current \in Tasks \cup {NoTask}
  /\ status \in [Tasks -> TaskStatus]
  /\ \A p \in Procs :
       /\ pcb[p].pid \in Nat \cup {None}
       /\ pcb[p].parent \in Procs
       /\ pcb[p].children \in Seq(Procs)
       /\ pcb[p].is_zombie \in {"yes", "no"}
       /\ pcb[p].tasks \in Seq(Tasks \cup {NoTask})
  /\ tcb \in [Tasks -> [proc : Procs, tid : Nat \cup {None}, exited : {"yes", "no"}]]
  /\ waiting \subseteq Tasks
  /\ asleep \subseteq Tasks
  /\ reading \subseteq pinned /\ pinned \subseteq Tasks
  /\ panic \in {"none", "thread_count", "strong_count", "index", "trap_return"}

(* No process is lost: each one but initproc is once in the children list  *)
(* of the one process that is its parent, and that parent is not a zombie, *)
(* so somebody can still wait for it.                                      *)
FamilyTree ==
  \A c \in Live \ {InitProc} :
    /\ pcb[c].parent \in Live
    /\ pcb[pcb[c].parent].is_zombie = "no"
    /\ Cardinality({<<p, i>> \in Live \X (1 .. Cardinality(Procs)) :
          i \in DOMAIN pcb[p].children /\ pcb[p].children[i] = c}) = 1
    /\ c \in Range(pcb[pcb[c].parent].children)

(* A number names one process or thread until it is given back.  The pids  *)
(* in use are exactly the ones of live PCBs, each once; the tids in use in *)
(* a process are exactly those of its threads with user resources, each    *)
(* once, and tasks[tid] is that thread, so gettid, waittid and the user    *)
(* stack positions agree.                                                  *)
PidsUnique ==
  /\ Ids(pids) = {pcb[p].pid : p \in Live}
  /\ \A p, q \in Live : pcb[p].pid = pcb[q].pid => p = q
TidsUnique ==
  \A p \in Live :
    LET own == {t \in Threads(p) : HasRes(t)} IN
    /\ Ids(pcb[p].tids) = {tcb[t].tid : t \in own}
    /\ \A t \in own : pcb[p].tasks[tcb[t].tid + 1] = t
    /\ \A t \in Threads(p) : ProcOf(t) = p
IdsUnique == PidsUnique /\ TidsUnique

(* A scheduled or blocked thread of a running process keeps its resources. *)
(* An exited thread is never scheduled again.                              *)
ScheduledThreads ==
  /\ \A t \in Range(ready) \cup waiting \cup asleep \cup ({current} \ {NoTask}) :
       tcb[t].exited = "no"
  /\ \A p \in Live, t \in Tasks :
       (pcb[p].is_zombie = "no" /\ t \in Unfinished(p))
         => HasRes(t) /\ (t \in Range(ready) \cup waiting \cup asleep \/ current = t)

(* Programs that join their threads can stop the kernel in two ways only:  *)
(* waittid of a tid that was never given out, and fork or exec after       *)
(* threads were created.  A parent that waits finds no Arc of the child    *)
(* left, and no thread goes back to user mode without its resources.       *)
NoPanic == joins => panic \in {"none", "index", "thread_count"}

(* A zombie whose parent has exited, or never was another than initproc,   *)
(* is eventually reaped, unless the kernel stops.                          *)
OrphansReaped ==
  \A c \in Procs \ {InitProc} :
    (pcb[c].is_zombie = "yes"
       /\ (pcb[c].parent = InitProc \/ pcb[pcb[c].parent].is_zombie = "yes"))
      ~> (pcb[c].pid = None \/ panic # "none")

=============================================================================
