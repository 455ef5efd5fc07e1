---------------------------- MODULE TaskManager ----------------------------
(***************************************************************************)
(* The kernel of chapter 3 with its laboratory exercise (os3/src/task,     *)
(* syscall/process.rs, trap/mod.rs): applications that are loaded together *)
(* and share the CPU in turn, each with the information that sys_task_info *)
(* returns.                                                                *)
(*                                                                         *)
(* The clock counts time slices: it goes forward when a slice ends, and    *)
(* the time that passes within a slice is not modelled.                    *)
(***************************************************************************)
EXTENDS UserLib

CONSTANTS Workloads, \* the sequences of applications that may be loaded
          BootTime,  \* the time when the first task is run
          MaxSlices, \* bound on the time slices that end between two calls of a task
          MaxCalls   \* bound on the calls of a task between two ticks of the clock

VARIABLES tasks,     \* TaskManagerInner::tasks
          current,   \* TaskManagerInner::current_task
          now,       \* get_time_us() / 1000
          slices,    \* time slices that have ended since the last call of each task
          calls,     \* calls of each task since the last tick of the clock
          completed  \* the kernel has panicked: All applications completed!

vars == <<tasks, current, now, slices, calls, completed>>

Ids == 0 .. Len(tasks) - 1
Task(i) == tasks[i + 1]

-----------------------------------------------------------------------------
(* Faulty variants, for showing that the properties depend on the code. *)

(* The search ends before it comes back to the current task. *)
CandidatesOthers(n) == [k \in 1 .. n - 1 |-> (current + k) % n]

-----------------------------------------------------------------------------
(* find_next_task: the first Ready task after the current one, in a circle *)
(* that ends with the current one.                                         *)
Candidates(n) == [k \in 1 .. n |-> (current + k) % n]

FindNextTask(T) ==
  SelectSeq(Candidates(Len(T)), LAMBDA id : T[id + 1].status = "Ready")

(* start_time is 0 until the task is run for the first time. *)
StartTime(start, time) == IF start = 0 THEN time ELSE start

(* run_next_task, at time, after the status of the current task is set. *)
RunNextTask(T, time) ==
  LET found == FindNextTask(T) IN
  IF found = << >>
  THEN tasks' = T /\ completed' = TRUE /\ UNCHANGED current
  ELSE /\ tasks' = [T EXCEPT ![found[1] + 1].status = "Running",
                             ![found[1] + 1].start_time = StartTime(@, time)]
       /\ current' = found[1]
       /\ UNCHANGED completed

MarkCurrent(T, st) == [T EXCEPT ![current + 1].status = st]

-----------------------------------------------------------------------------
(* TASK_MANAGER and run_first_task *)
Init ==
  /\ \E w \in Workloads :
       tasks = [i \in DOMAIN w |->
                  [status |-> IF i = 1 THEN "Running" ELSE "Ready",
                   start_time |-> IF i = 1 THEN BootTime ELSE 0,
                   syscall_times |-> [write |-> 0, yield |-> 0, exit |-> 0, get_time |-> 0,
                                      task_info |-> 0],
                   prog |-> Started(w[i], << >>)]]
  /\ current = 0
  /\ now = BootTime
  /\ slices = [i \in Ids |-> 0]
  /\ calls = slices
  /\ completed = FALSE

(* update_current_syscall_times, before the call is handled *)
Counted(name) == [tasks EXCEPT ![current + 1].syscall_times[name] = @ + 1]

(* The current task makes system call name. *)
Calls(name) == ~completed /\ Called(Task(current).prog) = name

Returns(name, result, mem) ==
  /\ tasks' = [Counted(name) EXCEPT ![current + 1].prog = ResumedWith(@, result, mem)]
  /\ UNCHANGED <<current, completed>>

SysWrite == Calls("write") /\ Returns("write", Len(Arg(Task(current).prog, 2)), << >>)

SysGetTime == Calls("get_time") /\ Returns("get_time", 0, <<now \div Second, now % Second>>)

(* get_current_task_info *)
SysTaskInfo ==
  LET t == Counted("task_info")[current + 1] IN
  /\ Calls("task_info")
  /\ Returns("task_info", 0,
             <<t.status, t.syscall_times.write, t.syscall_times.yield, t.syscall_times.exit,
               t.syscall_times.get_time, t.syscall_times.task_info, now - t.start_time>>)

SysYield ==
  /\ Calls("yield")
  /\ RunNextTask(MarkCurrent([Counted("yield") EXCEPT ![current + 1].prog = Resumed(@, 0)],
                             "Ready"), now)

SysExit == Calls("exit") /\ RunNextTask(MarkCurrent(Counted("exit"), "Exited"), now)

(* A store or an instruction that traps. *)
Fault == Calls("fault") /\ RunNextTask(MarkCurrent(tasks, "Exited"), now)

(* The timer interrupt: the current slice ends. *)
Interrupt ==
  /\ ~completed
  /\ slices[current] < MaxSlices
  /\ now' = now + 1
  /\ RunNextTask(MarkCurrent(tasks, "Ready"), now + 1)
  /\ slices' = [slices EXCEPT ![current] = @ + 1]
  /\ calls' = [i \in Ids |-> 0]

Step ==
  /\ calls[current] < MaxCalls
  /\ calls' = [calls EXCEPT ![current] = @ + 1]
  /\ SysWrite \/ SysGetTime \/ SysTaskInfo \/ SysYield \/ SysExit \/ Fault
  /\ slices' = [slices EXCEPT ![current] = 0]
  /\ UNCHANGED now

Next ==
  \/ Step
  \/ Interrupt
  \/ completed /\ UNCHANGED vars

Spec == Init /\ [][Next]_vars

(* The machine goes on until it has completed all applications. *)
FairSpec == Spec /\ ([]<>completed \/ []<><<TRUE>>_vars)

-----------------------------------------------------------------------------
(* Properties.                                                             *)

(* Every assertion in the applications holds: sys_task_info counts the     *)
(* calls of the task that asks, the one in progress included, and measures *)
(* time from its first dispatch.                                           *)
AssertsHold == \A i \in Ids : ~Task(i).prog.failed

(* Round robin starves no task: all applications run to their exit, and    *)
(* only then does the kernel find no task to run.                          *)
AllExited == completed /\ \A i \in Ids : Task(i).status = "Exited"
AppsComplete == <>[]AllExited

=============================================================================
