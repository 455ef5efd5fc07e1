-------------------------- MODULE Multiprogramming --------------------------
(***************************************************************************)
(* The chapter 3 kernel (os3-ref): the applications are all loaded at      *)
(* boot, each to an area of its own, and take turns: a task gives up the   *)
(* processor by a system call, or the timer takes it away.  Every task has *)
(* its own kernel stack.  A trap leaves the user's registers on it,        *)
(* __switch leaves the kernel's in the task's TaskContext, and a task that *)
(* has never run has a TaskContext that leads to __restore.                *)
(*                                                                         *)
(* Memory is not protected in this chapter; the applications modelled      *)
(* store to their own area only.  A trap context is one place of a kernel  *)
(* stack.  Of the registers are kept: a0, which carries results, s0, which *)
(* the compiler keeps trap_handler's argument in across calls, the stack   *)
(* pointer and the program counter.                                        *)
(***************************************************************************)
EXTENDS Integers, Sequences, FiniteSets, TLC

CONSTANTS
  Images,             \* the applications linked into the kernel, as their bytes
  MAX_APP_NUM,
  APP_BASE_ADDRESS,
  APP_SIZE_LIMIT,
  KERNEL_STACK_SIZE,  \* in trap contexts
  UserTops,           \* USER_STACK[i].get_sp(), by task
  MICRO_PER_SEC,
  Times,              \* readings of the clock, in microseconds
  Bytes,              \* values of a byte and of a register
  MaxSteps            \* instructions of an application before it must end

VARIABLES
  tasks,          \* TaskManagerInner: task_cx and task_status by task
  current_task,
  mem,            \* the areas of the applications, by address
  kstack,         \* the kernel stacks, one after the other, by place
  hart,           \* what the processor is at, and its registers
  own             \* by task: registers and area it has by its own doing

mpVars == << tasks, current_task, mem, kstack, hart, own >>

num_app == Len(Images)
Tasks == 0 .. MAX_APP_NUM - 1
Loaded == 0 .. num_app - 1
Zero == 0

-----------------------------------------------------------------------------
(* Loading. *)

get_base_i(app_id) == APP_BASE_ADDRESS + app_id * APP_SIZE_LIMIT

Area(i) == get_base_i(i) .. get_base_i(i) + APP_SIZE_LIMIT - 1

\* The image of application i at its base, zeros behind it.
Image(i) ==
  [a \in Area(i) |->
     LET k == a - get_base_i(i) + 1 IN IF k <= Len(Images[i + 1]) THEN Images[i + 1][k] ELSE Zero]

\* load_apps: every area is cleared, then the application is copied to its
\* start; the last one loaded wins where two overlap.
load_apps ==
  LET Owner(a) == CHOOSE i \in Loaded : a \in Area(i) /\ \A j \in Loaded : a \in Area(j) => j <= i
  IN  [a \in UNION {Area(i) : i \in Loaded} |-> Image(Owner(a))[a]]

\* KERNEL_STACK[i].get_sp()
KernelTop(i) == (i + 1) * KERNEL_STACK_SIZE

app_init_context(entry, sp) == [a0 |-> Zero, s0 |-> Zero, sp |-> sp, sepc |-> entry]

\* init_app_cx for every application: the first trap context is pushed.
InitAppCx ==
  [p \in 0 .. KernelTop(MAX_APP_NUM - 1) - 1 |->
     IF \E i \in Loaded : p = KernelTop(i) - 1
       THEN LET i == CHOOSE i \in Loaded : p = KernelTop(i) - 1
            IN  app_init_context(get_base_i(i), UserTops[i + 1])
       ELSE app_init_context(Zero, Zero)]

zero_init == [ra |-> "none", sp |-> 0, s0 |-> Zero]
goto_restore(kstack_ptr) == [ra |-> "restore", sp |-> kstack_ptr, s0 |-> Zero]

Init ==
  /\ tasks = [i \in Tasks |-> IF i < num_app
                THEN [task_cx |-> goto_restore(KernelTop(i) - 1), task_status |-> "Ready"]
                ELSE [task_cx |-> zero_init, task_status |-> "UnInit"]]
  /\ current_task = 0
  /\ mem = load_apps
  /\ kstack = InitAppCx
  /\ hart = [at |-> "boot", a0 |-> Zero, s0 |-> Zero, pc |-> Zero, sp |-> Zero,
             sscratch |-> Zero, cause |-> "none"]
  /\ own = [i \in Loaded |-> [a0 |-> Zero, s0 |-> Zero, pc |-> get_base_i(i), sp |-> UserTops[i + 1],
                              steps |-> 0, mem |-> Image(i)]]

-----------------------------------------------------------------------------
(* Faulty variants, for showing that the property depends on the code.     *)

\* The callee-saved registers are not part of the task context.
switchWithoutS(h, cx) == [h EXCEPT !.at = cx.ra, !.sp = cx.sp]

-----------------------------------------------------------------------------
(* Switching. *)

\* The half of __switch that loads: ra, s0 and sp come from the next context,
\* and the processor goes on where ra says.
switch(h, cx) == [h EXCEPT !.at = cx.ra, !.sp = cx.sp, !.s0 = cx.s0]

\* rust_main ends in run_first_task: task 0 is switched to, and what the boot
\* code had in the registers is saved to nowhere.
run_first_task ==
  /\ hart.at = "boot"
  /\ tasks' = [tasks EXCEPT ![0].task_status = "Running"]
  /\ hart' = switch(hart, tasks[0].task_cx)
  /\ UNCHANGED << current_task, mem, kstack, own >>

\* The first ready task behind the current one, in a circle; -1 for none.
find_next_task(t) ==
  LET Nth(k) == (current_task + k) % num_app
      ready == {k \in 1 .. num_app : t[Nth(k)].task_status = "Ready"}
  IN  IF ready = {} THEN -1 ELSE Nth(CHOOSE k \in ready : \A j \in ready : k <= j)

\* run_next_task, called with the return address ra.
run_next_task(t, h, ra) ==
  LET next == find_next_task(t)
      saved == [t EXCEPT ![current_task].task_cx = [ra |-> ra, sp |-> h.sp, s0 |-> h.s0]]
  IN  IF next = -1
        THEN /\ hart' = [h EXCEPT !.at = "completed"]
             /\ tasks' = t
             /\ UNCHANGED current_task
        ELSE /\ tasks' = [saved EXCEPT ![next].task_status = "Running"]
             /\ current_task' = next
             /\ hart' = switch(h, saved[next].task_cx)

mark_current_suspended == [tasks EXCEPT ![current_task].task_status = "Ready"]
mark_current_exited == [tasks EXCEPT ![current_task].task_status = "Exited"]

suspend_current_and_run_next(h, ra) == run_next_task(mark_current_suspended, h, ra)
exit_current_and_run_next(h) == run_next_task(mark_current_exited, h, "unreachable")

-----------------------------------------------------------------------------
(* Traps. *)

\* __alltraps: the stack pointers change places, the user's registers go to
\* the kernel stack.  The handler keeps its argument in s0.
alltraps(h, cause) ==
  LET cx == h.sscratch - 1
  IN  /\ kstack' = [kstack EXCEPT ![cx] = [a0 |-> h.a0, s0 |-> h.s0, sp |-> h.sp, sepc |-> h.pc]]
      /\ hart' = [h EXCEPT !.at = "handler", !.cause = cause, !.sp = cx, !.sscratch = h.sp, !.s0 = cx]

\* sys_get_time: seconds and microseconds to the two words at ts.
sys_get_time(ts, us) == ts :> (us \div MICRO_PER_SEC) @@ (ts + 1) :> (us % MICRO_PER_SEC)

\* trap_handler for a system call.  The result is stored through the argument
\* kept in s0: after a switch, the one the task left there.
HandleSyscall ==
  LET cx == hart.s0
      stepped == [kstack EXCEPT ![cx].sepc = @ + 4]
      ts == stepped[cx].a0
  IN  /\ hart.at = "handler"
      /\ \/ /\ hart.cause = "yield"
            /\ kstack' = stepped
            /\ suspend_current_and_run_next(hart, "sys_yield")
            /\ UNCHANGED << mem, own >>
         \/ /\ hart.cause = "exit"
            /\ kstack' = stepped
            /\ exit_current_and_run_next(hart)
            /\ UNCHANGED << mem, own >>
         \/ /\ hart.cause = "get_time"
            /\ \E us \in Times :
                 /\ mem' = sys_get_time(ts, us) @@ mem
                 /\ own' = [own EXCEPT ![current_task].mem = sys_get_time(own[current_task].a0, us) @@ @,
                                       ![current_task].a0 = Zero]
            /\ kstack' = [stepped EXCEPT ![cx].a0 = Zero]
            /\ hart' = [hart EXCEPT !.at = "restore"]
            /\ UNCHANGED << tasks, current_task >>

\* trap_handler for a fault and for the timer.
HandleTrap ==
  /\ hart.at = "handler"
  /\ \/ /\ hart.cause \in {"StoreFault", "IllegalInstruction"}
        /\ exit_current_and_run_next(hart)
     \/ /\ hart.cause = "SupervisorTimer"
        /\ suspend_current_and_run_next(hart, "restore")
  /\ UNCHANGED << mem, kstack, own >>

\* A task switched to goes on behind its sys_yield: the result is stored.
YieldReturns ==
  /\ hart.at = "sys_yield"
  /\ kstack' = [kstack EXCEPT ![hart.s0].a0 = Zero]
  /\ hart' = [hart EXCEPT !.at = "restore"]
  /\ UNCHANGED << tasks, current_task, mem, own >>

\* __restore: the registers are loaded from the context at sp, the context is
\* released, the stack pointers change places.
restore ==
  LET cx == kstack[hart.sp]
  IN  /\ hart.at = "restore"
      /\ hart' = [at |-> "user", a0 |-> cx.a0, s0 |-> cx.s0, pc |-> cx.sepc, sp |-> cx.sp,
                  sscratch |-> hart.sp + 1, cause |-> "none"]
      /\ UNCHANGED << tasks, current_task, mem, kstack, own >>

-----------------------------------------------------------------------------
(* The applications: an instruction acts on the processor and on what the  *)
(* application has by its own doing.                                       *)

User == hart.at = "user" /\ own[current_task].steps < MaxSteps

Compute(v, w) ==
  /\ User
  /\ hart' = [hart EXCEPT !.a0 = v, !.s0 = w, !.pc = @ + 4]
  /\ own' = [own EXCEPT ![current_task] = [@ EXCEPT !.a0 = v, !.s0 = w, !.pc = @ + 4, !.steps = @ + 1]]
  /\ UNCHANGED << tasks, current_task, mem, kstack >>

Store(a) ==
  /\ User
  /\ mem' = [mem EXCEPT ![a] = hart.s0]
  /\ hart' = [hart EXCEPT !.pc = @ + 4]
  /\ own' = [own EXCEPT ![current_task] = [@ EXCEPT !.mem[a] = own[current_task].s0, !.pc = @ + 4, !.steps = @ + 1]]
  /\ UNCHANGED << tasks, current_task, kstack >>

\* A system call with a0 as its argument; yield returns zero.
Ecall(cause, arg) ==
  /\ hart.at = "user"
  /\ cause # "exit" => own[current_task].steps < MaxSteps
  /\ alltraps([hart EXCEPT !.a0 = arg], cause)
  /\ own' = [own EXCEPT ![current_task] =
              [@ EXCEPT !.a0 = IF cause = "yield" THEN Zero ELSE arg, !.pc = @ + 4, !.steps = @ + 1]]
  /\ UNCHANGED << tasks, current_task, mem >>

Fault(cause) ==
  /\ User
  /\ alltraps(hart, cause)
  /\ UNCHANGED << tasks, current_task, mem, own >>

TimerInterrupt ==
  /\ hart.at = "user"
  /\ alltraps(hart, "SupervisorTimer")
  /\ UNCHANGED << tasks, current_task, mem, own >>

Completed == hart.at = "completed" /\ UNCHANGED mpVars

Next ==
  \/ run_first_task \/ HandleSyscall \/ HandleTrap \/ YieldReturns \/ restore
  \/ \E v, w \in Bytes : Compute(v, w)
  \/ \E a \in Area(current_task) : Store(a)
  \/ \E cause \in {"yield", "exit"} : Ecall(cause, Zero)
  \/ \E ts \in Area(current_task) : ts + 1 \in Area(current_task) /\ Ecall("get_time", ts)
  \/ \E cause \in {"StoreFault", "IllegalInstruction"} : Fault(cause)
  \/ TimerInterrupt
  \/ Completed

Spec == Init /\ [][Next]_mpVars

-----------------------------------------------------------------------------

\* However the tasks are interleaved, and wherever the timer or a fault
\* interrupts one, a task in user mode has the registers and the memory its
\* image, its instructions and the results of its own calls gave it, its
\* kernel stack is empty, and no other application's area has changed.
TasksApart ==
  /\ hart.at = "user" =>
       LET o == own[current_task]
       IN  /\ << hart.pc, hart.a0, hart.s0, hart.sp >> = << o.pc, o.a0, o.s0, o.sp >>
           /\ hart.sscratch = KernelTop(current_task)
  /\ \A i \in Loaded : \A a \in Area(i) : mem[a] = own[i].mem[a]
  /\ hart.at # "unreachable"

=============================================================================
