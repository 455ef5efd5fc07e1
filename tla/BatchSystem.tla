---------------------------- MODULE BatchSystem ----------------------------
(***************************************************************************)
(* The chapter 2 kernel (os2-ref): applications linked into the kernel are *)
(* copied one after another to the same address and run in user mode.      *)
(* There is one kernel stack.  A trap pushes the registers onto it; an     *)
(* application that ends never returns from its last trap, and the next    *)
(* one is started by a trap context that run_next_app puts in the same     *)
(* place and that __restore pops.                                          *)
(*                                                                         *)
(* Memory is not protected in this chapter; the applications modelled      *)
(* touch their own area only.  An application's code and data are its      *)
(* image; the stack it runs on is not cleared between applications, and    *)
(* is left out.                                                            *)
(***************************************************************************)
EXTENDS Integers, Sequences, SequencesExt

CONSTANTS
  Images,           \* the applications linked into the kernel, as their bytes
  APP_SIZE_LIMIT,   \* bytes of the area that applications are copied to
  KernelTop,        \* KERNEL_STACK.get_sp(), in trap contexts from the bottom
  UserTop,          \* USER_STACK.get_sp()
  APP_BASE_ADDRESS,
  Bytes,            \* values of a byte and of a register
  MaxSteps          \* instructions of an application before it must end

VARIABLES
  current_app,   \* the application to be started next
  area,          \* contents of the application area
  kstack,        \* trap contexts by place on the kernel stack
  hart,          \* what the processor is at, and its registers
  own            \* pc, register, stack pointer and area the running
                 \* application has by its own doing

batchVars == << current_app, area, kstack, hart, own >>

num_app == Len(Images)
Area == 1 .. APP_SIZE_LIMIT
Zero == 0

-----------------------------------------------------------------------------
(* Faulty variants, for showing that the property depends on the code.     *)

\* The application is copied over what its predecessor left.
load_appOver(app_id, mem) ==
  [i \in Area |-> IF i <= Len(Images[app_id]) THEN Images[app_id][i] ELSE mem[i]]

-----------------------------------------------------------------------------

\* load_app: the area is cleared, then the application is copied to its start.
load_app(app_id, mem) ==
  LET cleared == [i \in Area |-> Zero]
  IN  [i \in Area |-> IF i <= Len(Images[app_id]) THEN Images[app_id][i] ELSE cleared[i]]

\* TrapContext::app_init_context.
app_init_context(entry, sp) == [x10 |-> Zero, x12 |-> Zero, sp |-> sp, sepc |-> entry]

\* __restore with the context at place cx: the registers are loaded, the
\* context is released, and the stack pointers of user and kernel change places.
restore(stack, cx) ==
  [at |-> "user", x10 |-> stack[cx].x10, x12 |-> stack[cx].x12, pc |-> stack[cx].sepc, sp |-> stack[cx].sp,
   sscratch |-> cx + 1, cause |-> "none"]

\* run_next_app: load, advance, push the first context at the top of the kernel
\* stack and restore it.  When no application is left load_app panics.
run_next_app ==
  IF current_app > num_app
    THEN /\ hart' = [hart EXCEPT !.at = "completed"]
         /\ UNCHANGED << current_app, area, kstack, own >>
    ELSE /\ area' = load_app(current_app, area)
         /\ current_app' = current_app + 1
         /\ kstack' = [kstack EXCEPT ![KernelTop - 1] = app_init_context(APP_BASE_ADDRESS, UserTop)]
         /\ hart' = restore(kstack', KernelTop - 1)
         /\ own' = [pc |-> APP_BASE_ADDRESS, x10 |-> Zero, x12 |-> Zero, sp |-> UserTop, steps |-> 0,
                    mem |-> [i \in Area |-> IF i <= Len(Images[current_app]) THEN Images[current_app][i] ELSE Zero]]

\* The state at the first run_next_app of rust_main: APP_MANAGER built from
\* the table the linker left, memory and stack as the machine had them.
Init ==
  /\ current_app = 1
  /\ area \in {[i \in Area |-> b] : b \in Bytes}
  /\ kstack = [p \in 0 .. KernelTop - 1 |-> app_init_context(Zero, Zero)]
  /\ hart = [at |-> "boot", x10 |-> Zero, x12 |-> Zero, pc |-> Zero, sp |-> KernelTop, sscratch |-> Zero, cause |-> "none"]
  /\ own = [pc |-> Zero, x10 |-> Zero, x12 |-> Zero, sp |-> Zero, steps |-> 0, mem |-> [i \in Area |-> Zero]]

Boot ==
  /\ hart.at = "boot"
  /\ run_next_app

\* An instruction that computes or loads.
Compute(v, w) ==
  /\ hart.at = "user" /\ own.steps < MaxSteps
  /\ hart' = [hart EXCEPT !.x10 = v, !.x12 = w, !.pc = @ + 4]
  /\ own' = [own EXCEPT !.x10 = v, !.x12 = w, !.pc = @ + 4, !.steps = @ + 1]
  /\ UNCHANGED << current_app, area, kstack >>

\* A store to the application's area.
Store(i) ==
  /\ hart.at = "user" /\ own.steps < MaxSteps
  /\ area' = [area EXCEPT ![i] = hart.x10]
  /\ hart' = [hart EXCEPT !.pc = @ + 4]
  /\ own' = [own EXCEPT !.mem[i] = own.x10, !.pc = @ + 4, !.steps = @ + 1]
  /\ UNCHANGED << current_app, kstack >>

\* An instruction that traps: __alltraps exchanges the stack pointers and
\* pushes the registers onto the kernel stack.
alltraps(cause) ==
  /\ hart.at = "user"
  /\ cause = "write" => own.steps < MaxSteps
  /\ kstack' = [kstack EXCEPT ![hart.sscratch - 1] =
                [x10 |-> hart.x10, x12 |-> hart.x12, sp |-> hart.sp, sepc |-> hart.pc]]
  /\ hart' = [hart EXCEPT !.at = "kernel", !.cause = cause, !.sp = hart.sscratch - 1, !.sscratch = hart.sp]
  /\ own' = IF cause = "write" THEN [own EXCEPT !.x10 = own.x12, !.pc = @ + 4, !.steps = @ + 1] ELSE own
  /\ UNCHANGED << current_app, area >>

\* sys_write to the console: the result is the length passed in x12.  (Another
\* descriptor is a panic; these applications write to the console.)
sys_write(cx) == [cx EXCEPT !.sepc = @ + 4, !.x10 = cx.x12]

\* trap_handler, and __restore when it returns.  An exit, a store fault and an
\* illegal instruction start the next application instead.
trap_handler ==
  /\ hart.at = "kernel"
  /\ \/ /\ hart.cause = "write"
        /\ kstack' = [kstack EXCEPT ![hart.sp] = sys_write(@)]
        /\ hart' = restore(kstack', hart.sp)
        /\ UNCHANGED << current_app, area, own >>
     \/ /\ hart.cause \in {"exit", "StoreFault", "IllegalInstruction"}
        /\ run_next_app

Completed == hart.at = "completed" /\ UNCHANGED batchVars

Next ==
  \/ Boot
  \/ \E v, w \in Bytes : Compute(v, w)
  \/ \E i \in Area : Store(i)
  \/ \E cause \in {"write", "exit", "StoreFault", "IllegalInstruction"} : alltraps(cause)
  \/ trap_handler
  \/ Completed

Spec == Init /\ [][Next]_batchVars

-----------------------------------------------------------------------------

\* Whatever its predecessors did and however they ended, an application in
\* user mode finds the registers and the memory its own image and instructions
\* made, and the whole kernel stack is free for its next trap: contexts of
\* applications that never returned do not pile up.
RunsAlone ==
  hart.at = "user" =>
    /\ area = own.mem
    /\ << hart.pc, hart.x10, hart.x12, hart.sp >> = << own.pc, own.x10, own.x12, own.sp >>
    /\ hart.sscratch = KernelTop

=============================================================================
