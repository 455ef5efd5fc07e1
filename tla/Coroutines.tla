----------------------------- MODULE Coroutines -----------------------------
(***************************************************************************)
(* The two programs of chapter 8 that schedule coroutines of their own.    *)
(* They are machines of their own.                                         *)
(***************************************************************************)
EXTENDS Integers, Sequences, FiniteSets

(* The stackful coroutines of user/src/bin/ch8b_stackful_coroutine.rs: a   *)
(* Runtime with a fixed table of tasks, each with a stack and a context,   *)
(* that switch among themselves.  A context holds the registers that a     *)
(* function call preserves; nx1 is where the task goes on, x1 where the    *)
(* function running there returns to.  The function a task starts with     *)
(* keeps its loop counter in a saved register and its return address on    *)
(* its stack.                                                              *)

CONSTANTS MAX_TASKS,  \* size of the table; task 0 is the base task, main
          MaxRounds   \* most rounds of the loop of a spawned function

VARIABLES rounds,     \* how often each spawned function goes round its loop
          spawned,    \* functions spawned so far
          tasks,      \* state, stack and ctx of every task
          currentTask, \* Runtime::current
          cpu,        \* the registers, and the code they are in
          lines       \* counters each function has printed

coVars == <<rounds, spawned, tasks, currentTask, cpu, lines>>

TaskIds == 0 .. MAX_TASKS - 1
Fns == 1 .. MAX_TASKS - 1

(* Code addresses: 0 is the return into t_yield after switch, a positive   *)
(* number the function of that number.                                     *)
InYield == 0

-----------------------------------------------------------------------------
(* Faulty variants, for showing that the properties depend on the code. *)

(* The callee-saved registers are not saved. *)
SwitchWithoutSaved(T, old, new, caller) ==
  /\ tasks' = [T EXCEPT ![old].ctx = [@ EXCEPT !.x1 = "t_yield", !.nx1 = InYield,
                                                !.x2 = cpu.x2],
                        ![cpu.x2].stack = [@ EXCEPT !.caller = caller]]
  /\ cpu' = LET ctx == tasks'[new].ctx IN
            [at |-> IF ctx.nx1 = InYield THEN tasks'[ctx.x2].stack.caller ELSE "enter",
             x1 |-> ctx.x1, x2 |-> ctx.x2, s |-> ctx.s]

-----------------------------------------------------------------------------
(* Task::new: an empty stack, no context. *)
NewTask(state) ==
  [state |-> state, ctx |-> [x1 |-> "none", nx1 |-> InYield, x2 |-> 0, s |-> 0],
   stack |-> [ra |-> "none", fn |-> 0, caller |-> "none"]]

(* Runtime::new: the base task runs, the others are available. *)
NewRuntime == [i \in TaskIds |-> NewTask(IF i = 0 THEN "Running" ELSE "Available")]

Init ==
  /\ rounds \in [Fns -> 0 .. MaxRounds]
  /\ spawned = 0
  /\ tasks = NewRuntime
  /\ currentTask = 0
  /\ cpu = [at |-> "main", x1 |-> "none", x2 |-> 0, s |-> 0]
  /\ lines = [f \in Fns |-> 0]

(* spawn: the first available task gets a context that starts at f, on top *)
(* of its stack, as if guard had called it.                                *)
SpawnIn(T, f) ==
  LET i == CHOOSE x \in TaskIds : /\ T[x].state = "Available"
                                  /\ \A y \in 0 .. x - 1 : T[y].state # "Available" IN
  [T EXCEPT ![i].ctx = [@ EXCEPT !.x1 = "guard", !.nx1 = f, !.x2 = i],
            ![i].state = "Ready"]

Spawn ==
  /\ cpu.at = "main" /\ spawned < MAX_TASKS - 1
  /\ tasks' = SpawnIn(tasks, spawned + 1)
  /\ spawned' = spawned + 1
  /\ UNCHANGED <<rounds, currentTask, cpu, lines>>

(* switch(old, new): save the registers in one context, load them from the *)
(* other, and jump to its nx1.  What t_yield returns to is on the stack it *)
(* finds there.                                                            *)
Switch(T, old, new, caller) ==
  /\ tasks' = [T EXCEPT ![old].ctx = [x1 |-> "t_yield", nx1 |-> InYield,
                                      x2 |-> cpu.x2, s |-> cpu.s],
                        ![cpu.x2].stack = [@ EXCEPT !.caller = caller]]
  /\ cpu' = LET ctx == tasks'[new].ctx IN
            [at |-> IF ctx.nx1 = InYield THEN tasks'[ctx.x2].stack.caller ELSE "enter",
             x1 |-> ctx.x1, x2 |-> ctx.x2, s |-> ctx.s]

(* t_yield: the first ready task from the current one on, in a circle.     *)
(* With none it returns false; a task that is available stays so.          *)
t_yield(T, caller, onFalse) ==
  LET After(k) == (currentTask + k) % MAX_TASKS
      ready == {k \in 0 .. MAX_TASKS - 1 : T[After(k)].state = "Ready"}
      pos == After(CHOOSE k \in ready : \A j \in ready : k <= j) IN
  IF ready = {}
  THEN /\ tasks' = T
       /\ cpu' = [cpu EXCEPT !.at = onFalse]
       /\ UNCHANGED currentTask
  ELSE /\ currentTask' = pos
       /\ Switch([i \in TaskIds |->
                    CASE i = pos -> [T[i] EXCEPT !.state = "Running"]
                      [] i = currentTask /\ i # pos /\ T[i].state # "Available" ->
                           [T[i] EXCEPT !.state = "Ready"]
                      [] OTHER -> T[i]],
                 currentTask, pos, caller)

(* run: main yields until nobody is ready. *)
Run ==
  /\ cpu.at = "run" \/ (cpu.at = "main" /\ spawned = MAX_TASKS - 1)
  /\ t_yield(tasks, "run", "finished")
  /\ UNCHANGED <<rounds, spawned, lines>>

(* A function starts: its return address goes to its stack, its counter is *)
(* zero.                                                                   *)
Enter ==
  /\ cpu.at = "enter"
  /\ tasks' = [tasks EXCEPT ![cpu.x2].stack = [ra |-> cpu.x1, caller |-> "none",
                                               fn |-> tasks[currentTask].ctx.nx1]]
  /\ cpu' = [cpu EXCEPT !.at = "f", !.s = 0]
  /\ UNCHANGED <<rounds, spawned, currentTask, lines>>

Fn == tasks[cpu.x2].stack.fn

(* A round of the loop: print the counter and yield_task. *)
OneRound ==
  /\ cpu.at = "f" /\ cpu.s < rounds[Fn]
  /\ lines' = [lines EXCEPT ![Fn] = @ + 1]
  /\ t_yield(tasks, "next", "next")
  /\ UNCHANGED <<rounds, spawned>>

NextRound ==
  /\ cpu.at = "next"
  /\ cpu' = [cpu EXCEPT !.at = "f", !.s = @ + 1]
  /\ UNCHANGED <<rounds, spawned, tasks, currentTask, lines>>

(* The function returns to the address on its stack: guard, which calls    *)
(* t_return to give the task up.  Nothing calls guard, so there is nothing *)
(* behind it.                                                              *)
Return ==
  /\ cpu.at = "f" /\ cpu.s >= rounds[Fn]
  /\ IF tasks[cpu.x2].stack.ra = "guard" /\ currentTask # 0
     THEN t_yield([tasks EXCEPT ![currentTask].state = "Available"], "lost", "lost")
     ELSE cpu' = [cpu EXCEPT !.at = "lost"] /\ UNCHANGED <<tasks, currentTask>>
  /\ UNCHANGED <<rounds, spawned, lines>>

Finished == cpu.at = "finished"

Next == Spawn \/ Run \/ Enter \/ OneRound \/ NextRound \/ Return
        \/ (Finished /\ UNCHANGED coVars)

Spec == Init /\ [][Next]_coVars

(* The program goes on until main has finished. *)
FairSpec == Spec /\ ([]<>Finished \/ []<><<TRUE>>_coVars)

-----------------------------------------------------------------------------
(* Properties. *)

(* A coroutine finds its stack and its saved registers as it left them,    *)
(* whoever ran in between: it counts every round once, and returns to the  *)
(* guard below its own stack and nowhere else.                             *)
LocalsKept ==
  /\ cpu.at # "lost"
  /\ cpu.at = "f" => cpu.x2 = currentTask /\ cpu.s = lines[Fn]
  /\ cpu.at = "next" => cpu.x2 = currentTask /\ cpu.s + 1 = lines[Fn]

(* run returns, and not before every function has finished its rounds. *)
AllReturned ==
  /\ Finished /\ lines = rounds
  /\ \A i \in TaskIds \ {0} : tasks[i].state = "Available"
AllRun == <>[]AllReturned

-----------------------------------------------------------------------------
(* The stackless coroutines of user/src/bin/ch8b_stackless_coroutine.rs:   *)
(* an Executor that polls futures in turn.  A future is an async block     *)
(* that awaits a Waiter between its steps; every Waiter of a block borrows *)
(* the block's one Task, whose state says whether this await has been      *)
(* polled.                                                                 *)

CONSTANTS Instances,  \* futures that main pushes
          Awaits      \* awaits in each of them

VARIABLES queue,      \* Executor::tasks
          pushed,     \* futures pushed so far
          steps,      \* the steps each future has taken, in the order of all
          done        \* run has returned

exVars == <<queue, pushed, steps, done>>

-----------------------------------------------------------------------------
(* Faulty variants, for showing that the properties depend on the code. *)

(* An await that is polled again leaves the task halted. *)
WaiterPollStuck(state) ==
  IF state = "Halted" THEN [state |-> "Halted", ready |-> TRUE]
                      ELSE [state |-> "Halted", ready |-> FALSE]

-----------------------------------------------------------------------------
(* Waiter::poll: the first poll of an await halts the task and leaves it   *)
(* pending, the second lets it go on.                                      *)
WaiterPoll(state) ==
  IF state = "Halted" THEN [state |-> "Running", ready |-> TRUE]
                      ELSE [state |-> "Halted", ready |-> FALSE]

(* push: a future that has not been polled, and its running Task. *)
NewFuture(i) == [instance |-> i, at |-> 0, state |-> "Running"]

(* The future takes a step and goes to its next await; it goes on from one *)
(* that is ready, and is ready itself after its last step.                 *)
RECURSIVE GoOn(_, _)
GoOn(f, taken) ==
  LET w == WaiterPoll(f.state)
      g == [f EXCEPT !.at = @ + 1, !.state = w.state] IN
  IF f.at = Awaits THEN [future |-> [f EXCEPT !.at = @ + 1], taken |-> taken + 1]
  ELSE IF w.ready THEN GoOn(g, taken + 1)
  ELSE [future |-> g, taken |-> taken + 1]

(* poll of a future: from its beginning, or from the await it is at. *)
Polled(f) ==
  LET w == WaiterPoll(f.state)
      g == [f EXCEPT !.state = w.state] IN
  IF f.at = 0 THEN GoOn(f, 0)
  ELSE IF w.ready THEN GoOn(g, 0)
  ELSE [future |-> g, taken |-> 0]

ExInit ==
  /\ queue = << >>
  /\ pushed = 0
  /\ steps = << >>
  /\ done = FALSE

Push ==
  /\ pushed < Instances
  /\ queue' = Append(queue, NewFuture(pushed + 1))
  /\ pushed' = pushed + 1
  /\ UNCHANGED <<steps, done>>

(* run: the future at the front is polled, and pushed back if pending. *)
Poll ==
  /\ pushed = Instances /\ queue # << >>
  /\ LET p == Polled(Head(queue))
         f == p.future IN
     /\ queue' = IF f.at > Awaits THEN Tail(queue) ELSE Append(Tail(queue), f)
     /\ steps' = steps \o [k \in 1 .. p.taken |-> f.instance]
  /\ UNCHANGED <<pushed, done>>

Drained ==
  /\ pushed = Instances /\ queue = << >> /\ ~done
  /\ done' = TRUE
  /\ UNCHANGED <<queue, pushed, steps>>

ExNext == Push \/ Poll \/ Drained \/ (done /\ UNCHANGED exVars)

ExSpec == ExInit /\ [][ExNext]_exVars

(* The program goes on until main has finished. *)
FairExSpec == ExSpec /\ ([]<>done \/ []<><<TRUE>>_exVars)

-----------------------------------------------------------------------------
(* Properties. *)

(* The futures take their steps in turn, one at each poll: no future is    *)
(* polled twice without the others, and none gets past an await that was   *)
(* not pending first.                                                      *)
InTurn == \A k \in 1 .. Len(steps) : steps[k] = ((k - 1) % Instances) + 1

(* run returns, and not before every future has taken its last step. *)
AllStepped == done /\ Len(steps) = Instances * (Awaits + 1)
AllReady == <>[]AllStepped

=============================================================================
