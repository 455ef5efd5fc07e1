----------------------------- MODULE Scheduler -----------------------------
(***************************************************************************)
(* The uniprocessor scheduler of os8-ref/src/task: the FIFO TaskManager,   *)
(* the Processor's current task, and the three ways a task leaves the CPU. *)
(*                                                                         *)
(* The kernel runs with supervisor interrupts off, so what a task executes *)
(* between being switched in and its next schedule() is one atomic step.   *)
(* Within such a step the code may call add_task several times before it   *)
(* leaves the CPU; each operator takes those tasks as the sequence woken.  *)
(***************************************************************************)
EXTENDS Integers, Sequences, Functions, FiniteSets

CONSTANTS Tasks,   \* the task control blocks
          NoTask   \* None in Processor::current

ASSUME NoTaskAssumption == NoTask \notin Tasks

VARIABLES ready,   \* TaskManager::ready_queue
          current, \* Processor::current
          status   \* TaskControlBlockInner::task_status

schedVars == <<ready, current, status>>

(* The sequences that hold each element of a finite set once. *)
Orders(S) == Bijection(1 .. Cardinality(S), S)

TaskStatus == {"UnInit", "Ready", "Running", "Blocking"}

-----------------------------------------------------------------------------
(* Faulty variants, for showing that the properties depend on the code. *)

(* add puts tasks in front of the queue. *)
AddTasksFront(q, ts) == ts \o q

(* block_current_and_run_next also queues the task as if it were ready. *)
BlockCurrentQueued(woken) ==
  /\ status' = [status EXCEPT ![current] = "Blocking"]
  /\ ready' = ready \o woken \o <<current>>
  /\ current' = NoTask

(* exit_current_and_run_next puts the task back in the ready queue. *)
ExitCurrentQueued ==
  /\ ready' = Append(ready, current)
  /\ current' = NoTask
  /\ UNCHANGED status

-----------------------------------------------------------------------------
(* add_task on each of ts in turn: push_back. *)
AddTasks(q, ts) == q \o ts

(* One round of run_tasks that finds a task: fetch it, mark it Running,    *)
(* make it current and switch to it.  With an empty queue the loop only    *)
(* prints, so there is no step.                                            *)
RunTasks ==
  /\ current = NoTask
  /\ ready # << >>
  /\ current' = Head(ready)
  /\ ready' = Tail(ready)
  /\ status' = [status EXCEPT ![Head(ready)] = "Running"]

(* The current task goes on running after waking others. *)
KeepRunning(woken) ==
  /\ ready' = AddTasks(ready, woken)
  /\ UNCHANGED <<current, status>>

(* suspend_current_and_run_next *)
SuspendCurrent(woken) ==
  /\ status' = [status EXCEPT ![current] = "Ready"]
  /\ ready' = AddTasks(AddTasks(ready, woken), <<current>>)
  /\ current' = NoTask

(* block_current_and_run_next: whoever called it keeps the task in a wait  *)
(* queue or in the timer heap.                                             *)
BlockCurrent(woken) ==
  /\ status' = [status EXCEPT ![current] = "Blocking"]
  /\ ready' = AddTasks(ready, woken)
  /\ current' = NoTask

(* take_current_task in exit_current_and_run_next; the status is left as   *)
(* it was, nobody queues the task again.                                   *)
ExitCurrent ==
  /\ current' = NoTask
  /\ UNCHANGED <<ready, status>>

=============================================================================
