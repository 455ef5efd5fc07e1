---------------------------- MODULE MCPrograms -----------------------------
(***************************************************************************)
(* The user programs on the kernels they are written for, for TLC.  Which  *)
(* kernel runs is chosen at the start: TaskManager with the applications   *)
(* of chapters 2 and 3, FileKernel with one line typed at a shell,         *)
(* ThreadKernel with one program of chapter 8, or one of the two programs  *)
(* that schedule coroutines of their own (Coroutines).                     *)
(***************************************************************************)
EXTENDS UserPrograms

CONSTANTS Workloads, BootTime, MaxCalls, MaxSlices, Apps, Sessions, InitialFiles,
          RingBufferSize, Mains, Threads, Tasks, NoTask, SpinMutexes, BlockingMutexes,
          Semaphores, Condvars, InitCount, MaxCount, NoMutex, Pollers, SleepTimes, MaxTime,
          UsizeCount

VARIABLES kernel, ready, current, slices, now, tasks, calls, completed, tcb, pids, panicked,
          chapter, fd_table, objects, pipes, files, input, moved, written, status, created,
          wait_queue, count, locked, holds, timers, cont, prog, mem, exit_code, tids, halted,
          rounds, spawned, coroutines, currentTask, cpu, lines, queue, pushed, steps, done

TM == INSTANCE TaskManager
FK == INSTANCE FileKernel WITH MaxTime <- Period
TK == INSTANCE ThreadKernel
CO == INSTANCE Coroutines WITH MAX_TASKS <- 4, MaxRounds <- 3, tasks <- coroutines,
                               Instances <- 3, Awaits <- 3

onlyTM == <<tasks, calls, completed>>
onlyFK == <<tcb, pids, panicked, chapter, fd_table, objects, pipes, files, input, moved, written>>
onlyTK == <<status, created, wait_queue, count, locked, holds, timers, cont, prog, mem,
            exit_code, tids, halted>>
onlyCO == <<rounds, spawned, coroutines, currentTask, cpu, lines>>
onlyEX == <<queue, pushed, steps, done>>
kernels == <<ready, current, slices, now, onlyTM, onlyFK, onlyTK>>
progVars == <<kernel, kernels, onlyCO, onlyEX>>

(* The variables of a kernel that is not chosen. *)
NoTM == tasks = << >> /\ calls = << >> /\ completed = FALSE
NoFK ==
  /\ tcb = << >> /\ pids = << >> /\ panicked = << >> /\ chapter = 0 /\ fd_table = << >> /\ objects = << >>
  /\ pipes = << >> /\ files = << >> /\ input = << >> /\ moved = << >> /\ written = << >>
NoTK ==
  /\ status = << >> /\ created = << >> /\ wait_queue = << >> /\ count = << >>
  /\ locked = << >> /\ holds = << >> /\ timers = << >> /\ cont = << >> /\ prog = << >>
  /\ mem = << >> /\ exit_code = << >> /\ tids = << >> /\ halted = << >>
NoCO ==
  /\ rounds = << >> /\ spawned = 0 /\ coroutines = << >> /\ currentTask = 0 /\ cpu = << >>
  /\ lines = << >>
NoEX == queue = << >> /\ pushed = 0 /\ steps = << >> /\ done = FALSE
NoKernel == ready = << >> /\ current = 0 /\ slices = << >> /\ now = 0 /\ NoTM /\ NoFK /\ NoTK

Init ==
  \/ kernel = "TM" /\ TM!Init /\ ready = << >> /\ NoFK /\ NoTK /\ NoCO /\ NoEX
  \/ kernel = "FK" /\ FK!Init /\ NoTM /\ NoTK /\ NoCO /\ NoEX
  \/ kernel = "TK" /\ TK!ThreadInit /\ NoTM /\ NoFK /\ NoCO /\ NoEX
  \/ kernel = "CO" /\ CO!Init /\ NoKernel /\ NoEX
  \/ kernel = "EX" /\ CO!ExInit /\ NoKernel /\ NoCO

Interrupt == \E t \in Tasks : TK!Interrupt(t)

Next ==
  /\ UNCHANGED kernel
  /\ \/ kernel = "TM" /\ TM!Next /\ UNCHANGED <<ready, onlyFK, onlyTK, onlyCO, onlyEX>>
     \/ kernel = "FK" /\ FK!Next /\ UNCHANGED <<onlyTM, onlyTK, onlyCO, onlyEX>>
     \/ kernel = "TK" /\ TK!ThreadNext /\ UNCHANGED <<onlyTM, onlyFK, onlyCO, onlyEX>>
     \/ kernel = "CO" /\ CO!Next /\ UNCHANGED <<kernels, onlyEX>>
     \/ kernel = "EX" /\ CO!ExNext /\ UNCHANGED <<kernels, onlyCO>>

(* The fairness of FairSpec in each of the modules, and of FairThreadSpec  *)
(* in ThreadKernel.                                                        *)
Ended ==
  \/ kernel = "TM" /\ completed
  \/ kernel = "TK" /\ TK!Finished
  \/ kernel = "CO" /\ CO!Finished
  \/ kernel = "EX" /\ done
notFK == <<kernel, onlyTM, onlyTK, onlyCO, onlyEX>>
notTK == <<kernel, onlyTM, onlyFK, onlyCO, onlyEX>>
FairSpec ==
  /\ Init /\ [][Next]_progVars
  /\ []<>Ended \/ []<><<TRUE>>_progVars
  /\ WF_progVars(kernel = "FK" /\ FK!Tick /\ UNCHANGED notFK)
  /\ WF_progVars(kernel = "TK" /\ TK!Clock /\ UNCHANGED notTK)
  /\ SF_progVars(kernel = "TK" /\ Interrupt /\ UNCHANGED notTK)

-----------------------------------------------------------------------------
(* Properties.                                                             *)

(* Every assertion in the programs holds, in every order in which the      *)
(* scheduler and the timer interleave tasks, processes and threads: see    *)
(* AssertsHold of TaskManager and FileKernel, ThreadAssertsHold.           *)
AssertsHold ==
  CASE kernel = "TM" -> TM!AssertsHold
    [] kernel = "FK" -> FK!AssertsHold
    [] kernel = "TK" -> TK!ThreadAssertsHold
    [] OTHER -> TRUE

(* Nothing a program writes is lost or doubled: redirected output is       *)
(* complete, see OutputKept of FileKernel, and the consumer of             *)
(* ch8b_mpsc_sem prints what the producers have put into the ring, however *)
(* its slots are reused.                                                   *)
Delivered ==
  \A i \in 0 .. ThreadCount - 1 :
    LET n == Len(SelectSeq(mem["printed"], LAMBDA x : x = i)) IN
    n <= PerThread /\ (TK!Finished => n = PerThread)
OutputComplete ==
  /\ kernel = "FK" => FK!OutputKept
  /\ kernel = "TK" /\ "printed" \in DOMAIN mem => Delivered

(* A coroutine goes on where and as it stopped: see LocalsKept and InTurn  *)
(* of Coroutines.                                                          *)
ResumedInPlace ==
  /\ kernel = "CO" => CO!LocalsKept
  /\ kernel = "EX" => CO!InTurn

(* Every program ends and leaves nothing behind, in every interleaving:    *)
(* see AppsComplete of TaskManager, TestsFinish of FileKernel,             *)
(* ThreadsFinish of ThreadKernel, AllRun and AllReady of Coroutines.       *)
ProgramsFinish ==
  <>[](CASE kernel = "TM" -> TM!AllExited
         [] kernel = "FK" -> FK!NothingLeft
         [] kernel = "TK" -> TK!NobodyWaits
         [] kernel = "CO" -> CO!AllReturned
         [] kernel = "EX" -> CO!AllStepped)

-----------------------------------------------------------------------------
(* Values of the constants.                                                *)

MCWorkloads ==
  {<<ch2b_power, ch3b_yield, ch2b_bad_address>>, <<ch3_taskinfo, ch2b_power>>,
   <<ch3b_sleep1, ch3b_sleep>>}

MCApps ==
  [initproc5 |-> initproc("ch5b_user_shell"), initproc7 |-> initproc("ch7b_user_shell"),
   initproc8 |-> initproc("ch8b_user_shell"),
   ch5b_user_shell |-> ch5b_user_shell, ch7b_user_shell |-> ch7b_user_shell,
   ch8b_user_shell |-> ch8b_user_shell,
   bad_address |-> ch2b_bad_address, bad_instructions |-> ch2b_bad_instructions,
   bad_register |-> ch2b_bad_register,
   exit |-> ch5b_exit, forktest |-> ch5b_forktest,
   forktest_simple |-> ch5b_forktest_simple, forktree |-> ch5b_forktree,
   filetest |-> ch6b_filetest_simple, file0 |-> ch6_file0, cat6 |-> ch6b_cat,
   cat |-> ch7b_cat, pipetest |-> ch7b_pipetest,
   ch7b_pipe_large_test |-> ch7b_pipe_large_test,
   run_pipe_test |-> ch7b_run_pipe_test, yield |-> ch7b_yield,
   exit0 |-> ch5_exit0, exit1 |-> ch5_exit1, getpid |-> ch5_getpid,
   usertest |-> usertest(<<"getpid", "exit1">>)]

(* A line typed at the shell that initproc starts on the kernel of a chapter. *)
Typed(init, ch, typed) ==
  {[initproc |-> init, chapter |-> ch, keys |-> Append(l, "LF")] : l \in typed}
MCSessions ==
  Typed("initproc5", 5,
        {<<"bad_address">>, <<"bad_instructions">>, <<"bad_register">>, <<"exit">>,
         <<"forktest">>, <<"forktest_simple">>, <<"nosuch">>, <<"x", "BS", "BS", "exit">>, << >>})
  \cup Typed("initproc7", 7,
        {<<"filetest">>, <<"file0">>, <<"cat6">>, <<"pipetest">>, <<"ch7b_pipe_large_test">>,
         <<"run_pipe_test">>, <<"forktest", ">", "out">>, <<"cat", "filea", ">", "out">>,
         <<"yield", "<", "nofile">>, <<"nosuch">>})
  \cup Typed("initproc8", 8,
        {<<"cat", "fileb", "|", "yield">>, <<"yield", ">", "out", "|", "yield">>,
         <<"yield", "<", "filea", ">", "out">>, <<"usertest">>, <<"forktree">>})
MCFiles == [filea |-> <<5, 6, 7>>, fileb |-> <<8>>]
MCText == <<1, 2, 3>>

MCThreads ==
  [thread_a |-> thread_a, thread_b |-> thread_b, thread_c |-> thread_c,
   thread_print |-> thread_print, race_adder_mutex_spin |-> race_adder_mutex_spin,
   race_adder_atomic |-> race_adder_atomic, producer |-> producer, consumer |-> consumer,
   philosopher |-> philosopher_dining_problem, sync_first |-> sync_first,
   sync_second |-> sync_second, first |-> first, second |-> second]

MCMains ==
  {[main |-> ch8b_threads_arg, mem |-> << >>],
   [main |-> ch8b_race_adder_mutex_spin, mem |-> [A |-> 0]],
   [main |-> ch8b_race_adder_atomic, mem |-> [A |-> 0, OCCUPIED |-> FALSE]],
   [main |-> ch8b_mpsc_sem,
    mem |-> [buffer |-> [i \in 1 .. BufferSize |-> 0], front |-> 0, tail |-> 0,
             printed |-> << >>]],
   [main |-> ch8b_phil_din_mutex, mem |-> << >>],
   [main |-> ch8b_sync_sem, mem |-> [A |-> 0]],
   [main |-> ch8b_test_condvar, mem |-> [A |-> 0]]}

(* The program that takes the tids for 1, 2 and 3. *)
MCThreadsOnly == {[main |-> ch8b_threads, mem |-> << >>]}

MCForks == <<"fork0", "fork1">>
MCBlocking == {"mutex"} \cup Range(MCForks)
MCInitCount == [mutex_sem |-> 1, empty |-> BufferSize, existed |-> 0, sync |-> 0]

=============================================================================
