---------------------------- MODULE UserPrograms ----------------------------
(***************************************************************************)
(* The programs of user/src/bin that the kernels of chapters 2 to 8 run:   *)
(* initproc, the shells, the tests, and the programs of chapter 8 that     *)
(* have threads.  Sizes and numbers of threads and rounds are parameters,  *)
(* so that TLC can take small ones, and computations whose only use is to  *)
(* take time are left out.                                                 *)
(***************************************************************************)
EXTENDS UserLib

(* Programs with one thread.                                               *)

CONSTANTS MaxChild,  \* MAX_CHILD of ch5b_forktest
          Depth,     \* DEPTH of ch5b_forktree
          Yields,    \* rounds of the loops that only yield
          Text,      \* the string that the file and pipe tests write
          ChunkSize, \* size of the buffer that cat reads into
          BufSize,   \* size of the buffers that are larger than the text
          Period     \* what the programs that poll the clock sleep

-----------------------------------------------------------------------------
(* Faulty variants, for showing that the properties depend on the code. *)

(* The parent of the pipe test keeps its write end open. *)
ch7b_pipetestKeepsEnd ==
  <<pipe("fd"), fork("pid"),
    If(Eq(V("pid"), K(0)),
       <<close(Item(V("fd"), K(1))),
         read(Item(V("fd"), K(0)), K(BufSize), "len", "buf"),
         close(Item(V("fd"), K(0))),
         Check(Eq(V("buf"), K(Text))),
         Return(K(0))>>,
       <<close(Item(V("fd"), K(0))),
         write(Item(V("fd"), K(1)), K(Text), "n"),
         Check(Eq(V("n"), K(Len(Text))))>>
       \o wait("child", "code") \o <<Check(Eq(V("code"), K(0))), Return(K(0))>>)>>

-----------------------------------------------------------------------------
(* Chapter 2: programs that print the progress of a computation, and       *)
(* programs that fault.                                                    *)
ch2b_power == ForRange("i", K(Yields), <<println(V("i"))>>) \o <<Return(K(0))>>
ch2b_bad_address == <<Sys("fault", <<K(-2)>>, "_")>>
ch2b_bad_instructions == <<Sys("fault", <<K(-3)>>, "_")>>
ch2b_bad_register == <<Sys("fault", <<K(-3)>>, "_")>>

(* Chapter 3. *)
ch3b_yield == ForRange("i", K(Yields), <<println(V("i")), yield_>>) \o <<Return(K(0))>>

ch3b_sleep ==
  get_time("start") \o <<Check(Lt(K(0), V("start")))>> \o get_time("time")
  \o <<While(Lt(V("time"), Plus(V("start"), K(Period))), <<yield_>> \o get_time("time")),
       Return(K(0))>>

ch3b_sleep1 ==
  get_time("begin") \o sleep(K(Period)) \o get_time("end")
  \o <<println(Minus(V("end"), V("begin"))), Return(K(0))>>

(* The TaskInfo that sys_task_info fills: the status, how often write,     *)
(* yield, exit, get_time and task_info have been called, and the time.     *)
task_info(result, info) == SysMem("task_info", << >>, result, info)
InfoItem(i) == Item(V("info"), K(i))

(* Ask, and check: at least g calls of get_time, n of task_info, w of      *)
(* write, one of yield, none of exit; no less time than since t1, and less *)
(* than 100 ms, ten time slices, more.                                     *)
checkInfo(g, n, w, time) ==
  get_time(time)
  \o <<task_info("r", "info"), Check(Eq(V("r"), K(0)))>> \o get_time("after")
  \o <<Check(Le(K(g), InfoItem(4))), Check(Eq(K(n), InfoItem(5))),
       Check(Eq(K(w), InfoItem(1))), Check(Lt(K(0), InfoItem(2))),
       Check(Eq(K(0), InfoItem(3))),
       Check(Le(Minus(V(time), V("t1")), Plus(InfoItem(6), K(1)))),
       Check(Lt(InfoItem(6), Plus(Minus(V("after"), V("t1")), K(10)))),
       Check(Eq(InfoItem(0), K("Running")))>>

(* The two lines of the second println are written one by one. *)
ch3_taskinfo ==
  get_time("t1") \o get_time("_") \o sleep(K(Period)) \o checkInfo(3, 1, 0, "t2")
  \o <<println(K("string")), println(K("empty"))>> \o checkInfo(5, 2, 2, "t4")
  \o <<println(K("OK")), Return(K(0))>>

(* Chapter 5. *)

(* initproc starts the shell and reaps its children for ever. *)
initproc(shell) ==
  <<fork("pid"),
    If(Eq(V("pid"), K(0)),
       <<exec(K(shell), K(<< >>), "_")>>,
       <<Loop(wait("pid", "code") \o <<If(Eq(V("pid"), K(-1)), <<yield_>>, << >>)>>)>>),
    Return(K(0))>>

MAGIC == -66436

ch5b_exit ==
  <<fork("pid"),
    If(Eq(V("pid"), K(0)),
       ForRange("i", K(Yields), <<yield_>>) \o <<exit(K(MAGIC))>>,
       << >>)>>
  \o waitpid(V("pid"), "r", "xstate")
  \o <<Check(And(Eq(V("r"), V("pid")), Eq(V("xstate"), K(MAGIC))))>>
  \o waitpid(V("pid"), "r", "xstate") \o <<Check(Lt(V("r"), K(0)))>>
  \o wait("r", "xstate") \o <<Check(Le(V("r"), K(0))), Return(K(0))>>

ch5b_forktest ==
  ForRange("i", K(MaxChild),
           <<fork("pid"),
             If(Eq(V("pid"), K(0)), <<println(V("i")), exit(K(0))>>, <<println(V("pid"))>>),
             Check(Lt(K(0), V("pid")))>>)
  \o ForRange("i", K(MaxChild),
              wait("r", "code") \o <<Check(Lt(K(0), V("r")))>>)
  \o wait("r", "code") \o <<Check(Le(V("r"), K(0))), Return(K(0))>>

ch5b_forktest_simple ==
  wait("r", "_") \o
  <<Check(Eq(V("r"), K(-1))), getpid("_"), fork("pid"),
    If(Eq(V("pid"), K(0)),
       <<Return(K(100))>>,
       wait("r", "code")
       \o <<Check(Eq(V("r"), V("pid"))), Check(Eq(V("code"), K(100))), Return(K(0))>>)>>

(* Helpers of the tests: programs that exit with a code or print their pid. *)
ch5_exit0 == <<exit(K(66778)), Check(K(FALSE))>>
ch5_exit1 == <<exit(K(-233)), Check(K(FALSE))>>
ch5_getpid == <<getpid("pid"), println(V("pid")), Return(K(0))>>

(* A process at depth d makes two children, each of which goes on as a     *)
(* process at depth d + 1, yields and exits without waiting for its own    *)
(* children.  The root sleeps.                                             *)
ch5b_forktree ==
  <<getpid("_"), Set("depth", K(0)), Set("branch", K(0)),
    While(And(Lt(V("depth"), K(Depth)), Lt(V("branch"), K(2))),
          <<fork("pid"),
            If(Eq(V("pid"), K(0)),
               <<Set("depth", Plus(V("depth"), K(1))), Set("branch", K(0)), getpid("_")>>,
               <<Set("branch", Plus(V("branch"), K(1)))>>)>>),
    If(Lt(K(0), V("depth")), <<yield_, exit(K(0))>>, << >>)>>
  \o sleep(K(Period)) \o <<Return(K(0))>>

(* What a shell does with a key: the line is a sequence of words, each     *)
(* typed by one key.  DL is treated as BS and CR as LF.                    *)
editLine(c, enter) ==
  <<If(Eq(c, K("LF")), enter,
       <<If(Eq(c, K("BS")),
            <<If(Lt(K(0), Length(V("line"))),
                 <<Set("line", Slice(V("line"), K(0), Minus(Length(V("line")), K(1))))>>,
                 << >>)>>,
            <<Set("line", Push(V("line"), c))>>)>>)>>

shell(run) ==
  <<Set("line", K(<< >>)),
    Loop(getchar("c") \o
         editLine(V("c"),
                  <<If(Lt(K(0), Length(V("line"))),
                       run \o <<Set("line", K(<< >>))>>, << >>)>>))>>

(* The parent waits for the child it has forked. *)
awaitChild(pid) ==
  waitpid(pid, "exit_pid", "code") \o <<Check(Eq(V("exit_pid"), pid))>>

(* A line of several words is not the name of an application. *)
ch5b_user_shell ==
  shell(<<fork("pid"),
          If(Eq(V("pid"), K(0)),
             <<If(Eq(Length(V("line")), K(1)),
                  <<exec(Item(V("line"), K(0)), K(<< >>), "r")>>, <<Set("r", K(-1))>>),
               Check(Eq(V("r"), K(-1))), Return(K(-4))>>,
             awaitChild(V("pid")))>>)

-----------------------------------------------------------------------------
(* Chapter 6.                                                              *)

(* Write a text to a new file, read it back. *)
filetest(name) ==
  <<open(K(name), OpenFlags.create, "fd"), Check(Lt(K(0), V("fd"))),
    write(V("fd"), K(Text), "_"), close(V("fd")),
    open(K(name), OpenFlags.rdonly, "fd"), Check(Lt(K(0), V("fd"))),
    read(V("fd"), K(BufSize), "len", "buf"), close(V("fd")),
    Check(Eq(V("buf"), K(Text))), Return(K(0))>>

ch6b_filetest_simple == filetest("filea")
ch6_file0 == filetest("fname")

(* cat prints a file that it reads in pieces. *)
cat(name) ==
  <<open(name, OpenFlags.rdonly, "fd"), Check(Ne(V("fd"), K(-1))), Set("s", K(<< >>)),
    read(V("fd"), K(ChunkSize), "size", "buf"),
    While(Ne(V("size"), K(0)),
          <<Set("s", Concat(V("s"), V("buf"))),
            read(V("fd"), K(ChunkSize), "size", "buf")>>),
    write(K(STDOUT), V("s"), "_"), close(V("fd")), Return(K(0))>>

ch6b_cat == cat(K("filea"))

-----------------------------------------------------------------------------
(* Chapter 7.                                                              *)

ch7b_cat == <<Check(Eq(Length(V("args")), K(2)))>> \o cat(Item(V("args"), K(1)))

ch7b_pipetest ==
  <<pipe("fd"), Check(Eq(V("fd"), K(<<3, 4>>))), fork("pid"),
    If(Eq(V("pid"), K(0)),
       <<close(Item(V("fd"), K(1))),
         read(Item(V("fd"), K(0)), K(BufSize), "len", "buf"),
         close(Item(V("fd"), K(0))),
         Check(Eq(V("buf"), K(Text))),
         Return(K(0))>>,
       <<close(Item(V("fd"), K(0))),
         write(Item(V("fd"), K(1)), K(Text), "n"),
         Check(Eq(V("n"), K(Len(Text)))),
         close(Item(V("fd"), K(1)))>>
       \o wait("child", "code") \o <<Check(Eq(V("code"), K(0))), Return(K(0))>>)>>

(* The child sends back the sum of what it has read; the sum is formatted, *)
(* sent and parsed as one number.                                          *)
ch7b_pipe_large_test ==
  <<pipe("down"), pipe("up"), fork("pid"),
    If(Eq(V("pid"), K(0)),
       <<close(Item(V("down"), K(1))), close(Item(V("up"), K(0))),
         read(Item(V("down"), K(0)), K(Len(Text)), "n", "buf"),
         Check(Eq(V("n"), K(Len(Text)))),
         close(Item(V("down"), K(0))),
         write(Item(V("up"), K(1)), Push(K(<< >>), Total(V("buf"))), "_"),
         close(Item(V("up"), K(1))), Return(K(0))>>,
       <<close(Item(V("down"), K(0))), close(Item(V("up"), K(1))),
         write(Item(V("down"), K(1)), K(Text), "n"), Check(Eq(V("n"), K(Len(Text)))),
         close(Item(V("down"), K(1))),
         read(Item(V("up"), K(0)), K(BufSize), "n", "result"),
         close(Item(V("up"), K(0))),
         Check(Eq(V("result"), Push(K(<< >>), Total(K(Text)))))>>
       \o wait("_child", "_code") \o <<Return(K(0))>>)>>

ch7b_run_pipe_test ==
  ForRange("i", K(Yields),
           <<fork("pid"),
             If(Eq(V("pid"), K(0)),
                <<exec(K("ch7b_pipe_large_test"), K(<< >>), "_")>>,
                wait("child", "code"))>>)
  \o <<Return(K(0))>>

ch7b_yield ==
  <<getpid("_")>> \o ForRange("i", K(Yields), <<yield_, getpid("_")>>) \o <<Return(K(0))>>

(* Take a redirection and its file name out of the words of a command; a   *)
(* redirection without a name panics.                                      *)
takeRedirection(symbol, file) ==
  <<Set("idx", Index(V("words"), K(symbol))), Set(file, K("")),
    If(Ne(V("idx"), K(-1)),
       <<Check(Lt(Plus(V("idx"), K(1)), Length(V("words")))),
         Set(file, Item(V("words"), Plus(V("idx"), K(1)))),
         Set("words", Cut(V("words"), V("idx"), Plus(V("idx"), K(2))))>>,
       << >>)>>

(* In the child: make descriptor fd refer to the file, if one is given.    *)
redirect(word, flags, fd) ==
  <<If(Ne(word, K("")),
       <<open(word, flags, "file"),
         If(Eq(V("file"), K(-1)), <<Return(K(-4))>>, << >>),
         close(K(fd)), dup(V("file"), "new"), Check(Eq(V("new"), K(fd))),
         close(V("file"))>>,
       << >>)>>

execWords ==
  <<Check(Lt(K(0), Length(V("words")))),
    exec(Item(V("words"), K(0)), V("words"), "r"),
    Check(Eq(V("r"), K(-1))), Return(K(-4))>>

ch7b_user_shell ==
  shell(<<Set("words", V("line"))>>
        \o takeRedirection("<", "input") \o takeRedirection(">", "output")
        \o <<fork("pid"),
             If(Eq(V("pid"), K(0)),
                redirect(V("input"), OpenFlags.rdonly, 0)
                \o redirect(V("output"), OpenFlags.create, 1) \o execWords,
                awaitChild(V("pid")))>>)

-----------------------------------------------------------------------------
(* Chapter 8: all tests at the same time, and a shell with pipelines.      *)

(* ch8_usertest starts every test before it waits for the first. *)
usertest(tests) ==
  <<Set("pids", K(<< >>))>>
  \o ForRange("i", K(Len(tests)),
              <<println(Item(K(tests), V("i"))), fork("pid"),
                If(Eq(V("pid"), K(0)),
                   <<exec(Item(K(tests), V("i")), K(<< >>), "_"), Check(K(FALSE))>>,
                   <<Set("pids", Push(V("pids"), V("pid")))>>)>>)
  \o ForRange("i", K(Len(tests)),
              waitpid(Item(V("pids"), V("i")), "wait_pid", "xstate")
              \o <<Check(Eq(Item(V("pids"), V("i")), V("wait_pid"))), println(V("xstate"))>>)
  \o <<Return(K(0))>>

LastOf(n) == Minus(n, K(1))
Commands == Length(V("argv"))

(* ProcessArguments::new for each part of the line between the |. *)
parseCommands ==
  <<Set("cmds", Split(V("line"), K("|"))),
    Set("argv", K(<< >>)), Set("inputs", K(<< >>)), Set("outputs", K(<< >>))>>
  \o ForRange("i", Length(V("cmds")),
              <<Set("words", Item(V("cmds"), V("i")))>>
              \o takeRedirection("<", "input") \o takeRedirection(">", "output")
              \o <<Set("argv", Push(V("argv"), V("words"))),
                   Set("inputs", Push(V("inputs"), V("input"))),
                   Set("outputs", Push(V("outputs"), V("output")))>>)

(* Only the first command may redirect its input, only the last its output. *)
checkCommands ==
  <<Set("valid", K(TRUE))>>
  \o ForRange("i", Commands,
              <<If(And(Eq(V("i"), K(0)), Ne(Item(V("outputs"), V("i")), K(""))),
                   <<Set("valid", K(FALSE))>>, << >>),
                If(And(Lt(K(0), V("i")), Ne(Item(V("inputs"), V("i")), K(""))),
                   <<Set("valid", K(FALSE))>>, << >>),
                If(And(And(Lt(K(0), V("i")), Lt(V("i"), LastOf(Commands))),
                       Ne(Item(V("outputs"), V("i")), K(""))),
                   <<Set("valid", K(FALSE))>>, << >>)>>)
  \o <<If(Eq(Commands, K(1)), <<Set("valid", K(TRUE))>>, << >>)>>

(* End e (0 to read, 1 to write) of pipe i. *)
PipeFd(i, e) == Item(Item(V("pipes_fd"), i), K(e))

closePipes ==
  ForRange("k", Length(V("pipes_fd")), <<close(PipeFd(V("k"), 0)), close(PipeFd(V("k"), 1))>>)

(* Make descriptor fd refer to an end of a pipe. *)
connect(fd, end) == <<close(K(fd)), dup(end, "new"), Check(Eq(V("new"), K(fd)))>>

runCommand ==
  redirect(Item(V("inputs"), V("i")), OpenFlags.rdonly, 0)
  \o redirect(Item(V("outputs"), V("i")), OpenFlags.create, 1)
  \o <<If(Lt(K(0), V("i")), connect(0, PipeFd(LastOf(V("i")), 0)), << >>),
       If(Lt(V("i"), LastOf(Commands)), connect(1, PipeFd(V("i"), 1)), << >>)>>
  \o closePipes
  \o <<Set("words", Item(V("argv"), V("i")))>> \o execWords

ch8b_user_shell ==
  shell(parseCommands \o checkCommands \o
        <<If(V("valid"),
             <<Set("pipes_fd", K(<< >>)), Set("children", K(<< >>))>>
             \o ForRange("i", LastOf(Commands),
                         <<pipe("fd"), Set("pipes_fd", Push(V("pipes_fd"), V("fd")))>>)
             \o ForRange("i", Commands,
                         <<fork("pid"),
                           If(Eq(V("pid"), K(0)), runCommand,
                              <<Set("children", Push(V("children"), V("pid")))>>)>>)
             \o closePipes
             \o ForRange("i", Commands,
                         <<Set("pid", Item(V("children"), V("i")))>> \o awaitChild(V("pid"))),
             << >>)>>)

-----------------------------------------------------------------------------
(* Programs with threads.  Objects are named instead of numbered as they   *)
(* are created.                                                            *)

CONSTANTS ThreadCount,  \* THREAD_COUNT, PRODUCER_COUNT
          PerThread,    \* PER_THREAD, NUMBER_PER_PRODUCER
          BufferSize,   \* BUFFER_SIZE
          Forks,        \* the mutexes of the philosophers, as many as there are
          Rounds        \* ROUND

(* Loads, stores and atomic operations on shared variables. *)
load(x, result) == Sys("load", <<K(x)>>, result)
store(x, e) == Sys("store", <<K(x), e>>, "_")
storeItem(x, i, e) == Sys("store_item", <<K(x), i, e>>, "_")
compareExchange(x, old, new, result) == Sys("cas", <<K(x), old, new>>, result)

mutex_create(m) == Sys("mutex_create", <<K(m)>>, "_")
mutex_lock(m) == Sys("mutex_lock", <<m>>, "_")
mutex_unlock(m) == Sys("mutex_unlock", <<m>>, "_")
semaphore_create(s) == Sys("semaphore_create", <<K(s)>>, "_")
semaphore_up(s) == Sys("semaphore_up", <<K(s)>>, "_")
semaphore_down(s) == Sys("semaphore_down", <<K(s)>>, "_")
condvar_create(c) == Sys("condvar_create", <<K(c)>>, "_")
condvar_signal(c) == Sys("condvar_signal", <<K(c)>>, "_")
condvar_wait(c, m) == Sys("condvar_wait", <<K(c), K(m)>>, "_")
thread_create(entry, arg, tid) == Sys("thread_create", <<K(entry), arg>>, tid)
sleep_blocking(ms) == Sys("sleep", <<K(ms)>>, "_")

(* Create n threads, and wait for all the threads in v. *)
createThreads(entry, n) ==
  ForRange("i", K(n), <<thread_create(entry, V("i"), "tid"), Set("v", Push(V("v"), V("tid")))>>)
waitThreads == ForRange("i", Length(V("v")), waittid(Item(V("v"), V("i")), "code"))

-----------------------------------------------------------------------------
(* Faulty variants, for showing that the properties depend on the code. *)

(* Each philosopher takes the fork on the left first. *)
forkOrderLeft == <<Set("min", V("args")), Set("max", V("right"))>>

(* The producer does not wait for an empty slot. *)
producerUnchecked ==
  ForRange("n", K(PerThread),
           <<semaphore_down("mutex_sem"),
             load("front", "f"), storeItem("buffer", V("f"), V("args")),
             load("front", "f"),
             store("front", Fn("mod", <<Plus(V("f"), K(1)), K(BufferSize)>>)),
             semaphore_up("mutex_sem"), semaphore_up("existed")>>)
  \o <<exit(K(0))>>

-----------------------------------------------------------------------------
(* ch8b_threads: three threads are waited for in the order in which they   *)
(* were created, and asserted to have exited with their tid as the code,   *)
(* as they do if the tids are 1, 2 and 3.                                  *)
thread_a == <<exit(K(1))>>
thread_b == <<exit(K(2))>>
thread_c == <<exit(K(3))>>
ch8b_threads ==
  <<thread_create("thread_a", K(0), "a"), thread_create("thread_b", K(0), "b"),
    thread_create("thread_c", K(0), "c"),
    Set("v", Push(Push(Push(K(<< >>), V("a")), V("b")), V("c")))>>
  \o ForRange("i", Length(V("v")),
              waittid(Item(V("v"), V("i")), "code")
              \o <<Check(Eq(Item(V("v"), V("i")), V("code")))>>)
  \o <<Return(K(0))>>

(* ch8b_threads_arg: thread i exits with the rc of the i-th argument. *)
thread_print == <<exit(Plus(V("args"), K(1)))>>
ch8b_threads_arg ==
  <<Set("v", K(<< >>))>> \o createThreads("thread_print", ThreadCount)
  \o waitThreads \o <<Return(K(0))>>

(* The ch8b_race_adder programs: threads that add to A with a load and a store. *)
addOne == <<load("A", "cur"), store("A", Plus(V("cur"), K(1)))>>

race_adder_mutex_spin ==
  ForRange("n", K(PerThread),
           <<mutex_lock(K("spin"))>> \o addOne \o <<mutex_unlock(K("spin"))>>)
  \o <<exit(K(2))>>

race_adder_atomic ==
  ForRange("n", K(PerThread),
           <<compareExchange("OCCUPIED", K(FALSE), K(TRUE), "ok"),
             While(Not(V("ok")),
                   <<yield_, compareExchange("OCCUPIED", K(FALSE), K(TRUE), "ok")>>)>>
           \o addOne \o <<store("OCCUPIED", K(FALSE))>>)
  \o <<exit(K(2))>>

adderMain(entry) ==
  <<Set("v", K(<< >>))>> \o createThreads(entry, ThreadCount) \o waitThreads
  \o <<load("A", "a"), Check(Eq(V("a"), K(ThreadCount * PerThread))), Return(K(0))>>

ch8b_race_adder_mutex_spin == <<mutex_create("spin")>> \o adderMain("race_adder_mutex_spin")
ch8b_race_adder_atomic == adderMain("race_adder_atomic")

-----------------------------------------------------------------------------
(* ch8b_mpsc_sem: producers and one consumer of a ring of BufferSize.      *)
(* What the consumer prints is kept in a shared variable.                  *)
producer ==
  ForRange("n", K(PerThread),
           <<semaphore_down("empty"), semaphore_down("mutex_sem"),
             load("front", "f"), storeItem("buffer", V("f"), V("args")),
             load("front", "f"),
             store("front", Fn("mod", <<Plus(V("f"), K(1)), K(BufferSize)>>)),
             semaphore_up("mutex_sem"), semaphore_up("existed")>>)
  \o <<exit(K(0))>>

consumer ==
  ForRange("n", K(ThreadCount * PerThread),
           <<semaphore_down("existed"), semaphore_down("mutex_sem"),
             load("tail", "t"), load("buffer", "b"), load("printed", "p"),
             store("printed", Push(V("p"), Item(V("b"), V("t")))),
             load("tail", "t"),
             store("tail", Fn("mod", <<Plus(V("t"), K(1)), K(BufferSize)>>)),
             semaphore_up("mutex_sem"), semaphore_up("empty")>>)
  \o <<exit(K(0))>>

ch8b_mpsc_sem ==
  <<semaphore_create("mutex_sem"), semaphore_create("empty"), semaphore_create("existed"),
    Set("v", K(<< >>))>>
  \o createThreads("producer", ThreadCount)
  \o <<thread_create("consumer", K(0), "tid"), Set("v", Push(V("v"), V("tid")))>>
  \o waitThreads \o <<Return(K(0))>>

-----------------------------------------------------------------------------
(* ch8b_phil_din_mutex: each philosopher takes the fork with the smaller   *)
(* number first.  The times, only used to draw a graph, are not kept.      *)
forkOrder ==
  <<Set("min", Fn("min", <<V("args"), V("right")>>)),
    Set("max", Fn("max", <<V("args"), V("right")>>))>>

philosopher_dining_problem ==
  <<Set("right", Fn("mod", <<Plus(V("args"), K(1)), K(Len(Forks))>>))>> \o forkOrder
  \o ForRange("round", K(Rounds),
              <<sleep_blocking(1),
                mutex_lock(Item(K(Forks), V("min"))), mutex_lock(Item(K(Forks), V("max"))),
                sleep_blocking(1),
                mutex_unlock(Item(K(Forks), V("max"))), mutex_unlock(Item(K(Forks), V("min")))>>)
  \o <<exit(K(0))>>

ch8b_phil_din_mutex ==
  <<Set("v", K(<< >>))>>
  \o FlattenSeq([i \in 1 .. Len(Forks) |->
                   <<mutex_create(Forks[i]), thread_create("philosopher", K(i - 1), "tid"),
                     Set("v", Push(V("v"), V("tid")))>>])
  \o waitThreads \o <<Return(K(0))>>

-----------------------------------------------------------------------------
(* ch8b_sync_sem and ch8b_test_condvar: second must not go on before first *)
(* has slept and done its work.  The work is to set A, or in ch8b_sync_sem *)
(* to print a line, modelled by A too; the last check of second is what    *)
(* the line it prints says.                                                *)
sync_first ==
  <<sleep_blocking(1), store("A", K(1)), semaphore_up("sync"), exit(K(0))>>
sync_second ==
  <<semaphore_down("sync"), load("A", "a"), Check(Eq(V("a"), K(1))), exit(K(0))>>
ch8b_sync_sem ==
  <<semaphore_create("sync"), Set("v", K(<< >>)),
    thread_create("sync_first", K(0), "tid"), Set("v", Push(V("v"), V("tid"))),
    thread_create("sync_second", K(0), "tid"), Set("v", Push(V("v"), V("tid")))>>
  \o waitThreads \o <<Return(K(0))>>

first ==
  <<sleep_blocking(1), mutex_lock(K("mutex")), store("A", K(1)),
    condvar_signal("cond"), mutex_unlock(K("mutex")), exit(K(0))>>
second ==
  <<mutex_lock(K("mutex")), load("A", "a"),
    While(Eq(V("a"), K(0)), <<condvar_wait("cond", "mutex"), load("A", "a")>>),
    mutex_unlock(K("mutex")), load("A", "a"), Check(Eq(V("a"), K(1))), exit(K(0))>>
ch8b_test_condvar ==
  <<condvar_create("cond"), mutex_create("mutex"), Set("v", K(<< >>)),
    thread_create("first", K(0), "tid"), Set("v", Push(V("v"), V("tid"))),
    thread_create("second", K(0), "tid"), Set("v", Push(V("v"), V("tid")))>>
  \o waitThreads \o <<Return(K(0))>>

=============================================================================
