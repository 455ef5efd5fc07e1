------------------------------ MODULE Syscalls ------------------------------
(***************************************************************************)
(* The system call interface, from the library function a program calls    *)
(* to the kernel function that serves it: user/src/lib.rs picks a wrapper, *)
(* the wrapper of user/src/syscall.rs loads registers and executes ecall,  *)
(* trap_handler takes three or four registers out of the trap context, and *)
(* syscall() of the chapter's kernel picks a function and its arguments by *)
(* number.  The two sides agree only by convention: the numbers are        *)
(* written once in the library and once in each kernel, and so are the     *)
(* positions of the arguments.                                             *)
(*                                                                         *)
(* An argument is represented by its name, a buffer by the names of its    *)
(* address and its length.  A register that a call does not load keeps     *)
(* what an earlier call left in it.                                        *)
(***************************************************************************)
EXTENDS Naturals, Sequences, TLC

VARIABLES
  chapter,   \* whose kernel runs
  x,         \* the argument registers x10 to x15 and x17
  asked,     \* the library function being executed, or "none"
  entered,   \* the kernel function entered and its arguments, or << >>
  halted     \* the kernel panicked on a number it does not know

sysVars == << chapter, x, asked, entered, halted >>

-----------------------------------------------------------------------------
(* The wrappers: the number and the argument list of each call.            *)

\* A slice, passed as its address and its length.
Slice(name) == [ptr |-> name, len |-> "length of " \o name]

\* The directory open, link and unlink name, which no kernel looks at.
AT_FDCWD == "-100"

\* A Boolean as a machine word.
AsUsize(b) == IF b THEN "1" ELSE "0"

sys_openat(dirfd, path, flags, mode) == << 56, << dirfd, path, flags, mode, "0", "0" >> >>
sys_close(fd) == << 57, << fd, "0", "0" >> >>
sys_read(fd, buffer) == << 63, << fd, buffer.ptr, buffer.len >> >>
sys_write(fd, buffer) == << 64, << fd, buffer.ptr, buffer.len >> >>
sys_linkat(old_dirfd, old_path, new_dirfd, new_path, flags) ==
  << 37, << old_dirfd, old_path, new_dirfd, new_path, flags, "0" >> >>
sys_unlinkat(dirfd, path, flags) == << 35, << dirfd, path, flags >> >>
sys_fstat(fd, st) == << 80, << fd, st, "0" >> >>
sys_mail_read(buffer) == << 401, << buffer.ptr, buffer.len, "0" >> >>
sys_mail_write(pid, buffer) == << 402, << pid, buffer.ptr, buffer.len >> >>
sys_exit(exit_code) == << 93, << exit_code, "0", "0" >> >>
sys_sleep(sleep_ms) == << 101, << sleep_ms, "0", "0" >> >>
sys_yield == << 124, << "0", "0", "0" >> >>
sys_get_time(time, tz) == << 169, << time, tz, "0" >> >>
sys_getpid == << 172, << "0", "0", "0" >> >>
sys_fork == << 220, << "0", "0", "0" >> >>
sys_exec(path, args) == << 221, << path, args.ptr, "0" >> >>
sys_waitpid(pid, xstatus) == << 260, << pid, xstatus, "0" >> >>
sys_set_priority(prio) == << 140, << prio, "0", "0" >> >>
sys_mmap(start, len, prot) == << 222, << start, len, prot >> >>
sys_munmap(start, len) == << 215, << start, len, "0" >> >>
sys_spawn(path) == << 400, << path, "0", "0" >> >>
sys_dup(fd) == << 24, << fd, "0", "0" >> >>
sys_pipe(pipe) == << 59, << pipe.ptr, "0", "0" >> >>
sys_task_info(info) == << 410, << info, "0", "0" >> >>
sys_thread_create(entry, arg) == << 460, << entry, arg, "0" >> >>
sys_gettid == << 178, << "0", "0", "0" >> >>
sys_waittid(tid) == << 462, << tid, "0", "0" >> >>
sys_mutex_create(blocking) == << 463, << AsUsize(blocking), "0", "0" >> >>
sys_mutex_lock(id) == << 464, << id, "0", "0" >> >>
sys_mutex_unlock(id) == << 466, << id, "0", "0" >> >>
sys_semaphore_create(res_count) == << 467, << res_count, "0", "0" >> >>
sys_semaphore_up(sem_id) == << 468, << sem_id, "0", "0" >> >>
sys_enable_deadlock_detect(enabled) == << 469, << enabled, "0", "0" >> >>
sys_semaphore_down(sem_id) == << 470, << sem_id, "0", "0" >> >>
sys_condvar_create(arg) == << 471, << arg, "0", "0" >> >>
sys_condvar_signal(condvar_id) == << 472, << condvar_id, "0", "0" >> >>
sys_condvar_wait(condvar_id, mutex_id) == << 473, << condvar_id, mutex_id, "0" >> >>

\* The library functions and the system call each of them makes.  (wait and
\* waitpid, waittid and sleep repeat their call; the repetition is in UserLib.)
Library ==
  [open |-> sys_openat(AT_FDCWD, "path", "flags", "RDWR"),
   close |-> sys_close("fd"), read |-> sys_read("fd", Slice("buf")), write |-> sys_write("fd", Slice("buf")),
   link |-> sys_linkat(AT_FDCWD, "old_path", AT_FDCWD, "new_path", "0"),
   unlink |-> sys_unlinkat(AT_FDCWD, "path", "0"), fstat |-> sys_fstat("fd", "st"),
   mail_read |-> sys_mail_read(Slice("buf")), mail_write |-> sys_mail_write("pid", Slice("buf")),
   exit |-> sys_exit("exit_code"), yield_ |-> sys_yield, get_time |-> sys_get_time("time", "0"),
   getpid |-> sys_getpid, fork |-> sys_fork, exec |-> sys_exec("path", Slice("args")),
   set_priority |-> sys_set_priority("prio"),
   wait |-> sys_waitpid("-1", "exit_code"), waitpid |-> sys_waitpid("pid", "exit_code"),
   sleep_blocking |-> sys_sleep("sleep_ms"), sleep |-> sys_get_time("time", "0"),
   mmap |-> sys_mmap("start", "len", "prot"), munmap |-> sys_munmap("start", "len"), spawn |-> sys_spawn("path"),
   dup |-> sys_dup("fd"), pipe |-> sys_pipe(Slice("pipe_fd")), task_info |-> sys_task_info("info"),
   thread_create |-> sys_thread_create("entry", "arg"), gettid |-> sys_gettid, waittid |-> sys_waittid("tid"),
   mutex_create |-> sys_mutex_create(FALSE), mutex_blocking_create |-> sys_mutex_create(TRUE),
   mutex_lock |-> sys_mutex_lock("mutex_id"), mutex_unlock |-> sys_mutex_unlock("mutex_id"),
   semaphore_create |-> sys_semaphore_create("res_count"), semaphore_up |-> sys_semaphore_up("sem_id"),
   enable_deadlock_detect |-> sys_enable_deadlock_detect("enabled"), semaphore_down |-> sys_semaphore_down("sem_id"),
   condvar_create |-> sys_condvar_create("0"), condvar_signal |-> sys_condvar_signal("condvar_id"),
   condvar_wait |-> sys_condvar_wait("condvar_id", "mutex_id")]

-----------------------------------------------------------------------------
(* The kernels: for each number the function and the positions, among the  *)
(* argument registers, of its arguments.                                   *)

\* Chapter 2.
syscall_os2 ==
  {<< 64, "sys_write", << 1, 2, 3 >> >>, << 93, "sys_exit", << 1 >> >>}

\* Chapter 3.
syscall_os3 ==
  syscall_os2 \cup
  {<< 124, "sys_yield", << >> >>, << 169, "sys_get_time", << 1, 2 >> >>, << 410, "sys_task_info", << 1 >> >>}

\* Chapter 4.
syscall_os4 ==
  syscall_os3 \cup
  {<< 222, "sys_mmap", << 1, 2, 3 >> >>, << 215, "sys_munmap", << 1, 2 >> >>, << 140, "sys_set_priority", << 1 >> >>}

\* Chapter 5.
syscall_os5 ==
  syscall_os4 \cup
  {<< 63, "sys_read", << 1, 2, 3 >> >>, << 172, "sys_getpid", << >> >>, << 220, "sys_fork", << >> >>,
   << 221, "sys_exec", << 1 >> >>, << 260, "sys_waitpid", << 1, 2 >> >>, << 400, "sys_spawn", << 1 >> >>}

\* Chapter 6.
syscall_os6 ==
  syscall_os5 \cup
  {<< 37, "sys_linkat", << 2, 4 >> >>, << 35, "sys_unlinkat", << 2 >> >>, << 56, "sys_open", << 2, 3 >> >>,
   << 57, "sys_close", << 1 >> >>, << 80, "sys_fstat", << 1, 2 >> >>}

\* Chapter 7: exec takes the arguments of the program too.
syscall_os7 ==
  {d \in syscall_os6 : d[2] # "sys_exec"} \cup
  {<< 24, "sys_dup", << 1 >> >>, << 59, "sys_pipe", << 1 >> >>, << 221, "sys_exec", << 1, 2 >> >>}

\* Chapter 8.
syscall_os8 ==
  syscall_os7 \cup
  {<< 101, "sys_sleep", << 1 >> >>, << 178, "sys_gettid", << >> >>,
   << 460, "sys_thread_create", << 1, 2 >> >>, << 462, "sys_waittid", << 1 >> >>,
   << 463, "sys_mutex_create", << 1 >> >>, << 464, "sys_mutex_lock", << 1 >> >>, << 466, "sys_mutex_unlock", << 1 >> >>,
   << 467, "sys_semaphore_create", << 1 >> >>, << 468, "sys_semaphore_up", << 1 >> >>,
   << 469, "sys_enable_deadlock_detect", << 1 >> >>, << 470, "sys_semaphore_down", << 1 >> >>,
   << 471, "sys_condvar_create", << 1 >> >>, << 472, "sys_condvar_signal", << 1 >> >>,
   << 473, "sys_condvar_wait", << 1, 2 >> >>}

Kernel ==
  << {}, syscall_os2, syscall_os3, syscall_os4, syscall_os5, syscall_os6, syscall_os7, syscall_os8 >>

\* The argument registers trap_handler hands to syscall().
Args(c, regs) == [i \in 1 .. (IF c >= 6 THEN 4 ELSE 3) |-> regs[9 + i]]

-----------------------------------------------------------------------------
(* Faulty variants, for showing that the property depends on the code.     *)

\* Six arguments passed with the three registers of the short form.
syscall6Short(regs, id, args) ==
  [regs EXCEPT ![10] = args[1], ![11] = args[2], ![12] = args[3], ![17] = id]

-----------------------------------------------------------------------------
(* A call.                                                                 *)

\* The registers at the ecall of the form with three arguments.
syscall(regs, id, args) ==
  [regs EXCEPT ![10] = args[1], ![11] = args[2], ![12] = args[3], ![17] = id]

\* The registers at the ecall of the form with six.
syscall6(regs, id, args) ==
  [regs EXCEPT ![10] = args[1], ![11] = args[2], ![12] = args[3],
               ![13] = args[4], ![14] = args[5], ![15] = args[6], ![17] = id]

Init ==
  /\ chapter \in 2 .. 8
  /\ x = [r \in 10 .. 17 |-> IF r = 17 THEN 0 ELSE "unset"]
  /\ asked = "none"
  /\ entered = << >>
  /\ halted = FALSE

\* A program calls library function f.
Call(f) ==
  LET id == Library[f][1]
      args == Library[f][2]
  IN  /\ asked = "none"
      /\ ~halted
      /\ asked' = f
      /\ x' = IF Len(args) = 6 THEN syscall6(x, id, args) ELSE syscall(x, id, args)
      /\ UNCHANGED << chapter, entered, halted >>

\* trap_handler on UserEnvCall with a number the kernel knows.
Dispatch(d) ==
  /\ asked # "none"
  /\ entered = << >>
  /\ ~halted
  /\ d[1] = x[17]
  /\ LET args == Args(chapter, x)
         given == [i \in DOMAIN d[3] |-> args[d[3][i]]]
     IN  entered' = << d[2], IF d[2] = "sys_mutex_create" THEN << IF given[1] = "1" THEN "blocking" ELSE "spin" >>
                                                         ELSE given >>
  /\ UNCHANGED << chapter, x, asked, halted >>

\* The kernel function returns and its result is written to x10; the wrapper
\* returns that register.  (exit does not return.)
Return ==
  /\ entered # << >>
  /\ entered[1] # "sys_exit"
  /\ x' = [x EXCEPT ![10] = "result"]
  /\ asked' = "none"
  /\ entered' = << >>
  /\ UNCHANGED << chapter, halted >>

\* A number no arm of the match names: the kernel panics and the machine stops.
Unsupported ==
  /\ asked # "none"
  /\ entered = << >>
  /\ ~halted
  /\ x[17] \notin {d[1] : d \in Kernel[chapter]}
  /\ halted' = TRUE
  /\ UNCHANGED << chapter, x, asked, entered >>

Next ==
  \/ \E f \in DOMAIN Library : Call(f)
  \/ \E d \in Kernel[chapter] : Dispatch(d)
  \/ Return
  \/ Unsupported

Spec == Init /\ [][Next]_sysVars

-----------------------------------------------------------------------------
(* What the calls must do.                                                 *)

\* What the caller of library function f asks the kernel of chapter c for.
Meant(f, c) ==
  CASE f = "open" -> << "sys_open", << "path", "flags" >> >>
    [] f = "link" -> << "sys_linkat", << "old_path", "new_path" >> >>
    [] f = "unlink" -> << "sys_unlinkat", << "path" >> >>
    [] f \in {"read", "write"} -> << "sys_" \o f, << "fd", "buf", "length of buf" >> >>
    [] f \in {"close", "dup"} -> << "sys_" \o f, << "fd" >> >>
    [] f = "fstat" -> << "sys_fstat", << "fd", "st" >> >>
    [] f = "pipe" -> << "sys_pipe", << "pipe_fd" >> >>
    [] f = "exit" -> << "sys_exit", << "exit_code" >> >>
    [] f = "yield_" -> << "sys_yield", << >> >>
    [] f \in {"getpid", "gettid", "fork"} -> << "sys_" \o f, << >> >>
    [] f \in {"get_time", "sleep"} -> << "sys_get_time", << "time", "0" >> >>
    [] f = "sleep_blocking" -> << "sys_sleep", << "sleep_ms" >> >>
    [] f = "exec" -> << "sys_exec", IF c >= 7 THEN << "path", "args" >> ELSE << "path" >> >>
    [] f = "spawn" -> << "sys_spawn", << "path" >> >>
    [] f = "wait" -> << "sys_waitpid", << "-1", "exit_code" >> >>
    [] f = "waitpid" -> << "sys_waitpid", << "pid", "exit_code" >> >>
    [] f = "set_priority" -> << "sys_set_priority", << "prio" >> >>
    [] f = "mmap" -> << "sys_mmap", << "start", "len", "prot" >> >>
    [] f = "munmap" -> << "sys_munmap", << "start", "len" >> >>
    [] f = "task_info" -> << "sys_task_info", << "info" >> >>
    [] f = "thread_create" -> << "sys_thread_create", << "entry", "arg" >> >>
    [] f = "waittid" -> << "sys_waittid", << "tid" >> >>
    [] f = "mutex_create" -> << "sys_mutex_create", << "spin" >> >>
    [] f = "mutex_blocking_create" -> << "sys_mutex_create", << "blocking" >> >>
    [] f \in {"mutex_lock", "mutex_unlock"} -> << "sys_" \o f, << "mutex_id" >> >>
    [] f = "semaphore_create" -> << "sys_semaphore_create", << "res_count" >> >>
    [] f \in {"semaphore_up", "semaphore_down"} -> << "sys_" \o f, << "sem_id" >> >>
    [] f = "enable_deadlock_detect" -> << "sys_enable_deadlock_detect", << "enabled" >> >>
    [] f = "condvar_create" -> << "sys_condvar_create", << "0" >> >>
    [] f = "condvar_signal" -> << "sys_condvar_signal", << "condvar_id" >> >>
    [] f = "condvar_wait" -> << "sys_condvar_wait", << "condvar_id", "mutex_id" >> >>

\* The kernel function entered is the one the library function stands for, and
\* each of its arguments is the caller's, whatever calls came before: no number
\* or position differs between library and kernel, and no kernel reads a
\* register that the wrapper left as an earlier call had it.
ArgumentsArrive ==
  entered # << >> => entered = Meant(asked, chapter)

=============================================================================
