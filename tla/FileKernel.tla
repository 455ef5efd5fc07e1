----------------------------- MODULE FileKernel -----------------------------
(***************************************************************************)
(* The kernels of chapters 5 to 7, and that of chapter 8 for processes of  *)
(* one thread.  Processes (os5-ref/src/task,                               *)
(* syscall/process.rs and trap/mod.rs): fork, exec, exit, waitpid, the     *)
(* FIFO scheduler and the preemption by the timer, for processes that run  *)
(* the programs of Apps.  Open files (os6-ref/src/fs, syscall/fs.rs): a    *)
(* table that fork copies; pipes and dup (os7-ref).  A TCB is named by its *)
(* pid, which it keeps until it is dropped.  A File object is shared by    *)
(* all the descriptors that hold an Arc of it, and dropped with the last   *)
(* of them.  The file system is the abstract one of FileStore, which       *)
(* EasyFs implements.                                                      *)
(***************************************************************************)
EXTENDS UserLib, Allocators

(* Processes.                                                              *)

CONSTANTS Apps      \* from the names of the applications to their programs

VARIABLES tcb,      \* TaskControlBlock of each pid
          pids,     \* PID_ALLOCATOR
          ready,    \* TaskManager::ready_queue
          current,  \* Processor::current
          panicked, \* the kernel has panicked
          chapter,  \* of the kernel that runs: 5, 7 or 8
          now       \* the clock, in units of which Second make a second

taskVars == <<tcb, pids, ready, current, panicked>>

None == -1
INITPROC == 0

Live == DOMAIN tcb

(* The process p is on the CPU and about to make system call name. *)
Calls(p, name) == ~panicked /\ current = p /\ Called(tcb[p].prog) = name

CallArg(i) == Arg(tcb[current].prog, i)

-----------------------------------------------------------------------------
(* TaskControlBlock::new for initproc, the only task, which runs app. *)
TaskInit(app) ==
  /\ tcb = (INITPROC :> [parent |-> None, children |-> << >>, status |-> "Ready",
                         exit_code |-> 0, prog |-> Started(Apps[app], << >>)])
  /\ pids = AllocNext(NewAllocator)
  /\ ready = <<INITPROC>>
  /\ current = None
  /\ panicked = FALSE

(* run_tasks: fetch_task and switch to it. *)
RunTasks ==
  /\ ~panicked
  /\ current = None
  /\ ready # << >>
  /\ current' = Head(ready)
  /\ ready' = Tail(ready)
  /\ tcb' = [tcb EXCEPT ![Head(ready)].status = "Running"]
  /\ UNCHANGED <<pids, panicked>>

(* suspend_current_and_run_next, after the call has changed T. *)
SuspendCurrent(T) ==
  /\ tcb' = [T EXCEPT ![current].status = "Ready"]
  /\ ready' = Append(ready, current)
  /\ current' = None
  /\ UNCHANGED <<pids, panicked>>

(* The current process returns from its call to user mode. *)
ReturnToUser(prog) ==
  /\ tcb' = [tcb EXCEPT ![current].prog = prog]
  /\ UNCHANGED <<pids, ready, current, panicked>>

ReturnValue(n) == ReturnToUser(Resumed(tcb[current].prog, n))

KernelPanic ==
  /\ panicked' = TRUE
  /\ UNCHANGED <<tcb, pids, ready, current>>

(* A time slice ends while p runs user code. *)
TimerInterrupt(p) ==
  /\ ~panicked
  /\ current = p
  /\ SuspendCurrent(tcb)

SysYield(p) ==
  /\ Calls(p, "yield")
  /\ SuspendCurrent([tcb EXCEPT ![p].prog = Resumed(@, 0)])

SysGetpid(p) == Calls(p, "getpid") /\ ReturnValue(p)

(* sys_get_time of os8-ref writes the time.  Before, it is left to the     *)
(* student: it succeeds without writing, so that the library goes on with  *)
(* the zeros of a new TimeVal.                                             *)
TimeVal == IF chapter = 8 THEN <<now \div Second, now % Second>> ELSE <<0, 0>>

SysGetTime(p) ==
  /\ Calls(p, "get_time")
  /\ ReturnToUser(ResumedWith(tcb[p].prog, 0, TimeVal))

-----------------------------------------------------------------------------
(* TaskControlBlock::fork: the child has a copy of the memory and of the   *)
(* trap context, except that its call returns 0.                           *)
Forked(p) ==
  LET c == AllocId(pids) IN
  [q \in Live \cup {c} |->
     CASE q = c -> [parent |-> p, children |-> << >>, status |-> "Ready", exit_code |-> 0,
                    prog |-> Resumed(tcb[p].prog, 0)]
       [] q = p -> [tcb[p] EXCEPT !.children = Append(@, c), !.prog = Resumed(@, c)]
       [] OTHER -> tcb[q]]

SysFork(p) ==
  /\ Calls(p, "fork")
  /\ tcb' = Forked(p)
  /\ pids' = AllocNext(pids)
  /\ ready' = Append(ready, AllocId(pids))
  /\ UNCHANGED <<current, panicked>>

(* sys_exec: a program the loader knows replaces the memory and the trap   *)
(* context; the rest of the TCB stays.                                     *)
SysExec(p) ==
  /\ Calls(p, "exec")
  /\ IF CallArg(1) \in DOMAIN Apps
     THEN ReturnToUser(Started(Apps[CallArg(1)], CallArg(2)))
     ELSE ReturnValue(-1)

(* exit hands the children over to initproc. *)
Reparented(p) ==
  [q \in Live |->
     CASE q = p -> [tcb[q] EXCEPT !.children = << >>]
       [] q = INITPROC -> [tcb[q] EXCEPT !.children = @ \o tcb[p].children]
       [] q \in Range(tcb[p].children) -> [tcb[q] EXCEPT !.parent = INITPROC]
       [] OTHER -> tcb[q]]

(* exit_current_and_run_next, called by sys_exit and by trap_handler after *)
(* a fault.  initproc does not survive its own exit: it is borrowed twice. *)
ExitCurrent(p) ==
  /\ IF p = INITPROC THEN KernelPanic
     ELSE /\ tcb' = [Reparented(p) EXCEPT ![p].status = "Zombie",
                                          ![p].exit_code = CallArg(1)]
          /\ current' = None
          /\ UNCHANGED <<pids, ready, panicked>>

SysExit(p) == Calls(p, "exit") /\ ExitCurrent(p)

(* An access the memory does not allow (-2), an illegal instruction (-3). *)
Fault(p) == Calls(p, "fault") /\ ExitCurrent(p)

(* The position in the list of children of the first zombie that waitpid   *)
(* asks for, or 0.                                                         *)
ZombieChild(p, pid) ==
  SelectInSeq(tcb[p].children, LAMBDA c : tcb[c].status = "Zombie" /\ pid \in {-1, c})

(* The zombie that sys_waitpid of p removes and drops. *)
Reaped(p) == tcb[p].children[ZombieChild(p, CallArg(1))]

SysWaitpid(p) ==
  /\ Calls(p, "waitpid")
  /\ IF ~\E i \in DOMAIN tcb[p].children : CallArg(1) \in {-1, tcb[p].children[i]}
     THEN ReturnValue(-1)
     ELSE IF ZombieChild(p, CallArg(1)) = 0
     THEN ReturnValue(-2)
     ELSE /\ tcb' = [q \in Live \ {Reaped(p)} |->
                       IF q # p THEN tcb[q]
                       ELSE [tcb[p] EXCEPT
                               !.children = RemoveAt(@, ZombieChild(p, CallArg(1))),
                               !.prog = ResumedWith(@, Reaped(p), tcb[Reaped(p)].exit_code)]]
          /\ pids' = DeallocNext(pids, Reaped(p))
          /\ UNCHANGED <<ready, current, panicked>>

-----------------------------------------------------------------------------
(* Open files.                                                             *)

CONSTANTS RingBufferSize, \* RING_BUFFER_SIZE
          Sessions,       \* what initproc may be, and what is typed at the console
          InitialFiles,   \* the files on the disk
          MaxSlices,      \* bound on the time slices that end between two calls
          MaxTime         \* bound on the clock

VARIABLES fd_table,  \* of each pid: File objects, NoFile where it is None
          objects,   \* the File objects
          pipes,     \* the contents of the ring buffers
          files,     \* the contents of the files
          input,     \* what console_getchar has still to return
          moved,     \* bytes moved by a read or write that left the CPU
          slices,    \* time slices that have ended since the last call of each pid
          written    \* history: what was written to a file since it was cleared

vars == <<tcb, pids, ready, current, panicked, chapter, now, fd_table, objects, pipes,
          files, input, moved, slices, written>>
fileVars == <<files, written>>
ioVars == <<pipes, input, moved, files, written>>

FS == INSTANCE FileStore WITH Names <- {}, Writes <- {}

NoFile == 0
Stdin == [is |-> "stdin"]
Stdout == [is |-> "stdout"]
OSInode(name, offset) == [is |-> "inode", name |-> name, offset |-> offset]
ReadEnd(k) == [is |-> "read_end", pipe |-> k]
WriteEnd(k) == [is |-> "write_end", pipe |-> k]

(* A name not in use. *)
Fresh(S) == CHOOSE n \in 1 .. Cardinality(S) + 1 : n \notin S

(* At most n bytes from the front of s, and the bytes after them. *)
FirstOf(s, n) == SubSeq(s, 1, Min({n, Len(s)}))
RestOf(s, n) == SubSeq(s, n + 1, Len(s))

(* p is inside a system call that has left the CPU. *)
InKernel(p) == p \in DOMAIN moved
Moved(p) == IF InKernel(p) THEN moved[p] ELSE << >>

-----------------------------------------------------------------------------
(* Faulty variants, for showing that the properties depend on the code. *)

(* alloc_fd always lengthens the table. *)
AllocFdLast(table) == Len(table)

-----------------------------------------------------------------------------
(* Drop the objects of O that no table of T refers to, and their pipes. *)
Held(T) == UNION {Range(T[p]) : p \in DOMAIN T} \ {NoFile}
Kept(O, T) == [o \in DOMAIN O \cap Held(T) |-> O[o]]
PipesOf(O) == {O[o].pipe : o \in {x \in DOMAIN O : O[x].is \in {"read_end", "write_end"}}}

SetTables(T, O) ==
  /\ fd_table' = T
  /\ objects' = Kept(O, T)

KeepTables == UNCHANGED <<fd_table, objects>>

(* The descriptors of initproc: stdin, stdout, stderr. *)
FileInit(keys) ==
  /\ fd_table = (INITPROC :> <<1, 2, 3>>)
  /\ objects = <<Stdin, Stdout, Stdout>>
  /\ pipes = << >>
  /\ files = InitialFiles
  /\ written = InitialFiles
  /\ input = keys
  /\ moved = << >>
  /\ slices = (INITPROC :> 0)

Init ==
  /\ \E s \in Sessions : TaskInit(s.initproc) /\ FileInit(s.keys) /\ chapter = s.chapter
  /\ now = 0

-----------------------------------------------------------------------------
(* The calls of chapter 5, with their effect on the tables.                *)

ForkFds(p) == (AllocId(pids) :> fd_table[p]) @@ fd_table

(* Faulty: the child gets File objects of its own, with their own offsets. *)
ForkOwnOffsets(p) ==
  LET n == Max(DOMAIN objects)
      own == [i \in DOMAIN fd_table[p] |->
                IF fd_table[p][i] = NoFile THEN NoFile ELSE fd_table[p][i] + n] IN
  /\ SysFork(p)
  /\ SetTables((AllocId(pids) :> own) @@ fd_table,
               [o \in DOMAIN objects \cup {x + n : x \in DOMAIN objects} |->
                  IF o \in DOMAIN objects THEN objects[o] ELSE objects[o - n]])
  /\ UNCHANGED ioVars

Fork(p) == SysFork(p) /\ SetTables(ForkFds(p), objects) /\ UNCHANGED ioVars

(* The pipes that remain when the tables have become fd_table'. *)
KeepPipes == pipes' = [k \in DOMAIN pipes \cap PipesOf(objects') |-> pipes[k]]

Waitpid(p) ==
  /\ SysWaitpid(p)
  /\ SetTables([q \in DOMAIN tcb' |-> fd_table[q]], objects)
  /\ KeepPipes
  /\ UNCHANGED <<fileVars, input, moved>>

(* os8-ref clears the table at exit.  Before, it stays in the TCB and goes *)
(* when the TCB is dropped by waitpid.                                     *)
Exit(p) ==
  /\ SysExit(p) \/ Fault(p)
  /\ SetTables(IF chapter = 8 /\ ~panicked' THEN [fd_table EXCEPT ![p] = << >>]
               ELSE fd_table,
               objects)
  /\ KeepPipes
  /\ UNCHANGED <<fileVars, input, moved>>

Otherwise(p) ==
  /\ SysYield(p) \/ SysGetpid(p) \/ SysGetTime(p) \/ SysExec(p)
  /\ KeepTables
  /\ UNCHANGED ioVars

Interrupt(p) ==
  /\ ~InKernel(p)
  /\ slices[p] < MaxSlices
  /\ TimerInterrupt(p)
  /\ slices' = [slices EXCEPT ![p] = @ + 1]
  /\ KeepTables
  /\ UNCHANGED ioVars

Dispatch == RunTasks /\ KeepTables /\ UNCHANGED <<slices, ioVars>>

-----------------------------------------------------------------------------
(* Descriptors.                                                            *)

(* alloc_fd: the first entry that is None, or a new one at the end. *)
AllocFd(table) ==
  LET i == SelectInSeq(table, LAMBDA o : o = NoFile) IN IF i = 0 THEN Len(table) ELSE i - 1

(* table after table[fd] = Some(o) *)
WithFd(table, fd, o) == IF fd < Len(table) THEN [table EXCEPT ![fd + 1] = o] ELSE Append(table, o)

IsOpen(p, fd) == fd < Len(fd_table[p]) /\ fd_table[p][fd + 1] # NoFile
FileOf(p, fd) == fd_table[p][fd + 1]

(* open_file: CREATE clears a file that exists and creates one that does   *)
(* not; without it a file that exists is cleared by TRUNC.                 *)
OpenedContents(name, flags) ==
  IF name \notin DOMAIN files \/ {"CREATE", "TRUNC"} \cap flags # {}
  THEN (name :> << >>) @@ files ELSE files

SysOpen(p) ==
  LET name == CallArg(1)
      flags == CallArg(2)
      o == Fresh(DOMAIN objects)
      fd == AllocFd(fd_table[p]) IN
  /\ Calls(p, "open")
  /\ IF name \in DOMAIN files \/ "CREATE" \in flags
     THEN /\ files' = OpenedContents(name, flags)
          /\ written' = IF files'[name] = << >> THEN (name :> << >>) @@ written ELSE written
          /\ SetTables([fd_table EXCEPT ![p] = WithFd(@, fd, o)],
                       (o :> OSInode(name, 0)) @@ objects)
          /\ ReturnValue(fd)
     ELSE /\ ReturnValue(-1)
          /\ KeepTables
          /\ UNCHANGED fileVars
  /\ UNCHANGED <<pipes, input, moved>>

SysClose(p) ==
  LET fd == CallArg(1) IN
  /\ Calls(p, "close")
  /\ IF IsOpen(p, fd)
     THEN /\ SetTables([fd_table EXCEPT ![p][fd + 1] = NoFile], objects)
          /\ ReturnValue(0)
          /\ KeepPipes
     ELSE /\ ReturnValue(-1)
          /\ KeepTables
          /\ UNCHANGED pipes
  /\ UNCHANGED <<fileVars, input, moved>>

SysDup(p) ==
  LET fd == CallArg(1)
      new == AllocFd(fd_table[p]) IN
  /\ Calls(p, "dup")
  /\ IF IsOpen(p, fd)
     THEN /\ SetTables([fd_table EXCEPT ![p] = WithFd(@, new, FileOf(p, fd))], objects)
          /\ ReturnValue(new)
     ELSE ReturnValue(-1) /\ KeepTables
  /\ UNCHANGED ioVars

(* make_pipe, and a descriptor for each end. *)
SysPipe(p) ==
  LET k == Fresh(DOMAIN pipes)
      r == Fresh(DOMAIN objects)
      w == Fresh(DOMAIN objects \cup {r})
      read_fd == AllocFd(fd_table[p])
      withRead == WithFd(fd_table[p], read_fd, r)
      write_fd == AllocFd(withRead) IN
  /\ Calls(p, "pipe")
  /\ SetTables([fd_table EXCEPT ![p] = WithFd(withRead, write_fd, w)],
               (r :> ReadEnd(k)) @@ (w :> WriteEnd(k)) @@ objects)
  /\ pipes' = (k :> << >>) @@ pipes
  /\ ReturnToUser(ResumedWith(tcb[p].prog, 0, <<read_fd, write_fd>>))
  /\ UNCHANGED <<fileVars, input, moved>>

-----------------------------------------------------------------------------
(* Reading and writing.  A call that has to wait leaves the CPU inside the *)
(* kernel and goes on from there; sys_read and sys_write do not look at    *)
(* readable() and writable(), File::read and File::write may.              *)

Finish(p, n) ==
  /\ ReturnValue(n)
  /\ moved' = [q \in DOMAIN moved \ {p} |-> moved[q]]

FinishRead(p, bytes) ==
  /\ ReturnToUser(ResumedWith(tcb[p].prog, Len(bytes), bytes))
  /\ moved' = [q \in DOMAIN moved \ {p} |-> moved[q]]

Wait(p, bytes) ==
  /\ SuspendCurrent(tcb)
  /\ moved' = (p :> bytes) @@ moved

(* OSInode::read and write, at the offset of the object. *)
InodeRead(p, o, len) ==
  LET f == objects[o]
      bytes == FirstOf(RestOf(files[f.name], f.offset), len) IN
  /\ FinishRead(p, bytes)
  /\ objects' = [objects EXCEPT ![o].offset = @ + Len(bytes)]
  /\ UNCHANGED <<fd_table, pipes, fileVars, input>>

InodeWrite(p, o, buf) ==
  LET f == objects[o] IN
  /\ files' = [files EXCEPT ![f.name] = FS!Overwritten(@, f.offset, buf)]
  /\ written' = [written EXCEPT ![f.name] = @ \o buf]
  /\ objects' = [objects EXCEPT ![o].offset = @ + Len(buf)]
  /\ Finish(p, Len(buf))
  /\ UNCHANGED <<fd_table, pipes, input>>

(* Stdin::read: one byte, once there is one. *)
StdinRead(p, len) ==
  /\ IF len # 1 THEN KernelPanic /\ UNCHANGED <<input, moved>>
     ELSE IF input = << >> THEN Wait(p, << >>) /\ UNCHANGED input
     ELSE FinishRead(p, <<Head(input)>>) /\ input' = Tail(input)
  /\ KeepTables
  /\ UNCHANGED <<pipes, fileVars>>

(* Stdout::write *)
StdoutWrite(p, buf) ==
  /\ Finish(p, Len(buf))
  /\ KeepTables
  /\ UNCHANGED <<pipes, fileVars, input>>

AllWriteEndsClosed(k) == ~\E o \in DOMAIN objects : objects[o] = WriteEnd(k)

(* Pipe::read: take what there is; with bytes left over the buffer is      *)
(* full, otherwise the loop goes round and finds the pipe empty.           *)
PipeRead(p, k, len) ==
  LET wanted == len - Len(Moved(p))
      bytes == Moved(p) \o FirstOf(pipes[k], wanted) IN
  /\ pipes' = [pipes EXCEPT ![k] = RestOf(@, wanted)]
  /\ IF Len(pipes[k]) > wanted \/ AllWriteEndsClosed(k)
     THEN FinishRead(p, bytes) ELSE Wait(p, bytes)
  /\ KeepTables
  /\ UNCHANGED <<fileVars, input>>

(* Pipe::write: put what fits; with room left over all is written,         *)
(* otherwise the loop goes round and finds the pipe full.                  *)
PipeWrite(p, k, buf) ==
  LET rest == RestOf(buf, Len(Moved(p)))
      room == RingBufferSize - Len(pipes[k]) IN
  /\ pipes' = [pipes EXCEPT ![k] = @ \o FirstOf(rest, room)]
  /\ IF Len(rest) < room THEN Finish(p, Len(buf))
     ELSE Wait(p, Moved(p) \o FirstOf(rest, room))
  /\ KeepTables
  /\ UNCHANGED <<fileVars, input>>

(* File::read of an object that is not for reading, and the like. *)
WrongEnd == KernelPanic /\ KeepTables /\ UNCHANGED ioVars

BadFd == ReturnValue(-1) /\ KeepTables /\ UNCHANGED ioVars

SysRead(p) ==
  LET fd == CallArg(1)
      len == CallArg(2)
      f == objects[FileOf(p, fd)] IN
  /\ Calls(p, "read")
  /\ IF ~IsOpen(p, fd) THEN BadFd
     ELSE CASE f.is = "stdin" -> StdinRead(p, len)
            [] f.is = "inode" -> InodeRead(p, FileOf(p, fd), len)
            [] f.is = "read_end" -> PipeRead(p, f.pipe, len)
            [] f.is \in {"stdout", "write_end"} -> WrongEnd

SysWrite(p) ==
  LET fd == CallArg(1)
      buf == CallArg(2)
      f == objects[FileOf(p, fd)] IN
  /\ Calls(p, "write")
  /\ IF ~IsOpen(p, fd) THEN BadFd
     ELSE CASE f.is = "stdout" -> StdoutWrite(p, buf)
            [] f.is = "inode" -> InodeWrite(p, FileOf(p, fd), buf)
            [] f.is = "write_end" -> PipeWrite(p, f.pipe, buf)
            [] f.is \in {"stdin", "read_end"} -> WrongEnd

-----------------------------------------------------------------------------
Step(p) ==
  /\ \/ Fork(p) \/ Waitpid(p) \/ Exit(p) \/ Otherwise(p)
     \/ SysOpen(p) \/ SysClose(p) \/ SysDup(p) \/ SysPipe(p)
     \/ SysRead(p) \/ SysWrite(p)
  /\ slices' = [q \in DOMAIN tcb' |-> IF q \in Live \ {p} THEN slices[q] ELSE 0]

(* p polls the clock.  The clock is left alone while nobody looks at it. *)
Sleeping(p) == tcb[p].status # "Zombie" /\ "start" \in DOMAIN tcb[p].prog.env

Tick ==
  /\ now < MaxTime
  /\ \E p \in Live : Sleeping(p)
  /\ now' = now + 1
  /\ UNCHANGED <<taskVars, fd_table, objects, ioVars, slices, chapter>>

Next ==
  \/ /\ \/ \E p \in Live : Step(p) \/ Interrupt(p)
        \/ Dispatch
     /\ UNCHANGED <<chapter, now>>
  \/ Tick

Spec == Init /\ [][Next]_vars

(* The machine goes on: some process, or the scheduling loop, takes a step  *)
(* again and again.  The next-state relation is always enabled.  Time       *)
(* passes.                                                                  *)
FairSpec == Spec /\ []<><<TRUE>>_vars /\ WF_vars(Tick)

-----------------------------------------------------------------------------
(* Properties.                                                             *)

(* The shell, which is the first process that initproc forks. *)
SHELL == 1

(* Every assertion in the programs holds, in every order in which the      *)
(* scheduler and the timer interleave the processes: the descriptors that  *)
(* open, pipe and dup return are the ones the tests expect, what is read   *)
(* is what was written, and wait returns every child once.                 *)
AssertsHold == \A p \in Live : ~tcb[p].prog.failed

(* Writes through descriptors that fork and dup have copied do not         *)
(* overwrite each other: they share one offset, so that a file to which    *)
(* the shell has redirected the output of a command holds everything the   *)
(* processes of that command have written.                                 *)
OutputKept == \A n \in DOMAIN files : files[n] = written[n]

(* Every test ends, and leaves nothing behind: its processes, those that   *)
(* lost their parents too, are reaped, their pids free, and the files and  *)
(* pipes they had open are dropped.                                        *)
NothingLeft ==
  /\ input = << >>
  /\ Live = {INITPROC, SHELL}
  /\ pipes = << >>
  /\ Held(fd_table) = {1, 2, 3}
TestsFinish == <>[]NothingLeft

=============================================================================
