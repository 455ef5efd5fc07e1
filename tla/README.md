# Verification of the rCore tutorial kernels

TLA+ models, TLC runs and TLAPS proofs for this repository. It holds one kernel
per chapter of the tutorial (`os1` to `os8`, a reference kernel `osN-ref` beside
each), the file system `easy-fs`, the image builder `easy-fs-fuse`, user programs
and their library (`user`), and a copy of the `riscv` crate (`ci-user/riscv`).

The last reference kernel, **os8-ref**, has the final form of every component and
is modelled component by component. The kernels of the chapters before it are
modelled as whole systems, each for what its chapter introduces. The user programs
run on these models.

- `PROJECT.json`: components, runs, mutants, the map from definitions to source
  lines, findings, hazards and theorems.
- `tlc -workers 2 -config X.cfg M` repeats a run, `tlapm M.tla` a proof.

## 1. The system

os8-ref is a uniprocessor kernel for RISC-V. Interrupts are off in the kernel:
the timer interrupt is taken in user mode only. A system call therefore runs
without interruption from its trap to the next point where it gives up the CPU
(`suspend_current_and_run_next`, `block_current_and_run_next`, `schedule`) or
returns. These stretches are the atomic steps of all kernel models. A call that
gives up the CPU in the middle continues later, from its own kernel stack, with
whatever it had read before; the models keep what it had read. The models of trap
entry and of `__switch` go below this and step through the instructions that save
and restore registers.

| part | state | operations | what makes it hard |
|---|---|---|---|
| ids (`task/id.rs`) | `current`, `recycled` | alloc, dealloc, RAII handles | order of drops in different handlers |
| frames (`mm/frame_allocator.rs`) | `current`, `end`, `recycled` | alloc, dealloc, tracker drop | reuse of frames, stale contents |
| address spaces (`mm/`) | page tables in frames, areas | map, unmap, from_elf, fork copy, thread areas, recycle, drop | tables stored in the memory they describe; kept frame numbers |
| user memory (`mm/page_table.rs`) | frames of the caller | translated buffers, strings, references; arguments of exec | bytes that are adjacent for the program lie in scattered frames |
| scheduler (`task/manager.rs`, `processor.rs`) | ready queue, current task | add, fetch, suspend, block, exit | a thread must be in one place |
| processes, threads (`task/`, `syscall/`) | PCBs, TCBs, family tree, reference counts | fork, exec, exit, waitpid, thread_create, waittid | exit against siblings, reparenting, dropped Arcs |
| synchronisation (`sync/`) | locked flags, counts, wait queues | lock, unlock, up, down, signal, wait | hand-over to a thread that does not run yet |
| timers (`timer.rs`) | heap of sleepers | sleep, check_timer | order of the heap, interrupt only from user mode |
| pipes (`fs/pipe.rs`) | ring, holders of the write end | read, write, close, fork | loops that suspend, end of file by reference count |
| open files (`fs/`, `syscall/fs.rs`) | descriptor tables, shared File objects | open, close, dup, pipe, read, write | an offset shared after fork and dup |
| traps and switches (`trap/`, `task/switch.S`) | registers, kernel stacks, contexts | trap entry and return, `__switch` | each register is saved by one of three pieces of code or by none |
| system calls (`user/src/syscall.rs`, `syscall/mod.rs`) | argument registers | every call of every chapter | numbers and positions written down twice |
| block cache (`easy-fs/block_cache.rs`) | cached blocks, device | get, modify, evict, sync | eviction of a held block, loss of power |
| bitmaps, inodes (`bitmap.rs`, `layout.rs`) | bits, block indices | alloc, dealloc, grow, clear, read, write | index arithmetic at block boundaries |
| file system (`efs.rs`, `vfs.rs`) | inode and data areas, directory | create, find, read, write, clear | a directory stored as a file; exhaustion |
| user programs (`user/src/bin`) | their variables | shells, tests, threads, coroutines | they end only if every child is waited for and every pipe end closed |
| `riscv` crate (`ci-user/riscv`) | control registers, tables, TLB | accessors, `free`, `read64`, mapping | bit positions by hand, carries, stale translations |

How the parts interact: threads of `Processes` are scheduled by `Scheduler`, take
ids from `Allocators`, and own areas of `AddressSpace`; `Sync` moves the same
threads between the ready queue and wait queues; `AddressSpace` and `UserMemory` take
frames from it too; `InodeBlocks` and `EasyFs` store files by the algorithms of
`DiskInode`; `InodeBlocks` takes their blocks from a real bitmap; `FileImage` uses the
operations of `EasyFs`, and `FileKernel` the abstract store `FileStore` that `EasyFs`
implements; `ThreadKernel` runs programs on `Sync`. In the code all of easy-fs goes through the block cache; `BlockCache`
shows that it can be left out of the other modules, because it reads and writes like
a plain store while the power is on.

## 2. Modules

### Allocators
- `Allocators`: the methods of `RecycleAllocator` and of `StackFrameAllocator` as
  operators on their state.
- `AllocatorClients`: a machine for each. Handles (`PidHandle`, `TaskUserRes`) and
  `FrameTracker`s give back what they hold once, in any order.
- `FramePool` (abstract): a pool hands out *any* free frame and refuses only when
  there is none.

### Memory and registers
- `PageTable`: page tables and memory sets as operators on physical memory. A
  frame is `Entries` words (512 in the code). A word *is* a page table entry, so
  the walk of `Translate` reads whatever the frame holds; what a program writes
  into a page can look like a valid entry, and a frame keeps its words when it is
  freed. `FrameAlloc` cleans a frame as `FrameTracker::new` does. Every panic of
  the code (out of frames, mapped before mapping, invalid before unmapping, frame
  not allocated) is a `fault`.
- `AddressSpace`: `ProcessControlBlock::new`, fork, exec, thread_create, thread
  exit, waittid, exit and waitpid, as far as they touch memory. Drops happen in
  the order of the fields in the code. A TCB keeps `trap_cx_ppn`, and the first
  word of a trap context is its `kernel_sp`. Kernel stacks are areas of the
  kernel's memory set. Of the permission bits only U is kept. A main thread may exit
  while others are alive: their stacks and trap contexts go in the order of the task
  list, then the rest of the memory, and their kernel stacks stay until they are gone
  from the queues too, which is beyond this module.
- `PrivateMemory` (abstract): a process has a memory of its own, copied by fork.
- `UserMemory` (os7-ref): calls that are given pointers. Physical memory is an array
  of bytes, so an access that runs over the end of a frame goes on into the next
  frame as in the machine. exec reads path and arguments out of the old memory and
  lays them out on the stack of the new one, where `_start` finds them. A string is read
  as `translated_str` does: each byte becomes the character with that code, and a
  character from 0x80 on is stored in two bytes. `ArgumentsReach` says that main gets
  the words so converted; ASCII words, then, as they were given.
- `BatchSystem` (os2-ref), `Multiprogramming` (os3-ref), `AppSpaces` (os4-ref): trap
  entry, trap handler, return and, from chapter 3, `__switch`, with the registers
  that tell apart who saves what: stack pointer, program counter, a register of the
  caller's and one of the callee's. In `AppSpaces` the trampoline, the two writes of
  satp and the trap context in the user's space are steps of their own; a trap its
  handler has no arm for stops the kernel.
- `Syscalls`: from the library function a program calls, through the wrapper that
  loads registers, to the function the kernel of each chapter enters, with names for
  arguments. A register a call does not load keeps what an earlier call left in it.

### Threads and processes of os8-ref
- `Scheduler`: ready queue, current task, and the primitives every handler uses.
- `Sync`: mutexes (spinning and blocking), semaphores, condition variables and
  timers for threads that make any calls in any order. `cont[t]` is where a thread
  inside a call goes on: a spinning lock looks again, a blocking lock returns
  owning the mutex, a condition variable locks again. Clients unlock only what they
  hold, and `holds` records it. This is an assumption: the code asserts only that a
  blocking mutex is locked (`sync/mutex.rs:81`).
- `Processes`: PCBs and TCBs in slots that are reused when the last Arc goes. The
  reference count `sys_waitpid` asserts is computed from what holds an Arc: the
  parent's list, threads blocked inside calls that keep one, and threads suspended in
  `sys_read` or `sys_write`. A timer interrupt wakes any of the sleepers, all at once or
  some. `joins`, chosen in the initial state, says whether main threads exit last. A
  panic is a state of the model, in which everything stops.

### Pipes
- `RingBuffer`: the buffer as operators, and what it must have to do with the bytes
  that went through it; `ByteStream` (abstract): a bounded FIFO.
- `Pipe`: read and write as loops of rounds that keep their position in the user's
  buffer over a suspension. The write end is held by processes and, while a write
  runs, by the call. The code never looks at who holds the read end, so neither does
  the model. `RingBufferProofs` has a second machine, which moves single bytes, and the
  proofs about it.

### easy-fs and the image
- `BlockCache` over a device, with loss of power; `BlockStore` (abstract): reads
  return the last write, synced contents survive.
- `DiskInode` (block indexing, growth, clearing, reading and writing as
  operators), `InodeBlocks` (the bitmap of `bitmap.rs`, and one file that takes blocks
  from it and returns them, among blocks others take and return), `BitAllocator`
  (abstract: the least free numbers).
- `EasyFs` with `FileStore` (abstract: names to byte sequences). An operation
  holds the lock of the file system to its end, so it is one step. The data bitmap has
  more bits than the area has blocks, in the model as in the code.
- `FileImage`: the packer of easy-fs-fuse lists a directory, then creates and writes a
  file per program; then os8-ref mounts the image, opens files with its flags, reads,
  writes at their offsets and loads programs with `read_all`. Or the unit test
  `efs_test` runs its loops. Names have a length: one that does not fit a directory entry,
  or fills it so that no 0 is left, makes the packer or the kernel panic, and so do a
  listed file without an extension, a missing program and a stem that occurs twice.

### Programs and the kernels they run on
- `UserLib`: a notation, in which a program is a sequence of statements and `Run`
  executes it to its next system call, and in it the library functions that are more
  than one call (wait loops, sleep, getchar).
- `UserPrograms`: the shells, initproc, the tests of chapters 2 to 7 and the threaded
  programs of chapter 8, in that notation.
- `TaskManager` (os3, the kernel with the first laboratory): round robin, call counts
  and times for `sys_task_info`.
- `FileKernel` (os5-ref to os7-ref, and processes of one thread on os8-ref): fork, exec,
  exit, waitpid; descriptor tables, shared File objects, regular files, pipes, console.
  The chapter decides whether exit clears the descriptors and whether `sys_get_time`
  writes the time (os8-ref) or leaves zeros (the kernels before).
- `ThreadKernel`: threads of one process on `Sync`, with loads and stores of shared
  variables as steps of their own, and tids given back at exit and handed out again. A
  thread that outlives the main thread, or a wait for a tid never handed out, stops the
  kernel.
- `Coroutines`: the two programs of chapter 8 that schedule coroutines themselves, by
  switching stacks and by polling futures.

### riscv crate
- `Registers`: for 33 registers the fields as each of their accessors has them: the
  getters, the setters on a value, `set_` and `clear_` on the register, the ones that read
  and write back, and the ones that write all of it. They are separate tables, because
  they are separate literals in the code. A history variable holds one independent value
  per field. Trap vectors are written as `addr + mode`: an address that is not aligned
  changes the mode. Functions are aligned to 2 bytes only, unless told otherwise, and
  os8-ref passes `trap_from_kernel` without. Each register has the number its functions pass to the hart and the one that `asm.S` gives the name.
- `HartSteps`: `interrupt::free`, nested, with interrupts between any two of its steps
  and handlers that call it too; and `read64` on a 32-bit hart that goes on counting.
- `Mapper`: the nine page table types with entries of real width, real index
  arithmetic, and a TLB that may keep any translation it was allowed to use until a
  fence removes it; `PageMap` (abstract: a function from pages to mappings). `Bits`
  has words as sets of bit positions.

### Modules for TLC
`MCParts`, `MCMemory`, `MCStorage`, `MCPrograms` and `MCRiscv` put machines that share
a subject side by side. A variable chosen in the initial state says which of them
runs; the others stay as they are, and each property speaks of its own machine. `Sync`,
`Processes` and `Pipe` are also run by themselves.

### Abstractions shared by all
Time is a counter; formatting, logging and device protocols are left out; block and
page contents are small values. `usize` has `UsizeCount` values in the timer keys;
elsewhere numbers stay far below their width, except in `Registers` and `Mapper`,
which keep all 64 bits.

## 3. Runs

| run | module | question | result |
|---|---|---|---|
| parts | MCParts | Is an id or a frame ever in two handles or lost, is the frame allocator a pool? Four threads, any calls: one place, one owner over hand-overs, order, counts. Does every system call of every chapter arrive with its arguments? Does the kernel touch the bytes the caller means, and does main get the words given to exec? | holds |
| memory | MCMemory | os8-ref over reused frames: is a frame shared or lost, do walks agree with areas, are kept trap context frames right, is memory private? Chapters 2 to 4: does an application find its registers and memory as it left them? | holds |
| sync_live | Sync | Are sleepers woken by the first interrupt after their time and never before; does every ready thread run and every sleeper wake? | holds |
| processes | Processes | Any programs: family tree, unique ids, who is scheduled; is every orphan reaped unless the kernel stops? With main threads that exit last: by what can programs stop the kernel? | holds |
| pipe | Pipe | Bounded stream, short read only at end of file, complete writes; do reads end after close, and writes while somebody reads? | holds |
| pipe_filled_read | Pipe | Does a read that got all its bytes return? | violated |
| storage | MCStorage | Cache against store, with crashes; exact block accounting through all index levels; bitmap against allocator of the least numbers; file system against store of files; are files of the image what the host and the kernel wrote? | holds |
| programs | MCPrograms | On their kernels, in every interleaving: do the programs' assertions hold, is redirected output complete, do coroutines resume where they stopped, does every program end with nothing left behind? | holds |
| programs_tids | MCPrograms | Do the assertions of `ch8b_threads` hold if its threads may end early? | violated |
| riscv | MCRiscv | Do accessors touch their own field and register only? Is `free` a critical section? Does `read64` return a value the counter had? Are tables a map from pages to frames, but for `update_flags` of unmapped pages, and guest tables flushed? | holds |
| riscv_flush | MCRiscv | Does `flush` remove the old translation? | violated |
| riscv_update | MCRiscv | Does `update_flags` change existing mappings only? | violated |

Limits of what some properties say:

- `ScheduledThreads` is about threads of processes that are not zombies. What becomes
  of the others is in `NoPanic`.
- `NoPanic` excludes two of the four panics of `Processes`, and only for main threads
  that exit last. The other two (`waittid` of an unknown tid, fork and exec after
  `thread_create`) are what the code does with such calls.
- `FilesAsWritten` holds up to a panic over a name or a missing file; it does not say
  that there is none.
- `RegistersAgree` leaves out the number of hcounteren, which is that of hgeip: see
  section 4.
- `PagesMapped` leaves out `update_flags` of a page that is not mapped, which
  `riscv_update` is about, and allows a panic in tables of the second stage, whose root
  is too small for the addresses it is given.

Every property of a passing run has a mutant in `PROJECT.json`: a plausible slip
in one mapped definition (a guard dropped, an entry left behind, an off-by-one)
under which TLC finds that property violated. They are the definitions marked
"faulty" in the modules. Some properties join parts about different machines
(`RunningKept`, `ProgramsFinish`, `PagesMapped`...) and have more than one mutant.

No run lists a type invariant. Where a module states one (`TypeOK`, `FramesTypeOK`,
`CounterTypeOK`...) it is for the reader and, for the machines proved about, part of the
inductive invariant. That dealloc never fails its checks and that the ring's counts
add up (`DeallocNeverPanics`, `DropNeverPanics`, `RoomAddsUp`) is proved and not run.

### Bounds and why they suffice
- *parts*. Four ids and four frames, every order of alloc and drop. Four threads and
  one object of each kind give every pair of waiters a third thread that interferes.
  The theorems below remove these bounds. The interface has every call of every
  chapter, two in a row, so that a call meets registers an earlier one loaded. User
  memory has pages of 4 bytes and words of 2; the buffers, strings and pointer arrays
  cross pages or end at their edge; three calls, of two processes, with descriptors that
  are open and one that is not. A byte has 64 values, the lower half of them ASCII.
- *memory*. Tables of 3 entries keep the three levels; a space has tables on two paths
  (program low, trampoline and trap contexts high). Two processes, two tids, three
  kernel stacks ever (so a child can be reaped and its frames used again by another
  child or thread), one exec, one- and two-segment programs with a bss page. 48 frames
  are enough: `FramesOwned` includes that no panic happens. The kernels of chapters 2
  to 4 run two or three applications of one to three bytes that store, compute, call,
  are preempted, fault and exit; in chapter 4 pages have two bytes and a program ends
  within one.
- *sync_live*. Sleeps of 0, 1 and 3 ms that expire at once, together and in reverse
  order. Sleeps beyond half the range of `usize` are outside the bound.
- *processes*: four task and three process slots, initproc included, so that an exiting
  process can leave a child and a process can have three threads. A fourth process slot
  makes the state graph thirty times as large; the invariants hold there too.
- *pipe*. A ring of 2, reads of 1 and 3 bytes and writes of 1 and 3 (smaller and larger
  than the ring, and different enough to show bytes out of order); three processes, so
  that two can write, or inherit the write end, while one reads.
- *storage*. Cache of 2 over 3 blocks, two clients that hold one block each: together no
  more than fit. The code holds at most three blocks at a time and the cache has 16.
  One direct block and two entries per index block reach every boundary of the doubly
  indirect index; the bitmap has two blocks of two words of three bits, so other files make it run out. The file
  system has two names, files of up to four blocks, and an area of 10 blocks under a
  bitmap of 15 bits; the image is packed from listings of up to two programs, those that
  make the packer panic included, and used for four calls with four names, two of which
  are at and over the longest.
- *programs*. Between two system calls of a process at most one time slice ends. This
  is no loss for processes, whose memory is private, except for fairness among
  them; threads can be interrupted at every shared access. Loop counts and sizes in the
  tests are 1 to 4 (`programs.cfg`); the ring holds 2 bytes and the text has 3. One line
  is typed at the shell; `MCSessions` lists the lines and the chapter whose kernel runs.
  `programs_tids` has `ch8b_threads` alone, with three threads.
- *riscv*. All 33 registers, two accesses of any kind from any starting value of the
  fields. Three nested calls of `free`, three handlers. Halves of 3 values and a counter
  that carries four times. All nine table types, three operations over three frames for
  tables, pages that share all, some or none of their tables.
- Deadlock is not checked where programs may stop or block on each other
  (`sync_live`, `pipe*`) or where a bound ends the run (`parts`, `memory`, `riscv*`). It
  is checked in `processes`, `storage` and `programs`.

### Fairness
- `Sync`: weak fairness of dispatch and of the kernel part of each thread, because
  the idle loop and a running kernel always go on; weak fairness of the clock;
  strong fairness of the timer interrupt, because it stays pending and is taken
  when the CPU is next in user mode. Programs are owed nothing. `SleepersWake` needs
  one thread that never blocks or exits (`Pollers`), because only a trap from user mode
  looks at the timers: this is initproc, which polls `waitpid` and yields.
- `Processes`: the same for dispatch and interrupts (a read that finds nothing again and
  again is owed no data), and strong fairness of initproc's call of `waitpid`, which it
  makes in an endless loop (`user/src/bin/ch8b_initproc.rs`). After a panic nothing is
  owed.
- `Pipe`: weak fairness of the rounds of a call in progress, because a suspended
  process is in the ready queue and `sync_live` shows that it runs; `WritesEnd`
  needs a process that goes on reading.
- `programs`: the machine goes on taking steps until the programs have ended. Which
  step is up to the kernel's queues, whose order the modules keep; for the thread kernel
  the clock and the timer interrupt are fair as in `Sync`.

## 4. Findings

Four runs find the code at odds with its own text; `PROJECT.json` quotes it.

1. A tid is free again at exit, before `sys_waittid`: a new thread gets it and overwrites
   the entry with the exit code, and the creator waits twice for one tid
   (`programs_tids`). The threads of `ch8b_threads` compute for many time slices, which
   the model leaves out, so with that program it takes a main thread that is kept from
   running for long; threads that end soon need one timer interrupt.
2. A pipe read that fills the user's buffer with the last bytes in the pipe waits
   for more; the guide says it returns (`pipe_filled_read`).
3. `MapperFlush::flush` of the riscv crate passes the page address as the address space
   of `sfence.vma` and 0 as the address: the old translation stays (`riscv_flush`).
4. `update_flags` of a page that is not mapped, in a table that exists, returns Ok and
   maps the page to frame 0; the comments speak of an existing mapping and of the error
   PageNotMapped (`riscv_update`).

What stops the kernel in `Processes`:

- When a main thread exits first, its siblings stay scheduled without resources and the
  next one to run stops the kernel in `trap_return`. If one is blocked in
  `sys_semaphore_down` or suspended in `sys_read` it holds a reference to the process,
  and `sys_waitpid` fails its assertion (`syscall/process.rs:110`). `NoPanic` says that
  neither happens when main threads exit last.
- `sys_waittid` indexes the task list unchecked (`syscall/thread.rs:69`).
- fork and exec assert that `thread_count()` is 1 (`task/process.rs:135`
  and `:191`), which counts the entries of the task list, emptied ones included; a
  process that once had a second thread fails the assertion even after joining it.

### What a reader of the code should know
Met while modelling; each is what the source says, and no run depends on it.

- *Kernels.* The handlers of read and write do not look at `readable()` and
  `writable()`: reading stdout or writing stdin panics in the file's own method, and
  `Stdin::read` asserts a length of 1. `sys_exit` of os6-ref and os7-ref leaves the
  descriptor table to the parent's wait, so a zombie keeps its pipe ends; os8-ref
  clears it (`task/mod.rs:130`). A pipe write spins as long as the ring is full, also when
  nobody can read. `sys_get_time` of os8-ref writes a record of two words through one
  translated reference, which is wrong for a record that crosses a page. Arguments of
  exec larger than the user stack run into its guard page. os4-ref has no arm for an
  instruction page fault and stops. os3 takes a start time of 0 for "not started"
  (`os3/src/task/mod.rs:148`). os2 and os3 execute `fence.i` before they copy programs,
  not after; the models have no instruction cache.
- *easy-fs.* The data bitmap is rounded up, so it has more bits than the area has
  blocks; running out of blocks or inodes is a panic of an `unwrap`. Opening an existing
  file with CREATE truncates it, programs included. Two programs with the same stem stop
  the packer. A name of 28 bytes is accepted by `DirEntry::new`, but leaves no 0 behind
  it, and every later search that comes to it panics in `DirEntry::name`.
- *User library.* `get_time` keeps 16 bits of the seconds, so a sleep across that wrap
  does not end; it does not end at all on the reference kernels whose `sys_get_time` is
  left to the laboratory (os4-ref to os7-ref). `getchar` does not look at the result of
  read. A redirection without a file name panics the shell.
- *riscv crate.* The root of an x4 table is not larger than other tables, so a page with
  an index of more bits panics, and `hfence_gvma` is given the address unshifted. marchid
  and mimpid are read from 0xF11, the number of mvendorid; hcounteren has the number
  3602 of hgeip, where `asm.S:425` says 0x606.

## 5. Proofs

TLAPS checks the theorems for every value of the constants, from the named
assumptions of the modules (ranges of numbers, disjointness of object sets,
finiteness of `Tasks`).

- `SequenceLemmas`: what push, pop, shift, join and orderings do to the range of
  an injective sequence. The proofs about allocators and threads rest on it.
- `AllocatorProofs`, ids: `IdsStayPartitioned`, `DeallocIsSafe`. `IdsIInv` is type,
  partition and no failed assert together. The assert cannot be shown without the
  partition, nor the partition without the injectivity of `recycled`.
- `AllocatorProofs`, frames: `FramesStayPartitioned`, `DroppingIsSafe`, and
  `ImplementsPool`, the refinement of `FramePool`: each branch of alloc is an
  `Alloc` or `Refuse` of the pool, each drop a `Dealloc`.
- `RingBufferProofs`: `NothingIsLost`, `RoomAlwaysAddsUp`, `ImplementsStream` for
  any size of ring and any number of bytes, one byte at a time. The invariant is
  `TypeOK /\ NothingLost`; `TypeOK` says that head and tail are equal exactly when the
  status is not NORMAL, without which a full ring could be taken for an empty one.
- `SyncProofs`: `TypesHold`, `ThreadsHaveOnePlace`, `MutexesExclude`,
  `WaitersHaveOwner`, `CountsAreDebts` for any number of threads and objects. The
  inductive invariant `IInv` is `Places` (every thread in exactly one of: running,
  ready, one wait queue, asleep, gone), `DataOK` (types), `Locks` (`MutualExclusion`,
  `WaitersNeedOwner`, and that a thread queued on a mutex is inside lock on that mutex)
  and `Debts` (`CountIsDebt`, and nobody waits on a semaphore that does not exist yet).
  First come lemmas for each way a thread moves, then one per action. Mutual exclusion
  needs `Places`: that the woken thread is the new owner and nobody else is rests on its
  having been in that one queue.
- `HartStepsProofs`, `ReadsAreCurrent`: for halves of every width and any number of
  counts between its steps, `read64` returns a value the counter had during the call.
  `CounterIInv` adds to the property that the counter never falls below its value at
  entry, and that the low half was read at a moment of the call not before the first
  read of the high half (`HalvesSeen`): if the second read of the high half agrees, the
  counter had no carry in between.
- `HartStepsProofs`, `FreeIsCritical`: for any nesting of calls and handlers, no handler
  starts while a closure runs, and outside `free` the interrupt flag is what the
  program asked for. `CriticalIInv` says which calls of a program
  can have found the flag set (`Nested`: the outermost only), what the flag is for the
  running program (`Current`), and that an interrupted program had interrupts on and was
  in no closure (`Stopped`); one case per action.

Only model-checked: liveness (outside the prover), `HandOffInOrder`,
`WakesExactlyExpired`, and everything about processes, address spaces, user memory,
pipes beyond the ring, easy-fs, whole kernels, programs, registers and page mapping.
The index arithmetic of easy-fs, the walks of page tables and the runs of programs are
recursive; what they compute for every input would need induction over data, which the
installed provers cannot do.

## 6. Not modelled

- *Kernel heap*: a static arena given to an external crate. *Exclusive cells*
  (`UPSafeCell`): a `RefCell`; on one hart with interrupts off a handler is one step.
- *Console output, logging, panic messages, boot, SBI calls, configuration, build
  scripts, the kernel of chapter 1*: straight-line I/O or constants, no state that
  properties could relate.
- *Kernel threads* (`task/kthread.rs`): reached only from calls commented out in
  `main.rs`.
- *Laboratories*: mmap, spawn, priorities, links and deadlock detection are stubs that
  return -1 in the reference kernels, so their tests have nothing to run on; the
  skeletons in `os4` to `os8` have no kernel yet. `ch8b_race_adder` and its variant race
  on purpose and have no result to state. Tests that only compute or print are left out.
- *Address spaces*: the identical mappings of the kernel own no data frames and are made
  once at boot. Permission bits other than U, and `kernel_copy`, are left out.
- *Traps of os8-ref*: a trap is one step there. Saving and restoring of registers is
  modelled in the kernels of chapters 2 to 4; `trap.S` and `switch.S` of os4-ref are the
  same files.
- *virtio queue*: an external crate. The device is the store under `BlockCache`.
- *Loss of power in the middle of a file system operation*: easy-fs promises nothing
  about it (no journal, write-back cache), and nothing is stated. `BlockCache` states
  what holds of a single block.
- *riscv crate*: single-instruction wrappers and registers that are plain numbers
  (counters, scratch, pmp addresses) have no fields or steps to relate.

`PROJECT.json` lists every part with its status and reason, and every hazard with the
properties that cover it or the reason none does.
