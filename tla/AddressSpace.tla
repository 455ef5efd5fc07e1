---------------------------- MODULE AddressSpace ----------------------------
(***************************************************************************)
(* The address spaces of the kernel as processes and threads come and go   *)
(* (os8-ref/src/mm, task/process.rs, task/id.rs, syscall/thread.rs): which *)
(* frames each page table and area owns, what the tables map, and what the *)
(* pages hold.  Kernel stacks are areas of the kernel's own space; its     *)
(* identical mappings own no frames but tables and are left out.           *)
(*                                                                         *)
(* Handlers run with interrupts off on one hart, so each is one step.      *)
(***************************************************************************)
EXTENDS PageTable

CONSTANTS Procs, Initproc,
          Images,        \* programs: sequences of segments [start, end, data]
          Args, Words,   \* words exec pushes on the stack, words programs write
          First, End,    \* the frames
          StackPages, KStackPages,
          WriteVpns,     \* the pages programs write to
          MaxThreads, MaxKStacks, MaxExecs   \* bounds: tids, stacks ever made, execs

ASSUME AddressSpaceAssumption ==
  /\ Initproc \in Procs
  /\ Entries \in Nat \ {0, 1} /\ First \in Nat \ {0, 1} /\ End \in Nat /\ First <= End
  /\ {StackPages, KStackPages, MaxThreads, MaxKStacks} \subseteq Nat \ {0}
  /\ MaxExecs \in Nat
  /\ \A image \in Images : image # << >>

VARIABLES fa,        \* FRAME_ALLOCATOR
          ram,       \* the frames' contents
          space,     \* memory sets: of the kernel, of processes, and exec's new one
          status,    \* of a process: none, live or zombie
          tcb,       \* a process's tasks: tid -> [base, ppn, kid, res, live]
          tids,      \* task_res_allocator
          kstacks,   \* kernel stack ids handed out
          execs,     \* calls of exec, for the bound
          fault      \* the panic, if there was one

vars == <<fa, ram, space, status, tcb, tids, kstacks, execs, fault>>

Machine == [fa |-> fa, ram |-> ram, space |-> space, fault |-> fault,
            at |-> 0, got |-> 0, new |-> << >>]

(* What an operation leaves.  Actions name the machines on the way there   *)
(* as members of singletons.                                               *)
Becomes(w) == fa' = w.fa /\ ram' = w.ram /\ space' = w.space /\ fault' = w.fault

NoSpace == [root |-> 0, tables |-> << >>, areas |-> << >>]

Init ==
  LET w == [fa |-> NewFrames(First, End),
            ram |-> [ppn \in 0 .. End - 1 |-> ZeroPage],
            space |-> [s \in Procs \cup {"kernel", "new"} |-> NoSpace],
            fault |-> "none", at |-> 0, got |-> 0, new |-> << >>]
      k == NewBare(w, "kernel") IN
  /\ fa = k.fa /\ ram = k.ram /\ space = k.space /\ fault = k.fault
  /\ status = [p \in Procs |-> "none"]
  /\ tcb = [p \in Procs |-> << >>]
  /\ tids = [p \in Procs |-> NewAllocator]
  /\ kstacks = 0
  /\ execs = 0

-----------------------------------------------------------------------------
(* Where things are, in pages.                                             *)

TrapCx(tid) == TrampolineVpn - 1 - tid
UstackBottom(base, tid) == base + tid * (1 + StackPages)
UstackBase(image) == Last(image).end + 1
KstackTop(kid) == TrampolineVpn - kid * (KStackPages + 1)
KstackBottom(kid) == KstackTop(kid) - KStackPages

Some(f, k, v) == [x \in DOMAIN f \cup {k} |-> IF x = k THEN v ELSE f[x]]
None(f, k) == [x \in DOMAIN f \ {k} |-> f[x]]

-----------------------------------------------------------------------------
(* Faulty variants, for showing that the properties depend on the code. *)

(* exec leaves trap_cx_ppn at the frame of the space it dropped. *)
TrapCxPpnStale(w, s, tid) ==
  IF tid \in DOMAIN tcb[s] THEN tcb[s][tid].ppn
  ELSE Translate(w.ram, w.space[s].root, TrapCx(tid)).ppn

(* exec does not drop the old memory set. *)
SubstituteLeaks(w, p) ==
  [w EXCEPT !.space[p] = w.space["new"], !.space["new"] = NoSpace]

-----------------------------------------------------------------------------
(* from_elf: the segments of the program; only data pages come from it. *)
FromElf(w, s, image) ==
  FoldLeft(LAMBDA x, seg : Push(x, s, seg.start, seg.end, {"U"}, seg.data), NewBare(w, s), image)

(* TaskUserRes::alloc_user_res: user stack and trap context. *)
AllocUserRes(w, s, base, tid) ==
  Push(Push(w, s, UstackBottom(base, tid), UstackBottom(base, tid) + StackPages, {"U"}, << >>),
       s, TrapCx(tid), TrapCx(tid) + 1, {}, << >>)

DeallocUserRes(w, s, base, tid) ==
  RemoveArea(RemoveArea(w, s, UstackBottom(base, tid)), s, TrapCx(tid))

KstackAlloc(w, kid) == Push(w, "kernel", KstackBottom(kid), KstackTop(kid), {}, << >>)
KstackDrop(w, kid) == RemoveArea(w, "kernel", KstackBottom(kid))

TrapCxPpn(w, s, tid) == Translate(w.ram, w.space[s].root, TrapCx(tid)).ppn

(* The kernel_sp of a trap context: the stack __alltraps switches to. *)
SetKernelSp(w, ppn, kid) ==
  IF w.fault # "none" THEN w ELSE [w EXCEPT !.ram[ppn][0] = [ppn |-> kid, flags |-> {}]]

(* TaskControlBlock::new: trap_cx_ppn is looked up once and kept.  res     *)
(* says that the task has its TaskUserRes, live that it has not exited.    *)
NewTask(w, s, base, tid) ==
  [base |-> base, ppn |-> TrapCxPpn(w, s, tid), kid |-> kstacks, res |-> TRUE, live |-> TRUE]

(* A task with its kernel stack, in the tasks of the process.  An exited   *)
(* thread of the same tid is dropped; a new process has none.              *)
StartTask(w, s, tid, task) ==
  /\ \E x \in {SetKernelSp(KstackAlloc(w, task.kid), task.ppn, task.kid)} :
       Becomes(IF tid \in DOMAIN tcb[s] THEN KstackDrop(x, tcb[s][tid].kid) ELSE x)
  /\ kstacks' = kstacks + 1
  /\ tids' = [tids EXCEPT ![s] = AllocNext(@)]
  /\ tcb' = [tcb EXCEPT ![s] = Some(@, tid, task)]

(* The same for a memory set w that has the task's user resources. *)
NewThread(w, s, base, tid) == StartTask(w, s, tid, NewTask(w, s, base, tid))

(* ProcessControlBlock::new, for initproc. *)
New(image) ==
  LET p == Initproc
      base == UstackBase(image) IN
  /\ fault = "none"
  /\ kstacks = 0
  /\ \E w \in {FromElf(Machine, p, image)} : \E x \in {AllocUserRes(w, p, base, 0)} :
       NewThread(x, p, base, 0)
  /\ status' = [status EXCEPT ![p] = "live"]
  /\ UNCHANGED execs

(* The pages of area in parent's memory set. *)
PagesOf(parent, area) ==
  [i \in DOMAIN area.data_frames |->
     ram[Translate(ram, space[parent].root, area.start + i - 1).ppn]]

(* MemorySet::from_existed_user. *)
FromExistedUser(w, s, parent) ==
  FoldLeft(LAMBDA x, a : Push(x, s, a.start, a.start + Len(a.data_frames), a.flags,
                              PagesOf(parent, a)),
           NewBare(w, s), space[parent].areas)

(* fork of a process that never made a thread; others panic. *)
Fork(p, c) ==
  /\ fault = "none"
  /\ status[p] = "live" /\ status[c] = "none"
  /\ tids[p].current = 1
  /\ kstacks < MaxKStacks
  /\ \E w \in {FromExistedUser(Machine, c, p)} : NewThread(w, c, tcb[p][0].base, 0)
  /\ status' = [status EXCEPT ![c] = "live"]
  /\ UNCHANGED execs

(* The assignment of exec to memory_set: the old one is dropped. *)
Substitute(w, p) ==
  [DropSpace(w, p) EXCEPT !.space[p] = w.space["new"], !.space["new"] = NoSpace]

(* exec writes the arguments through the new page table. *)
PushArg(w, p, vpn, arg) ==
  IF w.fault # "none" THEN w
  ELSE [w EXCEPT !.ram[Translate(w.ram, w.space[p].root, vpn).ppn][Entries - 1] = arg]

(* The rest of exec, with the new memory set. *)
ExecIn(w, p, base, arg) ==
  LET ppn == TrapCxPpn(w, p, 0) IN
  /\ Becomes(SetKernelSp(PushArg(w, p, UstackBottom(base, 0) + StackPages - 1, arg),
                         ppn, tcb[p][0].kid))
  /\ tcb' = [tcb EXCEPT ![p][0].base = base, ![p][0].ppn = ppn]

(* exec of a process that never made a thread; others panic. *)
Exec(p, image, arg) ==
  LET base == UstackBase(image) IN
  /\ fault = "none"
  /\ status[p] = "live"
  /\ tids[p].current = 1
  /\ execs < MaxExecs
  /\ \E w \in {Substitute(FromElf(Machine, "new", image), p)} :
     \E x \in {AllocUserRes(w, p, base, 0)} : ExecIn(x, p, base, arg)
  /\ execs' = execs + 1
  /\ UNCHANGED <<status, tids, kstacks>>

(* sys_thread_create *)
ThreadCreate(p) ==
  LET tid == AllocId(tids[p])
      base == tcb[p][0].base IN
  /\ fault = "none"
  /\ status[p] = "live"
  /\ tid < MaxThreads /\ kstacks < MaxKStacks
  /\ \E w \in {AllocUserRes(Machine, p, base, tid)} : NewThread(w, p, base, tid)
  /\ UNCHANGED <<status, execs>>

(* exit of a thread other than the main one; its stack is still in use. *)
ThreadExit(p, tid) ==
  /\ fault = "none"
  /\ status[p] = "live"
  /\ tid \in DOMAIN tcb[p] \ {0} /\ tcb[p][tid].res
  /\ Becomes(DeallocUserRes(Machine, p, tcb[p][tid].base, tid))
  /\ tids' = [tids EXCEPT ![p] = DeallocNext(@, tid)]
  /\ tcb' = [tcb EXCEPT ![p][tid].res = FALSE, ![p][tid].live = FALSE]
  /\ UNCHANGED <<status, kstacks, execs>>

(* sys_waittid of an exited thread drops it. *)
Waittid(p, tid) ==
  /\ fault = "none"
  /\ status[p] = "live"
  /\ tid \in DOMAIN tcb[p] /\ ~tcb[p][tid].res
  /\ Becomes(KstackDrop(Machine, tcb[p][tid].kid))
  /\ tcb' = [tcb EXCEPT ![p] = None(@, tid)]
  /\ UNCHANGED <<status, tids, kstacks, execs>>

(* The TaskUserRes that the exit of the main thread drops: its own, then   *)
(* those of the threads that still have theirs, in tid order.              *)
Holders(p) ==
  SelectSeq([i \in 1 .. MaxThreads |-> i - 1],
            LAMBDA tid : tid \in DOMAIN tcb[p] /\ tcb[p][tid].res)

(* exit of the main thread: the resources of the threads, then the rest of *)
(* the memory.  What becomes of a thread that was alive, which stops the   *)
(* kernel when it is fetched again, is the subject of Processes.           *)
Exit(p) ==
  /\ fault = "none"
  /\ p # Initproc
  /\ status[p] = "live"
  /\ \E w \in {FoldLeft(LAMBDA x, tid : DeallocUserRes(x, p, tcb[p][tid].base, tid),
                        Machine, Holders(p))} :
       Becomes(RecycleDataPages(w, p))
  /\ tids' = [tids EXCEPT ![p] = FoldLeft(DeallocNext, @, Holders(p))]
  /\ tcb' = [tcb EXCEPT ![p] = [tid \in DOMAIN @ |->
                                  [@[tid] EXCEPT !.res = FALSE,
                                                 !.live = tid # 0 /\ tcb[p][tid].live]]]
  /\ status' = [status EXCEPT ![p] = "zombie"]
  /\ UNCHANGED <<kstacks, execs>>

(* sys_waitpid drops the process: its memory set, then its tasks.  A task  *)
(* that is still in a queue, and its kernel stack, outlive it.             *)
Waitpid(p) ==
  LET dropped == SelectSeq([i \in 1 .. MaxThreads |-> i - 1],
                           LAMBDA tid : tid \in DOMAIN tcb[p] /\ ~tcb[p][tid].live) IN
  /\ fault = "none"
  /\ status[p] = "zombie"
  /\ Becomes([FoldLeft(LAMBDA x, tid : KstackDrop(x, tcb[p][tid].kid), DropSpace(Machine, p), dropped)
                EXCEPT !.space[p] = NoSpace])
  /\ status' = [status EXCEPT ![p] = "none"]
  /\ tcb' = [tcb EXCEPT ![p] = << >>]
  /\ tids' = [tids EXCEPT ![p] = NewAllocator]
  /\ UNCHANGED <<kstacks, execs>>

(* The MMU: a program reaches the pages with the U flag. *)
Vpns == 0 .. TrampolineVpn
Mapped(s) == {v \in Vpns : IsValid(Translate(ram, space[s].root, v))}
UserPages(p) == {v \in Mapped(p) : "U" \in Translate(ram, space[p].root, v).flags}
Cell == 1

UserWrite(p, v, word) ==
  /\ fault = "none"
  /\ status[p] = "live"
  /\ v \in UserPages(p)
  /\ ram' = [ram EXCEPT ![Translate(ram, space[p].root, v).ppn][Cell] = word]
  /\ UNCHANGED <<fa, space, status, tcb, tids, kstacks, execs, fault>>

Next ==
  \/ \E image \in Images : New(image)
  \/ \E p \in Procs :
       \/ \E c \in Procs : Fork(p, c)
       \/ \E image \in Images, arg \in Args : Exec(p, image, arg)
       \/ ThreadCreate(p)
       \/ \E tid \in 0 .. MaxThreads - 1 : ThreadExit(p, tid) \/ Waittid(p, tid)
       \/ Exit(p)
       \/ Waitpid(p)
       \/ \E v \in WriteVpns, word \in Words : UserWrite(p, v, word)

Spec == Init /\ [][Next]_vars

-----------------------------------------------------------------------------
AreaFrames(s) == FoldLeft(LAMBDA x, a : x \o a.data_frames, << >>, space[s].areas)
Owned(s) == space[s].tables \o AreaFrames(s)
Spaces == DOMAIN space
Used == {s \in Spaces : s = "kernel" \/ (s \in Procs /\ status[s] = "live")}

(* Shape of the state. *)
TypeOK ==
  /\ fa.current \in First .. End /\ Range(fa.recycled) \subseteq First .. End - 1
  /\ \A s \in Spaces : Range(Owned(s)) \subseteq First .. End - 1
  /\ space["new"] = NoSpace
  /\ status \in [Procs -> {"none", "live", "zombie"}]
  /\ \A p \in Procs : status[p] = "none" <=> space[p] = NoSpace
  /\ \A p \in Procs : \A tid \in DOMAIN tcb[p] : tcb[p][tid].kid \in 0 .. kstacks - 1
  /\ kstacks \in 0 .. MaxKStacks

(* Every frame handed out belongs to one table or area of one memory set,  *)
(* and only once: none is shared, none is lost, none is free and in use.   *)
(* So there is no panic: no page is mapped or unmapped twice, no frame is  *)
(* given back twice when trackers are dropped, and frames do not run out   *)
(* while there are enough for the processes and threads that exist.        *)
FramesOwned ==
  LET owners == fa.recycled \o FoldSet(LAMBDA s, x : x \o Owned(s), << >>, Spaces) IN
  /\ fault = "none"
  /\ IsInjective(owners)
  /\ Range(owners) = First .. fa.current - 1

(* A table walk finds the pages of the areas in their frames, with their   *)
(* flags, the trampoline, and nothing else.                                *)
TablesMatchAreas ==
  fault = "none" =>
    \A s \in Used :
      LET areas == Range(space[s].areas) IN
      /\ Mapped(s) = {TrampolineVpn} \cup UNION {Range(AreaPages(a)) : a \in areas}
      /\ \A a \in areas : \A i \in DOMAIN a.data_frames :
           Translate(ram, space[s].root, a.start + i - 1)
             = [ppn |-> a.data_frames[i], flags |-> a.flags \cup {"V"}]

(* The frame the kernel keeps for a thread's trap context is the one the   *)
(* thread's page table maps, and the context names the thread's own kernel *)
(* stack, which is mapped.                                                 *)
TrapContexts ==
  fault = "none" =>
    \A p \in Procs : \A tid \in DOMAIN tcb[p] :
      LET task == tcb[p][tid] IN
      /\ KstackBottom(task.kid) \in Mapped("kernel")
      /\ task.res => /\ task.ppn = Translate(ram, space[p].root, TrapCx(tid)).ppn
                     /\ ram[task.ppn][0].ppn = task.kid

(* The memory a program starts with. *)
StartMemory(image, stack) ==
  LET segs == Range(image)
      base == UstackBase(image)
      pages == UNION {seg.start .. seg.end - 1 : seg \in segs} IN
  [v \in pages \cup base .. base + StackPages - 1 |->
     IF v \notin pages THEN IF v = base + StackPages - 1 THEN stack ELSE ZeroPage
     ELSE LET seg == CHOOSE g \in segs : v \in g.start .. g.end - 1 IN
          IF v - seg.start < Len(seg.data) THEN seg.data[v - seg.start + 1] ELSE ZeroPage]

M == INSTANCE PrivateMemory WITH
       Vpns <- WriteVpns \cup {UstackBottom(UstackBase(image), tid) :
                                  image \in Images, tid \in 1 .. MaxThreads - 1},
       Loads <- {StartMemory(image, [ZeroPage EXCEPT ![Entries - 1] = arg]) :
                   image \in Images, arg \in Args \cup {Zero}},
       view <- [p \in {q \in Procs : status[q] = "live"} |->
                  [v \in UserPages(p) |-> ram[Translate(ram, space[p].root, v).ppn]]]

(* Page tables, frames and copies together give every process a private    *)
(* memory.                                                                 *)
MemorySpec == M!Spec

=============================================================================
