----------------------------- MODULE AppSpaces -----------------------------
(***************************************************************************)
(* The chapter 4 kernel (os4-ref): applications that each run in an        *)
(* address space of their own, and the way in and out of the kernel that   *)
(* this costs.  A trap enters the kernel through the trampoline, a page    *)
(* mapped at the same address in every space, because the instruction that *)
(* writes satp and the one after it are fetched through different page     *)
(* tables; the registers go through a trap context that lies in the user's *)
(* space but is not the user's to touch.                                   *)
(*                                                                         *)
(* A page table is the function it stands for (its three levels are the    *)
(* subject of PageTable); a token is the name of the space; the registers  *)
(* are the stack pointer, one temporary and those a system call uses.      *)
(***************************************************************************)
EXTENDS Integers, Sequences, SequencesExt, Functions, TLC

CONSTANTS
    PAGE_SIZE,        \* bytes of a page
    TRAMPOLINE_PAGE,  \* the highest page of every address space
    USER_STACK_PAGES, \* USER_STACK_SIZE in pages
    KERNEL_STACK_PAGES,
    EKERNEL,          \* first page after the kernel image; pages 1 to 4 hold
                      \* its text, rodata, data and bss
    MEMORY_END,       \* first page after the physical memory
    Elfs,             \* the linked applications: loadable segments and entry
    Bytes,            \* values of a byte and of a register
    TextBytes,        \* those that are a character by themselves
    Addresses,        \* addresses the applications load from and store to
    MaxLen,           \* longest buffer passed to sys_write
    MaxPc             \* instructions an application executes before it exits

VARIABLES
    tables,   \* the page tables of the kernel and of every application
    mem,      \* contents of the frames
    hart,     \* what the processor is at, and its registers
    tasks,    \* task_status and task_cx of every application
    current,  \* current_task
    meant,    \* registers and memory each application has by its own doing
    echo      \* the last sys_write: what it printed, what its caller holds

appsVars == <<tables, mem, hart, tasks, current, meant, echo>>

Apps == 1 .. Len(Elfs)
TRAP_CONTEXT_PAGE == TRAMPOLINE_PAGE - 1
Text == 1
Kernel == 0
Offsets == 0 .. PAGE_SIZE - 1
FrameNumbers == EKERNEL .. MEMORY_END - 1

----------------------------------------------------------------------------
(* mm/address.rs *)

(* The page that holds an address. *)
floor(va) == va \div PAGE_SIZE

(* The first page that starts at or after an address. *)
ceil(va) == (va - 1 + PAGE_SIZE) \div PAGE_SIZE

(* The place of an address in its page. *)
page_offset(va) == va % PAGE_SIZE

(* The pages of a range, lowest first. *)
vpn_range(start, end) == [k \in 1 .. end - start |-> start + k - 1]

----------------------------------------------------------------------------
(* mm/memory_set.rs.  The memory sets are built once, before the first     *)
(* application runs: b is what has been built so far.                      *)

(* An address space with no page mapped. *)
new_bare == <<>>

(* PageTable::map: the pages must not be mapped yet. *)
map(b, space, entries) ==
    [b EXCEPT !.table[space] = entries @@ @,
              !.asserted = @ /\ DOMAIN entries \cap DOMAIN b.table[space] = {}]

(* An identical page maps to itself, a framed one to the next frame. *)
map_one(b, type, perm, start, vpn) ==
    [ppn |-> IF type = "Identical" THEN vpn ELSE b.frame + vpn - start, flags |-> perm]

(* The data goes to the area page by page, from the area's first page; the *)
(* rest of the cleared frames stays zero.                                  *)
copy_data(data, n) ==
    [o \in Offsets |-> LET k == n * PAGE_SIZE + o + 1
                       IN  IF k \in DOMAIN data THEN data[k] ELSE 0]

(* MapArea::new and MemorySet::push: the pages of the area are mapped one  *)
(* by one, then its data is copied.                                        *)
push(b, space, start_va, end_va, type, perm, data) ==
    LET start == floor(start_va)
        vpns == start .. ceil(end_va) - 1
        frames == IF type = "Identical" THEN 0 ELSE ceil(end_va) - start
        mapped == map(b, space, [vpn \in vpns |-> map_one(b, type, perm, start, vpn)])
    IN  [mapped EXCEPT !.frame = @ + frames,
                       !.asserted = @ /\ b.frame + frames <= MEMORY_END,
                       !.ram = [ppn \in b.frame .. b.frame + frames - 1 |->
                                  copy_data(data, ppn - b.frame)] @@ @]

(* Pages of frames and no data. *)
insert_framed_area(b, space, start_va, end_va, perm) ==
    push(b, space, start_va, end_va, "Framed", perm, <<>>)

(* The page of the trap entry and exit code, for the supervisor only. *)
map_trampoline(b, space) ==
    map(b, space, TRAMPOLINE_PAGE :> [ppn |-> Text, flags |-> {"R", "X"}])

(* The kernel's own space: the trampoline, the sections of its image and   *)
(* all the memory behind it, each page mapped to itself.                   *)
new_kernel(b) ==
    LET Section(c, s) == push(c, Kernel, s[1] * PAGE_SIZE, s[2] * PAGE_SIZE,
                              "Identical", s[3], <<>>)
    IN  FoldLeft(Section, map_trampoline(b, Kernel),
                 << <<1, 2, {"R", "X"}>>, <<2, 3, {"R"}>>, <<3, 4, {"R", "W"}>>,
                    <<4, 5, {"R", "W"}>>, <<EKERNEL, MEMORY_END, {"R", "W"}>> >>)

(* Where the stack of an application begins: a guard page after the end of *)
(* the last segment.                                                       *)
UserStackBottom(elf) ==
    LET seg == elf.segments[Len(elf.segments)]
    IN  (ceil(seg.start + seg.mem) + 1) * PAGE_SIZE

UserSp(elf) == UserStackBottom(elf) + USER_STACK_PAGES * PAGE_SIZE

(* The space of an application: the trampoline, its segments, its stack    *)
(* and its trap context.                                                   *)
from_elf(b, app) ==
    LET elf == Elfs[app]
        Segment(c, seg) == push(c, app, seg.start, seg.start + seg.mem,
                                "Framed", {"U"} \cup seg.flags, seg.data)
        loaded == FoldLeft(Segment, map_trampoline(b, app), elf.segments)
        stacked == insert_framed_area(loaded, app, UserStackBottom(elf),
                                      UserSp(elf), {"R", "W", "U"})
    IN  insert_framed_area(stacked, app, TRAP_CONTEXT_PAGE * PAGE_SIZE,
                           TRAMPOLINE_PAGE * PAGE_SIZE, {"R", "W"})

(* Top of the kernel stack of an application; a guard page separates it    *)
(* from the next.                                                          *)
kernel_stack_top(app) ==
    (TRAMPOLINE_PAGE - (app - 1) * (KERNEL_STACK_PAGES + 1)) * PAGE_SIZE

(* The trap context an application starts from. *)
app_init_context(entry, sp, kernel_sp) ==
    [x |-> [sp |-> sp, t |-> 0, a0 |-> 0, a1 |-> 0, a2 |-> 0, a7 |-> "none"],
     sepc |-> entry, kernel_satp |-> Kernel, kernel_sp |-> kernel_sp]

(* The frame that holds the trap context of an application. *)
TaskCxPpn(table, app) == table[app][TRAP_CONTEXT_PAGE].ppn

(* TaskControlBlock::new: the application's space, its kernel stack in the *)
(* kernel's space, its trap context.                                       *)
TaskNew(b, app) ==
    LET loaded == from_elf(b, app)
        top == kernel_stack_top(app)
        c == insert_framed_area(loaded, Kernel, top - KERNEL_STACK_PAGES * PAGE_SIZE,
                                top, {"R", "W"})
    IN  [c EXCEPT !.ram[TaskCxPpn(c.table, app)] =
            app_init_context(Elfs[app].entry, UserSp(Elfs[app]), top)]

(* KERNEL_SPACE, then the task of every linked application. *)
Booted ==
    FoldLeft(TaskNew,
             new_kernel([table |-> [s \in {Kernel} \cup Apps |-> new_bare],
                         ram |-> <<>>, frame |-> EKERNEL, asserted |-> TRUE]),
             [i \in Apps |-> i])

(* remap_test: the kernel cannot write its code and constants, nor execute *)
(* its data.                                                               *)
remap_test(b) ==
    /\ "W" \notin b.table[Kernel][1].flags
    /\ "W" \notin b.table[Kernel][2].flags
    /\ "X" \notin b.table[Kernel][3].flags

----------------------------------------------------------------------------
(* What the processor can reach through a page table (external: Sv39). *)

(* A supervisor access: the page is mapped with the rights and is not a    *)
(* user's page.                                                            *)
Reach(space, vpn, rights) ==
    /\ vpn \in DOMAIN tables[space]
    /\ rights \subseteq tables[space][vpn].flags
    /\ "U" \notin tables[space][vpn].flags

(* A user access. *)
UserReach(space, va, rights) ==
    /\ floor(va) \in DOMAIN tables[space]
    /\ rights \cup {"U"} \subseteq tables[space][floor(va)].flags

Ppn(space, va) == tables[space][floor(va)].ppn

(* The bytes an application should find at its addresses: the file's bytes *)
(* at the places its segments name, zeros elsewhere.                       *)
OwnBytes(table, app) ==
    LET elf == Elfs[app]
        pages == {p \in DOMAIN table[app] : "U" \in table[app][p].flags}
        Place(va) == {i \in DOMAIN elf.segments :
                        va - elf.segments[i].start + 1 \in DOMAIN elf.segments[i].data}
    IN  [va \in {p * PAGE_SIZE + o : p \in pages, o \in Offsets} |->
            IF Place(va) = {} THEN 0
            ELSE LET seg == elf.segments[CHOOSE i \in Place(va) : TRUE]
                 IN  seg.data[va - seg.start + 1]]

----------------------------------------------------------------------------
(* What the kernel tells the hardware. *)

(* TaskContext::goto_trap_return: an application that has not run yet      *)
(* starts at the end of a trap.                                            *)
goto_trap_return(app) == [ra |-> "trap_return", sp |-> kernel_stack_top(app)]

(* rust_main: the spaces and the tasks are built, traps of the kernel are  *)
(* caught, and run_first_task switches to the first application.           *)
AppsInit ==
    \E b \in {Booted} :
      /\ tables = b.table
      /\ mem = b.ram
      /\ tasks = [i \in Apps |-> [status |-> IF i = 1 THEN "Running" ELSE "Ready",
                                  cx |-> goto_trap_return(i)]]
      /\ current = 1
      /\ hart = [at |-> IF b.asserted /\ remap_test(b) THEN "trap_return" ELSE "panic",
                 satp |-> Kernel, stvec |-> "trap_from_kernel", sscratch |-> 0,
                 sp |-> kernel_stack_top(1), cause |-> "none",
                 x |-> app_init_context(0, 0, 0).x, pc |-> 0]
      /\ meant = [i \in Apps |-> [x |-> app_init_context(0, UserSp(Elfs[i]), 0).x,
                                  pc |-> Elfs[i].entry, bytes |-> OwnBytes(b.table, i)]]
      /\ echo = [printed |-> <<>>, held |-> <<>>]

(* A trap from user mode goes to stvec, through the page table in use. *)
Trapped(h, cause) ==
    [h EXCEPT !.at = IF h.stvec = "TRAMPOLINE"
                        /\ Reach(h.satp, TRAMPOLINE_PAGE, {"X"})
                     THEN "alltraps" ELSE "fault",
              !.cause = cause]

(* __alltraps: the registers are saved in the trap context the scratch     *)
(* register points to, and the kernel's space, stack and handler are taken *)
(* from there.  The code after the write of satp is fetched through the    *)
(* kernel's table.                                                         *)
alltraps ==
    /\ hart.at = "alltraps"
    /\ IF ~Reach(hart.satp, floor(hart.sscratch), {"R", "W"})
       THEN hart' = [hart EXCEPT !.at = "fault"] /\ UNCHANGED mem
       ELSE LET ppn == Ppn(hart.satp, hart.sscratch)
                cx == mem[ppn]
            IN  /\ mem' = [mem EXCEPT ![ppn] = [@ EXCEPT !.x = hart.x,
                                                         !.sepc = hart.pc]]
                /\ hart' = [hart EXCEPT
                      !.at = IF /\ Reach(cx.kernel_satp, TRAMPOLINE_PAGE, {"X"})
                                /\ Reach(cx.kernel_satp, Text, {"X"})
                                /\ Reach(cx.kernel_satp, floor(cx.kernel_sp - 1),
                                         {"R", "W"})
                             THEN "trap_handler" ELSE "fault",
                      !.sscratch = hart.x.sp,
                      !.satp = cx.kernel_satp,
                      !.sp = cx.kernel_sp]
    /\ UNCHANGED <<tasks, current, meant, echo>>

(* The trap context of the current task, by its physical address: the      *)
(* kernel maps all memory to itself.                                       *)
CxPpn == TaskCxPpn(tables, current)

(* The scheduler's choice: the first ready task after the current one. *)
find_next_task(t) ==
    LET n == Len(Elfs)
        Nth(k) == ((current - 1 + k) % n) + 1
        ready == {k \in 1 .. n : t[Nth(k)].status = "Ready"}
    IN  IF ready = {} THEN 0
        ELSE Nth(CHOOSE k \in ready : \A j \in ready : k <= j)

(* run_next_task: __switch saves where the current task is in the kernel   *)
(* and on which stack, and continues the next one where it left.  A task   *)
(* that had yielded stores its result in its own trap context.  With       *)
(* nobody ready the kernel stops: all applications have completed.         *)
run_next_task(t, r, ra) ==
    LET next == find_next_task(t)
    IN  IF next = 0
        THEN /\ hart' = [hart EXCEPT !.at = "completed", !.stvec = "trap_from_kernel"]
             /\ tasks' = t /\ mem' = r
             /\ UNCHANGED current
        ELSE /\ tasks' = [t EXCEPT
                  ![current].cx = [ra |-> ra, sp |-> hart.sp],
                  ![next].status = "Running"]
             /\ current' = next
             /\ hart' = [hart EXCEPT !.at = "trap_return",
                                     !.stvec = "trap_from_kernel",
                                     !.sp = tasks'[next].cx.sp]
             /\ mem' = IF tasks'[next].cx.ra = "sys_yield"
                       THEN [r EXCEPT ![TaskCxPpn(tables, next)].x.a0 = 0]
                       ELSE r

(* The current task becomes ready again, or exits, and another runs. *)
suspend_current_and_run_next(r, ra) ==
    run_next_task([tasks EXCEPT ![current].status = "Ready"], r, ra)

exit_current_and_run_next(r) ==
    run_next_task([tasks EXCEPT ![current].status = "Exited"], r, "exit")

(* The pieces of a user's buffer, one for each page it touches, each found *)
(* through the user's page table.                                          *)
translated_byte_buffer(token, ptr, len) ==
    LET end == ptr + len
        Piece(vpn) ==
            LET start_va == Max({ptr, vpn * PAGE_SIZE})
                end_va == Min({(vpn + 1) * PAGE_SIZE, end})
                first == page_offset(start_va)
                last == IF page_offset(end_va) = 0 THEN PAGE_SIZE ELSE page_offset(end_va)
                bytes == mem[Ppn(token, start_va)]
            IN  [k \in 1 .. last - first |-> bytes[first + k - 1]]
        pages == vpn_range(floor(ptr), ceil(end))
    IN  [k \in DOMAIN pages |-> Piece(pages[k])]

(* sys_write prints the pieces one after the other; one that is not text   *)
(* stops the kernel.                                                       *)
sys_write(x) ==
    LET buffers == translated_byte_buffer(current, x.a1, x.a2)
    IN  IF \E k \in DOMAIN buffers : ~(Range(buffers[k]) \subseteq TextBytes)
        THEN /\ hart' = [hart EXCEPT !.at = "stopped"]
             /\ UNCHANGED <<mem, echo>>
        ELSE /\ echo' = [printed |-> FlattenSeq(buffers),
                         held |-> [k \in 1 .. x.a2 |-> meant[current].bytes[x.a1 + k - 1]]]
             /\ mem' = [mem EXCEPT ![CxPpn].sepc = @ + 1, ![CxPpn].x.a0 = x.a2]
             /\ hart' = [hart EXCEPT !.at = "trap_return", !.stvec = "trap_from_kernel"]

(* The handler, up to the point where it goes back to the user or          *)
(* switches.  The kernel stack, the code and the trap context must be      *)
(* within its reach.                                                       *)
trap_handler ==
    /\ hart.at = "trap_handler"
    /\ UNCHANGED meant
    /\ IF ~Reach(Kernel, CxPpn, {"R", "W"})
       THEN hart' = [hart EXCEPT !.at = "fault"]
            /\ UNCHANGED <<mem, tasks, current, echo>>
       ELSE LET x == mem[CxPpn].x
                stepped == [mem EXCEPT ![CxPpn].sepc = @ + 1]
            IN  \/ /\ hart.cause = "UserEnvCall" /\ x.a7 = "write"
                   /\ sys_write(x)
                   /\ UNCHANGED <<tasks, current>>
                \/ /\ hart.cause = "UserEnvCall" /\ x.a7 = "yield"
                   /\ suspend_current_and_run_next(stepped, "sys_yield")
                   /\ UNCHANGED echo
                \/ /\ hart.cause = "UserEnvCall" /\ x.a7 = "exit"
                   /\ exit_current_and_run_next(stepped)
                   /\ UNCHANGED echo
                \/ /\ hart.cause \in {"StorePageFault", "LoadPageFault",
                                      "IllegalInstruction"}
                   /\ exit_current_and_run_next(mem)
                   /\ UNCHANGED echo
                \/ /\ hart.cause = "SupervisorTimer"
                   /\ suspend_current_and_run_next(mem, "timer")
                   /\ UNCHANGED echo
                \/ /\ hart.cause = "Unsupported"
                   /\ hart' = [hart EXCEPT !.at = "stopped"]
                   /\ UNCHANGED <<mem, tasks, current, echo>>

(* trap_return: user traps go to the trampoline again, and the code there  *)
(* is given the address of the trap context and the user's token.          *)
trap_return ==
    /\ hart.at = "trap_return"
    /\ hart' = [hart EXCEPT !.stvec = "TRAMPOLINE",
                            !.at = IF Reach(Kernel, TRAMPOLINE_PAGE, {"X"})
                                   THEN "restore" ELSE "fault"]
    /\ UNCHANGED <<mem, tasks, current, meant, echo>>

(* __restore: through the user's table from the second instruction on. *)
restore ==
    LET a0 == TRAP_CONTEXT_PAGE * PAGE_SIZE
        a1 == current
        cx == mem[Ppn(a1, a0)]
    IN  /\ hart.at = "restore"
        /\ hart' = IF /\ Reach(a1, TRAMPOLINE_PAGE, {"X"})
                      /\ Reach(a1, floor(a0), {"R", "W"})
                   THEN [hart EXCEPT !.at = "user", !.satp = a1, !.sscratch = a0,
                                     !.x = cx.x, !.pc = cx.sepc, !.cause = "none"]
                   ELSE [hart EXCEPT !.at = "fault"]
        /\ UNCHANGED <<mem, tasks, current, meant, echo>>

----------------------------------------------------------------------------
(* The applications.  Each instruction is executed on the processor as it  *)
(* is, and once more on what the application means to have.                *)

(* How far the application is in its code; it exits when it is through. *)
Executed == hart.pc - Elfs[current].entry

(* A computation with an arbitrary result. *)
Compute(v) ==
    /\ hart.at = "user" /\ Executed < MaxPc
    /\ hart' = [hart EXCEPT !.x.t = v, !.pc = @ + 1]
    /\ meant' = [meant EXCEPT ![current].x.t = v, ![current].pc = @ + 1]
    /\ UNCHANGED <<mem, tasks, current, echo>>

(* A store of the temporary to an address. *)
Store(va) ==
    /\ hart.at = "user" /\ Executed < MaxPc
    /\ IF UserReach(hart.satp, va, {"W"})
       THEN /\ hart' = [hart EXCEPT !.pc = @ + 1]
            /\ mem' = [mem EXCEPT ![Ppn(hart.satp, va)][page_offset(va)] = hart.x.t]
            /\ meant' = [meant EXCEPT ![current].bytes[va] = meant[current].x.t,
                                      ![current].pc = @ + 1]
       ELSE hart' = Trapped(hart, "StorePageFault") /\ UNCHANGED <<mem, meant>>
    /\ UNCHANGED <<tasks, current, echo>>

(* A load into the temporary. *)
Load(va) ==
    /\ hart.at = "user" /\ Executed < MaxPc
    /\ IF UserReach(hart.satp, va, {"R"})
       THEN /\ hart' = [hart EXCEPT !.x.t = mem[Ppn(hart.satp, va)][page_offset(va)],
                                    !.pc = @ + 1]
            /\ meant' = [meant EXCEPT ![current].x.t = meant[current].bytes[va],
                                      ![current].pc = @ + 1]
       ELSE hart' = Trapped(hart, "LoadPageFault") /\ UNCHANGED meant
    /\ UNCHANGED <<mem, tasks, current, echo>>

(* A system call: its number and arguments are in registers.  When it      *)
(* returns, the result is in a0, all else is as it was, and the program    *)
(* goes on behind the call.                                                *)
Ecall(a7, a1, a2, result) ==
    /\ hart.at = "user" /\ (a7 = "exit" \/ Executed < MaxPc)
    /\ hart' = Trapped([hart EXCEPT !.x.a7 = a7, !.x.a1 = a1, !.x.a2 = a2],
                       "UserEnvCall")
    /\ meant' = [meant EXCEPT ![current].pc = @ + 1,
                    ![current].x = [@ EXCEPT !.a7 = a7, !.a1 = a1, !.a2 = a2,
                                             !.a0 = result]]
    /\ UNCHANGED <<mem, tasks, current, echo>>

(* The timer interrupts the application between two instructions. *)
TimerInterrupt ==
    /\ hart.at = "user"
    /\ hart' = Trapped(hart, "SupervisorTimer")
    /\ UNCHANGED <<mem, tasks, current, meant, echo>>

(* An instruction the user may not execute. *)
IllegalInstruction ==
    /\ hart.at = "user" /\ Executed < MaxPc
    /\ hart' = Trapped(hart, "IllegalInstruction")
    /\ UNCHANGED <<mem, tasks, current, meant, echo>>

(* A trap the handler has no arm for, as when the application jumps to     *)
(* where no code is.                                                       *)
OtherTrap ==
    /\ hart.at = "user" /\ Executed < MaxPc
    /\ hart' = Trapped(hart, "Unsupported")
    /\ UNCHANGED <<mem, tasks, current, meant, echo>>

(* Buffers an application may pass: they lie within its own pages. *)
Buffers == {b \in Addresses \X (1 .. MaxLen) :
              b[1] .. b[1] + b[2] - 1 \subseteq DOMAIN meant[current].bytes}

(* The kernel has stopped: no application is left. *)
Completed == hart.at = "completed" /\ UNCHANGED appsVars

AppsStep ==
    \/ alltraps \/ trap_handler \/ trap_return \/ restore
    \/ \E v \in Bytes : Compute(v)
    \/ \E va \in Addresses : Store(va) \/ Load(va)
    \/ \E b \in Buffers : Ecall("write", b[1], b[2], b[2])
    \/ Ecall("yield", 0, 0, 0)
    \/ Ecall("exit", 0, 0, 0)
    \/ TimerInterrupt \/ IllegalInstruction \/ OtherTrap
    \/ Completed

(* Nothing is mapped or unmapped after the start. *)
AppsNext == AppsStep /\ UNCHANGED tables

AppsSpec == AppsInit /\ [][AppsNext]_appsVars

----------------------------------------------------------------------------
(* Properties *)

(* Whatever is done to the other applications and in whatever order they   *)
(* are interrupted, an application finds the memory and the registers it   *)
(* left: when it runs, it runs in its own space and with the registers its *)
(* own instructions and the results of its system calls produced, and a    *)
(* byte of its memory changes by its own stores only.  On the way the      *)
(* kernel never touches a page that the table in use does not map for it,  *)
(* and no assertion made while the spaces are built fails.  The handler    *)
(* stops the kernel at a trap it does not know and at a buffer that is not *)
(* text, which any application can cause.                                  *)
ApplicationsKept ==
    /\ hart.at \notin {"fault", "panic"}
    /\ hart.at = "user" => /\ hart.satp = current
                           /\ hart.x = meant[current].x
                           /\ hart.pc = meant[current].pc
    /\ \A i \in Apps : tasks[i].status # "Exited" =>
          \A va \in DOMAIN meant[i].bytes :
              mem[Ppn(i, va)][page_offset(va)] = meant[i].bytes[va]

(* sys_write prints the bytes its caller has at the address it passed,     *)
(* also when the buffer lies on several pages, whose frames are apart.     *)
PrintedAsHeld == echo.printed = echo.held
============================================================================
