----------------------------- MODULE UserMemory -----------------------------
(***************************************************************************)
(* The chapter 7 kernel (os7-ref) as it reaches into the memory of its     *)
(* processes.  A system call is given addresses of the caller; the kernel  *)
(* walks the caller's page table and works on the frames.  A buffer or a   *)
(* string may cross pages whose frames are anywhere; exec reads strings    *)
(* out of the old memory and lays them out, with an array of pointers, on  *)
(* the stack of a new one, where the program's _start finds them.          *)
(*                                                                         *)
(* Physical memory is an array of bytes, so that an access through a       *)
(* translated address goes on into the next frame as it would in the       *)
(* machine.  A page table is the function it stands for.  Programs keep    *)
(* words aligned, as Rust does.                                            *)
(***************************************************************************)
EXTENDS Allocators, SequencesExt, FiniteSetsExt, TLC

CONSTANTS
  PAGE_SIZE,
  WORD,             \* size_of::<usize>()
  Base,             \* values of a byte; the lower half is ASCII
  TRAP_CONTEXT,     \* page of the trap context; the trampoline is the next one
  USER_STACK_PAGES,
  FirstFrame, EndFrame,       \* the frames
  Programs,         \* name to [segments, entry]; a segment is [start, end, data]
  InitprocName,
  Contents,         \* bytes of the file and of the pipe that are open
  FdTable,          \* descriptors that are open: to "inode" or "pipe"
  Fds,              \* descriptors passed to read and write
  Pids,             \* process ids; their allocator is AllocatorClients' subject
  Buffers,          \* [ptr, len] passed to read and write
  WordPtrs,         \* word addresses passed to pipe and waitpid
  ExecPtrs,         \* [path, args]: addresses of a string and of a pointer array
  StoreVas,         \* addresses programs store to
  MaxCalls          \* bound on the steps of a behaviour

VARIABLES
  fa,       \* FRAME_ALLOCATOR
  ram,      \* physical memory
  spaces,   \* pid to memory set
  procs,    \* pid to [status, parent, exit_code, cx, program]
  offset,   \* of the open file
  calls,
  flat,     \* pid to the memory the process has by the meaning of its calls
  given,    \* pid to the argument strings its exec was given
  echo      \* what the last sys_write passed on, and what its caller holds

umVars == << fa, ram, spaces, procs, offset, calls, flat, given, echo >>

Without(f, k) == [i \in DOMAIN f \ {k} |-> f[i]]

-----------------------------------------------------------------------------
(* mm/address.rs                                                           *)

floor(va) == va \div PAGE_SIZE
ceil(va) == (va - 1 + PAGE_SIZE) \div PAGE_SIZE
page_offset(va) == va % PAGE_SIZE
AddressOf(page) == page * PAGE_SIZE
VPNRange(l, r) == [i \in 1 .. r - l |-> l + i - 1]

(* The bytes of a word, and the word of bytes. *)
ToBytes(n) == [i \in 1 .. WORD |-> (n \div (Base ^ (i - 1))) % Base]
FromBytes(b) == FoldLeftDomain(LAMBDA acc, i : acc + b[i] * (Base ^ (i - 1)), 0, b)

(* Memory m with bytes b stored from address pa on. *)
Put(m, pa, b) == [a \in pa .. pa + Len(b) - 1 |-> b[a - pa + 1]] @@ m
Get(m, pa, len) == [i \in 1 .. len |-> m[pa + i - 1]]

-----------------------------------------------------------------------------
(* mm/memory_set.rs, on a machine w = [fa, ram, space], space being the    *)
(* memory set worked on: [table, areas].                                   *)

new_bare == [table |-> << >>, areas |-> << >>]

(* map_one of a framed area: a cleared frame, owned by the last area. *)
map_one(w, vpn) ==
  LET ppn == AllocPpn(w.fa) IN
  [fa |-> AllocFrame(w.fa),
   ram |-> Put(w.ram, AddressOf(ppn), [i \in 1 .. PAGE_SIZE |-> 0]),
   space |-> [table |-> (vpn :> ppn) @@ w.space.table,
              areas |-> [w.space.areas EXCEPT ![Len(w.space.areas)].frames = Append(@, ppn)]]]

(* copy_data: page by page from the first page of the area. *)
copy_data(w, start, data) ==
  [w EXCEPT !.ram =
     FoldLeft(LAMBDA m, i :
                Put(m, AddressOf(w.space.table[start + i - 1]),
                    SubSeq(data, (i - 1) * PAGE_SIZE + 1, Min({Len(data), i * PAGE_SIZE}))),
              @, [i \in 1 .. ceil(Len(data)) |-> i])]

(* push: the area is mapped, filled and recorded. *)
push(w, start, end, user, data) ==
  LET area == [start |-> start, end |-> end, user |-> user, frames |-> << >>]
      mapped == FoldLeft(map_one, [w EXCEPT !.space.areas = Append(@, area)], VPNRange(start, end))
  IN  IF data = << >> THEN mapped ELSE copy_data(mapped, start, data)

(* from_elf: segments, guard page, user stack, trap context. *)
StackBottom(elf) == ceil(Last(elf.segments).end) + 1
from_elf(w, elf) ==
  LET loaded == FoldLeft(LAMBDA x, s : push(x, floor(s.start), ceil(s.end), TRUE, s.data),
                         [w EXCEPT !.space = new_bare], elf.segments)
      bottom == StackBottom(elf)
      stacked == push(loaded, bottom, bottom + USER_STACK_PAGES, TRUE, << >>)
  IN  push(stacked, TRAP_CONTEXT, TRAP_CONTEXT + 1, FALSE, << >>)
UserSp(elf) == AddressOf(StackBottom(elf) + USER_STACK_PAGES)

(* from_existed_user: every area with frames of its own, page by page. *)
from_existed_user(w, user_space) ==
  FoldLeft(LAMBDA x, area :
             LET mapped == push(x, area.start, area.end, area.user, << >>) IN
             [mapped EXCEPT !.ram =
                FoldLeft(LAMBDA m, vpn :
                           Put(m, AddressOf(mapped.space.table[vpn]),
                               Get(m, AddressOf(user_space.table[vpn]), PAGE_SIZE)),
                         @, VPNRange(area.start, area.end))],
           [w EXCEPT !.space = new_bare], user_space.areas)

(* The frames of the areas of a memory set are given back when it is dropped
   or its areas are cleared. *)
recycle_data_pages(f, space) ==
  FoldLeft(LAMBDA x, area : FoldLeft(DeallocFrame, x, area.frames), f, space.areas)

-----------------------------------------------------------------------------
(* Faulty variants, for showing that the properties depend on the code.    *)

(* The last fragment runs to the end of its page. *)
SliceWholePage(table, start, end) ==
  [pa |-> AddressOf(table[floor(start)]) + page_offset(start), len |-> PAGE_SIZE - page_offset(start)]

(* exec reports success as 0, as the kernels without arguments do. *)
exec_resultZero(args) == 0

(* The string is made of the bytes as they are. *)
Utf8Raw(ch) == << ch >>

-----------------------------------------------------------------------------
(* mm/page_table.rs: user addresses, through the table of a memory set.    *)

translate_va(space, va) == AddressOf(space.table[floor(va)]) + page_offset(va)

(* One fragment of a buffer: what of start .. end - 1 lies in the first page. *)
Slice(table, start, end) ==
  LET end_va == Min({AddressOf(floor(start) + 1), end})
      upto == IF page_offset(end_va) = 0 THEN PAGE_SIZE ELSE page_offset(end_va)
  IN  [pa |-> AddressOf(table[floor(start)]) + page_offset(start), len |-> upto - page_offset(start)]

(* translated_byte_buffer: the fragments, one for each page. *)
translated_byte_buffer(space, ptr, len) ==
  IF len = 0 THEN << >>
  ELSE [i \in 1 .. floor(ptr + len - 1) - floor(ptr) + 1 |->
          Slice(space.table, IF i = 1 THEN ptr ELSE AddressOf(floor(ptr) + i - 1), ptr + len)]

(* string.push(ch as char): the UTF-8 encoding of the character whose code  *)
(* is the byte, which has two bytes from 0x80, half of Base, on.            *)
ASCII == Base \div 2
CONT == Base \div 4      \* 0x40: values of the bits of a continuation byte
Utf8(ch) ==
  IF ch < ASCII THEN << ch >> ELSE << 3 * CONT + (ch \div CONT), ASCII + (ch % CONT) >>

(* translated_str: byte by byte up to the zero. *)
translated_str(space, m, ptr) ==
  LET At(k) == m[translate_va(space, ptr + k)]
      len == CHOOSE k \in 0 .. AddressOf(TRAP_CONTEXT) : At(k) = 0 /\ \A j \in 0 .. k - 1 : At(j) # 0
  IN  FlattenSeq([i \in 1 .. len |-> Utf8(At(i - 1))])

(* translated_ref of a word. *)
translated_ref(space, m, ptr) == FromBytes(Get(m, translate_va(space, ptr), WORD))

(* A store through translated_refmut, of a word and of a byte. *)
translated_refmut(space, m, ptr, bytes) == Put(m, translate_va(space, ptr), bytes)

(* UserBuffer::len. *)
BufferLen(buffers) == FoldLeft(LAMBDA n, b : n + b.len, 0, buffers)

(* UserBufferIterator: an iterator is [buf, idx], counted from 1 and 0; next
   gives an address and moves on. *)
NextRef(buffers, it) == buffers[it.buf].pa + it.idx
NextIt(buffers, it) ==
  IF it.idx + 1 = buffers[it.buf].len THEN [buf |-> it.buf + 1, idx |-> 0] ELSE [it EXCEPT !.idx = @ + 1]

-----------------------------------------------------------------------------
(* The processes.                                                          *)

Live(p) == p \in DOMAIN procs /\ procs[p].status = "live"
CanCall(p) == Live(p) /\ ~procs[p].cx.entered
Machine == [fa |-> fa, ram |-> ram, space |-> new_bare]
Counted == calls < MaxCalls /\ calls' = calls + 1

(* The user's view: what its loads find. *)
UserVas(space) ==
  {va \in 0 .. AddressOf(TRAP_CONTEXT) - 1 :
     \E i \in DOMAIN space.areas : /\ space.areas[i].user
                                   /\ floor(va) \in space.areas[i].start .. space.areas[i].end - 1}
View(space, m) == [va \in UserVas(space) |-> m[translate_va(space, va)]]

(* The memory a program starts with: its segments, zero elsewhere. *)
StartMemory(elf) ==
  LET pages == UNION {floor(s.start) .. ceil(s.end) - 1 : s \in Range(elf.segments)}
                 \cup StackBottom(elf) .. StackBottom(elf) + USER_STACK_PAGES - 1
      vas == {va \in 0 .. AddressOf(TRAP_CONTEXT) - 1 : floor(va) \in pages}
      Holds(s, va) == va \in s.start .. s.start + Len(s.data) - 1
  IN  [va \in vas |-> IF \E s \in Range(elf.segments) : Holds(s, va)
                        THEN LET s == CHOOSE s \in Range(elf.segments) : Holds(s, va) IN s.data[va - s.start + 1]
                        ELSE 0]

(* TaskControlBlock::new for initproc, whose context is that of no arguments. *)
CallsInit ==
  LET elf == Programs[InitprocName]
      w == from_elf([fa |-> NewFrames(FirstFrame, EndFrame), ram |-> [pa \in 0 .. AddressOf(EndFrame) - 1 |-> 0], space |-> new_bare], elf)
  IN  /\ fa = w.fa
      /\ ram = w.ram
      /\ spaces = (1 :> w.space)
      /\ procs = (1 :> [status |-> "live", parent |-> 1, exit_code |-> 0, program |-> InitprocName,
                         cx |-> [x10 |-> 0, x11 |-> 0, sp |-> UserSp(elf), entered |-> FALSE]])
      /\ offset = 0
      /\ calls = 0
      /\ flat = (1 :> StartMemory(elf))
      /\ given = (1 :> << >>)
      /\ echo = [passed |-> << >>, held |-> << >>]

(* A user store. *)
Store(p, va, b) ==
  /\ CanCall(p) /\ Counted
  /\ va \in UserVas(spaces[p])
  /\ ram' = Put(ram, translate_va(spaces[p], va), << b >>)
  /\ flat' = [flat EXCEPT ![p][va] = b]
  /\ UNCHANGED << fa, spaces, procs, offset, given, echo >>

(* The bytes Inode::read_at finds at o for a slice of n. *)
ReadAt(o, n) == SubSeq(Contents, o + 1, Min({Len(Contents), o + n}))

(* OSInode::read: a slice at a time until one comes back empty. *)
InodeRead(buffers, m, o) ==
  FoldLeft(LAMBDA r, b :
             LET found == ReadAt(r.offset, b.len) IN
             IF r.stop \/ found = << >> THEN [r EXCEPT !.stop = TRUE]
             ELSE [r EXCEPT !.ram = Put(@, b.pa, found), !.offset = @ + Len(found), !.total = @ + Len(found)],
           [ram |-> m, offset |-> o, total |-> 0, stop |-> FALSE], buffers)

(* Pipe::read of the bytes in the ring, through the iterator. *)
PipeRead(buffers, m, bytes) ==
  FoldLeft(LAMBDA r, c : [ram |-> Put(r.ram, NextRef(buffers, r.it), << c >>), it |-> NextIt(buffers, r.it)],
           [ram |-> m, it |-> [buf |-> 1, idx |-> 0]], bytes).ram

(* A call on a descriptor that is not open. *)
BadFd(p) ==
  /\ procs' = [procs EXCEPT ![p].cx.x10 = 0 - 1]
  /\ UNCHANGED << fa, ram, spaces, offset, flat, given, echo >>

ReadInode(p, b) ==
  LET r == InodeRead(translated_byte_buffer(spaces[p], b.ptr, b.len), ram, offset) IN
  /\ ram' = r.ram
  /\ offset' = r.offset
  /\ procs' = [procs EXCEPT ![p].cx.x10 = r.total]
  /\ flat' = [flat EXCEPT ![p] = Put(@, b.ptr, ReadAt(offset, b.len))]
  /\ UNCHANGED << fa, spaces, given, echo >>

ReadPipe(p, b) ==
  LET buffers == translated_byte_buffer(spaces[p], b.ptr, b.len)
      bytes == SubSeq(Contents, 1, Min({Len(Contents), BufferLen(buffers)}))
  IN  /\ ram' = PipeRead(buffers, ram, bytes)
      /\ procs' = [procs EXCEPT ![p].cx.x10 = Len(bytes)]
      /\ flat' = [flat EXCEPT ![p] = Put(@, b.ptr, SubSeq(Contents, 1, Min({Len(Contents), b.len})))]
      /\ UNCHANGED << fa, spaces, offset, given, echo >>

sys_read(p, fd, b) ==
  /\ CanCall(p) /\ Counted
  /\ IF fd \notin DOMAIN FdTable THEN BadFd(p)
     ELSE IF FdTable[fd] = "inode" THEN ReadInode(p, b) ELSE ReadPipe(p, b)

(* OSInode::write: the slices in order, at the end of another file.         *)
(* write_at makes the file large enough first, so that it takes each slice  *)
(* whole and the assertion on write_size holds.                             *)
WriteInode(p, b) ==
  LET buffers == translated_byte_buffer(spaces[p], b.ptr, b.len) IN
  /\ echo' = [passed |-> FoldLeft(LAMBDA out, s : out \o Get(ram, s.pa, s.len), << >>, buffers),
              held |-> Get(flat[p], b.ptr, b.len)]
  /\ procs' = [procs EXCEPT ![p].cx.x10 = BufferLen(buffers)]
  /\ UNCHANGED << fa, ram, spaces, offset, flat, given >>

(* The pipe's descriptor is its read end, which programs do not write to. *)
sys_write(p, fd, b) ==
  /\ CanCall(p) /\ Counted
  /\ IF fd \notin DOMAIN FdTable THEN BadFd(p)
     ELSE FdTable[fd] = "inode" /\ WriteInode(p, b)

(* sys_pipe: the two descriptors are stored in an array of the caller. *)
sys_pipe(p, pipe, read_fd, write_fd) ==
  /\ CanCall(p) /\ Counted
  /\ ram' = translated_refmut(spaces[p], translated_refmut(spaces[p], ram, pipe, ToBytes(read_fd)),
                              pipe + WORD, ToBytes(write_fd))
  /\ procs' = [procs EXCEPT ![p].cx.x10 = 0]
  /\ flat' = [flat EXCEPT ![p] = Put(@, pipe, ToBytes(read_fd) \o ToBytes(write_fd))]
  /\ UNCHANGED << fa, spaces, offset, given, echo >>

(* sys_fork: the child has a copy and returns 0. *)
sys_fork(p, c) ==
  LET w == from_existed_user(Machine, spaces[p]) IN
  /\ CanCall(p) /\ Counted
  /\ c \in Pids \ DOMAIN procs /\ \A d \in Pids \ DOMAIN procs : c <= d
  /\ fa' = w.fa
  /\ ram' = w.ram
  /\ spaces' = (c :> w.space) @@ spaces
  /\ procs' = (c :> [procs[p] EXCEPT !.parent = p, !.exit_code = 0, !.cx.x10 = 0])
              @@ [procs EXCEPT ![p].cx.x10 = c]
  /\ flat' = (c :> flat[p]) @@ flat
  /\ given' = (c :> given[p]) @@ given
  /\ UNCHANGED << offset, echo >>

(* The argument strings of sys_exec: pointers up to the null one. *)
ReadArgs(space, m, args) ==
  LET n == CHOOSE k \in 0 .. AddressOf(TRAP_CONTEXT) :
             /\ translated_ref(space, m, args + k * WORD) = 0
             /\ \A j \in 0 .. k - 1 : translated_ref(space, m, args + j * WORD) # 0
  IN  [i \in 1 .. n |-> translated_str(space, m, translated_ref(space, m, args + (i - 1) * WORD))]

(* exec lays the arguments out: the array of pointers at the top of the stack,
   the strings below it, the stack pointer aligned below them. *)
PushArgs(space, m, top, args) ==
  LET argv_base == top - (Len(args) + 1) * WORD
      laid == FoldLeftDomain(
                LAMBDA r, i :
                  LET sp == r.sp - (Len(args[i]) + 1)
                      argv == translated_refmut(space, r.ram, argv_base + (i - 1) * WORD, ToBytes(sp))
                  IN  [sp |-> sp,
                       ram |-> FoldLeftDomain(LAMBDA x, k : translated_refmut(space, x, sp + k - 1, << Append(args[i], 0)[k] >>),
                                              argv, Append(args[i], 0))],
                [sp |-> argv_base,
                 ram |-> translated_refmut(space, m, argv_base + Len(args) * WORD, ToBytes(0))],
                args)
  IN  [ram |-> laid.ram, sp |-> laid.sp - (laid.sp % WORD), argv_base |-> argv_base]

(* The same strings by plain loads of the memory m a process has by the     *)
(* meaning of its calls: bytes up to a zero, pointers up to a null one.     *)
CString(m, ptr) ==
  Get(m, ptr, CHOOSE k \in 0 .. AddressOf(TRAP_CONTEXT) :
                m[ptr + k] = 0 /\ \A j \in 0 .. k - 1 : m[ptr + j] # 0)
NamedStrings(m, args) ==
  LET Pointer(k) == FromBytes(Get(m, args + k * WORD, WORD))
      n == CHOOSE k \in 0 .. AddressOf(TRAP_CONTEXT) : Pointer(k) = 0 /\ \A j \in 0 .. k - 1 : Pointer(j) # 0
  IN  [i \in 1 .. n |-> CString(m, Pointer(i - 1))]

(* What sys_exec returns; trap_handler writes it to x10 of the new context. *)
exec_result(args) == Len(args)

(* sys_exec and TaskControlBlock::exec: the new memory set is complete before
   it takes the place of the old one, which is then dropped. *)
sys_exec(p, path, args) ==
  LET name == translated_str(spaces[p], ram, path)
      strings == ReadArgs(spaces[p], ram, args)
      elf == Programs[name]
      w == from_elf(Machine, elf)
      laid == PushArgs(w.space, w.ram, UserSp(elf), strings)
      start == StartMemory(elf)
      pushed == View(w.space, laid.ram)
  IN  /\ CanCall(p) /\ Counted
      /\ IF name \in DOMAIN Programs
         THEN /\ ram' = laid.ram
              /\ fa' = recycle_data_pages(w.fa, spaces[p])
              /\ spaces' = [spaces EXCEPT ![p] = w.space]
              /\ procs' = [procs EXCEPT ![p].program = name,
                                        ![p].cx = [x10 |-> exec_result(strings), x11 |-> laid.argv_base, sp |-> laid.sp, entered |-> TRUE]]
              /\ flat' = [flat EXCEPT ![p] = [va \in DOMAIN start |-> IF va >= laid.sp THEN pushed[va] ELSE start[va]]]
              /\ given' = [given EXCEPT ![p] = NamedStrings(flat[p], args)]
         ELSE /\ procs' = [procs EXCEPT ![p].cx.x10 = 0 - 1]
              /\ UNCHANGED << fa, ram, spaces, flat, given >>
      /\ UNCHANGED << offset, echo >>

(* _start has read its arguments; the program goes on. *)
Started(p) ==
  /\ Live(p) /\ procs[p].cx.entered
  /\ procs' = [procs EXCEPT ![p].cx.entered = FALSE]
  /\ UNCHANGED << fa, ram, spaces, offset, calls, flat, given, echo >>

(* exit_current_and_run_next: the data pages go back, the page table stays
   until the process is waited for; children go to initproc. *)
sys_exit(p, code) ==
  /\ CanCall(p) /\ p # 1 /\ Counted
  /\ fa' = recycle_data_pages(fa, spaces[p])
  /\ spaces' = [spaces EXCEPT ![p].areas = << >>]
  /\ procs' = [q \in DOMAIN procs |->
                 IF q = p THEN [procs[q] EXCEPT !.status = "zombie", !.exit_code = code]
                 ELSE IF procs[q].parent = p THEN [procs[q] EXCEPT !.parent = 1] ELSE procs[q]]
  /\ flat' = Without(flat, p)
  /\ given' = Without(given, p)
  /\ UNCHANGED << ram, offset, echo >>

(* sys_waitpid of a child that has exited: its code is stored for the caller. *)
sys_waitpid(p, c, exit_code_ptr) ==
  /\ CanCall(p) /\ Counted
  /\ c \in DOMAIN procs \ {p} /\ procs[c].parent = p /\ procs[c].status = "zombie"
  /\ ram' = translated_refmut(spaces[p], ram, exit_code_ptr, ToBytes(procs[c].exit_code))
  /\ spaces' = Without(spaces, c)
  /\ procs' = Without([procs EXCEPT ![p].cx.x10 = c], c)
  /\ flat' = [flat EXCEPT ![p] = Put(@, exit_code_ptr, ToBytes(procs[c].exit_code))]
  /\ UNCHANGED << fa, offset, given, echo >>

CallsNext ==
  \E p \in Pids :
    \/ \E va \in StoreVas : Store(p, va, p)
    \/ \E fd \in Fds, b \in Buffers : sys_read(p, fd, b) \/ sys_write(p, fd, b)
    \/ \E ptr \in WordPtrs : sys_pipe(p, ptr, 3, 4) \/ \E c \in Pids : sys_waitpid(p, c, ptr)
    \/ \E c \in Pids : sys_fork(p, c)
    \/ \E e \in ExecPtrs : sys_exec(p, e.path, e.args)
    \/ Started(p)
    \/ sys_exit(p, 2)

CallsSpec == CallsInit /\ [][CallsNext]_umVars

-----------------------------------------------------------------------------
(* What the calls must do.                                                 *)

(* _start: argc and argv are in x10 and x11; the strings are read by plain  *)
(* loads, each to its zero byte, and taken as UTF-8: the codes of their     *)
(* characters.                                                              *)
Chars(s) ==
  LET leads == SelectSeq([i \in DOMAIN s |-> i], LAMBDA i : s[i] < ASCII \/ s[i] >= 3 * CONT)
      Code(i) == IF s[i] < ASCII THEN s[i] ELSE (s[i] % CONT) * CONT + (s[i + 1] % CONT)
  IN  [k \in DOMAIN leads |-> Code(leads[k])]
StartArgs(p) ==
  LET m == View(spaces[p], ram)
      cx == procs[p].cx
  IN  [i \in 1 .. cx.x10 |-> Chars(CString(m, FromBytes(Get(m, cx.x11 + (i - 1) * WORD, WORD))))]

(* Every process finds in its memory what it and its calls put there, byte  *)
(* for byte, wherever the frames lie and whoever had them before; and what  *)
(* sys_write passed on is what its caller held.                             *)
MemoryAsMeant ==
  /\ \A p \in DOMAIN procs : Live(p) => View(spaces[p], ram) = flat[p]
  /\ echo.passed = echo.held

(* A program started by exec finds the strings its predecessor named, in    *)
(* order, above its stack pointer: each as the characters whose codes are   *)
(* the bytes it was given, which for ASCII is the string itself, and for a  *)
(* byte of 0x80 or more a character that is stored in two bytes.            *)
ArgumentsReach ==
  \A p \in DOMAIN procs :
    Live(p) /\ procs[p].cx.entered =>
      /\ StartArgs(p) = given[p]
      /\ procs[p].cx.sp <= procs[p].cx.x11
      /\ procs[p].cx.sp % WORD = 0

=============================================================================
