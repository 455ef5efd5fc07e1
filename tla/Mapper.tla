--------------------------------- MODULE Mapper ---------------------------------
(***************************************************************************)
(* The page tables of the riscv crate (paging/multi_level.rs and           *)
(* multi_level_x4.rs): two, three or four levels of tables in frames of    *)
(* memory, entries of real width (page_table.rs), addresses cut into       *)
(* indices (addr/).  A caller maps, unmaps and re-flags pages and flushes  *)
(* the page each call returns; the hart keeps translations it has used in  *)
(* its TLB.                                                                *)
(***************************************************************************)
EXTENDS Bits, Sequences, SequencesExt

CONSTANTS
  Schemes,      \* names of the page table types in use
  TableFrames,  \* number of frames the allocator starts with
  MaxOps        \* bound on the number of calls

VARIABLES
  scheme,
  memory,       \* the table in each frame: an entry for every index in use
  free,         \* frames the allocator has left, in the order it gives them
  tlb,          \* the translations the hart keeps
  result,       \* of the last call
  panicked,
  ops

vars == <<scheme, memory, free, tlb, result, panicked, ops>>

-----------------------------------------------------------------------------
(* Addresses                                                               *)

(* A virtual address type: the fields of its indices from the root down,   *)
(* the bits an address has, and whether the bits above are copies of the   *)
(* highest one.                                                            *)
VirtAddrSv32 == [index |-> <<22 .. 31, 12 .. 21>>, bits |-> 32, sext |-> FALSE]
VirtAddrSv39 ==
  [index |-> <<30 .. 38, 21 .. 29, 12 .. 20>>, bits |-> 39, sext |-> TRUE]
VirtAddrSv48 ==
  [index |-> <<39 .. 47, 30 .. 38, 21 .. 29, 12 .. 20>>, bits |-> 48, sext |-> TRUE]
GPAddrSv32X4 == [index |-> <<22 .. 33, 12 .. 21>>, bits |-> 34, sext |-> FALSE]
GPAddrSv39X4 ==
  [index |-> <<30 .. 40, 21 .. 29, 12 .. 20>>, bits |-> 41, sext |-> FALSE]
GPAddrSv48X4 ==
  [index |-> <<39 .. 49, 30 .. 38, 21 .. 29, 12 .. 20>>, bits |-> 50, sext |-> FALSE]

(* The highest bit of a physical address; of a frame number. *)
PhysAddrSv32 == 33
PhysAddrSv39 == 55
PhysAddrSv48 == 55

(* The aliases at the end of multi_level.rs and of multi_level_x4.rs: the  *)
(* address type, the physical address type, the bits of an index of a root *)
(* table (PageTableX32 or PageTableX64) and the fence that flushes.        *)
PageTables ==
  [Rv32PageTable |-> [va |-> VirtAddrSv32, pa |-> PhysAddrSv32, root |-> 10, fence |-> "sfence_vma"],
   Rv39PageTable |-> [va |-> VirtAddrSv39, pa |-> PhysAddrSv39, root |-> 9, fence |-> "sfence_vma"],
   Rv48PageTable |-> [va |-> VirtAddrSv48, pa |-> PhysAddrSv48, root |-> 9, fence |-> "sfence_vma"],
   Rv32PageTableGuest |-> [va |-> VirtAddrSv32, pa |-> PhysAddrSv32, root |-> 10, fence |-> "hfence_vvma"],
   Rv39PageTableGuest |-> [va |-> VirtAddrSv39, pa |-> PhysAddrSv39, root |-> 9, fence |-> "hfence_vvma"],
   Rv48PageTableGuest |-> [va |-> VirtAddrSv48, pa |-> PhysAddrSv48, root |-> 9, fence |-> "hfence_vvma"],
   Rv32PageTableX4 |-> [va |-> GPAddrSv32X4, pa |-> PhysAddrSv32, root |-> 10, fence |-> "hfence_gvma"],
   Rv39PageTableX4 |-> [va |-> GPAddrSv39X4, pa |-> PhysAddrSv39, root |-> 9, fence |-> "hfence_gvma"],
   Rv48PageTableX4 |-> [va |-> GPAddrSv48X4, pa |-> PhysAddrSv48, root |-> 9, fence |-> "hfence_gvma"]]

S == PageTables[scheme]
Levels == Len(S.va.index)

(* p4_index ... p1_index *)
Indices(va) == [l \in 1 .. Levels |-> GetBits(va, S.va.index[l])]

(* from_page_table_indices, with offset 0. *)
AddressIn(table, is) ==
  LET va == UNION {Shl(is[l], Min(table.va.index[l])) : l \in DOMAIN is}
  IN IF table.va.sext THEN SignExtended(va, table.va.bits - 1) ELSE va
FromPageTableIndices(is) == AddressIn(S, is)

(* The indices that the page with these indices is found by. *)
PageIndices(p) == Indices(FromPageTableIndices(p))

-----------------------------------------------------------------------------
(* Entries                                                                 *)

VALID == {0}
ACCESSED == {6}
DIRTY == {7}

(* PTE::set, is_unused, flags and frame (ppn). *)
Entry(frame, flags) == Shl(frame, 10) \cup flags \cup ACCESSED \cup DIRTY
IsUnused(e) == e = {}
Flags(e) == e \cap (0 .. 9)
FrameOf(e) == Shr(e, 10)

-----------------------------------------------------------------------------
(* Inputs: the page whose indices are all ones from some level on, for     *)
(* every level, so that every two pages part at a level of their own; the  *)
(* last frame; flags with and without VALID.                               *)
Ones(field) == 0 .. Cardinality(field) - 1

PagesOf(table) ==
  LET index == table.va.index
  IN {[l \in DOMAIN index |-> IF l >= k THEN Ones(index[l]) ELSE {}] :
        k \in 1 .. Len(index) + 1}
FrameNumber(table) == 0 .. table.pa - 12
Pages == PagesOf(S)
FlagSets == {{0, 1, 2}, {1}}

AllIndices == {{}} \cup {Ones(S.va.index[l]) : l \in 1 .. Levels}
Zeroed == [i \in AllIndices |-> {}]

(* Frames the allocator hands out hold what was there before. *)
Garbage == [i \in AllIndices |-> {0, 10, 11}]

(* What a call about page p returns, and the frame it mapped or unmapped. *)
Answer(call, p, how, frame) == [call |-> call, page |-> p, is |-> how, frame |-> frame]

Root == {20}
FreeFrames == [n \in 1 .. TableFrames |-> {20, n}]

Init ==
  /\ scheme \in Schemes
  /\ memory = [f \in {Root} \cup Range(FreeFrames) |->
                 IF f = Root THEN Zeroed ELSE Garbage]
  /\ free = FreeFrames
  /\ tlb = [p \in {} |-> {}]
  /\ result = Answer("none", << >>, "ok", {})
  /\ panicked = FALSE
  /\ ops = 0

-----------------------------------------------------------------------------
(* Faulty variants, for showing that the properties depend on the code. *)

(* create_p1_if_not_exist leaves a new table as the allocator gave it. *)
CreateTableDirty(st, i) ==
  IF ~st.ok THEN st
  ELSE IF ~IsUnused(st.memory[st.table][i])
  THEN [st EXCEPT !.table = FrameOf(st.memory[st.table][i])]
  ELSE IF st.free = <<>> THEN [st EXCEPT !.ok = FALSE]
  ELSE [ok |-> TRUE, table |-> Head(st.free), free |-> Tail(st.free),
        memory |-> [st.memory EXCEPT ![st.table][i] = Entry(Head(st.free), VALID)]]

-----------------------------------------------------------------------------
(* One level of create_p1_if_not_exist: the table an entry points to, made *)
(* and cleared if there is none.                                           *)
CreateTable(st, i) ==
  IF ~st.ok THEN st
  ELSE IF ~IsUnused(st.memory[st.table][i])
  THEN [st EXCEPT !.table = FrameOf(st.memory[st.table][i])]
  ELSE IF st.free = <<>> THEN [st EXCEPT !.ok = FALSE]
  ELSE LET frame == Head(st.free)
       IN [ok |-> TRUE, table |-> frame, free |-> Tail(st.free),
           memory |-> [st.memory EXCEPT ![st.table][i] = Entry(frame, VALID),
                                        ![frame] = Zeroed]]

NoTableYet == [ok |-> TRUE, table |-> Root, free |-> free, memory |-> memory]

(* create_p1_if_not_exist, with two, three and four levels. *)
Rv32CreateP1(is) == CreateTable(NoTableYet, is[1])
Rv39CreateP1(is) == CreateTable(CreateTable(NoTableYet, is[1]), is[2])
Rv48CreateP1(is) ==
  CreateTable(CreateTable(CreateTable(NoTableYet, is[1]), is[2]), is[3])

(* The table an entry points to, {} if there is none. *)
Child(mem, table, i) == IF table = {} THEN {} ELSE FrameOf(mem[table][i])

(* The walk of ref_entry and of unmap to a table of the last level. *)
Rv32Walk(mem, is) == Child(mem, Root, is[1])
Rv39Walk(mem, is) == Child(mem, Child(mem, Root, is[1]), is[2])
Rv48Walk(mem, is) == Child(mem, Child(mem, Child(mem, Root, is[1]), is[2]), is[3])

WalkTable(mem, is) ==
  CASE Levels = 2 -> Rv32Walk(mem, is)
    [] Levels = 3 -> Rv39Walk(mem, is)
    [] Levels = 4 -> Rv48Walk(mem, is)

(* The entry of a page, {} also when there is no table for it. *)
LeafEntry(mem, is) ==
  LET table == WalkTable(mem, is) IN IF table = {} THEN {} ELSE mem[table][is[Levels]]

(* Indexing the root table beyond its entries panics. *)
InRoot(is) == is[1] \subseteq 0 .. S.root - 1

-----------------------------------------------------------------------------
(* The hart's fences (external).  sfence.vma and hfence.vvma take an       *)
(* address and an address space, hfence.gvma a guest physical address      *)
(* shifted right by two and a machine; here there is one space, number 0,  *)
(* and the number of a space has 16 bits.                                  *)
Fence(kept, va, asid) ==
  [p \in {q \in DOMAIN kept : asid \cap (0 .. 15) # {} \/ FromPageTableIndices(q) # va} |->
     kept[p]]

(* asm.rs hands the operands on in the order of its parameters. *)
sfence_vma(kept, asid, addr) == Fence(kept, asid, addr)
hfence(kept, rs1, rs2) == Fence(kept, rs1, rs2)

(* Faulty: hfence.vvma too is given the address as the address space. *)
MapperFlushGPTSwapped(kept, va) == hfence(kept, {}, va)

(* flush of each MapperFlushable.  The instruction hfence.gvma takes a     *)
(* guest physical address shifted right by two: unshifted, it stands for   *)
(* the address four times as large.                                        *)
MapperFlush(kept, va) == sfence_vma(kept, {}, va)
MapperFlushGPT(kept, va) == hfence(kept, va, {})
MapperFlushGPA(kept, va) == hfence(kept, Shl(va, 2), {})

Flush(kept, va) ==
  CASE S.fence = "sfence_vma" -> MapperFlush(kept, va)
    [] S.fence = "hfence_vvma" -> MapperFlushGPT(kept, va)
    [] S.fence = "hfence_gvma" -> MapperFlushGPA(kept, va)

Step == ~panicked /\ ops < MaxOps /\ ops' = ops + 1 /\ UNCHANGED scheme

Panic ==
  /\ panicked' = TRUE
  /\ UNCHANGED <<memory, free, tlb, result>>

-----------------------------------------------------------------------------
(* map_to, once there is a table of the last level or no frame for it, and *)
(* flush of what it returns.                                               *)
MapIn(st, p, frame, flags) ==
  LET va == FromPageTableIndices(p)
      leaf == PageIndices(p)[Levels]
      error == IF ~st.ok THEN "FrameAllocationFailed" ELSE "PageAlreadyMapped"
  IN /\ Step
     /\ free' = st.free
     /\ IF ~st.ok \/ ~IsUnused(st.memory[st.table][leaf])
        THEN memory' = st.memory /\ result' = Answer("map_to", p, error, {}) /\ UNCHANGED tlb
        ELSE /\ memory' = [st.memory EXCEPT ![st.table][leaf] = Entry(frame, flags)]
             /\ result' = Answer("map_to", p, "ok", frame)
             /\ tlb' = Flush(tlb, va)
     /\ UNCHANGED panicked

Rv32MapTo(p, frame, flags) == Levels = 2 /\ MapIn(Rv32CreateP1(PageIndices(p)), p, frame, flags)
Rv39MapTo(p, frame, flags) == Levels = 3 /\ MapIn(Rv39CreateP1(PageIndices(p)), p, frame, flags)
Rv48MapTo(p, frame, flags) == Levels = 4 /\ MapIn(Rv48CreateP1(PageIndices(p)), p, frame, flags)

(* A call about a page beyond the root table: the index panics. *)
OutOfRoot(p) == Step /\ ~InRoot(PageIndices(p)) /\ Panic

MapTo(p, frame, flags) ==
  \/ OutOfRoot(p)
  \/ /\ InRoot(PageIndices(p))
     /\ Rv32MapTo(p, frame, flags) \/ Rv39MapTo(p, frame, flags) \/ Rv48MapTo(p, frame, flags)

(* identity_map: of the frame at the address of a page. *)
FrameAt(table, p) == Shr(AddressIn(table, p), 12)
IdentityMap(p, flags) ==
  FrameAt(S, p) \subseteq FrameNumber(S) /\ MapTo(p, FrameAt(S, p), flags)

(* unmap, after the walk, and flush. *)
UnmapIn(table, p) ==
  LET leaf == PageIndices(p)[Levels]
      entry == IF table = {} THEN {} ELSE memory[table][leaf]
  IN /\ Step
     /\ IF VALID \subseteq Flags(entry)
        THEN /\ memory' = [memory EXCEPT ![table][leaf] = {}]
             /\ result' = Answer("unmap", p, "ok", FrameOf(entry))
             /\ tlb' = Flush(tlb, FromPageTableIndices(p))
        ELSE result' = Answer("unmap", p, "PageNotMapped", {}) /\ UNCHANGED <<memory, tlb>>
     /\ UNCHANGED <<free, panicked>>

Rv32Unmap(p) == Levels = 2 /\ UnmapIn(Rv32Walk(memory, PageIndices(p)), p)
Rv39Unmap(p) == Levels = 3 /\ UnmapIn(Rv39Walk(memory, PageIndices(p)), p)
Rv48Unmap(p) == Levels = 4 /\ UnmapIn(Rv48Walk(memory, PageIndices(p)), p)

Unmap(p) ==
  \/ OutOfRoot(p)
  \/ InRoot(PageIndices(p)) /\ (Rv32Unmap(p) \/ Rv39Unmap(p) \/ Rv48Unmap(p))

(* update_flags, and flush. *)
UpdateFlags(p, flags) ==
  LET va == FromPageTableIndices(p)
      is == PageIndices(p)
      table == WalkTable(memory, is)
  IN /\ Step
     /\ IF ~InRoot(is) THEN Panic
        ELSE /\ IF table # {}
                THEN /\ memory' = [memory EXCEPT ![table][is[Levels]] = Entry(FrameOf(@), flags)]
                     /\ result' = Answer("update_flags", p, "ok", {})
                     /\ tlb' = Flush(tlb, va)
                ELSE result' = Answer("update_flags", p, "PageNotMapped", {}) /\ UNCHANGED <<memory, tlb>>
             /\ UNCHANGED <<free, panicked>>

(* The hart uses a page (external): it keeps a valid translation.          *)
Access(p) ==
  LET entry == LeafEntry(memory, p)
  IN /\ ~panicked
     /\ p \notin DOMAIN tlb
     /\ InRoot(p) /\ VALID \subseteq entry
     /\ tlb' = (p :> entry) @@ tlb
     /\ UNCHANGED <<scheme, memory, free, result, panicked, ops>>

Next ==
  \E p \in Pages :
    \/ \E flags \in FlagSets : MapTo(p, FrameNumber(S), flags)
    \/ IdentityMap(p, {0, 1, 2})
    \/ Unmap(p)
    \/ \E flags \in FlagSets : UpdateFlags(p, flags)
    \/ Access(p)

Spec == Init /\ [][Next]_vars

-----------------------------------------------------------------------------
(***************************************************************************)
(* Properties                                                              *)
(***************************************************************************)
(* translate_page, with the flags. *)
Mapped == {p \in Pages : ~IsUnused(LeafEntry(memory, p))}
TranslatePage ==
  [p \in Mapped |->
     LET entry == LeafEntry(memory, p)
     IN [frame |-> FrameOf(entry), flags |-> Flags(entry) \ (ACCESSED \cup DIRTY)]]

AllPages == UNION {PagesOf(PageTables[s]) : s \in Schemes}
Map == INSTANCE PageMap WITH
  Pages <- AllPages, map <- TranslatePage, Valid <- VALID,
  FrameZero <- {}

(* The tables implement a function from pages to mappings: a call changes  *)
(* the mapping of the page it names and of no other, although pages share  *)
(* tables, new tables come with old contents, and map_to may run out of    *)
(* frames half way down and leave the tables it made.                      *)
MapSpec == Map!Spec

(* update_flags of a page without a mapping, if there is a table for it:   *)
(* the page becomes mapped to frame zero.                                  *)
UpdatesUnmapped ==
  /\ result'.page \notin Mapped
  /\ result' = Answer("update_flags", result'.page, "ok", {})
  /\ \E flags \in FlagSets :
       TranslatePage' = (result'.page :> Map!Mapping({}, flags)) @@ TranslatePage

(* The same but for these calls, on which comment and code disagree; what  *)
(* they leave behind is a mapping like any other.  And only a root table   *)
(* of the second stage, which has entries for a part of the guest's pages, *)
(* makes a call panic.                                                     *)
MapsButUnmappedUpdates ==
  /\ Map!Init
  /\ [][UpdatesUnmapped \/ Map!Next]_<<TranslatePage, result>>
  /\ [](panicked => S.fence = "hfence_gvma")

(* A page that has been flushed is translated by its newest mapping        *)
(* (mapper.rs, MapperFlushable): no translation the hart keeps is stale.   *)
FlushedIsFresh == \A p \in DOMAIN tlb : tlb[p] = LeafEntry(memory, p)

=============================================================================
