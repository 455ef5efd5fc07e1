----------------------------- MODULE PageTable ------------------------------
(***************************************************************************)
(* Page tables and memory sets (os8-ref/src/mm/page_table.rs and           *)
(* memory_set.rs) over physical memory.  A frame holds Entries words; a    *)
(* word is what it looks like as a page table entry, so a table walk reads *)
(* whatever the frame holds.  A page's bytes are its words.                *)
(*                                                                         *)
(* The operators take and return a machine: [fa, ram, space, fault] and    *)
(* the local variables at (a table reached by a walk), got (a frame just   *)
(* allocated), new (the data_frames of the area being made).  A fault is a *)
(* panic; the rest of the operation then does nothing.                     *)
(***************************************************************************)
EXTENDS Allocators, SequencesExt

CONSTANT Entries     \* entries of a page table; 512 in Sv39

Zero == [ppn |-> 0, flags |-> {}]
ZeroPage == [i \in 0 .. Entries - 1 |-> Zero]
NoEntry == [ppn |-> 0, flags |-> {"None"}]

TrampolineVpn == Entries * Entries * Entries - 1
TrampolinePpn == 1

IsValid(pte) == "V" \in pte.flags

(* VirtPageNum::indexes. *)
Index(vpn, level) ==
  CASE level = 1 -> vpn \div (Entries * Entries)
    [] level = 2 -> (vpn \div Entries) % Entries
    [] level = 3 -> vpn % Entries

VPNRange(start, end) == [i \in 1 .. end - start |-> start + i - 1]

-----------------------------------------------------------------------------
(* Faulty variants, for showing that the properties depend on the code. *)

(* frame_alloc without the page cleaning of FrameTracker::new. *)
FrameAllocDirty(w) ==
  IF w.fault # "none" THEN w
  ELSE IF ~HasFrame(w.fa) THEN [w EXCEPT !.fault = "oom"]
  ELSE [w EXCEPT !.fa = AllocFrame(@), !.got = AllocPpn(w.fa)]

(* unmap frees the page but leaves its entry. *)
PtUnmapNot(w, s, vpn) == w

-----------------------------------------------------------------------------
(* frame_alloc().unwrap(): the frame is cleaned by FrameTracker::new. *)
FrameAlloc(w) ==
  IF w.fault # "none" THEN w
  ELSE IF ~HasFrame(w.fa) THEN [w EXCEPT !.fault = "oom"]
  ELSE [w EXCEPT !.fa = AllocFrame(@), !.got = AllocPpn(w.fa),
                 !.ram[AllocPpn(w.fa)] = ZeroPage]

(* Drop of a FrameTracker. *)
FrameDrop(w, ppn) ==
  IF w.fault # "none" THEN w
  ELSE IF ~DeallocChecked(w.fa, ppn) THEN [w EXCEPT !.fault = "not allocated"]
  ELSE [w EXCEPT !.fa = DeallocFrame(@, ppn)]

FramesDrop(w, ppns) == FoldLeft(FrameDrop, w, ppns)

(* A table just allocated is put into entry idx of the table at. *)
TableAdded(w, s, at, idx) ==
  IF w.fault # "none" THEN w
  ELSE [w EXCEPT !.ram[at][idx] = [ppn |-> w.got, flags |-> {"V"}],
                 !.space[s].tables = Append(@, w.got),
                 !.at = w.got]

(* One level of find_pte_create: a missing table is allocated. *)
Descend(w, s, idx) ==
  IF w.fault # "none" THEN w
  ELSE IF IsValid(w.ram[w.at][idx]) THEN [w EXCEPT !.at = w.ram[w.at][idx].ppn]
  ELSE TableAdded(FrameAlloc(w), s, w.at, idx)

(* find_pte_create: at is the table that holds the entry of vpn. *)
FindPteCreate(w, s, vpn) ==
  Descend(Descend([w EXCEPT !.at = w.space[s].root], s, Index(vpn, 1)), s, Index(vpn, 2))

(* Entry idx of the table reached by a walk, set by map, cleared by unmap. *)
SetEntry(w, idx, pte) ==
  IF w.fault # "none" THEN w
  ELSE IF IsValid(w.ram[w.at][idx]) THEN [w EXCEPT !.fault = "mapped before mapping"]
  ELSE [w EXCEPT !.ram[w.at][idx] = pte]

ClearEntry(w, idx) ==
  IF w.fault # "none" THEN w
  ELSE IF ~IsValid(w.ram[w.at][idx]) THEN [w EXCEPT !.fault = "invalid before unmapping"]
  ELSE [w EXCEPT !.ram[w.at][idx] = Zero]

PtMap(w, s, vpn, ppn, flags) ==
  SetEntry(FindPteCreate(w, s, vpn), Index(vpn, 3), [ppn |-> ppn, flags |-> flags \cup {"V"}])

PtUnmap(w, s, vpn) == ClearEntry(FindPteCreate(w, s, vpn), Index(vpn, 3))

(* translate: the entry found in the last table, valid or not. *)
Translate(m, root, vpn) ==
  LET p1 == m[root][Index(vpn, 1)]
      p2 == m[p1.ppn][Index(vpn, 2)] IN
  IF ~IsValid(p1) THEN NoEntry
  ELSE IF ~IsValid(p2) THEN NoEntry
  ELSE m[p2.ppn][Index(vpn, 3)]

-----------------------------------------------------------------------------
(* MemorySet and MapArea.                                                  *)

(* new_bare and map_trampoline. *)
NewBare(w, s) ==
  LET x == FrameAlloc(w)
      y == [x EXCEPT !.space[s] = [root |-> x.got, tables |-> <<x.got>>, areas |-> << >>]] IN
  PtMap(y, s, TrampolineVpn, TrampolinePpn, {})

(* MapArea::map_one of a framed area. *)
MapOne(w, s, vpn, flags) ==
  LET x == FrameAlloc(w)
      y == [x EXCEPT !.new = Append(@, x.got)] IN
  PtMap(y, s, vpn, x.got, flags)

(* MapArea::copy_data and the copy of fork: pages written one by one from  *)
(* the start of an area.                                                   *)
CopyData(w, s, start, pages) ==
  IF w.fault # "none" THEN w
  ELSE FoldLeft(LAMBDA x, i :
                  [x EXCEPT !.ram[Translate(x.ram, x.space[s].root, start + i - 1).ppn] = pages[i]],
                w, [i \in DOMAIN pages |-> i])

AreaAdded(w, s, start, flags) ==
  [w EXCEPT !.space[s].areas =
     Append(@, [start |-> start, flags |-> flags, data_frames |-> w.new])]

(* MemorySet::push: the frames are allocated and mapped, then filled. *)
Push(w, s, start, end, flags, pages) ==
  LET x == FoldLeft(LAMBDA y, vpn : MapOne(y, s, vpn, flags),
                    [w EXCEPT !.new = << >>], VPNRange(start, end)) IN
  AreaAdded(CopyData(x, s, start, pages), s, start, flags)

AreaPages(area) == VPNRange(area.start, area.start + Len(area.data_frames))

(* remove_area_with_start_vpn: of the first such area, if there is one. *)
RemoveArea(w, s, start) ==
  LET areas == w.space[s].areas
      at == {i \in DOMAIN areas : areas[i].start = start}
      i == Min(at)
      unmap_one(x, k) == PtUnmap(FrameDrop(x, areas[i].data_frames[k]), s, start + k - 1) IN
  IF at = {} THEN w
  ELSE [FoldLeft(unmap_one, w, [k \in DOMAIN areas[i].data_frames |-> k])
          EXCEPT !.space[s].areas = RemoveAt(@, i)]

(* recycle_data_pages: the frames go back, the tables stay. *)
RecycleDataPages(w, s) ==
  [FoldLeft(LAMBDA x, area : FramesDrop(x, area.data_frames), w, w.space[s].areas)
     EXCEPT !.space[s].areas = << >>]

(* Drop of a MemorySet: the page table, then the areas. *)
DropSpace(w, s) ==
  [RecycleDataPages(FramesDrop(w, w.space[s].tables), s) EXCEPT !.space[s].tables = << >>]

=============================================================================
