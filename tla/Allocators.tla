----------------------------- MODULE Allocators -----------------------------
(***************************************************************************)
(* The allocators of os8-ref that recycle what they get back: the methods  *)
(* of RecycleAllocator (task/id.rs), used for process ids, for thread ids  *)
(* inside a process and for kernel stacks, and those of                    *)
(* StackFrameAllocator (mm/frame_allocator.rs).                            *)
(***************************************************************************)
EXTENDS Integers, Sequences, Functions, FiniteSets

(* Ids.  An allocator is a value [current, recycled]; recycled is a stack. *)

(* Faulty alloc: returns a recycled id without popping it. *)
AllocNextPeek(a) ==
  IF a.recycled # << >> THEN a ELSE [a EXCEPT !.current = @ + 1]

NewAllocator == [current |-> 0, recycled |-> << >>]

AllocId(a) ==
  IF a.recycled # << >> THEN a.recycled[Len(a.recycled)] ELSE a.current

AllocNext(a) ==
  IF a.recycled # << >>
  THEN [a EXCEPT !.recycled = SubSeq(@, 1, Len(@) - 1)]
  ELSE [a EXCEPT !.current = @ + 1]

DeallocAsserts(a, id) ==
  /\ id < a.current
  /\ \A i \in DOMAIN a.recycled : a.recycled[i] # id

DeallocNext(a, id) == [a EXCEPT !.recycled = Append(@, id)]

-----------------------------------------------------------------------------
(* Frames.  An allocator is a value [current, end, recycled]: current ..   *)
(* end - 1 were never handed out, recycled is the stack of returned ones.  *)

(* Faulty alloc test: looks only at the frames never handed out. *)
HasFrameNew(f) == f.current # f.end

(* init(l, r) on the allocator new() made. *)
NewFrames(l, r) == [current |-> l, end |-> r, recycled |-> << >>]

(* alloc returns Some. *)
HasFrame(f) == f.recycled # << >> \/ f.current # f.end

(* The frame alloc returns, and the allocator it leaves. *)
AllocPpn(f) ==
  IF f.recycled # << >> THEN f.recycled[Len(f.recycled)] ELSE f.current

AllocFrame(f) ==
  IF f.recycled # << >>
  THEN [f EXCEPT !.recycled = SubSeq(@, 1, Len(@) - 1)]
  ELSE [f EXCEPT !.current = @ + 1]

(* dealloc does not panic. *)
DeallocChecked(f, ppn) ==
  /\ ppn < f.current
  /\ \A i \in DOMAIN f.recycled : f.recycled[i] # ppn

DeallocFrame(f, ppn) == [f EXCEPT !.recycled = Append(@, ppn)]

=============================================================================
