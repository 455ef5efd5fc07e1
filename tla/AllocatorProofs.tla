-------------------------- MODULE AllocatorProofs ---------------------------
(***************************************************************************)
(* Proofs about the allocators.  For every bound MaxId, ids stay           *)
(* partitioned between live handles and the recycled stack, so alloc never *)
(* hands out an id twice and dealloc never panics.  For every range of     *)
(* frames the same holds of frames and trackers, and the allocator         *)
(* implements FramePool.                                                   *)
(***************************************************************************)
EXTENDS AllocatorClients, SequenceLemmas

(* Ids.                                                                    *)

(* The inductive invariant: the type, the partition and no failed assert. *)
IdsIInv == IdsTypeOK /\ IdsPartitioned /\ DeallocNeverPanics

(* The new allocator is empty and nothing is held. *)
LEMMA InitIdsIInv == IdsInit => IdsIInv
<1> SUFFICES ASSUME IdsInit PROVE IdsIInv
  OBVIOUS
<1>1. << >> \in Seq(Nat)
  BY EmptyProperties
<1>2. Range(<< >>) = {} /\ IsInjective(<< >>)
  BY EmptyProperties
<1>3. alloc.current = 0 /\ alloc.recycled = << >> /\ held = {}
  BY DEF IdsInit, NewAllocator
<1>4. IdsTypeOK
  <2>1. panicked \in BOOLEAN
    BY DEF IdsInit
  <2>2. alloc \in [current : Nat, recycled : Seq(Nat)]
    BY <1>1 DEF IdsInit, NewAllocator
  <2> QED
    BY <1>3, <2>1, <2>2, MaxIdAssumption DEF IdsTypeOK
<1>5. IdsPartitioned
  BY <1>1, <1>2, <1>3 DEF IdsPartitioned
<1> QED
  BY <1>4, <1>5 DEF IdsIInv, DeallocNeverPanics, IdsInit

(* alloc: the popped or the freshly minted id moves to the handles. *)
LEMMA AllocIdsIInv == IdsIInv /\ Alloc => IdsIInv'
<1> SUFFICES ASSUME IdsIInv, Alloc PROVE IdsIInv'
  OBVIOUS
<1> USE DEF IdsIInv, IdsTypeOK, IdsPartitioned, DeallocNeverPanics
<1> DEFINE r == alloc.recycled
           c == alloc.current
<1>1. r \in Seq(Nat) /\ c \in Nat /\ c <= MaxId
  OBVIOUS
<1>2. alloc = [current |-> c, recycled |-> r]
  OBVIOUS
<1>3. CASE r # << >>
  <2> DEFINE t == SubSeq(r, 1, Len(r) - 1)
  <2>1. alloc' = [current |-> c, recycled |-> t] /\ held' = held \cup {r[Len(r)]}
    BY <1>2, <1>3 DEF Alloc, AllocId, AllocNext
  <2>2. /\ t \in Seq(Nat)
        /\ Range(t) = Range(r) \ {r[Len(r)]}
        /\ r[Len(r)] \in Range(r)
        /\ IsInjective(t)
    BY <1>1, <1>3, PopProperties
  <2> HIDE DEF t
  <2>3. alloc'.current = c /\ alloc'.recycled = t /\ panicked' = panicked
    BY <2>1 DEF Alloc
  <2>4. alloc' \in [current : Nat, recycled : Seq(Nat)]
    BY <1>1, <2>1, <2>2
  <2>5. r[Len(r)] \in 0 .. MaxId - 1
    BY <1>1, <2>2, MaxIdAssumption
  <2> QED
    BY <1>1, <2>1, <2>2, <2>3, <2>4, <2>5
<1>4. CASE r = << >>
  <2>1. alloc' = [current |-> c + 1, recycled |-> r] /\ held' = held \cup {c}
    BY <1>2, <1>4 DEF Alloc, AllocId, AllocNext
  <2>2. c < MaxId /\ panicked' = panicked
    BY <1>4 DEF Alloc, AllocId
  <2>3. c \notin Range(r) /\ c \notin held
    BY <1>1
  <2>4. 0 .. (c + 1) - 1 = (0 .. c - 1) \cup {c} /\ c \in 0 .. MaxId - 1
    BY <1>1, <2>2, MaxIdAssumption
  <2> QED
    BY <1>1, <2>1, <2>2, <2>3, <2>4, MaxIdAssumption
<1> QED
  BY <1>3, <1>4

(* Drop of a held handle: both asserts of dealloc hold, the id moves back. *)
LEMMA DropIdsIInv ==
  ASSUME NEW id \in 0 .. MaxId - 1, IdsIInv, Drop(id)
  PROVE  IdsIInv'
<1> USE DEF IdsIInv, IdsTypeOK, IdsPartitioned, DeallocNeverPanics
<1> DEFINE r == alloc.recycled
           c == alloc.current
           t == Append(r, id)
<1>1. r \in Seq(Nat) /\ c \in Nat /\ id \in held /\ id \in Nat
  BY MaxIdAssumption DEF Drop
<1>2. alloc = [current |-> c, recycled |-> r]
  OBVIOUS
<1>3. id < c /\ id \notin Range(r)
  BY <1>1
<1>4. DeallocAsserts(alloc, id)
  BY <1>3 DEF DeallocAsserts, Range
<1>5. /\ alloc' = [current |-> c, recycled |-> t]
      /\ held' = held \ {id}
      /\ panicked' = panicked
  BY <1>2, <1>4 DEF Drop, DeallocNext
<1>6. /\ t \in Seq(Nat)
      /\ Range(t) = Range(r) \cup {id}
      /\ IsInjective(t)
  BY <1>1, <1>3, PushProperties
<1> HIDE DEF t
<1>7. alloc'.current = c /\ alloc'.recycled = t
  BY <1>5
<1>8. alloc' \in [current : Nat, recycled : Seq(Nat)]
  BY <1>1, <1>5, <1>6
<1> QED
  BY <1>1, <1>5, <1>6, <1>7, <1>8

(* Every step of the allocator and of its clients keeps the invariant. *)
LEMMA NextIdsIInv == IdsIInv /\ [IdsNext]_idVars => IdsIInv'
<1> SUFFICES ASSUME IdsIInv, [IdsNext]_idVars PROVE IdsIInv'
  OBVIOUS
<1>1. CASE IdsNext
  BY <1>1, AllocIdsIInv, DropIdsIInv DEF IdsNext
<1>2. CASE UNCHANGED idVars
  BY <1>2 DEF idVars, IdsIInv, IdsTypeOK, IdsPartitioned, DeallocNeverPanics
<1> QED
  BY <1>1, <1>2

(* The invariant holds in every reachable state. *)
LEMMA SpecIdsIInv == IdsSpec => []IdsIInv
BY InitIdsIInv, NextIdsIInv, PTL DEF IdsSpec

(* For every MaxId, an id of RecycleAllocator is always in exactly one     *)
(* place: one live handle or once in the recycled stack.                   *)
THEOREM IdsStayPartitioned == IdsSpec => []IdsPartitioned
<1>1. IdsIInv => IdsPartitioned
  BY DEF IdsIInv
<1> QED
  BY <1>1, SpecIdsIInv, PTL

(* For every MaxId, dropping PidHandles and TaskUserRes never fails the    *)
(* asserts of RecycleAllocator::dealloc.                                   *)
THEOREM DeallocIsSafe == IdsSpec => []DeallocNeverPanics
<1>1. IdsIInv => DeallocNeverPanics
  BY DEF IdsIInv
<1> QED
  BY <1>1, SpecIdsIInv, PTL

-----------------------------------------------------------------------------
(* Frames.                                                                 *)

(* The inductive invariant: the type, the partition and no panic. *)
FramesIInv == FramesTypeOK /\ FramesPartitioned /\ DropNeverPanics

Pool == First .. End - 1
FreeFrames == Range(frames.recycled) \cup Unused

(* The new allocator: every frame is above current. *)
LEMMA InitFramesIInv == FramesInit => FramesIInv /\ P!Init
<1> SUFFICES ASSUME FramesInit PROVE FramesIInv /\ P!Init
  OBVIOUS
<1>1. << >> \in Seq(First .. End - 1) /\ Range(<< >>) = {} /\ IsInjective(<< >>)
  BY EmptyProperties
<1>2. frames = [current |-> First, end |-> End, recycled |-> << >>]
  BY DEF FramesInit, NewFrames
<1>3. frames.current = First /\ frames.end = End /\ frames.recycled = << >>
  BY <1>2
<1>4. trackers = {} /\ got = NoFrame /\ dropPanicked = FALSE
  BY DEF FramesInit
<1>5. FramesTypeOK
  <2>1. frames \in [current : Nat, end : {End}, recycled : Seq(First .. End - 1)]
    BY <1>1, <1>2, FramesAssumption
  <2>2. dropPanicked \in BOOLEAN
    BY <1>4
  <2>3. First \in First .. End
    BY FramesAssumption
  <2> QED
    BY <1>3, <1>4, <2>1, <2>2, <2>3 DEF FramesTypeOK
<1>6. FramesPartitioned
  <2>1. First .. First - 1 = {}
    BY FramesAssumption
  <2> QED
    BY <1>1, <1>3, <1>4, <2>1 DEF FramesPartitioned
<1>7. P!Init
  BY <1>1, <1>3, <1>4 DEF P!Init, Unused
<1> QED
  BY <1>4, <1>5, <1>6, <1>7 DEF FramesIInv, DropNeverPanics

(* frame_alloc with a recycled frame: it moves from the stack to a tracker. *)
LEMMA AllocRecycled ==
  ASSUME FramesIInv, FrameAlloc, frames.recycled # << >>
  PROVE  FramesIInv' /\ P!Alloc
<1> DEFINE r == frames.recycled
           t == SubSeq(r, 1, Len(r) - 1)
           x == r[Len(r)]
<1>1. /\ r \in Seq(Pool) /\ frames.current \in First .. End /\ frames.end = End
      /\ trackers \subseteq Pool /\ dropPanicked = FALSE /\ IsInjective(r)
      /\ trackers \cup Range(r) = First .. frames.current - 1
      /\ trackers \cap Range(r) = {}
  BY DEF FramesIInv, FramesTypeOK, FramesPartitioned, DropNeverPanics, Pool
<1>2. t \in Seq(Pool) /\ Range(t) = Range(r) \ {x} /\ x \in Range(r) /\ IsInjective(t)
  BY <1>1, PopProperties
<1>3. frames = [current |-> frames.current, end |-> frames.end, recycled |-> r]
  BY DEF FramesIInv, FramesTypeOK
<1>4. /\ frames' = [current |-> frames.current, end |-> End, recycled |-> t]
      /\ got' = x /\ trackers' = trackers \cup {x} /\ dropPanicked' = dropPanicked
  BY <1>1, <1>3 DEF FrameAlloc, HasFrame, AllocPpn, AllocFrame
<1> HIDE DEF r, t, x
<1>5. frames'.current = frames.current /\ frames'.end = End /\ frames'.recycled = t
  BY <1>4
<1>6. x \in Pool /\ x \in First .. frames.current - 1
  BY <1>1, <1>2, FramesAssumption DEF Pool
<1>7. FramesTypeOK'
  <2>1. frames' \in [current : Nat, end : {End}, recycled : Seq(First .. End - 1)]
    BY <1>1, <1>2, <1>4, FramesAssumption DEF Pool
  <2> QED
    BY <1>1, <1>4, <1>5, <1>6, <2>1 DEF FramesTypeOK, Pool
<1>8. FramesPartitioned'
  BY <1>1, <1>2, <1>4, <1>5, <1>6 DEF FramesPartitioned
<1>9. P!Alloc
  <2>1. x \notin Unused
    BY <1>1, <1>6, FramesAssumption DEF Unused
  <2>2. FreeFrames' = FreeFrames \ {x} /\ x \in FreeFrames
    BY <1>1, <1>2, <1>5, <2>1 DEF FreeFrames, Unused, r
  <2> QED
    BY <1>4, <2>2 DEF P!Alloc, FreeFrames
<1> QED
  BY <1>1, <1>4, <1>7, <1>8, <1>9 DEF FramesIInv, DropNeverPanics

(* frame_alloc of a frame never used: current moves past it. *)
LEMMA AllocNew ==
  ASSUME FramesIInv, FrameAlloc, frames.recycled = << >>, frames.current # frames.end
  PROVE  FramesIInv' /\ P!Alloc
<1> DEFINE c == frames.current
<1>1. /\ frames.recycled = << >> /\ c \in First .. End /\ frames.end = End /\ c # End
      /\ trackers \subseteq Pool /\ dropPanicked = FALSE
      /\ trackers \cup Range(<< >>) = First .. c - 1
  BY DEF FramesIInv, FramesTypeOK, FramesPartitioned, DropNeverPanics, Pool
<1>2. << >> \in Seq(Pool) /\ Range(<< >>) = {} /\ IsInjective(<< >>)
  BY EmptyProperties
<1>3. frames = [current |-> c, end |-> End, recycled |-> << >>]
  BY <1>1 DEF FramesIInv, FramesTypeOK
<1>4. /\ frames' = [current |-> c + 1, end |-> End, recycled |-> << >>]
      /\ got' = c /\ trackers' = trackers \cup {c} /\ dropPanicked' = dropPanicked
  BY <1>1, <1>3 DEF FrameAlloc, HasFrame, AllocPpn, AllocFrame
<1> HIDE DEF c
<1>5. frames'.current = c + 1 /\ frames'.end = End /\ frames'.recycled = << >>
  BY <1>4
<1>6. /\ c \in Pool /\ c + 1 \in First .. End /\ c \in Nat /\ c + 1 \in Nat
      /\ First .. (c + 1) - 1 = (First .. c - 1) \cup {c}
  BY <1>1, FramesAssumption DEF Pool
<1>7. FramesTypeOK'
  <2>1. frames' \in [current : Nat, end : {End}, recycled : Seq(First .. End - 1)]
    BY <1>2, <1>4, <1>6 DEF Pool
  <2> QED
    BY <1>1, <1>4, <1>5, <1>6, <2>1 DEF FramesTypeOK, Pool
<1>8. FramesPartitioned'
  BY <1>1, <1>2, <1>4, <1>5, <1>6 DEF FramesPartitioned
<1>9. P!Alloc
  <2>1. (c + 1) .. End - 1 = (c .. End - 1) \ {c} /\ c \in c .. End - 1
    BY <1>1, <1>6, FramesAssumption
  <2>2. FreeFrames' = FreeFrames \ {c} /\ c \in FreeFrames
    BY <1>1, <1>2, <1>5, <2>1 DEF FreeFrames, Unused, c
  <2> QED
    BY <1>4, <2>2 DEF P!Alloc, FreeFrames
<1> QED
  BY <1>1, <1>4, <1>7, <1>8, <1>9 DEF FramesIInv, DropNeverPanics

(* frame_alloc returns None only when no frame is free. *)
LEMMA AllocNone ==
  ASSUME FramesIInv, FrameAlloc, frames.recycled = << >>, frames.current = frames.end
  PROVE  FramesIInv' /\ P!Refuse
<1>1. frames' = frames /\ trackers' = trackers /\ got' = NoFrame /\ dropPanicked' = dropPanicked
  BY DEF FrameAlloc, HasFrame
<1>2. FramesIInv'
  BY <1>1 DEF FramesIInv, FramesTypeOK, FramesPartitioned, DropNeverPanics
<1>3. Range(<< >>) = {}
  BY EmptyProperties
<1>4. frames.current \in Int
  BY FramesAssumption DEF FramesIInv, FramesTypeOK
<1>5. FreeFrames = {} /\ FreeFrames' = FreeFrames
  BY <1>1, <1>3, <1>4 DEF FreeFrames, Unused
<1> QED
  BY <1>1, <1>2, <1>5 DEF P!Refuse, FreeFrames

(* Dropping a tracker: dealloc accepts the frame and recycles it. *)
LEMMA DropKeeps ==
  ASSUME FramesIInv, NEW ppn \in First .. End - 1, DropTracker(ppn)
  PROVE  FramesIInv' /\ P!Dealloc(ppn)
<1> DEFINE r == frames.recycled
           t == Append(r, ppn)
<1>1. /\ r \in Seq(Pool) /\ frames.current \in First .. End /\ frames.end = End
      /\ trackers \subseteq Pool /\ dropPanicked = FALSE /\ IsInjective(r)
      /\ trackers \cup Range(r) = First .. frames.current - 1
      /\ trackers \cap Range(r) = {}
  BY DEF FramesIInv, FramesTypeOK, FramesPartitioned, DropNeverPanics, Pool
<1>2. ppn \in trackers /\ ppn \notin Range(r) /\ ppn \in Pool
  BY <1>1 DEF DropTracker, Pool
<1>3. ppn < frames.current /\ ppn \in First .. frames.current - 1
  BY <1>1, <1>2, FramesAssumption DEF Pool
<1>4. DeallocChecked(frames, ppn)
  BY <1>2, <1>3 DEF DeallocChecked, Range
<1>5. t \in Seq(Pool) /\ Range(t) = Range(r) \cup {ppn} /\ IsInjective(t)
  BY <1>1, <1>2, PushProperties
<1>6. frames = [current |-> frames.current, end |-> End, recycled |-> r]
  BY DEF FramesIInv, FramesTypeOK
<1>7. /\ frames' = [current |-> frames.current, end |-> End, recycled |-> t]
      /\ trackers' = trackers \ {ppn} /\ dropPanicked' = dropPanicked /\ got' = got
  BY <1>4, <1>6 DEF DropTracker, DeallocFrame
<1> HIDE DEF r, t
<1>8. frames'.current = frames.current /\ frames'.end = End /\ frames'.recycled = t
  BY <1>7
<1>9. FramesTypeOK'
  <2>1. frames' \in [current : Nat, end : {End}, recycled : Seq(First .. End - 1)]
    BY <1>1, <1>5, <1>7, FramesAssumption DEF Pool
  <2>2. got \in {NoFrame} \cup First .. End - 1
    BY DEF FramesIInv, FramesTypeOK
  <2> QED
    BY <1>1, <1>7, <1>8, <2>1, <2>2 DEF FramesTypeOK, Pool
<1>10. FramesPartitioned'
  BY <1>1, <1>2, <1>5, <1>7, <1>8 DEF FramesPartitioned
<1>11. P!Dealloc(ppn)
  <2>1. ppn \notin Unused
    BY <1>1, <1>3, FramesAssumption DEF Unused
  <2>2. FreeFrames' = FreeFrames \cup {ppn} /\ ppn \notin FreeFrames
    BY <1>1, <1>2, <1>5, <1>8, <2>1 DEF FreeFrames, Unused, r
  <2> QED
    BY <1>7, <2>2 DEF P!Dealloc, FreeFrames
<1> QED
  BY <1>1, <1>7, <1>9, <1>10, <1>11 DEF FramesIInv, DropNeverPanics

(* Every step keeps the invariant and is a step of the pool. *)
LEMMA StepFramesIInv == FramesIInv /\ [FramesNext]_frameVars => FramesIInv' /\ [P!Next]_<<FreeFrames, got>>
<1> SUFFICES ASSUME FramesIInv, [FramesNext]_frameVars PROVE FramesIInv' /\ [P!Next]_<<FreeFrames, got>>
  OBVIOUS
<1>1. CASE FrameAlloc
  BY <1>1, AllocRecycled, AllocNew, AllocNone DEF P!Next
<1>2. ASSUME NEW ppn \in First .. End - 1, DropTracker(ppn)
      PROVE  FramesIInv' /\ [P!Next]_<<FreeFrames, got>>
  BY <1>2, DropKeeps DEF P!Next
<1>3. CASE UNCHANGED frameVars
  BY <1>3 DEF frameVars, FramesIInv, FramesTypeOK, FramesPartitioned, DropNeverPanics, FreeFrames, Unused
<1> QED
  BY <1>1, <1>2, <1>3 DEF FramesNext

(* The invariant holds in every reachable state. *)
LEMMA SpecFramesIInv == FramesSpec => []FramesIInv
BY InitFramesIInv, StepFramesIInv, PTL DEF FramesSpec

(* For every range of frames, a frame is always in exactly one place: one  *)
(* live FrameTracker, once in recycled, or above current.                  *)
THEOREM FramesStayPartitioned == FramesSpec => []FramesPartitioned
<1>1. FramesIInv => FramesPartitioned
  BY DEF FramesIInv
<1> QED
  BY <1>1, SpecFramesIInv, PTL

(* For every range of frames, dropping a FrameTracker never meets the      *)
(* panic of StackFrameAllocator::dealloc.                                  *)
THEOREM DroppingIsSafe == FramesSpec => []DropNeverPanics
<1>1. FramesIInv => DropNeverPanics
  BY DEF FramesIInv
<1> QED
  BY <1>1, SpecFramesIInv, PTL

(* For every range of frames, StackFrameAllocator implements FramePool: it *)
(* gives out free frames only and refuses only when none is free.          *)
THEOREM ImplementsPool == FramesSpec => PoolSpec
<1>1. [P!Next]_<<FreeFrames, got>> =>
        [P!Next]_<<Range(frames.recycled) \cup Unused, got>>
  BY DEF FreeFrames
<1> QED
  BY <1>1, InitFramesIInv, StepFramesIInv, SpecFramesIInv, PTL DEF FramesSpec, PoolSpec, P!Spec

=============================================================================
