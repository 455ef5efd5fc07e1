-------------------------- MODULE AllocatorClients --------------------------
(***************************************************************************)
(* The two allocators under their RAII clients (os8-ref/src/task/id.rs,    *)
(* os8-ref/src/mm/frame_allocator.rs): a handle or a tracker is made by an *)
(* alloc and dropped once, by whoever holds it, in any order.              *)
(***************************************************************************)
EXTENDS Allocators

(* Ids and the handles that hold them (PidHandle, TaskUserRes).            *)

CONSTANT MaxId  \* bound on the ids ever minted (the code's usize is unbounded)

ASSUME MaxIdAssumption == MaxId \in Nat

VARIABLES alloc,     \* the RecycleAllocator
          held,      \* ids inside live handles
          panicked   \* an assert of dealloc failed

idVars == <<alloc, held, panicked>>

-----------------------------------------------------------------------------
IdsInit ==
  /\ alloc = NewAllocator
  /\ held = {}
  /\ panicked = FALSE

(* pid_alloc, alloc_tid: the id moves into a new handle. *)
Alloc ==
  /\ ~panicked
  /\ AllocId(alloc) < MaxId
  /\ held' = held \cup {AllocId(alloc)}
  /\ alloc' = AllocNext(alloc)
  /\ UNCHANGED panicked

(* Drop of a handle: dealloc, with its two asserts. *)
Drop(id) ==
  /\ ~panicked
  /\ id \in held
  /\ held' = held \ {id}
  /\ IF DeallocAsserts(alloc, id)
     THEN alloc' = DeallocNext(alloc, id) /\ UNCHANGED panicked
     ELSE panicked' = TRUE /\ UNCHANGED alloc

IdsNext == Alloc \/ \E id \in 0 .. MaxId - 1 : Drop(id)

IdsSpec == IdsInit /\ [][IdsNext]_idVars

-----------------------------------------------------------------------------
(* Shape of the allocator's state and of the handles it gave out. *)
IdsTypeOK ==
  /\ alloc \in [current : Nat, recycled : Seq(Nat)]
  /\ alloc.current <= MaxId
  /\ held \subseteq 0 .. MaxId - 1
  /\ panicked \in BOOLEAN

(* Every minted id is in exactly one place: in one live handle or once in  *)
(* the recycled stack (alloc pops what it returns, dealloc refuses what is *)
(* there).  So alloc never returns an id somebody still holds.             *)
IdsPartitioned ==
  /\ held \cup Range(alloc.recycled) = 0 .. alloc.current - 1
  /\ held \cap Range(alloc.recycled) = {}
  /\ IsInjective(alloc.recycled)

(* RAII clients never trip the asserts of RecycleAllocator::dealloc. *)
DeallocNeverPanics == ~panicked

-----------------------------------------------------------------------------
(* Frames and the FrameTrackers that hold them.                            *)

CONSTANTS First, End   \* ekernel and MEMORY_END, in pages

ASSUME FramesAssumption == First \in Nat \ {0} /\ End \in Nat /\ First <= End

VARIABLES frames,     \* FRAME_ALLOCATOR
          trackers,   \* the frames of live FrameTrackers
          got,        \* what the last frame_alloc returned
          dropPanicked \* dealloc panicked

frameVars == <<frames, trackers, got, dropPanicked>>

NoFrame == 0

FramesInit ==
  /\ frames = NewFrames(First, End)
  /\ trackers = {}
  /\ got = NoFrame
  /\ dropPanicked = FALSE

FrameAlloc ==
  /\ ~dropPanicked
  /\ IF HasFrame(frames)
     THEN /\ got' = AllocPpn(frames)
          /\ frames' = AllocFrame(frames)
          /\ trackers' = trackers \cup {AllocPpn(frames)}
     ELSE got' = NoFrame /\ UNCHANGED <<frames, trackers>>
  /\ UNCHANGED dropPanicked

DropTracker(ppn) ==
  /\ ~dropPanicked
  /\ ppn \in trackers
  /\ trackers' = trackers \ {ppn}
  /\ IF DeallocChecked(frames, ppn)
     THEN frames' = DeallocFrame(frames, ppn) /\ UNCHANGED dropPanicked
     ELSE dropPanicked' = TRUE /\ UNCHANGED frames
  /\ UNCHANGED got

FramesNext == FrameAlloc \/ \E ppn \in First .. End - 1 : DropTracker(ppn)

FramesSpec == FramesInit /\ [][FramesNext]_frameVars

-----------------------------------------------------------------------------
Unused == frames.current .. frames.end - 1

(* Shape of the allocator; it never passes the end of memory. *)
FramesTypeOK ==
  /\ frames \in [current : Nat, end : {End}, recycled : Seq(First .. End - 1)]
  /\ frames.current \in First .. End
  /\ trackers \subseteq First .. End - 1
  /\ got \in {NoFrame} \cup First .. End - 1
  /\ dropPanicked \in BOOLEAN

(* Every frame is in exactly one place: in one live FrameTracker, once in  *)
(* recycled, or above current.                                             *)
FramesPartitioned ==
  /\ trackers \cup Range(frames.recycled) = First .. frames.current - 1
  /\ trackers \cap Range(frames.recycled) = {}
  /\ IsInjective(frames.recycled)

(* A FrameTracker dropped once never meets the panic of dealloc ("has not  *)
(* been allocated").                                                       *)
DropNeverPanics == ~dropPanicked

P == INSTANCE FramePool WITH Pool <- First .. End - 1, NoFrame <- NoFrame,
       free <- Range(frames.recycled) \cup Unused, got <- got

(* StackFrameAllocator is a pool: alloc returns a frame nobody holds and   *)
(* gives up only when every frame is held.                                 *)
PoolSpec == P!Spec

=============================================================================
