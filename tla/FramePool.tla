----------------------------- MODULE FramePool ------------------------------
(***************************************************************************)
(* What a frame allocator promises: it hands out any free frame, refuses   *)
(* only when none is free, and takes back a frame that is in use.          *)
(***************************************************************************)
CONSTANTS Pool,     \* the frames
          NoFrame   \* what a refused request gets

VARIABLES free,     \* frames not in use
          got       \* the answer to the last request

Init == free = Pool /\ got = NoFrame

Alloc ==
  \E ppn \in free : got' = ppn /\ free' = free \ {ppn}

Refuse ==
  /\ free = {}
  /\ got' = NoFrame
  /\ UNCHANGED free

Dealloc(ppn) ==
  /\ ppn \notin free
  /\ free' = free \cup {ppn}
  /\ UNCHANGED got

Next == Alloc \/ Refuse \/ \E ppn \in Pool : Dealloc(ppn)

Spec == Init /\ [][Next]_<<free, got>>

=============================================================================
