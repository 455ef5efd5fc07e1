----------------------------- MODULE BlockStore -----------------------------
(***************************************************************************)
(* What the block cache promises to the file system: an array of blocks    *)
(* where a read returns what was written last.  A crash may undo writes,   *)
(* but only back to the last sync: each block is left with a value it has  *)
(* had since.                                                              *)
(***************************************************************************)
CONSTANTS Blocks, Data

VARIABLES store,    \* the contents of the blocks
          versions, \* the values each block has had since the last sync
          seen      \* the last read: a block and what it returned

vars == <<store, versions, seen>>

Init ==
  /\ store \in [Blocks -> Data]
  /\ versions = [b \in Blocks |-> {store[b]}]
  /\ seen \in {<<b, store[b]>> : b \in Blocks}

Read(b) ==
  /\ seen' = <<b, store[b]>>
  /\ UNCHANGED <<store, versions>>

Write(b, v) ==
  /\ store' = [store EXCEPT ![b] = v]
  /\ versions' = [versions EXCEPT ![b] = @ \cup {v}]
  /\ UNCHANGED seen

Sync ==
  /\ versions' = [b \in Blocks |-> {store[b]}]
  /\ UNCHANGED <<store, seen>>

Crash ==
  /\ store' \in [Blocks -> Data]
  /\ \A b \in Blocks : store'[b] \in versions[b]
  /\ versions' = [b \in Blocks |-> {store'[b]}]
  /\ UNCHANGED seen

Next ==
  \/ \E b \in Blocks : Read(b) \/ \E v \in Data : Write(b, v)
  \/ Sync
  \/ Crash

Spec == Init /\ [][Next]_vars

=============================================================================
