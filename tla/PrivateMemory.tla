--------------------------- MODULE PrivateMemory ----------------------------
(***************************************************************************)
(* What address spaces promise to programs: every process has a memory of  *)
(* its own.  A program starts with the contents of its image, a child with *)
(* a copy of its parent's memory, new pages read zero, and a write changes *)
(* one word of one process.                                                *)
(***************************************************************************)
EXTENDS Integers

CONSTANTS Procs,
          Loads,        \* the memories programs start with
          Words, Cell,  \* what a program writes, and where in a page
          StackPages,   \* pages of a thread's stack
          ZeroPage,
          Vpns          \* pages programs write and stacks begin at

VARIABLE view           \* from the processes that run to their memory

Init == view = << >>

Load(p, image) ==
  view' = [q \in DOMAIN view \cup {p} |-> IF q = p THEN image ELSE view[q]]

Fork(p, c) ==
  /\ p \in DOMAIN view /\ c \notin DOMAIN view
  /\ view' = [q \in DOMAIN view \cup {c} |-> view[IF q = c THEN p ELSE q]]

Write(p, v, word) ==
  /\ p \in DOMAIN view /\ v \in DOMAIN view[p]
  /\ view' = [view EXCEPT ![p][v][Cell] = word]

(* A stack for one more thread, and its end. *)
Stack(v) == v .. v + StackPages - 1

Grow(p, v) ==
  /\ p \in DOMAIN view /\ Stack(v) \cap DOMAIN view[p] = {}
  /\ view' = [view EXCEPT ![p] =
                [x \in DOMAIN @ \cup Stack(v) |-> IF x \in DOMAIN @ THEN @[x] ELSE ZeroPage]]

Shrink(p, v) ==
  /\ p \in DOMAIN view /\ Stack(v) \subseteq DOMAIN view[p]
  /\ view' = [view EXCEPT ![p] = [x \in DOMAIN @ \ Stack(v) |-> @[x]]]

Exit(p) ==
  /\ p \in DOMAIN view
  /\ view' = [q \in DOMAIN view \ {p} |-> view[q]]

Next ==
  /\ view' # view
  /\ \E p \in Procs :
       \/ \E image \in Loads : Load(p, image)
       \/ \E c \in Procs : Fork(p, c)
       \/ \E v \in Vpns : Grow(p, v) \/ Shrink(p, v) \/ \E word \in Words : Write(p, v, word)
       \/ Exit(p)

Spec == Init /\ [][Next]_view

=============================================================================
