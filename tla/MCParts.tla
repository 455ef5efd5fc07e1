------------------------------ MODULE MCParts ------------------------------
(***************************************************************************)
(* Parts of the kernel that hand out, hand over and pass on, for TLC: the  *)
(* allocators of ids and of frames (AllocatorClients), the locks of        *)
(* chapter 8 (Sync), the system call interface (Syscalls) and the calls    *)
(* that pass pointers (UserMemory).  Which part runs is chosen at the      *)
(* start.                                                                  *)
(***************************************************************************)
EXTENDS Sync, AllocatorClients, UserMemory

VARIABLES part,
          chapter, x, asked, entered, halted   \* of Syscalls

Interface == INSTANCE Syscalls

interfaceVars == <<chapter, x, asked, entered, halted>>
partsVars == <<part, vars, idVars, frameVars, umVars, interfaceVars>>

PartsInit ==
  /\ Init /\ IdsInit /\ FramesInit /\ CallsInit /\ Interface!Init
  /\ part \in {"ids", "frames", "locks", "interface", "memory"}
  /\ part # "interface" => chapter = 8

PartsNext ==
  /\ UNCHANGED part
  /\ \/ part = "ids" /\ IdsNext /\ UNCHANGED <<vars, frameVars, umVars, interfaceVars>>
     \/ part = "frames" /\ FramesNext /\ UNCHANGED <<vars, idVars, umVars, interfaceVars>>
     \/ part = "locks" /\ Next /\ UNCHANGED <<idVars, frameVars, umVars, interfaceVars>>
     \/ part = "interface" /\ Interface!Next
        /\ UNCHANGED <<vars, idVars, frameVars, umVars>>
     \/ part = "memory" /\ CallsNext /\ UNCHANGED <<vars, idVars, frameVars, interfaceVars>>

PartsSpec == PartsInit /\ [][PartsNext]_partsVars

-----------------------------------------------------------------------------
(* Properties, beside those of the modules extended.                       *)

(* The kernel enters the function the program called, with its arguments:  *)
(* see ArgumentsArrive of Syscalls.                                        *)
ArgumentsArrive == Interface!ArgumentsArrive

-----------------------------------------------------------------------------
(* Values of the constants.                                                *)

(* Threads are interchangeable.                                            *)
MCSymmetry == Permutations(Tasks)

(* UserMemory: a program holds the string of byte 2 at 4 and that of 5, 40 *)
(* and 7 at 6, and from 10 on the pointers 4, 6 and null.  Byte 40 is not  *)
(* ASCII: as a character it is stored as 50 and 40, which is how the name  *)
(* of the second program is written.  The buffers cross pages.             *)
Held == <<2, 0, 5, 40, 7, 0, 4, 0, 6, 0, 0, 0, 9>>
MCPrograms ==
  (<<2>> :> [segments |-> <<[start |-> 4, end |-> 24, data |-> Held]>>])
  @@ (<<5, 50, 40, 7>> :> [segments |-> <<[start |-> 4, end |-> 14, data |-> SubSeq(Held, 1, 10)],
                                     [start |-> 16, end |-> 22, data |-> <<1>>]>>])
MCInitproc == <<2>>
MCContents == <<8, 9, 8, 7, 9, 9>>
MCFdTable == (3 :> "inode") @@ (4 :> "pipe")
MCBuffers == {[ptr |-> 17, len |-> 5], [ptr |-> 30, len |-> 6], [ptr |-> 17, len |-> 0]}
MCExecPtrs == {[path |-> 4, args |-> 10], [path |-> 6, args |-> 12], [path |-> 7, args |-> 14]}

=============================================================================
