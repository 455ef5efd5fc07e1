------------------------------ MODULE MCMemory ------------------------------
(***************************************************************************)
(* What programs have in memory and registers, chapter by chapter, for     *)
(* TLC.  Which kernel runs is chosen at the start: BatchSystem (chapter    *)
(* 2), Multiprogramming (3), AppSpaces (4) or AddressSpace (8).            *)
(***************************************************************************)
EXTENDS AddressSpace, AppSpaces

CONSTANTS BatchImages, TaskImages, UserTops

VARIABLES kernel,
          own, kstack   \* of chapters 2 and 3

(* The processor, the memory and the tasks are those of the kernel that    *)
(* runs.                                                                   *)
Batch == INSTANCE BatchSystem WITH
  Images <- BatchImages, APP_SIZE_LIMIT <- 3, KernelTop <- 2, UserTop <- 9,
  APP_BASE_ADDRESS <- 100, MaxSteps <- 3, current_app <- current, area <- mem

Multi == INSTANCE Multiprogramming WITH
  Images <- TaskImages, MAX_APP_NUM <- 3, APP_BASE_ADDRESS <- 100, APP_SIZE_LIMIT <- 3,
  KERNEL_STACK_SIZE <- 2, MICRO_PER_SEC <- 2, Times <- {1}, MaxSteps <- 2,
  current_task <- current

memoryVars == <<kernel, vars, appsVars, own, kstack>>

-----------------------------------------------------------------------------
NoApps ==
  /\ tables = << >> /\ mem = << >> /\ hart = << >> /\ tasks = << >> /\ current = 0
  /\ meant = << >> /\ echo = << >>

MemoryInit ==
  /\ Init
  /\ \/ /\ kernel = "batch" /\ Batch!Init
        /\ tables = << >> /\ tasks = << >> /\ meant = << >> /\ echo = << >>
     \/ kernel = "multi" /\ Multi!Init /\ tables = << >> /\ meant = << >> /\ echo = << >>
     \/ kernel = "apps" /\ AppsInit /\ own = << >> /\ kstack = << >>
     \/ kernel = "spaces" /\ NoApps /\ own = << >> /\ kstack = << >>

MemoryNext ==
  /\ UNCHANGED kernel
  /\ \/ kernel = "batch" /\ Batch!Next /\ UNCHANGED <<vars, tables, tasks, meant, echo>>
     \/ kernel = "multi" /\ Multi!Next /\ UNCHANGED <<vars, tables, meant, echo>>
     \/ kernel = "apps" /\ AppsNext /\ UNCHANGED <<vars, own, kstack>>
     \/ kernel = "spaces" /\ Next /\ UNCHANGED <<appsVars, own, kstack>>

MCMemorySpec == MemoryInit /\ [][MemoryNext]_memoryVars

-----------------------------------------------------------------------------
(* Properties, beside those of AddressSpace.                               *)

(* An application finds its registers and its memory as its own            *)
(* instructions made them, whoever was started or ran in between, and what *)
(* it asks the kernel to print is what it holds: see RunsAlone of          *)
(* BatchSystem, TasksApart of Multiprogramming, ApplicationsKept and       *)
(* PrintedAsHeld of AppSpaces.                                             *)
RunningKept ==
  /\ kernel = "batch" => Batch!RunsAlone
  /\ kernel = "multi" => Multi!TasksApart
  /\ kernel = "apps" => ApplicationsKept /\ PrintedAsHeld

-----------------------------------------------------------------------------
(* Values of the constants.                                                *)

(* AddressSpace: tables of 3 entries, two programs.  The words programs    *)
(* hold and write read as valid page table entries.                        *)
Word(n) == [ppn |-> n, flags |-> {"V", "U"}]
Page(n) == [ZeroPage EXCEPT ![0] = Word(n)]

(* One page; two segments, the second with a page of bss. *)
MCImages == {<<[start |-> 0, end |-> 1, data |-> <<Page(3)>>]>>,
             <<[start |-> 0, end |-> 1, data |-> <<Page(4)>>],
               [start |-> 1, end |-> 3, data |-> <<Page(5)>>]>>}
MCArgs == {Word(6)}
MCWords == {Word(7)}

(* Applications of different lengths, one after the other. *)
MCBatchImages == <<<<1, 1>>, <<1>>, <<0, 1, 1>>>>
MCTaskImages == <<<<1, 0>>, <<0, 1>>>>
MCUserTops == <<7, 8>>

(* Text and data with bss; text that ends within a page. *)
MCElfs ==
  <<[entry |-> 2,
     segments |-> <<[start |-> 2, mem |-> 2, flags |-> {"R", "X"}, data |-> <<1, 0>>],
                    [start |-> 4, mem |-> 3, flags |-> {"R", "W"}, data |-> <<1>>]>>],
    [entry |-> 2,
     segments |-> <<[start |-> 2, mem |-> 3, flags |-> {"R", "X"}, data |-> <<0, 1, 1>>]>>]>>

=============================================================================
