----------------------------- MODULE HartSteps ------------------------------
(***************************************************************************)
(* Two pieces of the riscv crate that depend on what the hart does between *)
(* their instructions: read_composite_csr! on a 32-bit hart, where the     *)
(* counter goes on counting, and interrupt::free (interrupt.rs), where     *)
(* interrupts arrive.  They are machines of their own.                     *)
(***************************************************************************)
EXTENDS Integers, Sequences

(* read64 of cycle, time, instret and the performance counters reads the   *)
(* high half, the low half and the high half again, and starts over when   *)
(* the counter has carried in between.  The counter keeps counting between *)
(* the reads.  A half has Half values.                                     *)

CONSTANTS
  Half,       \* number of values of half a counter
  MaxTicks    \* bound on the counter

ASSUME HalfAssumption == Half \in Nat \ {0} /\ MaxTicks \in Nat

VARIABLES
  counter,
  pc,         \* "call", "lo", "again" or "done"
  hi, lo,
  entered,    \* the counter at the call
  value

counterVars == <<counter, pc, hi, lo, entered, value>>

High == counter \div Half
Low == counter % Half

CounterTypeOK ==
  /\ counter \in 0 .. MaxTicks
  /\ pc \in {"call", "lo", "again", "done"}
  /\ hi \in Nat /\ lo \in 0 .. Half - 1
  /\ entered \in Nat /\ value \in Nat

CounterInit ==
  /\ counter = 0
  /\ pc = "done"
  /\ hi = 0 /\ lo = 0 /\ entered = 0 /\ value = 0

-----------------------------------------------------------------------------
(* Faulty variants, for showing that the properties depend on the code. *)

(* The second read of the high half is missing. *)
ReadHighAgainSkipped ==
  /\ pc = "again"
  /\ pc' = "done"
  /\ value' = hi * Half + lo
  /\ UNCHANGED <<counter, hi, lo, entered>>

-----------------------------------------------------------------------------
(* The hart counts. *)
Count ==
  /\ counter < MaxTicks
  /\ counter' = counter + 1
  /\ UNCHANGED <<pc, hi, lo, entered, value>>

(* read64 reads the high half, *)
ReadHigh ==
  /\ pc \in {"call", "done"}
  /\ pc' = "lo"
  /\ hi' = High
  /\ entered' = IF pc = "done" THEN counter ELSE entered
  /\ UNCHANGED <<counter, lo, value>>

(* the low half, *)
ReadLow ==
  /\ pc = "lo"
  /\ pc' = "again"
  /\ lo' = Low
  /\ UNCHANGED <<counter, hi, entered, value>>

(* and the high half again: the loop ends when it has not changed. *)
ReadHighAgain ==
  /\ pc = "again"
  /\ IF hi = High
     THEN pc' = "done" /\ value' = hi * Half + lo
     ELSE pc' = "call" /\ UNCHANGED value
  /\ UNCHANGED <<counter, hi, lo, entered>>

CounterNext == Count \/ ReadHigh \/ ReadLow \/ ReadHighAgain

CounterSpec == CounterInit /\ [][CounterNext]_counterVars

-----------------------------------------------------------------------------
(* read64 returns a value the counter had during the call, although no two *)
(* of its reads are of the same moment: never the high half of one value   *)
(* with the low half of another.                                           *)
ReadIsCurrent == pc = "done" => entered <= value /\ value <= counter

-----------------------------------------------------------------------------
(* enable, disable and free, which runs a closure with interrupts off and  *)
(* turns them on again if they were on.  Programs run on one hart, each    *)
(* interrupting the one below it on the stack programs: the hart pushes a  *)
(* handler when mie is set, clearing mie and keeping its value in mpie,    *)
(* which mret puts back.  A program holds the calls of free it is in,      *)
(* outermost first; each has read mstatus (at "read") and then cleared mie *)
(* and entered its closure (at "body").  wanted is what the program last   *)
(* asked for outside free.                                                 *)

CONSTANTS
  MaxNesting,   \* bound on calls of free inside one another
  MaxPrograms   \* bound on handlers interrupting one another

VARIABLES mie, programs

criticalVars == <<mie, programs>>

Frame == [mie : BOOLEAN, at : {"read", "body"}]

Top == Len(programs)
Running == programs[Top]
Inner == Len(Running.frames)

(* The running program with other frames, or another wish. *)
WithFrames(fs) == [programs EXCEPT ![Top].frames = fs]

CriticalTypeOK ==
  /\ mie \in BOOLEAN
  /\ \A i \in DOMAIN programs :
       programs[i] \in [frames : Seq(Frame), mpie : BOOLEAN, wanted : BOOLEAN]

CriticalInit ==
  /\ mie \in BOOLEAN
  /\ programs = <<[frames |-> <<>>, mpie |-> FALSE, wanted |-> mie]>>

-----------------------------------------------------------------------------
(* Faulty variants, for showing that the properties depend on the code. *)

(* free turns interrupts on whatever they were. *)
LeaveFreeEnables ==
  /\ Inner > 0
  /\ Running.frames[Inner].at = "body"
  /\ mie' = TRUE
  /\ programs' = WithFrames(SubSeq(Running.frames, 1, Inner - 1))

-----------------------------------------------------------------------------
(* enable; its comment forbids it inside free. *)
Enable ==
  /\ Inner = 0
  /\ mie' = TRUE
  /\ programs' = [programs EXCEPT ![Top].wanted = TRUE]

(* disable *)
Disable ==
  /\ Inner = 0
  /\ mie' = FALSE
  /\ programs' = [programs EXCEPT ![Top].wanted = FALSE]

(* free reads mstatus, *)
EnterFree ==
  /\ Inner < MaxNesting
  /\ Inner > 0 => Running.frames[Inner].at = "body"
  /\ programs' = WithFrames(Append(Running.frames, [mie |-> mie, at |-> "read"]))
  /\ UNCHANGED mie

(* calls disable and the closure, *)
EnterBody ==
  /\ Inner > 0
  /\ Running.frames[Inner].at = "read"
  /\ mie' = FALSE
  /\ programs' = [programs EXCEPT ![Top].frames[Inner].at = "body"]

(* and, if mie was set, calls enable. *)
LeaveFree ==
  /\ Inner > 0
  /\ Running.frames[Inner].at = "body"
  /\ mie' = (mie \/ Running.frames[Inner].mie)
  /\ programs' = WithFrames(SubSeq(Running.frames, 1, Inner - 1))

(* The hart takes an interrupt. *)
Interrupt ==
  /\ mie
  /\ Top < MaxPrograms
  /\ mie' = FALSE
  /\ programs' = Append(programs, [frames |-> <<>>, mpie |-> mie, wanted |-> FALSE])

(* The handler returns (mret). *)
Return ==
  /\ Top > 1
  /\ Inner = 0
  /\ mie' = Running.mpie
  /\ programs' = SubSeq(programs, 1, Top - 1)

CriticalNext ==
  \/ Enable \/ Disable
  \/ EnterFree \/ EnterBody \/ LeaveFree
  \/ Interrupt \/ Return

CriticalSpec == CriticalInit /\ [][CriticalNext]_criticalVars

-----------------------------------------------------------------------------
(* No handler runs while the closure of a call of free does, however the   *)
(* calls are nested and wherever interrupts arrive: a program that has     *)
(* been interrupted is in no closure.                                      *)
Uninterrupted ==
  \A i \in 1 .. Top - 1 : \A j \in DOMAIN programs[i].frames :
    programs[i].frames[j].at # "body"

(* free leaves interrupts as they were: outside it, mie is what the        *)
(* running program last asked for.                                         *)
MieRestored == Inner = 0 => mie = Running.wanted

(* Both: the closure of free is a critical section, and free leaves no     *)
(* trace in mie.                                                           *)
CriticalSections == Uninterrupted /\ MieRestored

=============================================================================
