------------------------------ MODULE MCRiscv ------------------------------
(***************************************************************************)
(* The parts of the riscv crate that change state, for TLC: register       *)
(* accessors, critical sections, wide counters and page tables.  Which one *)
(* is used is chosen at the start; the others stay at an initial state.    *)
(***************************************************************************)
EXTENDS HartSteps, Registers

CONSTANTS MaxCalls, Schemes, TableFrames

VARIABLES part,
          scheme, memory, free, tlb, result, panicked, calls   \* of Mapper

M == INSTANCE Mapper WITH MaxOps <- MaxCalls, ops <- calls

mapVars == <<scheme, memory, free, tlb, result, panicked, calls>>
riscvVars == <<part, vars, mapVars, criticalVars, counterVars>>

RiscvInit ==
  /\ part \in {"registers", "critical", "counter", "mapper"}
  /\ Init /\ (part # "registers" => reg = "mcause" /\ csr = {})
  /\ CriticalInit /\ (part # "critical" => ~mie)
  /\ M!Init /\ (part # "mapper" => scheme = "Rv39PageTable")
  /\ CounterInit

RiscvNext ==
  /\ \/ part = "registers" /\ Next /\ UNCHANGED <<mapVars, criticalVars, counterVars>>
     \/ part = "critical" /\ CriticalNext /\ UNCHANGED <<vars, mapVars, counterVars>>
     \/ part = "mapper" /\ M!Next /\ UNCHANGED <<vars, criticalVars, counterVars>>
     \/ part = "counter" /\ CounterNext /\ UNCHANGED <<vars, mapVars, criticalVars>>
  /\ UNCHANGED part

RiscvSpec == RiscvInit /\ [][RiscvNext]_riscvVars

-----------------------------------------------------------------------------
(* Properties, beside those of HartSteps.                                  *)

(* Every register accessor changes the field it is named after and no      *)
(* other, and a trap's cause has the name of the bit that let the trap in: *)
(* see AccessorsAgree and CauseNamesTrap of Registers.  The functions of   *)
(* all registers but hcounteren reach the CSR that asm.S names so: see     *)
(* OwnCsr.  Those of hcounteren have the number of hgeip.                  *)
RegistersAgree ==
  /\ AccessorsAgree
  /\ CauseNamesTrap
  /\ reg # "hcounteren" => OwnCsr

(* The tables of a Mapper are a function from pages to mappings, whatever  *)
(* is called but update_flags of an unmapped page, see                     *)
(* MapsButUnmappedUpdates of Mapper.  flush leaves no stale translation    *)
(* where the fence gets its operands in the order and form the hart takes  *)
(* them, which are the tables of a guest.                                  *)
GuestFlushedIsFresh == M!S.fence = "hfence_vvma" => M!FlushedIsFresh
PagesMapped == M!MapsButUnmappedUpdates /\ []GuestFlushedIsFresh

(* Statements of the crate's comments that the code does not keep. *)

(* flush leaves no stale translation, whatever the table: see              *)
(* FlushedIsFresh of Mapper.                                               *)
FlushedIsFresh == M!FlushedIsFresh

(* update_flags too changes existing mappings only: see MapSpec of Mapper. *)
UpdatesExisting == M!MapSpec

=============================================================================
