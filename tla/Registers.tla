----------------------------- MODULE Registers ------------------------------
(***************************************************************************)
(* The register accessors of the riscv crate (ci-user/riscv/src/register): *)
(* one hart uses one register, which holds csr.  val is the value of the   *)
(* register's struct the program has in hand: read() copies csr into it,   *)
(* the struct's setters change it, write() copies it back.  The other      *)
(* functions act on csr at once (macros.rs: csrrs sets, csrrc clears the   *)
(* bits of a mask) or read, change and write it.  cause is what mcause or  *)
(* scause holds after a trap the register under test let through.          *)
(*                                                                         *)
(* The history variables csr_fields and val_fields hold what a caller      *)
(* expects of csr and of val: one independent value for every field, which *)
(* the functions named after the field change.                             *)
(***************************************************************************)
EXTENDS Bits, TLC

(* The layouts: for each register module its CSR number, the fields its    *)
(* struct reads (get) and writes (put), whether the struct can be written  *)
(* back (write), the bits its atomic functions set (csrrs) and clear       *)
(* (csrrc), the fields of its functions that read, change and write the    *)
(* register (modify) and of the one that writes them all (whole), and, for *)
(* a field that is an enum, its values.  A field is the set of its bit     *)
(* positions; a value is a set of bits too, so 2 is {1} and 9 is {0, 3}.   *)
(* The layouts are those of a 64-bit target.  Functions that take or       *)
(* return all the bits as a number are left out.                           *)

None == [f \in {} |-> {}]

(* Only getters; getters and set/clear functions. *)
ReadOnly(number, get) ==
  [number |-> number, get |-> get, put |-> None, write |-> FALSE, set |-> None,
   clear |-> None, modify |-> None, whole |-> None, enum |-> None]
SetClear(number, get, ops) == [ReadOnly(number, get) EXCEPT !.set = ops, !.clear = ops]

(* What the generator emits (hypervisorx64): a getter and a setter of the  *)
(* struct for every field, write, set and clear for the fields of one bit. *)
Generated(number, get, put, ops, enum) ==
  [SetClear(number, get, ops) EXCEPT !.put = put, !.write = TRUE, !.enum = enum]

-----------------------------------------------------------------------------
(* Faulty variants, for showing that the properties depend on the code. *)

(* set_spie and clear_spie use the bit of ube. *)
VsstatusOpsShifted ==
  [mxr |-> {19}, sum |-> {18}, spp |-> {8}, ube |-> {6}, spie |-> {6}, sie |-> {1}]

(* set_ppn of hgatp reaches into vmid. *)
HgatpPutWide == [mode |-> 60 .. 63, vmid |-> 44 .. 57, ppn |-> 0 .. 44]

(* The supervisor timer is decoded from the code of the user timer. *)
McauseInterruptSwapped ==
  0 :> "usoft" @@ 1 :> "ssoft" @@ 3 :> "msoft" @@ 4 :> "stimer" @@ 5 :> "utimer" @@
  7 :> "mtimer" @@ 8 :> "uext" @@ 9 :> "sext" @@ 11 :> "mext"

-----------------------------------------------------------------------------
(* Machine mode.                                                           *)

MstatusGet ==
  [uie |-> {0}, sie |-> {1}, mie |-> {3}, upie |-> {4}, spie |-> {5}, mpie |-> {7},
   spp |-> {8}, mpp |-> 11 .. 12, fs |-> 13 .. 14, xs |-> 15 .. 16, sd |-> {63}]

(* The setters of the struct, which cannot be written back; the functions  *)
(* set_mpp and set_fs.                                                     *)
MstatusPut == [mpie |-> {7}, mie |-> {3}, mpp |-> 11 .. 12]
MstatusModify == [mpp |-> 11 .. 12, fs |-> 13 .. 14]
MstatusSet ==
  [uie |-> {0}, sie |-> {1}, mie |-> {3}, upie |-> {4}, spie |-> {5}, mpie |-> {7},
   spp |-> {8}]
MstatusClear == [uie |-> {0}, sie |-> {1}, mie |-> {3}, spp |-> {8}]

(* MPP *)
MPP == {{}, {0}, {0, 1}}

MedelegGet ==
  [instruction_misaligned |-> {0}, instruction_fault |-> {1},
   illegal_instruction |-> {2}, breakpoint |-> {3}, load_misaligned |-> {4},
   load_fault |-> {5}, store_misaligned |-> {6}, store_fault |-> {7},
   user_env_call |-> {8}, supervisor_env_call |-> {9}, machine_env_call |-> {11},
   instruction_page_fault |-> {12}, load_page_fault |-> {13},
   store_page_fault |-> {15}]
MedelegOps ==
  [instruction_misaligned |-> {0}, instruction_fault |-> {1},
   illegal_instruction |-> {2}, breakpoint |-> {3}, load_misaligned |-> {4},
   load_fault |-> {5}, store_misaligned |-> {6}, store_fault |-> {7},
   user_env_call |-> {8}, supervisor_env_call |-> {9}, machine_env_call |-> {11},
   instruction_page_fault |-> {12}, load_page_fault |-> {13},
   store_page_fault |-> {15}]

MieGet ==
  [usoft |-> {0}, ssoft |-> {1}, msoft |-> {3}, utimer |-> {4}, stimer |-> {5},
   mtimer |-> {7}, uext |-> {8}, sext |-> {9}, mext |-> {11}]
MieOps ==
  [usoft |-> {0}, ssoft |-> {1}, msoft |-> {3}, utimer |-> {4}, stimer |-> {5},
   mtimer |-> {7}, uext |-> {8}, sext |-> {9}, mext |-> {11}]
MipGet ==
  [usoft |-> {0}, ssoft |-> {1}, msoft |-> {3}, utimer |-> {4}, stimer |-> {5},
   mtimer |-> {7}, uext |-> {8}, sext |-> {9}, mext |-> {11}]

(* mext is read only. *)
MipOps ==
  [usoft |-> {0}, ssoft |-> {1}, msoft |-> {3}, utimer |-> {4}, stimer |-> {5},
   mtimer |-> {7}, uext |-> {8}, sext |-> {9}]

MidelegGet ==
  [usoft |-> {0}, ssoft |-> {1}, utimer |-> {4}, stimer |-> {5}, uext |-> {8},
   sext |-> {9}]
MidelegOps ==
  [usoft |-> {0}, ssoft |-> {1}, utimer |-> {4}, stimer |-> {5}, uext |-> {8},
   sext |-> {9}]

MtvecGet == [address |-> 2 .. 63, trap_mode |-> 0 .. 1]
TrapMode == {{}, {0}}
MisaGet == [mxl |-> 62 .. 63, extensions |-> 0 .. 25]

(* Interrupt::from and Exception::from of mcause, named as in mie and      *)
(* medeleg; other codes are Unknown.                                       *)
McauseInterrupt ==
  0 :> "usoft" @@ 1 :> "ssoft" @@ 3 :> "msoft" @@ 4 :> "utimer" @@ 5 :> "stimer" @@
  7 :> "mtimer" @@ 8 :> "uext" @@ 9 :> "sext" @@ 11 :> "mext"
McauseException ==
  0 :> "instruction_misaligned" @@ 1 :> "instruction_fault" @@
  2 :> "illegal_instruction" @@ 3 :> "breakpoint" @@ 4 :> "load_misaligned" @@
  5 :> "load_fault" @@ 6 :> "store_misaligned" @@ 7 :> "store_fault" @@
  8 :> "user_env_call" @@ 9 :> "supervisor_env_call" @@ 11 :> "machine_env_call" @@
  12 :> "instruction_page_fault" @@ 13 :> "load_page_fault" @@
  15 :> "store_page_fault"
McauseGet == [interrupt |-> {63}, code |-> 0 .. 62]

-----------------------------------------------------------------------------
(* Supervisor and user mode.                                               *)

SstatusGet ==
  [uie |-> {0}, sie |-> {1}, upie |-> {4}, spie |-> {5}, spp |-> {8},
   fs |-> 13 .. 14, xs |-> 15 .. 16, sum |-> {18}, mxr |-> {19}, sd |-> {63}]
SstatusPut == [spie |-> {5}, sie |-> {1}, spp |-> {8}]
SstatusModify == [fs |-> 13 .. 14]
SstatusSet ==
  [uie |-> {0}, sie |-> {1}, upie |-> {4}, spie |-> {5}, mxr |-> {19}, sum |-> {18},
   spp |-> {8}]
SstatusClear == [uie |-> {0}, sie |-> {1}, mxr |-> {19}, sum |-> {18}, spp |-> {8}]

SieGet ==
  [usoft |-> {0}, ssoft |-> {1}, utimer |-> {4}, stimer |-> {5}, uext |-> {8},
   sext |-> {9}]
SieOps ==
  [usoft |-> {0}, ssoft |-> {1}, utimer |-> {4}, stimer |-> {5}, uext |-> {8},
   sext |-> {9}]
SipGet ==
  [usoft |-> {0}, ssoft |-> {1}, utimer |-> {4}, stimer |-> {5}, uext |-> {8},
   sext |-> {9}]
StvecGet == [address |-> 2 .. 63, trap_mode |-> 0 .. 1]

SatpGet == [mode |-> 60 .. 63, asid |-> 44 .. 59, ppn |-> 0 .. 43]
SatpSet == [mode |-> 60 .. 63, asid |-> 44 .. 59, ppn |-> 0 .. 43]
SatpMode == {{}, {3}, {0, 3}, {1, 3}, {0, 1, 3}}

(* Interrupt::from of scause, named as in sie; codes 2, 6, 10 are those of *)
(* a virtual machine.                                                      *)
ScauseInterrupt ==
  0 :> "usoft" @@ 1 :> "ssoft" @@ 2 :> "vssoft" @@ 4 :> "utimer" @@ 5 :> "stimer" @@
  6 :> "vstimer" @@ 8 :> "uext" @@ 9 :> "sext" @@ 10 :> "vsext"
ScauseGet == [interrupt |-> {63}, code |-> 0 .. 62]

UstatusGet == [uie |-> {0}, upie |-> {4}]
UstatusSet == [uie |-> {0}, upie |-> {4}]
UstatusClear == [uie |-> {0}]
UieGet == [usoft |-> {0}, utimer |-> {4}, uext |-> {8}]
UieOps == [usoft |-> {0}, utimer |-> {4}, uext |-> {8}]
UipGet == [usoft |-> {0}, utimer |-> {4}, uext |-> {8}]
UtvecGet == [address |-> 2 .. 63, trap_mode |-> 0 .. 1]

(* Flags and FCSR: the five flags are the field fflags. *)
FcsrFlags == [nx |-> {0}, uf |-> {1}, of |-> {2}, dz |-> {3}, nv |-> {4}]
FcsrGet == [nx |-> {0}, uf |-> {1}, of |-> {2}, dz |-> {3}, nv |-> {4}, frm |-> 5 .. 7]
FcsrModify == [frm |-> 5 .. 7]
RoundingMode == {{}, {0}, {1}, {0, 1}, {2}, {0, 1, 2}}

-----------------------------------------------------------------------------
(* Hypervisor extension.                                                   *)

HstatusGet ==
  [vsxl |-> 32 .. 33, vtsr |-> {22}, vtw |-> {21}, vtvm |-> {20}, vgein |-> 12 .. 17,
   hu |-> {9}, spvp |-> {8}, spv |-> {7}, gva |-> {6}, vsbe |-> {5}]
HstatusPut ==
  [vsxl |-> 32 .. 33, vtsr |-> {22}, vtw |-> {21}, vtvm |-> {20}, vgein |-> 12 .. 17,
   hu |-> {9}, spvp |-> {8}, spv |-> {7}, gva |-> {6}, vsbe |-> {5}]
HstatusOps ==
  [vtsr |-> {22}, vtw |-> {21}, vtvm |-> {20}, hu |-> {9}, spvp |-> {8}, spv |-> {7},
   gva |-> {6}, vsbe |-> {5}]

(* ex0 to ex8, ex12, ex13 and ex15; the field is called by its bit. *)
HedelegBits == (0 .. 8) \cup {12, 13, 15}
HedelegGet == [ex \in HedelegBits |-> {ex}]
HedelegPut == [ex \in HedelegBits |-> {ex}]
HedelegOps == [ex \in HedelegBits |-> {ex}]

(* cy, tm, ir and hpm3 to hpm31; the field is called by its bit. *)
HcounterenGet == [i \in 0 .. 31 |-> {i}]
HcounterenPut == [i \in 0 .. 31 |-> {i}]
HcounterenOps == [i \in 0 .. 31 |-> {i}]

HidelegGet == [sip |-> {2}, tip |-> {6}, eip |-> {10}]
HidelegPut == [sip |-> {2}, tip |-> {6}, eip |-> {10}]
HidelegOps == [sip |-> {2}, tip |-> {6}, eip |-> {10}]
HvipGet == [vssip |-> {2}, vstip |-> {6}, vseip |-> {10}]
HvipPut == [vssip |-> {2}, vstip |-> {6}, vseip |-> {10}]
HvipOps == [vssip |-> {2}, vstip |-> {6}, vseip |-> {10}]
HipGet == [vssip |-> {2}, vstip |-> {6}, vseip |-> {10}, sgeip |-> {12}]
HipPut == [vssip |-> {2}, vstip |-> {6}, vseip |-> {10}, sgeip |-> {12}]
HipOps == [vssip |-> {2}, vstip |-> {6}, vseip |-> {10}, sgeip |-> {12}]
HieGet == [vssie |-> {2}, vstie |-> {6}, vseie |-> {10}, sgeie |-> {12}]
HiePut == [vssie |-> {2}, vstie |-> {6}, vseie |-> {10}, sgeie |-> {12}]
HieOps == [vssie |-> {2}, vstie |-> {6}, vseie |-> {10}, sgeie |-> {12}]
HgatpGet == [mode |-> 60 .. 63, vmid |-> 44 .. 57, ppn |-> 0 .. 43]
HgatpPut == [mode |-> 60 .. 63, vmid |-> 44 .. 57, ppn |-> 0 .. 43]
HgatpValues == {{}, {3}, {0, 3}}
VsatpGet == [mode |-> 60 .. 63, asid |-> 44 .. 59, ppn |-> 0 .. 43]
VsatpPut == [mode |-> 60 .. 63, asid |-> 44 .. 59, ppn |-> 0 .. 43]
VscauseGet == [interrupt |-> {63}, code |-> 0 .. 62]
VscausePut == [interrupt |-> {63}, code |-> 0 .. 62]
VscauseOps == [interrupt |-> {63}]
VsieGet == [ssie |-> {1}, stie |-> {5}, seie |-> {9}]
VsiePut == [ssie |-> {1}, stie |-> {5}, seie |-> {9}]
VsieOps == [ssie |-> {1}, stie |-> {5}, seie |-> {9}]
VsipGet == [ssip |-> {1}, stip |-> {5}, seip |-> {9}]
VsipPut == [ssip |-> {1}, stip |-> {5}, seip |-> {9}]
VsipOps == [ssip |-> {1}, stip |-> {5}, seip |-> {9}]
VstvecGet == [base |-> 2 .. 63, mode |-> 0 .. 1]
VstvecPut == [base |-> 2 .. 63, mode |-> 0 .. 1]
VsstatusGet ==
  [sd |-> 60 .. 63, uxl |-> 32 .. 33, mxr |-> {19}, sum |-> {18}, xs |-> 15 .. 16,
   fs |-> 13 .. 14, spp |-> {8}, ube |-> {6}, spie |-> {5}, sie |-> {1}]
VsstatusPut ==
  [sd |-> 60 .. 63, uxl |-> 32 .. 33, mxr |-> {19}, sum |-> {18}, xs |-> 15 .. 16,
   fs |-> 13 .. 14, spp |-> {8}, ube |-> {6}, spie |-> {5}, sie |-> {1}]
VsstatusOps ==
  [mxr |-> {19}, sum |-> {18}, spp |-> {8}, ube |-> {6}, spie |-> {5}, sie |-> {1}]
XlValues == {{0}, {1}, {0, 1}}

-----------------------------------------------------------------------------
(* The registers that have fields. *)
Layouts ==
  [mstatus |-> [ReadOnly(768, MstatusGet) EXCEPT
                  !.put = MstatusPut, !.set = MstatusSet, !.clear = MstatusClear,
                  !.modify = MstatusModify, !.enum = [mpp |-> MPP]],
   medeleg |-> SetClear(770, MedelegGet, MedelegOps),
   mideleg |-> SetClear(771, MidelegGet, MidelegOps),
   mie |-> SetClear(772, MieGet, MieOps),
   mip |-> SetClear(836, MipGet, MipOps),
   mtvec |-> ReadOnly(773, MtvecGet),
   misa |-> ReadOnly(769, MisaGet),
   mcause |-> ReadOnly(834, McauseGet),
   sstatus |-> [ReadOnly(256, SstatusGet) EXCEPT
                  !.put = SstatusPut, !.set = SstatusSet, !.clear = SstatusClear,
                  !.modify = SstatusModify],
   sie |-> SetClear(260, SieGet, SieOps),
   sip |-> ReadOnly(324, SipGet),
   stvec |-> ReadOnly(261, StvecGet),
   satp |-> [ReadOnly(384, SatpGet) EXCEPT !.whole = SatpSet, !.enum = [mode |-> SatpMode]],
   scause |-> ReadOnly(322, ScauseGet),
   ustatus |-> [ReadOnly(0, UstatusGet) EXCEPT !.set = UstatusSet, !.clear = UstatusClear],
   uie |-> SetClear(4, UieGet, UieOps),
   uip |-> ReadOnly(68, UipGet),
   utvec |-> ReadOnly(5, UtvecGet),
   fcsr |-> [ReadOnly(3, FcsrGet) EXCEPT !.clear = FcsrFlags, !.modify = FcsrModify,
                                         !.enum = [frm |-> RoundingMode]],
   hstatus |-> Generated(1536, HstatusGet, HstatusPut, HstatusOps, [vsxl |-> XlValues]),
   hedeleg |-> Generated(1538, HedelegGet, HedelegPut, HedelegOps, None),
   hcounteren |-> Generated(3602, HcounterenGet, HcounterenPut, HcounterenOps, None),
   hideleg |-> Generated(1539, HidelegGet, HidelegPut, HidelegOps, None),
   hvip |-> Generated(1605, HvipGet, HvipPut, HvipOps, None),
   hip |-> Generated(1604, HipGet, HipPut, HipOps, None),
   hie |-> Generated(1540, HieGet, HiePut, HieOps, None),
   hgatp |-> Generated(1664, HgatpGet, HgatpPut, None, [mode |-> HgatpValues]),
   vsatp |-> Generated(640, VsatpGet, VsatpPut, None, [mode |-> HgatpValues]),
   vscause |-> Generated(578, VscauseGet, VscausePut, VscauseOps, None),
   vsie |-> Generated(516, VsieGet, VsiePut, VsieOps, None),
   vsip |-> Generated(580, VsipGet, VsipPut, VsipOps, None),
   vstvec |-> Generated(517, VstvecGet, VstvecPut, None, None),
   vsstatus |-> Generated(512, VsstatusGet, VsstatusPut, VsstatusOps, [uxl |-> XlValues])]

(* The CSR each name stands for in asm.S, which a build without the        *)
(* feature inline-asm uses instead.                                        *)
AsmCsr ==
  [ustatus |-> 0, uie |-> 4, utvec |-> 5, uip |-> 68, fcsr |-> 3,
   sstatus |-> 256, sie |-> 260, stvec |-> 261, scause |-> 322, sip |-> 324, satp |-> 384,
   mstatus |-> 768, misa |-> 769, medeleg |-> 770, mideleg |-> 771, mie |-> 772,
   mtvec |-> 773, mcause |-> 834, mip |-> 836,
   hstatus |-> 1536, hedeleg |-> 1538, hideleg |-> 1539, hie |-> 1540, hcounteren |-> 1542,
   hip |-> 1604, hvip |-> 1605, hgatp |-> 1664,
   vsstatus |-> 512, vsie |-> 516, vstvec |-> 517, vscause |-> 578, vsip |-> 580,
   vsatp |-> 640]

-----------------------------------------------------------------------------
CONSTANTS
  Names,       \* the registers under test
  MaxOps       \* bound on the number of accesses

VARIABLES reg, csr, val, cause, csr_fields, val_fields, ops

vars == <<reg, csr, val, cause, csr_fields, val_fields, ops>>

Width == 64
NoCause == 0 .. Width - 1

(* The number n as a word; every code in use has at most four bits. *)
Code(n) == {b \in 0 .. 3 : (n \div 2^b) % 2 = 1}

L == Layouts[reg]

(* Values a program may give to a field: those its type has, and for a     *)
(* number none, the lowest or all of its bits.                             *)
Values(f) ==
  IF f \in DOMAIN L.enum THEN L.enum[f]
  ELSE {{}, {0}, 0 .. Cardinality(L.get[f]) - 1}

WholeValues ==
  LET fields == DOMAIN L.whole
      values == [f \in fields |-> Values(f)] IN
  {vs \in [fields -> UNION {values[f] : f \in fields}] : \A f \in fields : vs[f] \in values[f]}

Reads(w) == LET fields == L.get IN [f \in DOMAIN fields |-> GetBits(w, fields[f])]

Init ==
  /\ reg \in Names
  /\ csr \in {{}, 0 .. Width - 1}
  /\ val = csr
  /\ cause = NoCause
  /\ csr_fields = Reads(csr)
  /\ val_fields = Reads(val)
  /\ ops = 0

(* Addresses of trap handlers: low and high ones, and one that the         *)
(* compressed instructions allow.                                          *)
Addresses == {{}, {2}, 2 .. Width - 1, {1, 2}}

Step == ops < MaxOps /\ ops' = ops + 1 /\ UNCHANGED reg

-----------------------------------------------------------------------------
(* read *)
Read ==
  /\ Step
  /\ val' = csr
  /\ val_fields' = csr_fields
  /\ UNCHANGED <<csr, cause, csr_fields>>

(* A setter of the struct. *)
Put(f, v) ==
  /\ Step
  /\ val' = SetBits(val, L.put[f], v)
  /\ val_fields' = [val_fields EXCEPT ![f] = v]
  /\ UNCHANGED <<csr, cause, csr_fields>>

(* write *)
Write ==
  /\ Step
  /\ csr' = val
  /\ csr_fields' = val_fields
  /\ UNCHANGED <<val, cause, val_fields>>

(* set_csr!, clear_csr! and set_clear_csr!. *)
SetCsr(f) ==
  /\ Step
  /\ csr' = csr \cup L.set[f]
  /\ csr_fields' = [csr_fields EXCEPT ![f] = {0}]
  /\ UNCHANGED <<val, cause, val_fields>>

ClearCsr(f) ==
  /\ Step
  /\ csr' = csr \ L.clear[f]
  /\ csr_fields' = [csr_fields EXCEPT ![f] = {}]
  /\ UNCHANGED <<val, cause, val_fields>>

(* satp::set *)
WriteAll(vs) ==
  /\ Step
  /\ csr' = UNION {SetBits({}, L.whole[f], vs[f]) : f \in DOMAIN vs}
  /\ csr_fields' = vs
  /\ UNCHANGED <<val, cause, val_fields>>

(* The sum of a word and a TrapMode, 0 or 1. *)
Plus(w, mode) ==
  LET carried == Min({b \in 0 .. Width : b \notin w})
  IN IF mode = {} THEN w ELSE (w \ (0 .. carried)) \cup ({carried} \cap (0 .. Width - 1))

(* write of mtvec, stvec and utvec adds the mode to the address.  Of an    *)
(* address that is no multiple of 4 a caller can expect nothing.           *)
WriteVec(addr, mode) ==
  /\ Step
  /\ csr' = Plus(addr, mode)
  /\ csr_fields' = IF addr \cap (0 .. 1) = {}
                   THEN [address |-> Shr(addr, 2), trap_mode |-> mode]
                   ELSE Reads(csr')
  /\ UNCHANGED <<val, cause, val_fields>>

(* set_mpp and set_fs of mstatus, set_fs of sstatus. *)
SetField(f, v) ==
  /\ Step
  /\ csr' = SetBits(csr, L.modify[f], v)
  /\ csr_fields' = [csr_fields EXCEPT ![f] = v]
  /\ UNCHANGED <<val, cause, val_fields>>

(* fcsr::set_rounding_mode: the reserved bits are written zero. *)
SetRoundingMode(v) ==
  /\ Step
  /\ csr' = SetBits(csr \cap (0 .. 4), L.modify.frm, v)
  /\ csr_fields' = [csr_fields EXCEPT !.frm = v]
  /\ UNCHANGED <<val, cause, val_fields>>

(* fcsr::clear_flags *)
ClearFlags ==
  /\ Step
  /\ csr' = csr \ (0 .. 4)
  /\ csr_fields' = [f \in DOMAIN FcsrFlags |-> {}] @@ csr_fields
  /\ UNCHANGED <<val, cause, val_fields>>

(* The hart takes a trap that the register lets through: an interrupt n    *)
(* enabled in mie or sie, or an exception n that medeleg does not delegate.*)
Trap(n) ==
  /\ Step
  /\ \/ reg \in {"mie", "sie"} /\ n \in csr /\ cause' = {63} \cup Code(n)
     \/ reg = "medeleg" /\ n \notin csr /\ cause' = Code(n)
  /\ UNCHANGED <<csr, val, csr_fields, val_fields>>

Next ==
  \/ Read
  \/ \E f \in DOMAIN L.put : \E v \in Values(f) : Put(f, v)
  \/ L.write /\ Write
  \/ \E f \in DOMAIN L.set : SetCsr(f)
  \/ \E f \in DOMAIN L.clear : ClearCsr(f)
  \/ L.whole # None /\ \E vs \in WholeValues : WriteAll(vs)
  \/ /\ reg \in {"mtvec", "stvec", "utvec"}
     /\ \E addr \in Addresses : \E mode \in TrapMode : WriteVec(addr, mode)
  \/ reg # "fcsr" /\ \E f \in DOMAIN L.modify : \E v \in Values(f) : SetField(f, v)
  \/ reg = "fcsr" /\ \E v \in Values("frm") : SetRoundingMode(v)
  \/ reg = "fcsr" /\ ClearFlags
  \/ reg \in {"mie", "sie", "medeleg"} /\ \E f \in DOMAIN L.get : \E n \in L.get[f] : Trap(n)

Spec == Init /\ [][Next]_vars

-----------------------------------------------------------------------------
(* The number of a trap, and its name (cause() of mcause and scause). *)
Number(c) == CHOOSE n \in 0 .. 15 : Code(n) = c \cap (0 .. 62)

Decode(c) ==
  LET n == Number(c)
      table == IF 63 \notin c THEN McauseException
               ELSE IF reg = "sie" THEN ScauseInterrupt ELSE McauseInterrupt
  IN IF n \in DOMAIN table THEN table[n] ELSE "Unknown"

(***************************************************************************)
(* Properties                                                              *)
(***************************************************************************)
(* Every accessor changes the field it is named after and no other: the    *)
(* getters return, for the register and for a struct in hand, the values   *)
(* last given to each field by set_x, clear_x, a setter of the struct, a   *)
(* read-modify-write function or a function that writes all the fields.    *)
(* (Of a trap vector that is no multiple of 4 nothing is claimed.)         *)
AccessorsAgree == Reads(csr) = csr_fields /\ Reads(val) = val_fields

(* The functions of a register reach the CSR that asm.S gives its name to. *)
OwnCsr == L.number = AsmCsr[reg]

(* The cause register gives a trap the name of the bit that let it in: the *)
(* names in mie and sie are those of mcause and scause for the same        *)
(* number, and so are the ones of medeleg.                                 *)
CauseNamesTrap ==
  cause # NoCause =>
    /\ Decode(cause) \in DOMAIN L.get
    /\ L.get[Decode(cause)] = {Number(cause)}

=============================================================================
