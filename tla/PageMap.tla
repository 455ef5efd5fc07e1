-------------------------------- MODULE PageMap --------------------------------
(***************************************************************************)
(* What a Mapper of the riscv crate promises (the comments and errors of   *)
(* paging/mapper.rs): a partial function from pages to the frames and      *)
(* flags they are mapped with, and the last call's result, with the page   *)
(* it was about.                                                           *)
(***************************************************************************)
EXTENDS TLC, FiniteSets

CONSTANTS
  Pages,
  FlagSets,     \* the flags a caller may ask for
  Valid,        \* flags that count as valid
  FrameZero     \* the frame of an entry that has never been set

VARIABLES map, result

vars == <<map, result>>

(* What a call about page p answers, and the frame it mapped or unmapped. *)
Answer(call, p, how, frame) == [call |-> call, page |-> p, is |-> how, frame |-> frame]
Mapping(frame, flags) == [frame |-> frame, flags |-> flags]

Init ==
  /\ map = [p \in {} |-> Mapping(FrameZero, {})]
  /\ result = Answer("none", << >>, "ok", FrameZero)

Refused(call, p, error) == result' = Answer(call, p, error, FrameZero) /\ UNCHANGED map

(* map_to: a page is mapped once, whatever its flags; tables may need a    *)
(* frame the allocator does not have.                                      *)
MapTo(p) ==
  \/ p \in DOMAIN map /\ Refused("map_to", p, "PageAlreadyMapped")
  \/ p \notin DOMAIN map /\ Refused("map_to", p, "FrameAllocationFailed")
  \/ /\ p \notin DOMAIN map
     /\ result' = Answer("map_to", p, "ok", result'.frame)
     /\ \E flags \in FlagSets : map' = (p :> Mapping(result'.frame, flags)) @@ map

(* unmap returns the frame; it refuses a mapping without the valid flag.   *)
Unmap(p) ==
  \/ /\ p \in DOMAIN map
     /\ Valid \subseteq map[p].flags
     /\ result' = Answer("unmap", p, "ok", map[p].frame)
     /\ map' = [q \in DOMAIN map \ {p} |-> map[q]]
  \/ /\ p \in DOMAIN map => ~(Valid \subseteq map[p].flags)
     /\ Refused("unmap", p, "PageNotMapped")

(* update_flags changes the flags of an existing mapping and refuses a     *)
(* page that has none.                                                     *)
UpdateFlags(p) ==
  \/ /\ p \in DOMAIN map
     /\ result' = Answer("update_flags", p, "ok", FrameZero)
     /\ \E flags \in FlagSets : map' = [map EXCEPT ![p].flags = flags]
  \/ p \notin DOMAIN map /\ Refused("update_flags", p, "PageNotMapped")

Next ==
  LET p == result'.page IN p \in Pages /\ (MapTo(p) \/ Unmap(p) \/ UpdateFlags(p))

Spec == Init /\ [][Next]_vars

=============================================================================
