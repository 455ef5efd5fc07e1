-------------------------------- MODULE Bits --------------------------------
(***************************************************************************)
(* Machine words as the sets of the positions of their one bits, so that   *)
(* words of 64 bits have their real width.  A field is a set of adjacent   *)
(* positions.  GetBits and SetBits are what get_bits and set_bits of the   *)
(* bit_field crate do.                                                     *)
(***************************************************************************)
EXTENDS Integers, FiniteSetsExt

Word(width) == SUBSET (0 .. width - 1)

(* The value of a field, shifted to position 0. *)
GetBits(w, field) == {i - Min(field) : i \in w \cap field}

(* set_bits asserts that the value fits; the callers here see to it. *)
SetBits(w, field, v) == (w \ field) \cup {Min(field) + i : i \in v}

Fits(field, v) == v \subseteq 0 .. Cardinality(field) - 1

Shl(w, n) == {i + n : i \in w}
Shr(w, n) == {i - n : i \in {j \in w : j >= n}}

(* Sign extension of bit top to the positions above it, in 64 bits. *)
SignExtended(w, top) ==
  IF top \in w THEN w \cup (top .. 63) ELSE w \ (top + 1 .. 63)

=============================================================================
