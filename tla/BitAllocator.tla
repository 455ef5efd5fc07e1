---------------------------- MODULE BitAllocator ----------------------------
(***************************************************************************)
(* What a bitmap of easy-fs promises: each of the calls of alloc an        *)
(* operation makes hands out the least number that is not in use, and      *)
(* dealloc takes back numbers that are.                                    *)
(***************************************************************************)
EXTENDS Naturals, FiniteSets

CONSTANT Maximum    \* Bitmap::maximum()

VARIABLE used       \* the numbers handed out

Free == (0 .. Maximum - 1) \ used

(* The n least free numbers. *)
Least(n) == {a \in Free : Cardinality({b \in Free : b < a}) < n}

Init == used = {}

Alloc == \E n \in 1 .. Cardinality(Free) : used' = used \cup Least(n)

Dealloc == used' \subseteq used

Next == Alloc \/ Dealloc

Spec == Init /\ [][Next]_used

=============================================================================
