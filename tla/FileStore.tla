----------------------------- MODULE FileStore -----------------------------
(***************************************************************************)
(* What easy-fs promises: files with names, each a sequence of bytes that  *)
(* is written at any offset, the gap before it filled with zeros, and      *)
(* cleared.                                                                *)
(***************************************************************************)
EXTENDS Naturals, Sequences, FiniteSetsExt

CONSTANTS Names, Writes   \* the writes: an offset and a buffer

VARIABLE files            \* from the names of the files to their contents

Overwritten(s, offset, buf) ==
  [i \in 1 .. Max({Len(s), offset + Len(buf)}) |->
     IF offset < i /\ i <= offset + Len(buf) THEN buf[i - offset]
     ELSE IF i <= Len(s) THEN s[i] ELSE 0]

Init == files = << >>

(* What becomes of the files f. *)
Created(f, n) == [m \in DOMAIN f \cup {n} |-> IF m = n THEN << >> ELSE f[m]]
Written(f, n, w) == [f EXCEPT ![n] = Overwritten(@, w.offset, w.buf)]
Cleared(f, n) == [f EXCEPT ![n] = << >>]

Results(f) ==
  {Created(f, n) : n \in Names \ DOMAIN f}
    \cup {Written(f, n, w) : n \in DOMAIN f, w \in Writes}
    \cup {Cleared(f, n) : n \in DOMAIN f}

Next == files' \in Results(files)

Spec == Init /\ [][Next]_files

=============================================================================
