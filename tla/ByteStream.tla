----------------------------- MODULE ByteStream -----------------------------
(***************************************************************************)
(* What a pipe promises: the bytes received are the first of the bytes     *)
(* sent, in order, none lost, duplicated or changed, and no more than      *)
(* Capacity bytes are under way.                                           *)
(***************************************************************************)
EXTENDS Integers, Sequences

CONSTANT Capacity

VARIABLES sent,     \* all bytes ever put into the stream
          received  \* all bytes ever taken out of it

streamVars == <<sent, received>>

(* s is t cut off after some element. *)
Begins(s, t) == Len(s) <= Len(t) /\ s = SubSeq(t, 1, Len(s))

Init == sent = << >> /\ received = << >>

Send ==
  /\ Begins(sent, sent')
  /\ Len(sent') <= Len(received) + Capacity
  /\ UNCHANGED received

Receive ==
  /\ Begins(received, received')
  /\ Begins(received', sent)
  /\ UNCHANGED sent

Next == Send \/ Receive

Spec == Init /\ [][Next]_streamVars

=============================================================================
