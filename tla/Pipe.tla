-------------------------------- MODULE Pipe --------------------------------
(***************************************************************************)
(* A pipe of os8-ref (fs/pipe.rs) between several processes: Pipe::read    *)
(* and Pipe::write move bytes through the ring buffer in rounds and give   *)
(* up the CPU between rounds, when the buffer is empty or full.  A round   *)
(* is one step, because the kernel is not preempted; any process may run   *)
(* its next round at any time.                                             *)
(*                                                                         *)
(* The write end is open while some file descriptor table has it or a      *)
(* write is in progress; sys_read and sys_write keep an Arc of the file.   *)
(***************************************************************************)
EXTENDS RingBuffer, SequencesExt, FiniteSets

CONSTANTS Procs,      \* the processes that share the pipe
          Readers,    \* those of them that only read, in a loop
          Sizes,      \* lengths of the user buffers passed to read
          Buffers,    \* the user buffers passed to write
          MaxSent     \* bound on the bytes written

ASSUME PipeAssumption ==
  Readers \subseteq Procs /\ Sizes \subseteq Nat /\ Buffers \subseteq Seq(Byte) /\ MaxSent \in Nat

(* Buffers smaller and larger than a ring of two, as a value of Buffers;   *)
(* bytes out of order or twice would show.                                 *)
SmallAndLarge == LET b == CHOOSE x \in Byte : x # Zero IN {<<b>>, <<Zero, b, b>>}

VARIABLES op,        \* the read or write each process is in
          holders    \* processes with the write end in their fd_table

vars == <<rb, op, holders, sent, received>>

Idle == [kind |-> "idle"]
Reading(left) == [kind |-> "read", left |-> left]   \* places left in buf_iter
Writing(rest) == [kind |-> "write", rest |-> rest]  \* bytes left in buf_iter

Init ==
  /\ rb = NewBuffer
  /\ op = [p \in Procs |-> Idle]
  /\ \E p \in Procs : holders = {p}
  /\ sent = << >>
  /\ received = << >>

-----------------------------------------------------------------------------
(* Faulty variants, for showing that the properties depend on the code. *)

(* all_write_ends_closed looks at the file descriptor tables only. *)
AllWriteEndsClosedTables == holders = {}

(* all_write_ends_closed never becomes true. *)
AllWriteEndsClosedNever == FALSE

(* The loops move one byte less than there is. *)
RoundSizeShort(n, room) == IF n < room THEN n ELSE room - 1

(* The write end is gone: the Weak of the buffer cannot be upgraded. *)
AllWriteEndsClosed ==
  holders = {} /\ \A p \in Procs : op[p].kind # "write"

-----------------------------------------------------------------------------
(* k bytes, from the buffer and into it, one by one. *)
ReadBytes(r, k) == FoldLeft(LAMBDA x, i : read_byte(x), r, [i \in 1 .. k |-> i])
WriteBytes(r, s) == FoldLeft(write_byte, r, s)

(* How many bytes a round moves when n are wanted and room is available. *)
RoundSize(n, room) == IF n < room THEN n ELSE room

(* sys_read and sys_write up to the first round; a process preempted just  *)
(* before the call stands for one that waits between the two steps.        *)
StartRead(p, n) ==
  /\ op[p] = Idle
  /\ op' = [op EXCEPT ![p] = Reading(n)]
  /\ UNCHANGED <<rb, holders, sent, received>>

StartWrite(p, s) ==
  /\ op[p] = Idle
  /\ p \in holders \ Readers
  /\ Len(sent) + Len(s) <= MaxSent
  /\ op' = [op EXCEPT ![p] = Writing(s)]
  /\ UNCHANGED <<rb, holders, sent, received>>

(* A round of the loop in Pipe::read.  It returns when the user buffer is  *)
(* found full while bytes are left, or when nothing is left and all write  *)
(* ends are closed; a read that has just emptied the pipe looks again, and *)
(* waits if the pipe is still open, even if the user buffer is full.       *)
ReadRound(p) ==
  LET left == op[p].left
      avail == available_read(rb)
      k == RoundSize(left, avail)
      returns == left < avail \/ AllWriteEndsClosed IN
  /\ op[p].kind = "read"
  /\ k > 0 \/ returns
  /\ rb' = ReadBytes(rb, k)
  /\ received' = received \o SubSeq(Contents(rb), 1, k)
  /\ op' = [op EXCEPT ![p] = IF returns THEN Idle ELSE Reading(left - k)]
  /\ UNCHANGED <<holders, sent>>

(* Faulty variant: write returns what fitted, as write on a full disk. *)
WriteRoundGivesUp(p) ==
  LET rest == op[p].rest
      k == RoundSize(Len(rest), available_write(rb)) IN
  /\ op[p].kind = "write"
  /\ rb' = WriteBytes(rb, SubSeq(rest, 1, k))
  /\ sent' = sent \o SubSeq(rest, 1, k)
  /\ op' = [op EXCEPT ![p] = Idle]
  /\ UNCHANGED <<holders, received>>

(* A round of the loop in Pipe::write, which does not look for readers. *)
WriteRound(p) ==
  LET rest == op[p].rest
      room == available_write(rb)
      k == RoundSize(Len(rest), room)
      returns == Len(rest) < room IN
  /\ op[p].kind = "write"
  /\ k > 0 \/ returns
  /\ rb' = WriteBytes(rb, SubSeq(rest, 1, k))
  /\ sent' = sent \o SubSeq(rest, 1, k)
  /\ op' = [op EXCEPT ![p] = IF returns THEN Idle
                             ELSE Writing(SubSeq(rest, k + 1, Len(rest)))]
  /\ UNCHANGED <<holders, received>>

(* sys_close of the write end, or the end of the process's main thread. *)
CloseWriteEnd(p) ==
  /\ p \in holders
  /\ holders' = holders \ {p}
  /\ UNCHANGED <<rb, op, sent, received>>

(* fork copies the file descriptor table to c, a new process that takes    *)
(* the place of one that has ended.                                        *)
Fork(p, c) ==
  /\ op[p] = Idle
  /\ p \in holders
  /\ c \notin holders
  /\ op[c] = Idle
  /\ holders' = holders \cup {c}
  /\ UNCHANGED <<rb, op, sent, received>>

Next ==
  \E p \in Procs :
    \/ \E n \in Sizes : StartRead(p, n)
    \/ \E s \in Buffers : StartWrite(p, s)
    \/ ReadRound(p) \/ WriteRound(p) \/ CloseWriteEnd(p)
    \/ \E c \in Procs : Fork(p, c)

Spec == Init /\ [][Next]_vars

(* The scheduler comes back to a process that waits for the pipe. *)
FairSpec ==
  /\ Spec
  /\ \A p \in Procs : WF_vars(ReadRound(p)) /\ WF_vars(WriteRound(p))
  /\ \A p \in Readers : WF_vars(\E n \in Sizes : StartRead(p, n))

-----------------------------------------------------------------------------
(* Properties.                                                             *)

(* Types; the buffer's status agrees with its indices. *)
TypeOK ==
  /\ rb \in RingBuffers
  /\ rb.status = "NORMAL" <=> rb.head # rb.tail
  /\ \A p \in Procs : \/ op[p] = Idle
                      \/ op[p].kind = "read" /\ op[p].left \in Nat
                      \/ op[p].kind = "write" /\ op[p].rest \in Seq(Byte)
  /\ holders \subseteq Procs
  /\ sent \in Seq(Byte)
  /\ received \in Seq(Byte)

NobodyWrites == holders = {} /\ \A p \in Procs : op[p].kind # "write"

(* A read comes back with less than was asked for only when the pipe is    *)
(* empty and nobody can write to it any more.                              *)
ShortReadIsEof ==
  [][\A p \in Procs :
       (op[p].kind = "read" /\ op'[p] = Idle
          /\ Len(received') - Len(received) < op[p].left)
         => received' = sent' /\ NobodyWrites']_vars

(* A write comes back only when all of its bytes are in the pipe. *)
WriteIsComplete ==
  [][\A p \in Procs :
       (op[p].kind = "write" /\ op'[p] = Idle)
         => Len(sent') - Len(sent) = Len(op[p].rest)]_vars

(* Nobody is left in the pipe: once all write ends are closed every        *)
(* pending read returns, at the end of file, and while some process reads  *)
(* in a loop every write comes back, whatever the sizes of the buffers.    *)
ReadEndsAfterClose ==
  \A p \in Procs : (op[p].kind = "read" /\ NobodyWrites) ~> op[p] = Idle
WritesEnd ==
  Readers # {} => \A p \in Procs : op[p].kind = "write" ~> op[p] = Idle
CallsEnd == ReadEndsAfterClose /\ WritesEnd

(* "If the application buffer is not full after these bytes another round  *)
(* is needed, otherwise read can return at once": a read whose buffer has  *)
(* been filled is not left waiting.                                        *)
FilledReadReturns ==
  \A p \in Procs : op[p].kind = "read" => op[p].left > 0

=============================================================================
