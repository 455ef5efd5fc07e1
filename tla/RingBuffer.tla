----------------------------- MODULE RingBuffer -----------------------------
(***************************************************************************)
(* PipeRingBuffer of os8-ref/src/fs/pipe.rs: an array of Size bytes, the   *)
(* index of the oldest byte, the index of the next free place, and a       *)
(* status that tells a full buffer from an empty one.  Indices start at 0. *)
(* The last part has the bytes that went through a buffer and what they    *)
(* must have to do with it, whether they are moved one at a time           *)
(* (RingBufferProofs) or in the rounds of read and write (Pipe).           *)
(***************************************************************************)
EXTENDS Integers, Sequences

CONSTANTS Size,   \* RING_BUFFER_SIZE
          Byte,   \* the values of a byte
          Zero    \* the byte the array is filled with at first

ASSUME RingBufferAssumption == Size \in Nat \ {0} /\ Zero \in Byte

(* The wrap-around of an index. *)
Wrap(x) == x % Size

-----------------------------------------------------------------------------
(* Faulty variants, for showing that the properties depend on the code. *)

(* read_byte moves the head without wrapping around before the end. *)
read_byte_early_wrap(rb) ==
  LET next == (rb.head + 1) % (Size - 1) IN
  [rb EXCEPT !.head = next, !.status = IF next = rb.tail THEN "EMPTY" ELSE "NORMAL"]

(* available_write counts a full buffer as having one place left. *)
available_write_ignores_full(rb) ==
  IF rb.status = "FULL" THEN 1
  ELSE IF rb.status = "EMPTY" THEN Size
  ELSE IF rb.tail > rb.head THEN Size - (rb.tail - rb.head) ELSE rb.head - rb.tail

-----------------------------------------------------------------------------
NewBuffer == [arr |-> [i \in 0 .. Size - 1 |-> Zero], head |-> 0, tail |-> 0,
              status |-> "EMPTY"]

write_byte(rb, b) ==
  LET next == Wrap(rb.tail + 1) IN
  [arr |-> [rb.arr EXCEPT ![rb.tail] = b], head |-> rb.head, tail |-> next,
   status |-> IF next = rb.head THEN "FULL" ELSE "NORMAL"]

(* What read_byte returns, and the buffer it leaves. *)
front_byte(rb) == rb.arr[rb.head]

read_byte(rb) ==
  LET next == Wrap(rb.head + 1) IN
  [arr |-> rb.arr, head |-> next, tail |-> rb.tail,
   status |-> IF next = rb.tail THEN "EMPTY" ELSE "NORMAL"]

available_read(rb) ==
  IF rb.status = "EMPTY" THEN 0
  ELSE IF rb.tail > rb.head THEN rb.tail - rb.head
  ELSE rb.tail + Size - rb.head

available_write(rb) ==
  IF rb.status = "FULL" THEN 0 ELSE Size - available_read(rb)

-----------------------------------------------------------------------------
(* The bytes in the buffer, oldest first. *)
Contents(rb) ==
  [i \in 1 .. available_read(rb) |-> rb.arr[Wrap(rb.head + i - 1)]]

RingBuffers == [arr : [0 .. Size - 1 -> Byte], head : 0 .. Size - 1,
                tail : 0 .. Size - 1, status : {"FULL", "EMPTY", "NORMAL"}]

-----------------------------------------------------------------------------
VARIABLES rb,        \* the PipeRingBuffer
          sent,      \* all bytes ever written to the buffer
          received   \* all bytes ever read from it

(* Nothing is lost or invented: what was sent is what was received,        *)
(* followed by what is in the buffer, through every wrap-around of the     *)
(* indices of write_byte and read_byte.                                    *)
NothingLost == sent = received \o Contents(rb)

(* available_read and available_write share out the buffer. *)
RoomAddsUp ==
  /\ available_read(rb) \in 0 .. Size
  /\ available_read(rb) + available_write(rb) = Size

Stream == INSTANCE ByteStream WITH Capacity <- Size

(* The ring buffer is a bounded byte stream, however the rounds of several *)
(* readers and writers are interleaved.                                    *)
StreamSpec == Stream!Spec

=============================================================================
