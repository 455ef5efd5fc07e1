-------------------------- MODULE RingBufferProofs --------------------------
(***************************************************************************)
(* Proofs about the ring buffer for every size: it loses nothing, and it   *)
(* implements the byte stream of capacity Size.  The buffer is used byte   *)
(* by byte the way the loops of Pipe::read and Pipe::write use it: a byte  *)
(* is written only when available_write() is not 0 and read only when      *)
(* available_read() is not 0.                                              *)
(***************************************************************************)
EXTENDS RingBuffer, SequenceTheorems, TLAPS

vars == <<rb, sent, received>>

Init ==
  /\ rb = NewBuffer
  /\ sent = << >>
  /\ received = << >>

WriteByte(b) ==
  /\ available_write(rb) > 0
  /\ rb' = write_byte(rb, b)
  /\ sent' = Append(sent, b)
  /\ UNCHANGED received

ReadByte ==
  /\ available_read(rb) > 0
  /\ rb' = read_byte(rb)
  /\ received' = Append(received, front_byte(rb))
  /\ UNCHANGED sent

Next == ReadByte \/ \E b \in Byte : WriteByte(b)

Spec == Init /\ [][Next]_vars

-----------------------------------------------------------------------------
(* The buffer has its type, and equal indices mean full or empty, never    *)
(* something in between.                                                   *)
TypeOK ==
  /\ rb \in RingBuffers
  /\ sent \in Seq(Byte)
  /\ received \in Seq(Byte)
  /\ rb.status = "NORMAL" <=> rb.head # rb.tail

-----------------------------------------------------------------------------
(* A buffer whose status agrees with its indices. *)
Good(r) == r \in RingBuffers /\ (r.status = "NORMAL" <=> r.head # r.tail)

(* An index in the first or in the second turn around the buffer. *)
LEMMA WrapAround ==
  ASSUME NEW x \in Nat, x < Size + Size
  PROVE  /\ x < Size => Wrap(x) = x
         /\ x >= Size => Wrap(x) = x - Size
         /\ Wrap(x) \in 0 .. Size - 1
BY RingBufferAssumption DEF Wrap

(* The number of bytes from index h up to index t, when there are any. *)
Distance(h, t) == IF t > h THEN t - h ELSE t + Size - h

(* The index after x. *)
After(x) == IF x + 1 = Size THEN 0 ELSE x + 1

(* available_read is the distance from head to tail, unless it is empty. *)
LEMMA ReadIsDistance ==
  ASSUME NEW r
  PROVE  available_read(r) = IF r.status = "EMPTY" THEN 0 ELSE Distance(r.head, r.tail)
BY DEF available_read, Distance

(* From h it is Distance(h, t) bytes to t, in this turn or the next. *)
LEMMA DistanceLeads ==
  ASSUME NEW h \in 0 .. Size - 1, NEW t \in 0 .. Size - 1
  PROVE  h + Distance(h, t) = t \/ h + Distance(h, t) = t + Size
BY RingBufferAssumption DEF Distance

(* Moving the tail by one makes the distance one longer. *)
LEMMA TailMoves ==
  ASSUME NEW h \in 0 .. Size - 1, NEW t \in 0 .. Size - 1
  PROVE  Distance(h, After(t)) = (IF h = t THEN 0 ELSE Distance(h, t)) + 1
<1>1. CASE t + 1 = Size
  BY <1>1, RingBufferAssumption DEF Distance, After
<1>2. CASE t + 1 # Size
  BY <1>2, RingBufferAssumption DEF Distance, After
<1> QED
  BY <1>1, <1>2

(* Moving the head by one makes the distance one shorter. *)
LEMMA HeadMoves ==
  ASSUME NEW h \in 0 .. Size - 1, NEW t \in 0 .. Size - 1
  PROVE  (IF After(h) = t THEN 0 ELSE Distance(After(h), t)) = Distance(h, t) - 1
<1>1. CASE h + 1 = Size
  BY <1>1, RingBufferAssumption DEF Distance, After
<1>2. CASE h + 1 # Size
  BY <1>2, RingBufferAssumption DEF Distance, After
<1> QED
  BY <1>1, <1>2

(* The indices of n < Size bytes from h on do not include the next one. *)
LEMMA NextIsFree ==
  ASSUME NEW h \in 0 .. Size - 1, NEW t \in 0 .. Size - 1, NEW n \in 0 .. Size - 1,
         h + n = t \/ h + n = t + Size, NEW i \in 1 .. n
  PROVE  Wrap(h + i - 1) # t
<1> DEFINE x == h + i - 1
<1>1. x \in Nat /\ x < Size + Size /\ Size \in Nat
  BY RingBufferAssumption
<1>2. x # t /\ x # t + Size
  BY RingBufferAssumption
<1> HIDE DEF x
<1>3. Wrap(x) = x \/ Wrap(x) = x - Size
  BY <1>1, WrapAround
<1>4. Wrap(x) # t
  BY <1>1, <1>2, <1>3
<1> QED
  BY <1>4 DEF x

(* The components of a buffer. *)
LEMMA BufferTypes ==
  ASSUME NEW r, Good(r)
  PROVE  /\ r.head \in 0 .. Size - 1
         /\ r.tail \in 0 .. Size - 1
         /\ r.arr \in [0 .. Size - 1 -> Byte]
         /\ r.status \in {"FULL", "EMPTY", "NORMAL"}
         /\ r.status = "NORMAL" <=> r.head # r.tail
BY DEF Good, RingBuffers

(* available_read and available_write share out the buffer, and tell an    *)
(* empty and a full one.                                                   *)
LEMMA Room ==
  ASSUME NEW r, Good(r)
  PROVE  /\ available_read(r) \in 0 .. Size
         /\ available_write(r) = Size - available_read(r)
         /\ available_read(r) = 0 <=> r.status = "EMPTY"
         /\ available_write(r) = 0 <=> r.status = "FULL"
BY BufferTypes, RingBufferAssumption DEF available_read, available_write

(* The contents as a sequence. *)
LEMMA ContentsSeq ==
  ASSUME NEW r, Good(r)
  PROVE  /\ Contents(r) \in Seq(Byte)
         /\ Len(Contents(r)) = available_read(r)
         /\ \A i \in 1 .. available_read(r) :
              /\ Wrap(r.head + i - 1) \in 0 .. Size - 1
              /\ Contents(r)[i] = r.arr[Wrap(r.head + i - 1)]
<1> DEFINE n == available_read(r)
<1>1. n \in 0 .. Size /\ Size \in Nat \ {0}
  BY Room, RingBufferAssumption
<1>2. r.head \in 0 .. Size - 1 /\ r.arr \in [0 .. Size - 1 -> Byte]
  BY BufferTypes
<1> HIDE DEF n
<1>3. \A i \in 1 .. n : Wrap(r.head + i - 1) \in 0 .. Size - 1
  BY <1>1, <1>2, WrapAround
<1>4. Contents(r) = [i \in 1 .. n |-> r.arr[Wrap(r.head + i - 1)]]
  BY DEF Contents, n
<1>5. \A i \in 1 .. n : r.arr[Wrap(r.head + i - 1)] \in Byte
  BY <1>2, <1>3
<1>6. Contents(r) \in [1 .. n -> Byte]
  BY <1>4, <1>5
<1>7. Contents(r) \in Seq(Byte) /\ Len(Contents(r)) = n
  BY <1>1, <1>6, IsASeq, LenProperties
<1> QED
  BY <1>3, <1>4, <1>7 DEF n

(* A byte written to a buffer that is not full is appended. *)
LEMMA WriteAppends ==
  ASSUME NEW r, Good(r), r.status # "FULL", NEW b \in Byte
  PROVE  /\ Good(write_byte(r, b))
         /\ available_read(write_byte(r, b)) = available_read(r) + 1
         /\ Contents(write_byte(r, b)) = Append(Contents(r), b)
<1> DEFINE w == write_byte(r, b)
           n == available_read(r)
<1>1. /\ r.head \in 0 .. Size - 1 /\ r.tail \in 0 .. Size - 1
      /\ r.arr \in [0 .. Size - 1 -> Byte]
      /\ r.status \in {"EMPTY", "NORMAL"}
      /\ r.status = "NORMAL" <=> r.head # r.tail
      /\ Size \in Nat \ {0}
  BY BufferTypes, RingBufferAssumption
<1>2. Wrap(r.tail + 1) = After(r.tail)
  BY <1>1, WrapAround DEF After
<1>3. /\ w.head = r.head
      /\ w.tail = Wrap(r.tail + 1)
      /\ w.arr = [r.arr EXCEPT ![r.tail] = b]
      /\ w.status = IF Wrap(r.tail + 1) = r.head THEN "FULL" ELSE "NORMAL"
  BY DEF write_byte
<1>4. w \in RingBuffers
  <2>1. [r.arr EXCEPT ![r.tail] = b] \in [0 .. Size - 1 -> Byte]
    BY <1>1
  <2>2. Wrap(r.tail + 1) \in 0 .. Size - 1
    BY <1>1, <1>2 DEF After
  <2>3. w = [arr |-> w.arr, head |-> w.head, tail |-> w.tail, status |-> w.status]
    BY DEF write_byte
  <2> HIDE DEF w
  <2> QED
    BY <1>1, <1>3, <2>1, <2>2, <2>3 DEF RingBuffers
<1> HIDE DEF w
<1>5. Good(w)
  BY <1>3, <1>4 DEF Good
<1>6. available_read(w) = n + 1
  <2>1. n = IF r.head = r.tail THEN 0 ELSE Distance(r.head, r.tail)
    BY <1>1, ReadIsDistance
  <2>2. available_read(w) = Distance(r.head, After(r.tail))
    BY <1>2, <1>3, ReadIsDistance
  <2> HIDE DEF n
  <2> QED
    BY <1>1, <2>1, <2>2, TailMoves
<1>7. n \in 0 .. Size - 1 /\ Wrap(r.head + n) = r.tail
  <2>1. n \in 0 .. Size - 1
    BY Room, <1>1
  <2>2. r.head + n = r.tail \/ r.head + n = r.tail + Size
    BY <1>1, ReadIsDistance, DistanceLeads
  <2> HIDE DEF n
  <2> QED
    BY <1>1, <2>1, <2>2, WrapAround
<1>8. \A i \in 1 .. n : Wrap(r.head + i - 1) # r.tail
  <2> SUFFICES ASSUME NEW i \in 1 .. n PROVE Wrap(r.head + i - 1) # r.tail
    OBVIOUS
  <2>1. r.head + n = r.tail \/ r.head + n = r.tail + Size
    BY <1>1, ReadIsDistance, DistanceLeads
  <2> HIDE DEF n
  <2> QED
    BY <1>1, <1>7, <2>1, NextIsFree
<1>9. /\ Contents(r) \in Seq(Byte) /\ Len(Contents(r)) = n
      /\ \A i \in 1 .. n : /\ Wrap(r.head + i - 1) \in 0 .. Size - 1
                           /\ Contents(r)[i] = r.arr[Wrap(r.head + i - 1)]
  BY ContentsSeq
<1>10. /\ Contents(w) \in Seq(Byte) /\ Len(Contents(w)) = n + 1
       /\ \A i \in 1 .. n + 1 : /\ Wrap(r.head + i - 1) \in 0 .. Size - 1
                                /\ Contents(w)[i] = w.arr[Wrap(r.head + i - 1)]
  <2>1. /\ Contents(w) \in Seq(Byte) /\ Len(Contents(w)) = available_read(w)
        /\ \A i \in 1 .. available_read(w) :
              /\ Wrap(w.head + i - 1) \in 0 .. Size - 1
              /\ Contents(w)[i] = w.arr[Wrap(w.head + i - 1)]
    BY <1>5, ContentsSeq
  <2> HIDE DEF n
  <2> QED
    BY <1>3, <1>6, <2>1
<1> HIDE DEF n
<1>11. \A i \in 1 .. n : Contents(w)[i] = Contents(r)[i]
  <2> SUFFICES ASSUME NEW i \in 1 .. n PROVE Contents(w)[i] = Contents(r)[i]
    OBVIOUS
  <2>1. Contents(w)[i] = w.arr[Wrap(r.head + i - 1)]
    BY <1>7, <1>10
  <2>2. w.arr[Wrap(r.head + i - 1)] = r.arr[Wrap(r.head + i - 1)]
    BY <1>1, <1>3, <1>8, <1>9
  <2> QED
    BY <1>9, <2>1, <2>2
<1>12. Contents(w)[n + 1] = b
  <2>1. n + 1 \in 1 .. n + 1 /\ r.head + (n + 1) - 1 = r.head + n
    BY <1>1, <1>7
  <2> QED
    BY <1>1, <1>3, <1>7, <1>10, <2>1
<1>13. Contents(w) = Append(Contents(r), b)
  <2>1. /\ Append(Contents(r), b) \in Seq(Byte)
        /\ Len(Append(Contents(r), b)) = n + 1
        /\ \A i \in 1 .. n : Append(Contents(r), b)[i] = Contents(r)[i]
        /\ Append(Contents(r), b)[n + 1] = b
    BY <1>9, AppendProperties
  <2>2. \A i \in 1 .. n + 1 : Contents(w)[i] = Append(Contents(r), b)[i]
    BY <1>7, <1>11, <1>12, <2>1
  <2> QED
    BY <1>10, <2>1, <2>2, SeqEqual
<1> QED
  BY <1>5, <1>6, <1>13 DEF w, n

(* A byte read from a buffer that is not empty is its first one. *)
LEMMA ReadTakesFirst ==
  ASSUME NEW r, Good(r), r.status # "EMPTY"
  PROVE  /\ Good(read_byte(r))
         /\ available_read(read_byte(r)) = available_read(r) - 1
         /\ Contents(r) # << >>
         /\ front_byte(r) = Head(Contents(r))
         /\ Contents(read_byte(r)) = Tail(Contents(r))
<1> DEFINE w == read_byte(r)
           n == available_read(r)
<1>1. /\ r.head \in 0 .. Size - 1 /\ r.tail \in 0 .. Size - 1
      /\ r.arr \in [0 .. Size - 1 -> Byte]
      /\ r.status \in {"FULL", "NORMAL"}
      /\ r.status = "NORMAL" <=> r.head # r.tail
      /\ Size \in Nat \ {0}
  BY BufferTypes, RingBufferAssumption
<1>2. Wrap(r.head + 1) = After(r.head)
  BY <1>1, WrapAround DEF After
<1>3. /\ w = [arr |-> w.arr, head |-> w.head, tail |-> w.tail, status |-> w.status]
      /\ w.arr = r.arr
      /\ w.head = Wrap(r.head + 1)
      /\ w.tail = r.tail
      /\ w.status = IF Wrap(r.head + 1) = r.tail THEN "EMPTY" ELSE "NORMAL"
  BY DEF read_byte
<1> HIDE DEF w
<1>4. w \in RingBuffers
  <2>1. Wrap(r.head + 1) \in 0 .. Size - 1
    BY <1>1, <1>2 DEF After
  <2> QED
    BY <1>1, <1>3, <2>1 DEF RingBuffers
<1>5. Good(w)
  BY <1>3, <1>4 DEF Good
<1>6. available_read(w) = n - 1
  <2>1. n = Distance(r.head, r.tail)
    BY <1>1, ReadIsDistance
  <2>2. available_read(w) =
          IF After(r.head) = r.tail THEN 0 ELSE Distance(After(r.head), r.tail)
    BY <1>2, <1>3, ReadIsDistance
  <2> HIDE DEF n
  <2> QED
    BY <1>1, <2>1, <2>2, HeadMoves
<1>7. n \in 1 .. Size
  BY Room, <1>1
<1>8. /\ Contents(r) \in Seq(Byte) /\ Len(Contents(r)) = n
      /\ \A i \in 1 .. n : Contents(r)[i] = r.arr[Wrap(r.head + i - 1)]
  BY ContentsSeq
<1>9. /\ Contents(w) \in Seq(Byte) /\ Len(Contents(w)) = n - 1
      /\ \A i \in 1 .. n - 1 : Contents(w)[i] = w.arr[Wrap(w.head + i - 1)]
  <2>1. /\ Contents(w) \in Seq(Byte) /\ Len(Contents(w)) = available_read(w)
        /\ \A i \in 1 .. available_read(w) :
              Contents(w)[i] = w.arr[Wrap(w.head + i - 1)]
    BY <1>5, ContentsSeq
  <2> HIDE DEF n
  <2> QED
    BY <1>6, <2>1
<1> HIDE DEF n
<1>10. Contents(r) # << >> /\ Head(Contents(r)) = Contents(r)[1]
  BY <1>7, <1>8, EmptySeq
<1>11. front_byte(r) = Contents(r)[1]
  <2>1. Contents(r)[1] = r.arr[Wrap(r.head + 1 - 1)]
    BY <1>7, <1>8
  <2>2. r.head + 1 - 1 = r.head /\ Wrap(r.head) = r.head
    BY <1>1, WrapAround
  <2> QED
    BY <2>1, <2>2 DEF front_byte
<1>12. \A i \in 1 .. n - 1 : Contents(w)[i] = Contents(r)[i + 1]
  <2> SUFFICES ASSUME NEW i \in 1 .. n - 1 PROVE Contents(w)[i] = Contents(r)[i + 1]
    OBVIOUS
  <2>1. Wrap(w.head + i - 1) = Wrap(r.head + (i + 1) - 1)
    <3>1. CASE r.head + 1 = Size
      <4>1. w.head + i - 1 = i - 1 /\ Wrap(i - 1) = i - 1
        <5>1. w.head = 0
          BY <1>2, <1>3, <3>1 DEF After
        <5> QED
          BY <1>1, <1>7, <5>1, WrapAround
      <4>2. r.head + (i + 1) - 1 = i - 1 + Size /\ Wrap(i - 1 + Size) = i - 1
        <5> DEFINE x == i - 1 + Size
        <5>1. x \in Nat /\ x < Size + Size /\ x >= Size
          BY <1>1, <1>7
        <5> HIDE DEF x
        <5>2. Wrap(x) = x - Size
          BY <5>1, WrapAround
        <5> QED
          BY <1>1, <1>7, <3>1, <5>2 DEF x
      <4> QED
        BY <4>1, <4>2
    <3>2. CASE r.head + 1 # Size
      <4>1. w.head = r.head + 1
        BY <1>2, <1>3, <3>2 DEF After
      <4>2. w.head + i - 1 = r.head + (i + 1) - 1
        BY <1>1, <1>7, <4>1
      <4> QED
        BY <4>2
    <3> QED
      BY <3>1, <3>2
  <2>2. i + 1 \in 1 .. n
    BY <1>7
  <2> QED
    BY <1>3, <1>8, <1>9, <2>1, <2>2
<1>13. Contents(w) = Tail(Contents(r))
  <2>1. /\ Tail(Contents(r)) \in Seq(Byte)
        /\ Len(Tail(Contents(r))) = n - 1
        /\ \A i \in 1 .. n - 1 : Tail(Contents(r))[i] = Contents(r)[i + 1]
    BY <1>8, <1>10, HeadTailProperties
  <2> QED
    BY <1>9, <1>12, <2>1, SeqEqual
<1> QED
  BY <1>5, <1>6, <1>10, <1>11, <1>13 DEF w, n

-----------------------------------------------------------------------------
(* The inductive invariant: a good buffer, and nothing lost.               *)
IInv == TypeOK /\ NothingLost

(* The type invariant in terms of the states a ring buffer can be in. *)
LEMMA TypeGood == TypeOK <=> Good(rb) /\ sent \in Seq(Byte) /\ received \in Seq(Byte)
BY DEF TypeOK, Good

(* A new ring buffer is empty and nothing has been sent. *)
LEMMA InitIInv == Init => IInv
<1> SUFFICES ASSUME Init PROVE IInv
  OBVIOUS
<1>1. Good(rb)
  BY RingBufferAssumption DEF Init, NewBuffer, Good, RingBuffers
<1>2. available_read(rb) = 0
  BY DEF Init, NewBuffer, available_read
<1>3. Contents(rb) \in Seq(Byte) /\ Len(Contents(rb)) = 0
  BY <1>1, <1>2, ContentsSeq
<1>4. Contents(rb) = << >>
  BY <1>3, EmptySeq
<1>5. sent = << >> /\ received = << >> /\ << >> \in Seq(Byte)
  BY EmptySeq DEF Init
<1>6. NothingLost
  BY <1>4, <1>5, ConcatEmptySeq DEF NothingLost
<1> QED
  BY <1>1, <1>5, <1>6, TypeGood DEF IInv

(* Append at the end of a concatenation. *)
LEMMA ConcatAppend ==
  ASSUME NEW S, NEW s \in Seq(S), NEW t \in Seq(S), NEW e \in S
  PROVE  s \o Append(t, e) = Append(s \o t, e)
<1> DEFINE l == s \o Append(t, e)
           r == Append(s \o t, e)
<1>1. /\ Append(t, e) \in Seq(S) /\ Len(Append(t, e)) = Len(t) + 1
      /\ \A i \in 1 .. Len(t) : Append(t, e)[i] = t[i]
      /\ Append(t, e)[Len(t) + 1] = e
  BY AppendProperties
<1>2. /\ s \o t \in Seq(S) /\ Len(s \o t) = Len(s) + Len(t)
      /\ \A i \in 1 .. Len(s) + Len(t) :
           (s \o t)[i] = IF i <= Len(s) THEN s[i] ELSE t[i - Len(s)]
  BY ConcatProperties
<1>3. Len(s) \in Nat /\ Len(t) \in Nat
  BY LenProperties
<1>4. /\ l \in Seq(S) /\ Len(l) = Len(s) + (Len(t) + 1)
      /\ \A i \in 1 .. Len(s) + (Len(t) + 1) :
           l[i] = IF i <= Len(s) THEN s[i] ELSE Append(t, e)[i - Len(s)]
  BY <1>1, ConcatProperties
<1>5. /\ r \in Seq(S) /\ Len(r) = Len(s) + Len(t) + 1
      /\ \A i \in 1 .. Len(s) + Len(t) : r[i] = (s \o t)[i]
      /\ r[Len(s) + Len(t) + 1] = e
  BY <1>2, AppendProperties
<1> HIDE DEF l, r
<1>6. \A i \in 1 .. Len(l) : l[i] = r[i]
  <2> SUFFICES ASSUME NEW i \in 1 .. Len(s) + Len(t) + 1 PROVE l[i] = r[i]
    BY <1>3, <1>4
  <2>1. CASE i <= Len(s)
    <3>1. i \in 1 .. Len(s) + Len(t) /\ i \in 1 .. Len(s) + (Len(t) + 1)
      BY <1>3, <2>1
    <3> QED
      BY <1>2, <1>4, <1>5, <2>1, <3>1
  <2>2. CASE i > Len(s) /\ i <= Len(s) + Len(t)
    <3>1. /\ i \in 1 .. Len(s) + Len(t) /\ i \in 1 .. Len(s) + (Len(t) + 1)
          /\ i - Len(s) \in 1 .. Len(t) /\ ~(i <= Len(s))
      BY <1>3, <2>2
    <3>2. r[i] = t[i - Len(s)]
      BY <1>2, <1>5, <3>1
    <3>3. l[i] = Append(t, e)[i - Len(s)]
      BY <1>4, <3>1
    <3> QED
      BY <1>1, <3>1, <3>2, <3>3
  <2>3. CASE i = Len(s) + Len(t) + 1
    BY <1>1, <1>3, <1>4, <1>5, <2>3
  <2> QED
    BY <1>3, <2>1, <2>2, <2>3
<1> QED
  BY <1>3, <1>4, <1>5, <1>6, SeqEqual DEF l, r

(* Moving the first element of the second sequence to the end of the first *)
(* changes nothing.                                                        *)
LEMMA ConcatShift ==
  ASSUME NEW S, NEW s \in Seq(S), NEW t \in Seq(S), t # << >>
  PROVE  Append(s, Head(t)) \o Tail(t) = s \o t
<1> DEFINE l == Append(s, Head(t)) \o Tail(t)
<1>1. /\ Head(t) \in S /\ Tail(t) \in Seq(S) /\ Len(Tail(t)) = Len(t) - 1
      /\ \A i \in 1 .. Len(t) - 1 : Tail(t)[i] = t[i + 1]
      /\ Len(t) \in Nat \ {0} /\ Head(t) = t[1]
  BY HeadTailProperties, EmptySeq, LenProperties
<1>2. /\ Append(s, Head(t)) \in Seq(S) /\ Len(Append(s, Head(t))) = Len(s) + 1
      /\ \A i \in 1 .. Len(s) : Append(s, Head(t))[i] = s[i]
      /\ Append(s, Head(t))[Len(s) + 1] = Head(t)
  BY <1>1, AppendProperties
<1>3. /\ s \o t \in Seq(S) /\ Len(s \o t) = Len(s) + Len(t)
      /\ \A i \in 1 .. Len(s) + Len(t) :
           (s \o t)[i] = IF i <= Len(s) THEN s[i] ELSE t[i - Len(s)]
      /\ Len(s) \in Nat
  BY ConcatProperties, LenProperties
<1>4. /\ l \in Seq(S) /\ Len(l) = (Len(s) + 1) + (Len(t) - 1)
      /\ \A i \in 1 .. (Len(s) + 1) + (Len(t) - 1) :
           l[i] = IF i <= Len(s) + 1 THEN Append(s, Head(t))[i]
                  ELSE Tail(t)[i - (Len(s) + 1)]
  BY <1>1, <1>2, ConcatProperties
<1> HIDE DEF l
<1>5. \A i \in 1 .. Len(l) : l[i] = (s \o t)[i]
  <2> SUFFICES ASSUME NEW i \in 1 .. Len(s) + Len(t) PROVE l[i] = (s \o t)[i]
    BY <1>1, <1>3, <1>4
  <2>1. CASE i <= Len(s)
    BY <1>1, <1>2, <1>3, <1>4, <2>1
  <2>2. CASE i = Len(s) + 1
    BY <1>1, <1>2, <1>3, <1>4, <2>2
  <2>3. CASE i > Len(s) + 1
    <3> DEFINE k == i - (Len(s) + 1)
    <3>1. k \in 1 .. Len(t) - 1 /\ k + 1 = i - Len(s)
      BY <1>1, <1>3, <2>3
    <3>2. l[i] = Tail(t)[k]
      BY <1>1, <1>3, <1>4, <2>3
    <3>3. (s \o t)[i] = t[i - Len(s)]
      BY <1>1, <1>3, <2>3
    <3> HIDE DEF k
    <3>4. Tail(t)[k] = t[k + 1]
      BY <1>1, <3>1
    <3> QED
      BY <3>1, <3>2, <3>3, <3>4
  <2> QED
    BY <1>3, <2>1, <2>2, <2>3
<1> QED
  BY <1>1, <1>3, <1>4, <1>5, SeqEqual DEF l

(* write_byte appends one byte to the contents. *)
LEMMA WriteIInv == ASSUME IInv, NEW b \in Byte, WriteByte(b) PROVE IInv'
<1>1. Good(rb) /\ sent \in Seq(Byte) /\ received \in Seq(Byte)
  BY TypeGood DEF IInv
<1>2. rb.status # "FULL"
  BY <1>1, Room DEF WriteByte
<1>3. Good(rb') /\ Contents(rb') = Append(Contents(rb), b)
  BY <1>1, <1>2, WriteAppends DEF WriteByte
<1>4. sent' = Append(sent, b) /\ received' = received /\ sent' \in Seq(Byte)
  BY <1>1, AppendProperties DEF WriteByte
<1>5. TypeOK'
  BY <1>1, <1>3, <1>4 DEF TypeOK, Good
<1>6. received \o Append(Contents(rb), b) = Append(received \o Contents(rb), b)
  BY <1>1, ContentsSeq, ConcatAppend
<1>7. NothingLost'
  BY <1>3, <1>4, <1>6 DEF IInv, NothingLost
<1> QED
  BY <1>5, <1>7 DEF IInv

(* read_byte takes the oldest byte from the contents. *)
LEMMA ReadIInv == ASSUME IInv, ReadByte PROVE IInv'
<1>1. Good(rb) /\ sent \in Seq(Byte) /\ received \in Seq(Byte)
  BY TypeGood DEF IInv
<1>2. rb.status # "EMPTY"
  BY <1>1, Room DEF ReadByte
<1>3. /\ Good(rb') /\ Contents(rb') = Tail(Contents(rb))
      /\ Contents(rb) # << >> /\ front_byte(rb) = Head(Contents(rb))
  BY <1>1, <1>2, ReadTakesFirst DEF ReadByte
<1>4. Contents(rb) \in Seq(Byte)
  BY <1>1, ContentsSeq
<1>5. /\ sent' = sent /\ received' = Append(received, Head(Contents(rb)))
      /\ received' \in Seq(Byte)
  BY <1>1, <1>3, <1>4, AppendProperties, HeadTailProperties DEF ReadByte
<1>6. TypeOK'
  BY <1>1, <1>3, <1>5 DEF TypeOK, Good
<1>7. Append(received, Head(Contents(rb))) \o Tail(Contents(rb)) = received \o Contents(rb)
  BY <1>1, <1>3, <1>4, ConcatShift
<1>8. NothingLost'
  BY <1>3, <1>5, <1>7 DEF IInv, NothingLost
<1> QED
  BY <1>6, <1>8 DEF IInv

(* Every call on the buffer keeps the invariant. *)
LEMMA NextIInv == IInv /\ [Next]_vars => IInv'
<1> SUFFICES ASSUME IInv, [Next]_vars PROVE IInv'
  OBVIOUS
<1>1. CASE ReadByte
  BY <1>1, ReadIInv
<1>2. ASSUME NEW b \in Byte, WriteByte(b) PROVE IInv'
  BY <1>2, WriteIInv
<1>3. CASE UNCHANGED vars
  BY <1>3 DEF vars, IInv, TypeOK, NothingLost
<1> QED
  BY <1>1, <1>2, <1>3 DEF Next

(* In every reachable state the buffer holds the bytes sent and not read. *)
THEOREM SpecIInv == Spec => []IInv
BY InitIInv, NextIInv, PTL DEF Spec

(* For every size of the buffer and every number of bytes: no byte that    *)
(* was written is lost, duplicated, reordered or overwritten before it is  *)
(* read.                                                                   *)
THEOREM NothingIsLost == Spec => []NothingLost
BY SpecIInv, PTL DEF IInv

(* available_read and available_write add up to the size. *)
THEOREM RoomAlwaysAddsUp == Spec => []RoomAddsUp
<1>1. IInv => RoomAddsUp
  <2> SUFFICES ASSUME IInv PROVE RoomAddsUp
    OBVIOUS
  <2>1. Good(rb)
    BY TypeGood DEF IInv
  <2> QED
    BY <2>1, Room, RingBufferAssumption DEF RoomAddsUp
<1> QED
  BY <1>1, SpecIInv, PTL

-----------------------------------------------------------------------------
(* Refinement of the byte stream.                                          *)

(* A sequence begins with each of its prefixes. *)
LEMMA AppendBegins ==
  ASSUME NEW S, NEW s \in Seq(S), NEW e \in S
  PROVE  Stream!Begins(s, Append(s, e))
<1>1. /\ Append(s, e) \in Seq(S) /\ Len(Append(s, e)) = Len(s) + 1
      /\ \A i \in 1 .. Len(s) : Append(s, e)[i] = s[i]
      /\ Len(s) \in Nat
  BY AppendProperties, LenProperties
<1> DEFINE p == SubSeq(Append(s, e), 1, Len(s))
<1>2. /\ p \in Seq(S) /\ Len(p) = Len(s)
      /\ \A i \in 1 .. Len(s) : p[i] = Append(s, e)[i]
  BY <1>1, SubSeqProperties
<1> HIDE DEF p
<1>3. s = p
  BY <1>1, <1>2, SeqEqual
<1> QED
  BY <1>1, <1>3 DEF Stream!Begins, p

(* A concatenation begins with its first part. *)
LEMMA ConcatBegins ==
  ASSUME NEW S, NEW s \in Seq(S), NEW t \in Seq(S)
  PROVE  Stream!Begins(s, s \o t)
<1>1. /\ s \o t \in Seq(S) /\ Len(s \o t) = Len(s) + Len(t)
      /\ \A i \in 1 .. Len(s) + Len(t) :
           (s \o t)[i] = IF i <= Len(s) THEN s[i] ELSE t[i - Len(s)]
      /\ Len(s) \in Nat /\ Len(t) \in Nat
  BY ConcatProperties, LenProperties
<1> DEFINE p == SubSeq(s \o t, 1, Len(s))
<1>2. /\ p \in Seq(S) /\ Len(p) = Len(s)
      /\ \A i \in 1 .. Len(s) : p[i] = (s \o t)[i]
  BY <1>1, SubSeqProperties
<1> HIDE DEF p
<1>3. \A i \in 1 .. Len(s) : s[i] = p[i]
  BY <1>1, <1>2
<1>4. s = p
  BY <1>2, <1>3, SeqEqual
<1> QED
  BY <1>1, <1>4 DEF Stream!Begins, p

(* write_byte is a Send step of the byte stream. *)
LEMMA WriteSends == ASSUME IInv, NEW b \in Byte, WriteByte(b) PROVE Stream!Send
<1>1. Good(rb) /\ sent \in Seq(Byte) /\ received \in Seq(Byte)
  BY TypeGood DEF IInv
<1>2. available_read(rb) \in 0 .. Size /\ available_read(rb) < Size /\ Size \in Nat
  BY <1>1, Room, RingBufferAssumption DEF WriteByte
<1>3. /\ Contents(rb) \in Seq(Byte) /\ Len(Contents(rb)) = available_read(rb)
  BY <1>1, ContentsSeq
<1>4. Len(sent) = Len(received) + available_read(rb) /\ Len(received) \in Nat
  BY <1>1, <1>3, ConcatProperties, LenProperties DEF IInv, NothingLost
<1>5. Stream!Begins(sent, sent') /\ Len(sent') = Len(sent) + 1
  BY <1>1, AppendBegins, AppendProperties DEF WriteByte
<1>6. Len(sent') <= Len(received) + Size
  BY <1>2, <1>4, <1>5
<1> QED
  BY <1>5, <1>6 DEF Stream!Send, WriteByte

(* read_byte is a Receive step of the byte stream. *)
LEMMA ReadReceives == ASSUME IInv, ReadByte PROVE Stream!Receive
<1>1. Good(rb) /\ sent \in Seq(Byte) /\ received \in Seq(Byte)
  BY TypeGood DEF IInv
<1>2. rb.status # "EMPTY"
  BY <1>1, Room DEF ReadByte
<1>3. Contents(rb) # << >> /\ front_byte(rb) = Head(Contents(rb))
  BY <1>1, <1>2, ReadTakesFirst
<1>4. Contents(rb) \in Seq(Byte)
  BY <1>1, ContentsSeq
<1>5. Head(Contents(rb)) \in Byte /\ Tail(Contents(rb)) \in Seq(Byte)
  BY <1>3, <1>4, HeadTailProperties
<1>6. received' = Append(received, Head(Contents(rb))) /\ received' \in Seq(Byte)
  BY <1>1, <1>3, <1>5, AppendProperties DEF ReadByte
<1>7. Stream!Begins(received, received')
  BY <1>1, <1>5, <1>6, AppendBegins
<1>8. sent = received' \o Tail(Contents(rb))
  BY <1>1, <1>3, <1>4, <1>6, ConcatShift DEF IInv, NothingLost
<1>9. Stream!Begins(received', sent)
  BY <1>5, <1>6, <1>8, ConcatBegins
<1> QED
  BY <1>7, <1>9 DEF Stream!Receive, ReadByte

(* For every size: the ring buffer implements the byte stream whose        *)
(* capacity is the size of the buffer.                                     *)
THEOREM ImplementsStream == Spec => StreamSpec
<1>1. Init => Stream!Init
  BY DEF Init, Stream!Init
<1>2. IInv /\ [Next]_vars => [Stream!Next]_(Stream!streamVars)
  <2> SUFFICES ASSUME IInv, [Next]_vars PROVE [Stream!Next]_(Stream!streamVars)
    OBVIOUS
  <2>1. CASE ReadByte
    BY <2>1, ReadReceives DEF Stream!Next
  <2>2. ASSUME NEW b \in Byte, WriteByte(b) PROVE Stream!Next
    BY <2>2, WriteSends DEF Stream!Next
  <2>3. CASE UNCHANGED vars
    BY <2>3 DEF vars, Stream!streamVars
  <2> QED
    BY <2>1, <2>2, <2>3 DEF Next
<1> QED
  BY <1>1, <1>2, SpecIInv, PTL DEF Spec, StreamSpec, Stream!Spec

=============================================================================
