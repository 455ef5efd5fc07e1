--------------------------- MODULE SequenceLemmas ---------------------------
(***************************************************************************)
(* Facts about sequences without repetitions, which is how the queues and  *)
(* free lists of the kernel appear in the models: what the usual operations *)
(* do to the range and that they keep the sequence free of repetitions.    *)
(***************************************************************************)
EXTENDS SequenceTheorems, FiniteSetTheorems, TLAPS

(* The empty sequence. *)
LEMMA EmptyProperties ==
  ASSUME NEW S
  PROVE  << >> \in Seq(S) /\ Range(<< >>) = {} /\ IsInjective(<< >>)
<1>1. << >> \in Seq(S) /\ DOMAIN << >> = {}
  BY EmptySeq
<1> QED
  BY <1>1 DEF Range, IsInjective

(* A sequence of one element. *)
LEMMA SingleProperties ==
  ASSUME NEW S, NEW e \in S
  PROVE  <<e>> \in Seq(S) /\ Range(<<e>>) = {e} /\ IsInjective(<<e>>)
<1>1. <<e>> \in Seq(S) /\ DOMAIN <<e>> = {1} /\ <<e>>[1] = e
  OBVIOUS
<1> QED
  BY <1>1 DEF Range, IsInjective

(* push_back of an element that is not in the sequence. *)
LEMMA PushProperties ==
  ASSUME NEW S, NEW s \in Seq(S), NEW e \in S, e \notin Range(s), IsInjective(s)
  PROVE  LET t == Append(s, e)
         IN  /\ t \in Seq(S)
             /\ Range(t) = Range(s) \cup {e}
             /\ IsInjective(t)
<1> DEFINE n == Len(s)
           t == Append(s, e)
<1>1. n \in Nat /\ DOMAIN s = 1 .. n
  BY LenProperties
<1>2. /\ t \in Seq(S)
      /\ Len(t) = n + 1
      /\ \A i \in 1 .. n : t[i] = s[i]
      /\ t[n + 1] = e
  BY AppendProperties
<1>3. DOMAIN t = 1 .. n + 1
  BY <1>2, LenProperties
<1> HIDE DEF t
<1>4. Range(t) = Range(s) \cup {e}
  BY <1>1, <1>2, <1>3 DEF Range
<1>5. ASSUME NEW i \in 1 .. n + 1, NEW j \in 1 .. n + 1, t[i] = t[j]
      PROVE  i = j
  <2>1. \A k \in 1 .. n : t[k] # e
    BY <1>1, <1>2 DEF Range
  <2> QED
    BY <1>1, <1>2, <1>5, <2>1 DEF IsInjective
<1> QED
  BY <1>2, <1>3, <1>4, <1>5 DEF t, IsInjective

(* pop of the last element of a stack. *)
LEMMA PopProperties ==
  ASSUME NEW S, NEW s \in Seq(S), s # << >>, IsInjective(s)
  PROVE  LET t == SubSeq(s, 1, Len(s) - 1)
         IN  /\ t \in Seq(S)
             /\ Range(t) = Range(s) \ {s[Len(s)]}
             /\ s[Len(s)] \in Range(s)
             /\ IsInjective(t)
<1> DEFINE n == Len(s)
           t == SubSeq(s, 1, n - 1)
<1>1. n \in Nat \ {0} /\ DOMAIN s = 1 .. n /\ \A i \in 1 .. n : s[i] \in S
  BY EmptySeq, LenProperties, ElementOfSeq
<1>2. t \in Seq(S) /\ Len(t) = n - 1 /\ \A i \in 1 .. n - 1 : t[i] = s[i]
  BY <1>1, SubSeqProperties
<1>3. DOMAIN t = 1 .. n - 1
  BY <1>2, LenProperties
<1> HIDE DEF t, n
<1>4. \A k \in 1 .. n : s[k] # s[n] <=> k \in 1 .. n - 1
  BY <1>1 DEF IsInjective
<1>5. Range(t) \subseteq Range(s) \ {s[n]}
  <2> SUFFICES ASSUME NEW k \in 1 .. n - 1 PROVE t[k] \in Range(s) \ {s[n]}
    BY <1>3 DEF Range
  <2>1. k \in 1 .. n /\ t[k] = s[k]
    BY <1>1, <1>2
  <2> QED
    BY <1>1, <1>4, <2>1 DEF Range
<1>6. Range(s) \ {s[n]} \subseteq Range(t)
  <2> SUFFICES ASSUME NEW k \in 1 .. n, s[k] # s[n] PROVE s[k] \in Range(t)
    BY <1>1 DEF Range
  <2>1. k \in 1 .. n - 1 /\ t[k] = s[k]
    BY <1>2, <1>4
  <2> QED
    BY <1>3, <2>1 DEF Range
<1>7. s[n] \in Range(s)
  BY <1>1 DEF Range
<1>8. IsInjective(t)
  BY <1>1, <1>2, <1>3 DEF IsInjective
<1> QED
  BY <1>2, <1>5, <1>6, <1>7, <1>8 DEF t, n

(* pop_front of a queue. *)
LEMMA ShiftProperties ==
  ASSUME NEW S, NEW s \in Seq(S), s # << >>, IsInjective(s)
  PROVE  /\ Tail(s) \in Seq(S)
         /\ Len(Tail(s)) = Len(s) - 1
         /\ Head(s) \in Range(s)
         /\ Head(s) \in S
         /\ Range(Tail(s)) = Range(s) \ {Head(s)}
         /\ IsInjective(Tail(s))
<1> DEFINE n == Len(s)
           t == Tail(s)
           h == Head(s)
<1>1. n \in Nat \ {0} /\ DOMAIN s = 1 .. n
  BY EmptySeq, LenProperties
<1>2. /\ h \in S /\ h = s[1]
      /\ t \in Seq(S) /\ Len(t) = n - 1
      /\ \A i \in 1 .. n - 1 : t[i] = s[i + 1]
  BY HeadTailProperties
<1>3. DOMAIN t = 1 .. n - 1
  BY <1>2, LenProperties
<1> HIDE DEF t, n, h
<1>4. h \in Range(s)
  BY <1>1, <1>2 DEF Range
<1>5. \A k \in 2 .. n : s[k] # h /\ k - 1 \in 1 .. n - 1 /\ s[k] = t[k - 1]
  BY <1>1, <1>2 DEF IsInjective
<1>6. Range(s) \ {h} \subseteq Range(t)
  <2> SUFFICES ASSUME NEW k \in 1 .. n, s[k] # h PROVE s[k] \in Range(t)
    BY <1>1 DEF Range
  <2>1. k \in 2 .. n
    BY <1>1, <1>2
  <2> QED
    BY <1>3, <1>5, <2>1 DEF Range
<1>7. Range(t) \subseteq Range(s) \ {h}
  <2> SUFFICES ASSUME NEW k \in 1 .. n - 1 PROVE t[k] \in Range(s) \ {h}
    BY <1>3 DEF Range
  <2>1. k + 1 \in 2 .. n /\ k + 1 \in DOMAIN s /\ t[k] = s[k + 1]
    BY <1>1, <1>2
  <2> QED
    BY <1>5, <2>1 DEF Range
<1>8. ASSUME NEW i \in 1 .. n - 1, NEW j \in 1 .. n - 1, t[i] = t[j]
      PROVE  i = j
  <2>1. i + 1 \in DOMAIN s /\ j + 1 \in DOMAIN s /\ s[i + 1] = s[j + 1]
    BY <1>1, <1>2, <1>8
  <2>2. i + 1 = j + 1
    BY <2>1 DEF IsInjective
  <2> QED
    BY <1>1, <2>2
<1>9. IsInjective(t)
  BY <1>3, <1>8 DEF IsInjective
<1> QED
  BY <1>2, <1>4, <1>6, <1>7, <1>9 DEF t, n, h

(* push_back of several elements that are not in the queue. *)
LEMMA JoinProperties ==
  ASSUME NEW S, NEW s \in Seq(S), NEW u \in Seq(S), IsInjective(s), IsInjective(u),
         Range(s) \cap Range(u) = {}
  PROVE  /\ s \o u \in Seq(S)
         /\ Range(s \o u) = Range(s) \cup Range(u)
         /\ IsInjective(s \o u)
<1> DEFINE n == Len(s)
           k == Len(u)
           t == s \o u
<1>1. n \in Nat /\ k \in Nat /\ DOMAIN s = 1 .. n /\ DOMAIN u = 1 .. k
  BY LenProperties
<1>2. /\ t \in Seq(S)
      /\ Len(t) = n + k
      /\ \A i \in 1 .. n + k : t[i] = IF i <= n THEN s[i] ELSE u[i - n]
  BY ConcatProperties
<1>3. DOMAIN t = 1 .. n + k
  BY <1>2, LenProperties
<1>4. Range(t) = Range(s) \cup Range(u)
  BY RangeConcatenation
<1> HIDE DEF n, k, t
<1>5. ASSUME NEW i \in 1 .. n + k, NEW j \in 1 .. n + k, t[i] = t[j], i <= n, ~(j <= n)
      PROVE  FALSE
  <2>1. i \in DOMAIN s /\ j - n \in DOMAIN u
    BY <1>1, <1>5
  <2>2. t[i] \in Range(s) /\ t[j] \in Range(u)
    BY <1>2, <1>5, <2>1 DEF Range
  <2> QED
    BY <1>5, <2>2
<1>6. ASSUME NEW i \in 1 .. n + k, NEW j \in 1 .. n + k, t[i] = t[j]
      PROVE  i = j
  <2>1. CASE i <= n /\ j <= n
    <3>1. i \in DOMAIN s /\ j \in DOMAIN s /\ t[i] = s[i] /\ t[j] = s[j]
      BY <1>1, <1>2, <2>1
    <3> QED
      BY <1>6, <3>1 DEF IsInjective
  <2>2. CASE ~(i <= n) /\ ~(j <= n)
    <3>1. i - n \in DOMAIN u /\ j - n \in DOMAIN u
      BY <1>1, <2>2
    <3>2. t[i] = u[i - n] /\ t[j] = u[j - n]
      BY <1>2, <2>2
    <3>3. i - n = j - n
      BY <1>6, <3>1, <3>2 DEF IsInjective
    <3> QED
      BY <1>1, <3>3
  <2> QED
    BY <1>5, <1>6, <2>1, <2>2
<1> QED
  BY <1>2, <1>3, <1>4, <1>6 DEF t, IsInjective

(* A sequence without repetitions over a finite set is no longer than it. *)
LEMMA InjectiveLen ==
  ASSUME NEW S, IsFiniteSet(S), NEW s \in Seq(S), IsInjective(s)
  PROVE  Len(s) \in Nat /\ Cardinality(S) \in Nat /\ Len(s) <= Cardinality(S)
<1>1. Len(s) \in Nat /\ s \in [1 .. Len(s) -> S] /\ Cardinality(S) \in Nat
  BY LenProperties, FS_CardinalityType
<1>2. s \in Injection(1 .. Len(s), S)
  BY <1>1 DEF Injection, IsInjective
<1>3. Cardinality(1 .. Len(s)) <= Cardinality(S)
  BY <1>2, FS_Injection
<1>4. Len(s) \in Int /\ 1 \in Int
  BY <1>1
<1>5. Cardinality(1 .. Len(s)) = IF 1 > Len(s) THEN 0 ELSE Len(s) - 1 + 1
  BY <1>4, FS_Interval
<1> QED
  BY <1>1, <1>3, <1>5

(* A bijection from 1 .. Cardinality(S) to a finite set S is a sequence    *)
(* without repetitions of exactly its elements.                            *)
LEMMA OrdersProperties ==
  ASSUME NEW S, IsFiniteSet(S), NEW q \in Bijection(1 .. Cardinality(S), S)
  PROVE  q \in Seq(S) /\ IsInjective(q) /\ Range(q) = S
<1> DEFINE n == Cardinality(S)
<1>1. n \in Nat
  BY FS_CardinalityType
<1>2. q \in [1 .. n -> S] /\ IsInjective(q) /\ \A e \in S : \E i \in 1 .. n : q[i] = e
  BY DEF Bijection, Injection, Surjection
<1> HIDE DEF n
<1> QED
  BY <1>1, <1>2 DEF Range

=============================================================================
