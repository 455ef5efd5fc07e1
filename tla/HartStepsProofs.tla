-------------------------- MODULE HartStepsProofs ---------------------------
(***************************************************************************)
(* read64 returns a value the counter had during the call, for halves of   *)
(* every width.  free excludes handlers and restores mie, for any depth of *)
(* nesting and any number of handlers that interrupt one another.          *)
(***************************************************************************)
EXTENDS HartSteps, TLAPS

(* The wide counter.                                                       *)

(* A counter is put together from its halves. *)
LEMMA Halves ==
  ASSUME NEW n \in Nat
  PROVE  /\ n \div Half \in Nat
         /\ n % Half \in 0 .. Half - 1
         /\ n = (n \div Half) * Half + (n % Half)
BY HalfAssumption

(* The high half never goes back. *)
LEMMA HighGrows ==
  ASSUME NEW m \in Nat, NEW n \in Nat, m <= n
  PROVE  m \div Half <= n \div Half
<1> DEFINE a == m \div Half
           b == n \div Half
<1>1. a \in Nat /\ b \in Nat
  BY Halves
<1>2. a * Half <= m /\ n < (b + 1) * Half
  BY Halves, HalfAssumption
<1>3. ~(a >= b + 1)
  <2> HIDE DEF a, b
  <2> SUFFICES ASSUME a >= b + 1 PROVE FALSE
    OBVIOUS
  <2>1. a * Half >= (b + 1) * Half
    BY <1>1, HalfAssumption
  <2> QED BY <2>1, <1>1, <1>2, HalfAssumption
<1> QED BY <1>1, <1>3

-----------------------------------------------------------------------------
(* Between the reads: hi is no later than the moment seen at which lo was   *)
(* read, and that moment is in the call.                                    *)
HalvesSeen ==
  /\ pc = "lo" => hi <= High
  /\ pc = "again" =>
       \E seen \in Nat : /\ entered <= seen /\ seen <= counter
                         /\ lo = seen % Half
                         /\ hi <= seen \div Half

CounterIInv == CounterTypeOK /\ entered <= counter /\ HalvesSeen /\ ReadIsCurrent

LEMMA InitCounterIInv == CounterInit => CounterIInv
BY HalfAssumption DEF CounterInit, CounterIInv, CounterTypeOK, HalvesSeen, ReadIsCurrent

LEMMA NextCounterIInv == CounterIInv /\ [CounterNext]_counterVars => CounterIInv'
<1> SUFFICES ASSUME CounterIInv, [CounterNext]_counterVars PROVE CounterIInv'
  OBVIOUS
<1> USE HalfAssumption
<1>0. counter \in Nat
  BY DEF CounterIInv, CounterTypeOK
<1>1. CASE Count
  <2>1. CounterTypeOK' /\ (entered <= counter)' /\ ReadIsCurrent'
    BY <1>1 DEF Count, CounterIInv, CounterTypeOK, ReadIsCurrent
  <2>2. (pc = "lo" => hi <= High)'
    <3>1. High <= High' /\ High \in Nat /\ High' \in Nat
      BY <1>0, <1>1, HighGrows, Halves DEF Count, High
    <3> QED BY <3>1, <1>1 DEF Count, CounterIInv, CounterTypeOK, HalvesSeen
  <2>3. (pc = "again")' => (\E seen \in Nat : /\ entered <= seen /\ seen <= counter
                                              /\ lo = seen % Half
                                              /\ hi <= seen \div Half)'
    <3> SUFFICES ASSUME pc = "again"
                 PROVE  \E seen \in Nat : /\ entered <= seen /\ seen <= counter'
                                          /\ lo = seen % Half
                                          /\ hi <= seen \div Half
      BY <1>1 DEF Count
    <3>1. PICK seen \in Nat : /\ entered <= seen /\ seen <= counter
                              /\ lo = seen % Half
                              /\ hi <= seen \div Half
      BY DEF CounterIInv, HalvesSeen
    <3>2. seen <= counter'
      BY <1>0, <1>1, <3>1 DEF Count
    <3> QED BY <3>1, <3>2, Zenon
  <2> QED BY <2>1, <2>2, <2>3 DEF CounterIInv, HalvesSeen
<1>2. CASE ReadHigh
  BY <1>0, <1>2, Halves DEF ReadHigh, CounterIInv, CounterTypeOK, HalvesSeen, ReadIsCurrent, High
<1>3. CASE ReadLow
  <2>1. CounterTypeOK' /\ (entered <= counter)' /\ ReadIsCurrent'
    BY <1>0, <1>3, Halves DEF ReadLow, CounterIInv, CounterTypeOK, ReadIsCurrent, Low
  <2>2. /\ entered <= counter /\ counter <= counter
        /\ lo' = counter % Half
        /\ hi <= counter \div Half
    BY <1>0, <1>3 DEF ReadLow, CounterIInv, CounterTypeOK, HalvesSeen, High, Low
  <2>3. HalvesSeen'
    BY <1>0, <1>3, <2>2, Zenon DEF ReadLow, HalvesSeen
  <2> QED BY <2>1, <2>3 DEF CounterIInv
<1>4. CASE ReadHighAgain
  <2>1. CASE hi = High
    <3>1. PICK seen \in Nat : /\ entered <= seen /\ seen <= counter
                              /\ lo = seen % Half
                              /\ hi <= seen \div Half
      BY <1>4 DEF ReadHighAgain, CounterIInv, HalvesSeen
    <3>2. seen \div Half <= hi
      BY <1>0, <2>1, <3>1, HighGrows DEF High
    <3>3. seen \div Half = hi
      BY <3>1, <3>2, Halves DEF CounterIInv, CounterTypeOK
    <3>4. hi * Half + lo = seen
      BY <3>1, <3>3, Halves
    <3> QED BY <1>0, <1>4, <2>1, <3>1, <3>4
            DEF ReadHighAgain, CounterIInv, CounterTypeOK, HalvesSeen, ReadIsCurrent
  <2>2. CASE hi # High
    BY <1>4, <2>2 DEF ReadHighAgain, CounterIInv, CounterTypeOK, HalvesSeen, ReadIsCurrent
  <2> QED BY <2>1, <2>2
<1>5. CASE UNCHANGED counterVars
  BY <1>5 DEF counterVars, CounterIInv, CounterTypeOK, HalvesSeen, ReadIsCurrent, High
<1> QED BY <1>1, <1>2, <1>3, <1>4, <1>5 DEF CounterNext

(* read_composite_csr!: for halves of every width and any number of counts  *)
(* between its reads, read64 returns a value the counter had during the     *)
(* call.                                                                    *)
THEOREM ReadsAreCurrent == CounterSpec => []ReadIsCurrent
<1>1. CounterIInv => ReadIsCurrent
  BY DEF CounterIInv
<1> QED BY <1>1, InitCounterIInv, NextCounterIInv, PTL DEF CounterSpec

-----------------------------------------------------------------------------
(* Critical sections.                                                      *)

Program == [frames : Seq(Frame), mpie : BOOLEAN, wanted : BOOLEAN]

(* The calls of free of one program: only the innermost is still at its     *)
(* read, and only the outermost can have found mie set.                     *)
Nested(p) ==
  /\ Len(p.frames) > 0 => p.frames[1].mie = p.wanted
  /\ \A j \in DOMAIN p.frames : j > 1 => p.frames[j].mie = FALSE
  /\ \A j \in DOMAIN p.frames : j < Len(p.frames) => p.frames[j].at = "body"

(* What the innermost call of the running program p has found mie to be is  *)
(* still true at its read, and mie is cleared in its closure.               *)
Current(p, m) ==
  LET n == Len(p.frames) IN
  /\ n = 0 => m = p.wanted
  /\ n > 0 /\ p.frames[n].at = "read" => m = p.frames[n].mie
  /\ n > 0 /\ p.frames[n].at = "body" => m = FALSE

(* A program that has been interrupted had interrupts on. *)
Stopped(p) ==
  /\ p.wanted = TRUE
  /\ Len(p.frames) <= 1
  /\ \A j \in DOMAIN p.frames : p.frames[j].at = "read"

CriticalIInv ==
  /\ mie \in BOOLEAN
  /\ programs \in Seq(Program)
  /\ Top >= 1
  /\ \A i \in 1 .. Top : Nested(programs[i])
  /\ \A i \in 1 .. Top - 1 : Stopped(programs[i]) /\ programs[i + 1].mpie = TRUE
  /\ Current(Running, mie)

-----------------------------------------------------------------------------
(* A step of the running program alone. *)
LEMMA OwnStep ==
  ASSUME CriticalIInv, NEW q \in Program, NEW m \in BOOLEAN,
         programs' = [programs EXCEPT ![Top] = q], mie' = m,
         q.mpie = Running.mpie, Nested(q), Current(q, m)
  PROVE  CriticalIInv'
<1>1. /\ programs' \in Seq(Program)
      /\ Top' = Top
      /\ Top \in Nat /\ Top >= 1
      /\ \A i \in 1 .. Top - 1 : programs'[i] = programs[i]
      /\ programs'[Top] = q
  BY DEF CriticalIInv, Top
<1>2. \A i \in 1 .. Top : Nested(programs'[i])
  BY <1>1 DEF CriticalIInv
<1>3. \A i \in 1 .. Top - 1 : Stopped(programs'[i])
  BY <1>1 DEF CriticalIInv
<1>4. \A i \in 1 .. Top - 1 : programs'[i + 1].mpie = TRUE
  <2> SUFFICES ASSUME NEW i \in 1 .. Top - 1 PROVE programs'[i + 1].mpie = TRUE
    OBVIOUS
  <2>1. programs[i + 1].mpie = TRUE
    BY DEF CriticalIInv
  <2>2. CASE i + 1 = Top
    BY <1>1, <2>1, <2>2 DEF Running
  <2>3. CASE i + 1 \in 1 .. Top - 1
    BY <1>1, <2>1, <2>3
  <2>4. i + 1 = Top \/ i + 1 \in 1 .. Top - 1
    BY <1>1
  <2> QED BY <2>2, <2>3, <2>4
<1>5. Running' = q
  BY <1>1 DEF Running
<1>6. Current(Running', mie')
  BY <1>5
<1> QED BY <1>1, <1>2, <1>3, <1>4, <1>6 DEF CriticalIInv

LEMMA InitCriticalIInv == CriticalInit => CriticalIInv
<1> SUFFICES ASSUME CriticalInit PROVE CriticalIInv
  OBVIOUS
<1> DEFINE p == [frames |-> <<>>, mpie |-> FALSE, wanted |-> mie]
<1>1. mie \in BOOLEAN /\ programs = <<p>>
  BY DEF CriticalInit
<1>2. p \in Program /\ p.frames = <<>> /\ p.wanted = mie
  BY <1>1 DEF Program
<1> HIDE DEF p
<1>3. Nested(p) /\ Current(p, mie)
  BY <1>2 DEF Nested, Current
<1>4. programs \in Seq(Program) /\ Top = 1 /\ Running = p
  BY <1>1, <1>2 DEF Top, Running
<1> QED BY <1>1, <1>3, <1>4 DEF CriticalIInv, Running

LEMMA NextCriticalIInv == CriticalIInv /\ [CriticalNext]_criticalVars => CriticalIInv'
<1> SUFFICES ASSUME CriticalIInv, [CriticalNext]_criticalVars PROVE CriticalIInv'
  OBVIOUS
<1>0. /\ mie \in BOOLEAN
      /\ programs \in Seq(Program)
      /\ Top \in Nat /\ Top >= 1 /\ Top = Len(programs)
      /\ Running \in Program
      /\ Running.frames \in Seq(Frame)
      /\ Running.mpie \in BOOLEAN /\ Running.wanted \in BOOLEAN
      /\ Inner \in Nat /\ Inner = Len(Running.frames)
      /\ \A j \in 1 .. Inner : /\ Running.frames[j].mie \in BOOLEAN
                               /\ Running.frames[j].at \in {"read", "body"}
      /\ Nested(Running) /\ Current(Running, mie)
  <2>1. /\ mie \in BOOLEAN
        /\ programs \in Seq(Program)
        /\ Top \in Nat /\ Top >= 1 /\ Top = Len(programs)
    BY DEF CriticalIInv, Top
  <2>2. Running \in Program /\ Nested(Running) /\ Current(Running, mie)
    BY <2>1 DEF CriticalIInv, Running
  <2>3. /\ Running.frames \in Seq(Frame)
        /\ Running.mpie \in BOOLEAN /\ Running.wanted \in BOOLEAN
    BY <2>2 DEF Program
  <2>4. Inner \in Nat /\ Inner = Len(Running.frames)
    BY <2>3 DEF Inner
  <2>5. ASSUME NEW j \in 1 .. Inner
        PROVE  Running.frames[j].mie \in BOOLEAN /\ Running.frames[j].at \in {"read", "body"}
    <3>1. Running.frames[j] \in Frame
      BY <2>3, <2>4
    <3> QED BY <3>1 DEF Frame
  <2> QED BY <2>1, <2>2, <2>3, <2>4, <2>5
<1>00. Inner \in Nat
  BY <1>0
<1>01. Running.frames \in Seq(Frame) /\ Len(Running.frames) = Inner
  BY <1>0
<1>1. ASSUME NEW b \in BOOLEAN, Inner = 0, mie' = b,
             programs' = [programs EXCEPT ![Top].wanted = b]
      PROVE  CriticalIInv'
  <2> DEFINE q == [Running EXCEPT !.wanted = b]
  <2>1. /\ q \in Program
        /\ q.frames = Running.frames /\ q.mpie = Running.mpie /\ q.wanted = b
    BY <1>0 DEF Program
  <2>2. programs' = [programs EXCEPT ![Top] = q]
    BY <1>0, <1>1 DEF Running
  <2> HIDE DEF q
  <2>3. Len(q.frames) = 0 /\ \A j \in DOMAIN q.frames : FALSE
    <3>1. q.frames \in Seq(Frame) /\ Len(q.frames) = 0
      BY <1>0, <1>1, <2>1
    <3> QED BY <3>1
  <2>4. Nested(q)
    BY <2>3 DEF Nested
  <2>5. Current(q, b)
    BY <2>1, <2>3 DEF Current
  <2> QED BY <1>1, <2>1, <2>2, <2>4, <2>5, OwnStep
<1>2. ASSUME NEW fs \in Seq(Frame), programs' = WithFrames(fs), mie' \in BOOLEAN,
             NEW q, q = [Running EXCEPT !.frames = fs],
             Nested(q), Current(q, mie')
      PROVE  CriticalIInv'
  <2>1. q \in Program /\ q.mpie = Running.mpie
    BY <1>0, <1>2 DEF Program
  <2>2. programs' = [programs EXCEPT ![Top] = q]
    BY <1>0, <1>2 DEF Running, WithFrames
  <2> QED BY <1>2, <2>1, <2>2, OwnStep
<1>3. CASE Enable
  BY <1>1, <1>3 DEF Enable
<1>4. CASE Disable
  BY <1>1, <1>4 DEF Disable
<1>5. CASE EnterFree
  <2> DEFINE fs == Append(Running.frames, [mie |-> mie, at |-> "read"])
             q == [Running EXCEPT !.frames = fs]
  <2>1. /\ fs \in Seq(Frame)
        /\ Len(fs) = Inner + 1
        /\ fs[Inner + 1].mie = mie /\ fs[Inner + 1].at = "read"
        /\ \A j \in 1 .. Inner : fs[j] = Running.frames[j]
    BY <1>0 DEF Frame
  <2>2. q.frames = fs /\ q.wanted = Running.wanted
    BY <1>0 DEF Program
  <2>3. programs' = WithFrames(fs) /\ mie' = mie
    BY <1>5 DEF EnterFree
  <2>4. Inner > 0 => mie = FALSE /\ Running.frames[Inner].at = "body"
    BY <1>0, <1>5 DEF EnterFree, Current
  <2>5. Inner = 0 => mie = Running.wanted
    BY <1>0 DEF Current
  <2> HIDE DEF fs, q
  <2>6. Nested(q)
    <3>1. fs[1].mie = Running.wanted
      <4>1. CASE Inner = 0
        BY <2>1, <2>5, <4>1
      <4>2. CASE Inner > 0
        BY <1>0, <2>1, <4>2 DEF Nested
      <4> QED BY <1>0, <4>1, <4>2
    <3>2. \A j \in DOMAIN fs : j > 1 => fs[j].mie = FALSE
      <4> SUFFICES ASSUME NEW j \in DOMAIN fs, j > 1 PROVE fs[j].mie = FALSE
        OBVIOUS
      <4>1. CASE j \in 1 .. Inner
        BY <1>0, <2>1, <4>1 DEF Nested
      <4>2. CASE j = Inner + 1
        BY <1>0, <2>1, <2>4, <4>2
      <4>3. j \in 1 .. Inner \/ j = Inner + 1
        BY <1>0, <2>1
      <4> QED BY <4>1, <4>2, <4>3
    <3>3. \A j \in DOMAIN fs : j < Len(fs) => fs[j].at = "body"
      BY <1>0, <2>1, <2>4 DEF Nested
    <3> QED BY <2>2, <3>1, <3>2, <3>3 DEF Nested
  <2>7. Current(q, mie')
    <3>1. Len(fs) > 0 /\ Len(fs) # 0
      BY <1>0, <2>1
    <3> QED BY <2>1, <2>2, <2>3, <3>1 DEF Current
  <2>8. q = [Running EXCEPT !.frames = fs] /\ mie' \in BOOLEAN
    BY <1>0, <2>3 DEF q
  <2> QED BY <1>2, <2>1, <2>3, <2>6, <2>7, <2>8
<1>6. CASE EnterBody
  <2> DEFINE fs == [Running.frames EXCEPT ![Inner].at = "body"]
             q == [Running EXCEPT !.frames = fs]
  <2>1. /\ fs \in Seq(Frame)
        /\ Len(fs) = Inner
        /\ fs[Inner].mie = Running.frames[Inner].mie /\ fs[Inner].at = "body"
        /\ \A j \in 1 .. Inner - 1 : fs[j] = Running.frames[j]
    <3> DEFINE f == [Running.frames[Inner] EXCEPT !.at = "body"]
    <3>1. Inner \in 1 .. Inner /\ Running.frames[Inner] \in Frame
      BY <1>0, <1>6 DEF EnterBody
    <3>2. f \in Frame /\ f.mie = Running.frames[Inner].mie /\ f.at = "body"
      BY <3>1 DEF Frame
    <3>3. fs = [Running.frames EXCEPT ![Inner] = f]
      BY <1>0, <3>1
    <3> HIDE DEF f, fs
    <3> QED BY <1>0, <3>1, <3>2, <3>3
  <2>2. q.frames = fs /\ q.wanted = Running.wanted
    BY <1>0 DEF Program
  <2>3. programs' = WithFrames(fs) /\ mie' = FALSE
    BY <1>0, <1>6 DEF EnterBody, WithFrames, Running, Inner
  <2>4. q = [Running EXCEPT !.frames = fs]
    OBVIOUS
  <2>5. Inner > 0
    BY <1>6 DEF EnterBody
  <2> HIDE DEF fs, q
  <2>6. \A j \in 1 .. Inner : fs[j].mie = Running.frames[j].mie
    <3> SUFFICES ASSUME NEW j \in 1 .. Inner PROVE fs[j].mie = Running.frames[j].mie
      OBVIOUS
    <3>1. j = Inner \/ j \in 1 .. Inner - 1
      BY <1>0
    <3> QED BY <2>1, <3>1
  <2>7. Nested(q)
    <3>1. fs[1].mie = Running.wanted
      BY <1>0, <2>5, <2>6 DEF Nested
    <3>2. \A j \in DOMAIN fs : j > 1 => fs[j].mie = FALSE
      BY <1>0, <2>1, <2>6 DEF Nested
    <3>3. \A j \in DOMAIN fs : j < Len(fs) => fs[j].at = "body"
      BY <1>0, <2>1 DEF Nested
    <3> QED BY <2>2, <3>1, <3>2, <3>3 DEF Nested
  <2>8. Current(q, mie')
    <3>1. Len(fs) # 0 /\ fs[Len(fs)].at # "read"
      BY <2>1, <2>5, <1>0
    <3> QED BY <2>2, <2>3, <3>1 DEF Current
  <2> QED BY <1>2, <2>1, <2>3, <2>4, <2>7, <2>8
<1>7. CASE LeaveFree
  <2> DEFINE fs == SubSeq(Running.frames, 1, Inner - 1)
             q == [Running EXCEPT !.frames = fs]
  <2>0. Inner > 0 /\ Running.frames[Inner].at = "body"
    BY <1>7 DEF LeaveFree
  <2>1. /\ fs \in Seq(Frame)
        /\ Len(fs) = Inner - 1
        /\ \A j \in 1 .. Inner - 1 : fs[j] = Running.frames[j]
    BY <1>0, <2>0
  <2>2. q.frames = fs /\ q.wanted = Running.wanted
    BY <1>0 DEF Program
  <2>3. programs' = WithFrames(fs) /\ mie' = (mie \/ Running.frames[Inner].mie)
    BY <1>7 DEF LeaveFree
  <2>4. q = [Running EXCEPT !.frames = fs]
    OBVIOUS
  <2> HIDE DEF fs, q
  <2>5. mie = FALSE
    BY <1>0, <2>0 DEF Current
  <2>6. Running.frames[Inner].mie \in BOOLEAN
    BY <1>0, <2>0
  <2>7. mie' = Running.frames[Inner].mie
    BY <2>3, <2>5, <2>6, Zenon
  <2>8. Nested(q)
    <3>1. Len(fs) > 0 => fs[1].mie = Running.wanted
      BY <1>0, <2>1 DEF Nested
    <3>2. \A j \in DOMAIN fs : j > 1 => fs[j].mie = FALSE
      BY <1>0, <2>1 DEF Nested
    <3>3. \A j \in DOMAIN fs : j < Len(fs) => fs[j].at = "body"
      BY <1>0, <2>1 DEF Nested
    <3> QED BY <2>2, <3>1, <3>2, <3>3 DEF Nested
  <2>9. Current(q, mie')
    <3>1. CASE Inner = 1
      <4>1. Len(fs) = 0 /\ ~(Len(fs) > 0)
        BY <2>1, <3>1
      <4>2. mie' = Running.wanted
        BY <1>0, <2>7, <3>1 DEF Nested
      <4> QED BY <2>2, <4>1, <4>2 DEF Current
    <3>2. CASE Inner > 1
      <4>1. Len(fs) > 0 /\ Len(fs) # 0
        BY <1>0, <2>1, <3>2
      <4>2. mie' = FALSE
        BY <1>0, <2>7, <3>2 DEF Nested
      <4>3. fs[Len(fs)].at = "body"
        BY <1>0, <2>1, <3>2 DEF Nested
      <4> QED BY <2>2, <4>1, <4>2, <4>3 DEF Current
    <3>3. Inner = 1 \/ Inner > 1
      BY <1>00, <2>0
    <3> QED BY <3>1, <3>2, <3>3
  <2> QED BY <1>2, <2>1, <2>3, <2>4, <2>6, <2>7, <2>8, <2>9
<1>8. CASE Interrupt
  <2> DEFINE q == [frames |-> <<>>, mpie |-> mie, wanted |-> FALSE]
  <2>1. /\ q \in Program
        /\ q.frames = <<>> /\ q.mpie = mie /\ q.wanted = FALSE
    BY <1>0 DEF Program
  <2>2. programs' = Append(programs, q) /\ mie' = FALSE /\ mie = TRUE
    BY <1>0, <1>8 DEF Interrupt
  <2> HIDE DEF q
  <2>3. Nested(q) /\ Current(q, FALSE)
    BY <2>1 DEF Nested, Current
  <2>4. /\ programs' \in Seq(Program)
        /\ Top' = Top + 1
        /\ \A i \in 1 .. Top : programs'[i] = programs[i]
        /\ programs'[Top + 1] = q
        /\ Running' = q
    BY <1>0, <2>1, <2>2 DEF Top, Running
  <2>5. Stopped(Running)
    <3>1. Inner <= 1
      <4> SUFFICES ASSUME Inner > 1 PROVE FALSE
        BY <1>0
      <4>1. Running.frames[Inner].mie = FALSE
        BY <1>0 DEF Nested
      <4>2. Running.frames[Inner].at \in {"read", "body"}
        BY <1>0
      <4>3. mie = FALSE
        BY <1>0, <4>1, <4>2 DEF Current
      <4> QED BY <2>2, <4>3
    <3>2. CASE Inner = 0
      <4>1. Running.wanted = TRUE
        BY <1>0, <2>2, <3>2 DEF Current
      <4>2. Len(Running.frames) <= 1 /\ \A j \in DOMAIN Running.frames : FALSE
        BY <1>01, <3>2
      <4> QED BY <4>1, <4>2 DEF Stopped
    <3>3. CASE Inner = 1
      <4>0. Running.frames[1].at \in {"read", "body"}
        BY <1>0, <3>3
      <4>1. Running.frames[1].at # "body"
        BY <1>0, <2>2, <3>3 DEF Current
      <4>2. Running.frames[1].at = "read"
        BY <4>0, <4>1
      <4>3. Running.frames[1].mie = TRUE
        <5>1. mie = Running.frames[1].mie
          BY <1>0, <3>3, <4>2 DEF Current
        <5> QED BY <2>2, <5>1
      <4>4. Running.wanted = TRUE
        BY <1>0, <3>3, <4>3 DEF Nested
      <4>5. Len(Running.frames) <= 1 /\ \A j \in DOMAIN Running.frames : j = 1
        BY <1>01, <3>3
      <4> QED BY <4>2, <4>4, <4>5 DEF Stopped
    <3>4. Inner = 0 \/ Inner = 1
      BY <1>00, <3>1
    <3> QED BY <3>2, <3>3, <3>4
  <2>6. ASSUME NEW i \in 1 .. Top' PROVE Nested(programs'[i])
    <3>1. i \in 1 .. Top \/ i = Top + 1
      BY <1>0, <2>4
    <3> QED BY <2>3, <2>4, <3>1 DEF CriticalIInv
  <2>7. ASSUME NEW i \in 1 .. Top' - 1
        PROVE  Stopped(programs'[i]) /\ programs'[i + 1].mpie = TRUE
    <3>1. CASE i = Top
      <4>1. programs'[i] = Running /\ programs'[i + 1] = q
        BY <1>0, <2>4, <3>1 DEF Running
      <4>2. q.mpie = TRUE
        BY <2>1, <2>2
      <4> QED BY <2>5, <4>1, <4>2
    <3>2. CASE i \in 1 .. Top - 1
      <4>1. i + 1 \in 1 .. Top /\ i \in 1 .. Top
        BY <1>0, <3>2
      <4> QED BY <2>4, <3>2, <4>1 DEF CriticalIInv
    <3>3. i = Top \/ i \in 1 .. Top - 1
      BY <1>0, <2>4
    <3> QED BY <3>1, <3>2, <3>3
  <2>8. Top' >= 1
    BY <1>0, <2>4
  <2>9. mie' \in BOOLEAN /\ Current(Running', mie')
    BY <2>2, <2>3, <2>4
  <2> QED BY <2>4, <2>6, <2>7, <2>8, <2>9 DEF CriticalIInv
<1>9. CASE Return
  <2> DEFINE p == programs[Top - 1]
  <2>1. /\ programs' = SubSeq(programs, 1, Top - 1)
        /\ mie' = Running.mpie
        /\ Top - 1 \in 1 .. Top - 1
    BY <1>0, <1>9 DEF Return
  <2>2. /\ programs' \in Seq(Program)
        /\ Top' = Top - 1
        /\ \A i \in 1 .. Top - 1 : programs'[i] = programs[i]
        /\ Running' = p
        /\ p \in Program
    BY <1>0, <2>1 DEF Top, Running
  <2>3. Stopped(p) /\ Running.mpie = TRUE /\ Nested(p)
    <3>1. programs[(Top - 1) + 1] = Running
      BY <1>0 DEF Running
    <3> QED BY <1>0, <2>1, <3>1 DEF CriticalIInv
  <2>4. mie' = TRUE
    BY <2>1, <2>3
  <2> HIDE DEF p
  <2>5. Current(p, TRUE)
    <3>0. p.frames \in Seq(Frame)
      BY <2>2 DEF Program
    <3>1. Len(p.frames) \in Nat /\ Len(p.frames) <= 1
      BY <2>3, <3>0 DEF Stopped
    <3>2. CASE Len(p.frames) = 0
      BY <2>3, <3>2 DEF Current, Stopped
    <3>3. CASE Len(p.frames) = 1
      <4>1. p.frames[1].at = "read" /\ p.frames[1].mie = TRUE
        BY <2>3, <3>0, <3>3 DEF Stopped, Nested
      <4> QED BY <3>3, <4>1 DEF Current
    <3>4. \A n \in Nat : n <= 1 => n = 0 \/ n = 1
      OBVIOUS
    <3>5. Len(p.frames) = 0 \/ Len(p.frames) = 1
      BY <3>1, <3>4, Zenon
    <3> QED BY <3>2, <3>3, <3>5
  <2>6. ASSUME NEW i \in 1 .. Top' PROVE Nested(programs'[i])
    BY <1>0, <2>2 DEF CriticalIInv
  <2>7. ASSUME NEW i \in 1 .. Top' - 1
        PROVE  Stopped(programs'[i]) /\ programs'[i + 1].mpie = TRUE
    <3>1. i \in 1 .. Top - 1 /\ i + 1 \in 1 .. Top - 1
      BY <1>0, <2>2
    <3> QED BY <2>2, <3>1 DEF CriticalIInv
  <2>8. Top' >= 1
    BY <1>0, <2>1, <2>2
  <2>9. mie' \in BOOLEAN /\ Current(Running', mie')
    BY <2>2, <2>4, <2>5
  <2> QED BY <2>2, <2>6, <2>7, <2>8, <2>9 DEF CriticalIInv
<1>10. CASE UNCHANGED criticalVars
  BY <1>10 DEF criticalVars, CriticalIInv, Top, Running
<1> QED BY <1>3, <1>4, <1>5, <1>6, <1>7, <1>8, <1>9, <1>10 DEF CriticalNext

LEMMA IInvImplies == CriticalIInv => Uninterrupted /\ MieRestored
<1> SUFFICES ASSUME CriticalIInv PROVE Uninterrupted /\ MieRestored
  OBVIOUS
<1>1. Uninterrupted
  BY DEF CriticalIInv, Uninterrupted, Stopped
<1>2. MieRestored
  BY DEF CriticalIInv, MieRestored, Current, Inner
<1> QED BY <1>1, <1>2

(* interrupt::free: for any depth of nesting and any number of handlers,   *)
(* no handler runs while the closure of a call of free does, and mie is,   *)
(* outside free, what the running program last asked for.                  *)
THEOREM FreeIsCritical == CriticalSpec => []CriticalSections
<1>1. CriticalIInv => CriticalSections
  BY IInvImplies DEF CriticalSections
<1> QED BY <1>1, InitCriticalIInv, NextCriticalIInv, PTL DEF CriticalSpec

=============================================================================
