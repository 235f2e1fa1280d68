--------------------------- MODULE WaveformProofs ---------------------------
(***************************************************************************)
(* What the recursive definitions of Waveform compute, for every sequence  *)
(* of intervals: Sums the time from the start of one interval to the end   *)
(* of another, EndedWithin a number of intervals, no smaller than that of  *)
(* those that have ended before the time is up.  And what the three        *)
(* senders put on the air, for every frame and number of repeats: waves in *)
(* which no interval is shorter than a stretch may make up for, laid out   *)
(* repeat by repeat, and what may stand in the seventy intervals of a      *)
(* frame wherever they begin.                                              *)
(***************************************************************************)
EXTENDS Waveform, NatSets

\* The middle of a range, and the two shorter ranges it makes.
LEMMA Halves ==
    ASSUME NEW i \in Nat, NEW j \in Nat, i < j
    PROVE  \E m \in Nat : m = Half(i, j) /\ i <= m /\ m < j
  BY DEF Half

\* The ranges of a sequence, and how long they are.
Ranges(e) == (DOMAIN e) \X (DOMAIN e)
RangeSize(e) == [r \in Ranges(e) |-> IF r[1] > r[2] THEN 0 ELSE r[2] - r[1]]

\* The body of Sums.
SumStep(e, f, r) ==
    LET m == Half(r[1], r[2])
    IN  IF r[1] > r[2] THEN 0
        ELSE IF r[1] = r[2] THEN e[r[1]]
        ELSE f[<<r[1], m>>] + f[<<m + 1, r[2]>>]

\* m is in the middle of r, and makes two shorter ranges of it.
SplitsAt(e, r, m) ==
    /\ m \in Nat /\ m = Half(r[1], r[2]) /\ r[1] <= m /\ m < r[2]
    /\ <<r[1], m>> \in Ranges(e) /\ <<m + 1, r[2]>> \in Ranges(e)
    /\ RangeSize(e)[<<r[1], m>>] < RangeSize(e)[r]
    /\ RangeSize(e)[<<m + 1, r[2]>>] < RangeSize(e)[r]

\* A range is empty, or one interval, or it splits.
LEMMA RangeKinds ==
    ASSUME NEW e \in Seq(Nat), NEW r \in Ranges(e)
    PROVE  /\ r[1] \in 1 .. Len(e) /\ r[2] \in 1 .. Len(e) /\ r = <<r[1], r[2]>>
           /\ \/ r[1] > r[2] /\ ~(r[1] = r[2])
              \/ r[1] = r[2] /\ ~(r[1] > r[2])
              \/ ~(r[1] > r[2]) /\ ~(r[1] = r[2]) /\ SplitsAt(e, r, Half(r[1], r[2]))
  <1>1. r[1] \in 1 .. Len(e) /\ r[2] \in 1 .. Len(e) /\ r = <<r[1], r[2]>>
    BY DEF Ranges
  <1>2. CASE r[1] < r[2]
    <2>1. PICK m \in Nat : m = Half(r[1], r[2]) /\ r[1] <= m /\ m < r[2]
      <3>1. r[1] \in Nat /\ r[2] \in Nat
        BY <1>1
      <3> QED BY <1>2, <3>1, Halves
    <2>2. m \in DOMAIN e /\ m + 1 \in DOMAIN e /\ r[1] \in DOMAIN e /\ r[2] \in DOMAIN e
      BY <1>1, <2>1
    <2>3. <<r[1], m>> \in Ranges(e) /\ <<m + 1, r[2]>> \in Ranges(e)
      BY <2>2 DEF Ranges
    <2>4. ~(r[1] > r[2]) /\ ~(r[1] = r[2]) /\ ~(r[1] > m) /\ ~(m + 1 > r[2])
      BY <1>1, <1>2, <2>1
    <2>5. /\ RangeSize(e)[<<r[1], m>>] = m - r[1]
          /\ RangeSize(e)[<<m + 1, r[2]>>] = r[2] - (m + 1)
          /\ RangeSize(e)[r] = r[2] - r[1]
      BY <2>3, <2>4 DEF RangeSize
    <2>6. m - r[1] < r[2] - r[1] /\ r[2] - (m + 1) < r[2] - r[1]
      BY <1>1, <2>1
    <2>7. SplitsAt(e, r, m)
      BY <2>1, <2>3, <2>5, <2>6 DEF SplitsAt
    <2> QED BY <1>1, <2>1, <2>4, <2>7
  <1>3. \/ r[1] > r[2] /\ ~(r[1] = r[2])
        \/ r[1] = r[2] /\ ~(r[1] > r[2])
        \/ r[1] < r[2]
    BY <1>1
  <1> QED BY <1>1, <1>2, <1>3

\* A step makes a time of times.
LEMMA SumStepType ==
    ASSUME NEW e \in Seq(Nat), NEW r \in Ranges(e), NEW f,
           \A q \in Ranges(e) : RangeSize(e)[q] < RangeSize(e)[r] => f[q] \in Nat
    PROVE  SumStep(e, f, r) \in Nat
  <1>1. CASE r[1] > r[2]
    BY <1>1 DEF SumStep
  <1>2. CASE r[1] = r[2] /\ ~(r[1] > r[2])
    <2>1. e[r[1]] \in Nat
      BY RangeKinds
    <2> QED BY <1>2, <2>1 DEF SumStep
  <1>3. CASE ~(r[1] > r[2]) /\ ~(r[1] = r[2]) /\ SplitsAt(e, r, Half(r[1], r[2]))
    <2>1. PICK m \in Nat : m = Half(r[1], r[2]) /\ SplitsAt(e, r, m)
      BY <1>3 DEF SplitsAt
    <2>2. f[<<r[1], m>>] \in Nat /\ f[<<m + 1, r[2]>>] \in Nat
      BY <2>1 DEF SplitsAt
    <2>3. SumStep(e, f, r) = f[<<r[1], m>>] + f[<<m + 1, r[2]>>]
      BY <1>3, <2>1 DEF SumStep
    <2> QED BY <2>2, <2>3
  <1> QED BY <1>1, <1>2, <1>3, RangeKinds

LEMMA RangeSizeType ==
    ASSUME NEW e \in Seq(Nat)
    PROVE  RangeSize(e) \in [Ranges(e) -> Nat]
  <1>1. ASSUME NEW r \in Ranges(e)
        PROVE  (IF r[1] > r[2] THEN 0 ELSE r[2] - r[1]) \in Nat
    BY DEF Ranges
  <1> QED BY <1>1 DEF RangeSize

\* The recursion of Sums ends: Sums is what its definition says it is.
LEMMA SumsDefined ==
    ASSUME NEW e \in Seq(Nat)
    PROVE  Sums(e) = [r \in Ranges(e) |-> SumStep(e, Sums(e), r)]
  <1> DEFINE D == Ranges(e)
             step == [x \in D \X [D -> Nat] |-> SumStep(e, x[2], x[1])]
  <1>1. ASSUME NEW f \in [D -> Nat], NEW r \in D
        PROVE  SumStep(e, f, r) \in Nat
    <2> HIDE DEF D
    <2>1. \A q \in D : f[q] \in Nat
      OBVIOUS
    <2> QED BY <2>1, SumStepType DEF D
  <1>2. step \in [D \X [D -> Nat] -> Nat]
    <2>1. ASSUME NEW x \in D \X [D -> Nat]
          PROVE  SumStep(e, x[2], x[1]) \in Nat
      <3> HIDE DEF D
      <3> QED BY <1>1
    <2> HIDE DEF D
    <2> QED BY <2>1, Zenon
  <1>3. \A f \in [D -> Nat] : \A r \in D : step[<<r, f>>] = SumStep(e, f, r)
    <2> HIDE DEF D
    <2> QED OBVIOUS
  <1> HIDE DEF step
  <1>4. LooksBelow(D, Nat, RangeSize(e), step)
    <2>1. ASSUME NEW r \in D, NEW f \in [D -> Nat], NEW g \in [D -> Nat],
                 \A q \in D : RangeSize(e)[q] < RangeSize(e)[r] => f[q] = g[q]
          PROVE  step[<<r, f>>] = step[<<r, g>>]
      <3>1. SumStep(e, f, r) = SumStep(e, g, r)
        <4>1. CASE r[1] > r[2]
          BY <4>1 DEF SumStep
        <4>2. CASE r[1] = r[2] /\ ~(r[1] > r[2])
          BY <4>2 DEF SumStep
        <4>3. CASE ~(r[1] > r[2]) /\ ~(r[1] = r[2]) /\ SplitsAt(e, r, Half(r[1], r[2]))
          <5>1. PICK m \in Nat : m = Half(r[1], r[2]) /\ SplitsAt(e, r, m)
            BY <4>3 DEF SplitsAt
          <5>2. f[<<r[1], m>>] = g[<<r[1], m>>] /\ f[<<m + 1, r[2]>>] = g[<<m + 1, r[2]>>]
            BY <2>1, <5>1 DEF SplitsAt
          <5> QED BY <4>3, <5>1, <5>2 DEF SumStep
        <4> QED BY <4>1, <4>2, <4>3, RangeKinds
      <3> HIDE DEF D
      <3> QED BY <1>3, <3>1
    <2> HIDE DEF D
    <2> QED BY <2>1 DEF LooksBelow
  <1>5. \E f : f = [r \in Ranges(e) |-> SumStep(e, f, r)]
    <2>1. Recursive(D, Nat, step)
      <3> HIDE DEF D
      <3>1. 0 \in Nat
        OBVIOUS
      <3> QED BY <1>2, <1>4, <3>1, Recursion, RangeSizeType DEF D
    <2> HIDE DEF D
    <2>2. PICK f \in [D -> Nat] : \A r \in D : f[r] = step[<<r, f>>]
      BY <2>1 DEF Recursive
    <2>3. \A r \in D : f[r] = SumStep(e, f, r)
      BY <1>3, <2>2
    <2>4. f = [r \in D |-> SumStep(e, f, r)]
      BY <2>3
    <2> QED BY <2>4 DEF D
  <1> QED BY <1>5, Zenon DEF Sums, SumStep, Ranges

\* A range lasts some time.
LEMMA SumsType ==
    ASSUME NEW e \in Seq(Nat), NEW r \in Ranges(e)
    PROVE  Sums(e)[r] \in Nat
  <1>0. \A q \in Ranges(e) : Sums(e)[q] = SumStep(e, Sums(e), q)
    BY SumsDefined, Zenon
  <1> DEFINE S == {n \in Nat : \A q \in Ranges(e) : RangeSize(e)[q] < n => Sums(e)[q] \in Nat}
  <1>1. 0 \in S
    <2>1. \A q \in Ranges(e) : ~(RangeSize(e)[q] < 0)
      BY RangeSizeType
    <2> QED BY <2>1
  <1>2. ASSUME NEW n \in S
        PROVE  n + 1 \in S
    <2>1. n \in Nat /\ \A q \in Ranges(e) : RangeSize(e)[q] < n => Sums(e)[q] \in Nat
      OBVIOUS
    <2>2. ASSUME NEW q \in Ranges(e), RangeSize(e)[q] < n + 1
          PROVE  Sums(e)[q] \in Nat
      <3>1. \A x \in Ranges(e) : RangeSize(e)[x] < RangeSize(e)[q] => Sums(e)[x] \in Nat
        <4>1. \A x \in Ranges(e) : RangeSize(e)[x] \in Nat
          BY RangeSizeType
        <4> HIDE DEF S
        <4> QED BY <2>1, <2>2, <4>1
      <3>2. SumStep(e, Sums(e), q) \in Nat
        BY <3>1, SumStepType
      <3> QED BY <1>0, <3>2
    <2> QED BY <2>1, <2>2
  <1>3. S = Nat
    <2>1. S \subseteq Nat
      OBVIOUS
    <2> HIDE DEF S
    <2> QED BY <1>1, <1>2, <2>1, AllNat
  <1>4. RangeSize(e)[r] + 1 \in Nat /\ RangeSize(e)[r] < RangeSize(e)[r] + 1
    <2>1. RangeSize(e)[r] \in Nat
      BY RangeSizeType
    <2> QED BY <2>1
  <1> QED BY <1>3, <1>4

-----------------------------------------------------------------------------
(* The recursion of Ended: its arguments are a range and a time. *)

Searches(e) == (DOMAIN e) \X (DOMAIN e) \X Nat
RangeOf(r) == <<r[1], r[2]>>
SearchSize(e) == [r \in Searches(e) |-> RangeSize(e)[RangeOf(r)]]

\* The body of Ended.
EndedStep(e, f, r) ==
    LET m == Half(r[1], r[2])
        first == Sums(e)[<<r[1], m>>]
    IN  IF r[1] > r[2] THEN 0
        ELSE IF r[1] = r[2] THEN IF e[r[1]] < r[3] THEN 1 ELSE 0
        ELSE IF first < r[3]
             THEN m - r[1] + 1 + f[<<m + 1, r[2], r[3] - first>>]
             ELSE f[<<r[1], m, r[3]>>]

\* A search goes on in the first part of its range, or in the second.
GoesOnAt(e, r, m, first) ==
    /\ m \in Nat /\ m = Half(r[1], r[2]) /\ r[1] <= m /\ m < r[2]
    /\ first = Sums(e)[<<r[1], m>>] /\ first \in Nat
    /\ <<r[1], m, r[3]>> \in Searches(e)
    /\ SearchSize(e)[<<r[1], m, r[3]>>] < SearchSize(e)[r]
    /\ first < r[3] => /\ <<m + 1, r[2], r[3] - first>> \in Searches(e)
                       /\ SearchSize(e)[<<m + 1, r[2], r[3] - first>>] < SearchSize(e)[r]

LEMMA SearchSizeType ==
    ASSUME NEW e \in Seq(Nat)
    PROVE  SearchSize(e) \in [Searches(e) -> Nat]
  <1>1. ASSUME NEW r \in Searches(e)
        PROVE  RangeSize(e)[RangeOf(r)] \in Nat
    <2>1. RangeOf(r) \in Ranges(e)
      BY DEF Searches, RangeOf, Ranges
    <2> QED BY <2>1, RangeSizeType
  <1> QED BY <1>1 DEF SearchSize

\* A search is in an empty range, in one interval, or it goes on.
LEMMA SearchKinds ==
    ASSUME NEW e \in Seq(Nat), NEW r \in Searches(e)
    PROVE  /\ r[1] \in 1 .. Len(e) /\ r[2] \in 1 .. Len(e) /\ r[3] \in Nat
           /\ \/ r[1] > r[2] /\ ~(r[1] = r[2])
              \/ r[1] = r[2] /\ ~(r[1] > r[2])
              \/ /\ ~(r[1] > r[2]) /\ ~(r[1] = r[2])
                 /\ \E m, first : GoesOnAt(e, r, m, first)
  <1>1. /\ r[1] \in 1 .. Len(e) /\ r[2] \in 1 .. Len(e) /\ r[3] \in Nat
        /\ r = <<r[1], r[2], r[3]>>
    BY DEF Searches
  <1> DEFINE q == RangeOf(r)
  <1>2. q \in Ranges(e) /\ q[1] = r[1] /\ q[2] = r[2]
    BY <1>1 DEF Ranges, RangeOf
  <1> HIDE DEF q
  <1>3. CASE ~(r[1] > r[2]) /\ ~(r[1] = r[2]) /\ SplitsAt(e, q, Half(q[1], q[2]))
    <2>1. PICK m \in Nat : m = Half(r[1], r[2]) /\ SplitsAt(e, q, m)
      BY <1>2, <1>3 DEF SplitsAt
    <2>2. /\ r[1] <= m /\ m < r[2]
          /\ <<r[1], m>> \in Ranges(e) /\ <<m + 1, r[2]>> \in Ranges(e)
          /\ RangeSize(e)[<<r[1], m>>] < RangeSize(e)[q]
          /\ RangeSize(e)[<<m + 1, r[2]>>] < RangeSize(e)[q]
      BY <1>2, <2>1 DEF SplitsAt
    <2>3. PICK first \in Nat : first = Sums(e)[<<r[1], m>>]
      BY <2>2, SumsType
    <2>4. SearchSize(e)[r] = RangeSize(e)[q]
      BY DEF SearchSize, q
    <2>5. /\ <<r[1], m, r[3]>> \in Searches(e)
          /\ SearchSize(e)[<<r[1], m, r[3]>>] = RangeSize(e)[<<r[1], m>>]
      <3>1. m \in DOMAIN e /\ r[1] \in DOMAIN e
        BY <2>2 DEF Ranges
      <3>2. <<r[1], m, r[3]>> \in Searches(e)
        BY <1>1, <3>1 DEF Searches
      <3> QED BY <3>2 DEF SearchSize, RangeOf
    <2>6. ASSUME first < r[3]
          PROVE  /\ <<m + 1, r[2], r[3] - first>> \in Searches(e)
                 /\ SearchSize(e)[<<m + 1, r[2], r[3] - first>>] = RangeSize(e)[<<m + 1, r[2]>>]
      <3>1. m + 1 \in DOMAIN e /\ r[2] \in DOMAIN e
        BY <2>2 DEF Ranges
      <3>2. r[3] - first \in Nat
        BY <1>1, <2>6
      <3>3. <<m + 1, r[2], r[3] - first>> \in Searches(e)
        BY <3>1, <3>2 DEF Searches
      <3> QED BY <3>3 DEF SearchSize, RangeOf
    <2>7. GoesOnAt(e, r, m, first)
      BY <2>1, <2>2, <2>3, <2>4, <2>5, <2>6 DEF GoesOnAt
    <2> QED BY <1>1, <1>3, <2>7
  <1> QED BY <1>1, <1>2, <1>3, RangeKinds

LEMMA EndedStepType ==
    ASSUME NEW e \in Seq(Nat), NEW r \in Searches(e), NEW f,
           \A q \in Searches(e) : SearchSize(e)[q] < SearchSize(e)[r] => f[q] \in Nat
    PROVE  EndedStep(e, f, r) \in Nat
  <1>1. CASE r[1] > r[2]
    BY <1>1 DEF EndedStep
  <1>2. CASE r[1] = r[2] /\ ~(r[1] > r[2])
    BY <1>2 DEF EndedStep
  <1>3. CASE ~(r[1] > r[2]) /\ ~(r[1] = r[2]) /\ \E m, first : GoesOnAt(e, r, m, first)
    <2>1. PICK m, first : GoesOnAt(e, r, m, first)
      BY <1>3
    <2>2. /\ m = Half(r[1], r[2]) /\ first = Sums(e)[<<r[1], m>>]
          /\ m \in Nat /\ r[1] <= m /\ r[1] \in Nat /\ r[3] \in Nat /\ first \in Nat
      <3>1. r[1] \in Nat /\ r[3] \in Nat
        BY SearchKinds
      <3>2. /\ m = Half(r[1], r[2]) /\ first = Sums(e)[<<r[1], m>>]
            /\ m \in Nat /\ r[1] <= m /\ first \in Nat
        BY <2>1 DEF GoesOnAt
      <3> QED BY <3>1, <3>2
    <2>3. CASE first < r[3]
      <3>1. f[<<m + 1, r[2], r[3] - first>>] \in Nat
        BY <2>1, <2>3 DEF GoesOnAt
      <3>2. EndedStep(e, f, r) = m - r[1] + 1 + f[<<m + 1, r[2], r[3] - first>>]
        BY <1>3, <2>2, <2>3 DEF EndedStep
      <3> QED BY <2>2, <3>1, <3>2
    <2>4. CASE ~(first < r[3])
      <3>1. f[<<r[1], m, r[3]>>] \in Nat
        BY <2>1 DEF GoesOnAt
      <3>2. EndedStep(e, f, r) = f[<<r[1], m, r[3]>>]
        BY <1>3, <2>2, <2>4 DEF EndedStep
      <3> QED BY <3>1, <3>2
    <2> QED BY <2>3, <2>4
  <1> QED BY <1>1, <1>2, <1>3, SearchKinds

\* The step looks only at shorter ranges.
LEMMA EndedStepBelow ==
    ASSUME NEW e \in Seq(Nat), NEW r \in Searches(e), NEW f, NEW g,
           \A q \in Searches(e) : SearchSize(e)[q] < SearchSize(e)[r] => f[q] = g[q]
    PROVE  EndedStep(e, f, r) = EndedStep(e, g, r)
  <1>1. CASE r[1] > r[2]
    BY <1>1 DEF EndedStep
  <1>2. CASE r[1] = r[2] /\ ~(r[1] > r[2])
    BY <1>2 DEF EndedStep
  <1>3. CASE ~(r[1] > r[2]) /\ ~(r[1] = r[2]) /\ \E m, first : GoesOnAt(e, r, m, first)
    <2>1. PICK m, first : GoesOnAt(e, r, m, first)
      BY <1>3
    <2>2. m = Half(r[1], r[2]) /\ first = Sums(e)[<<r[1], m>>]
      BY <2>1 DEF GoesOnAt
    <2>3. CASE first < r[3]
      <3>1. f[<<m + 1, r[2], r[3] - first>>] = g[<<m + 1, r[2], r[3] - first>>]
        BY <2>1, <2>3 DEF GoesOnAt
      <3>2. \A h : EndedStep(e, h, r) = m - r[1] + 1 + h[<<m + 1, r[2], r[3] - first>>]
        BY <1>3, <2>2, <2>3 DEF EndedStep
      <3> QED BY <3>1, <3>2
    <2>4. CASE ~(first < r[3])
      <3>1. f[<<r[1], m, r[3]>>] = g[<<r[1], m, r[3]>>]
        BY <2>1 DEF GoesOnAt
      <3>2. \A h : EndedStep(e, h, r) = h[<<r[1], m, r[3]>>]
        BY <1>3, <2>2, <2>4 DEF EndedStep
      <3> QED BY <3>1, <3>2
    <2> QED BY <2>3, <2>4
  <1> QED BY <1>1, <1>2, <1>3, SearchKinds

\* Ended is what its definition says it is.
LEMMA EndedDefined ==
    ASSUME NEW e \in Seq(Nat)
    PROVE  Ended(e) = [r \in Searches(e) |-> EndedStep(e, Ended(e), r)]
  <1> DEFINE D == Searches(e)
             step == [x \in D \X [D -> Nat] |-> EndedStep(e, x[2], x[1])]
  <1>1. ASSUME NEW f \in [D -> Nat], NEW r \in D
        PROVE  EndedStep(e, f, r) \in Nat
    <2> HIDE DEF D
    <2>1. \A q \in D : f[q] \in Nat
      OBVIOUS
    <2> QED BY <2>1, EndedStepType DEF D
  <1>2. step \in [D \X [D -> Nat] -> Nat]
    <2>1. ASSUME NEW x \in D \X [D -> Nat]
          PROVE  EndedStep(e, x[2], x[1]) \in Nat
      <3> HIDE DEF D
      <3> QED BY <1>1
    <2> HIDE DEF D
    <2> QED BY <2>1, Zenon
  <1>3. \A f \in [D -> Nat] : \A r \in D : step[<<r, f>>] = EndedStep(e, f, r)
    <2> HIDE DEF D
    <2> QED OBVIOUS
  <1> HIDE DEF step
  <1>4. LooksBelow(D, Nat, SearchSize(e), step)
    <2>1. ASSUME NEW r \in D, NEW f \in [D -> Nat], NEW g \in [D -> Nat],
                 \A q \in D : SearchSize(e)[q] < SearchSize(e)[r] => f[q] = g[q]
          PROVE  step[<<r, f>>] = step[<<r, g>>]
      <3>1. EndedStep(e, f, r) = EndedStep(e, g, r)
        BY <2>1, EndedStepBelow
      <3> HIDE DEF D
      <3> QED BY <1>3, <3>1
    <2> HIDE DEF D
    <2> QED BY <2>1 DEF LooksBelow
  <1>5. \E f : f = [r \in Searches(e) |-> EndedStep(e, f, r)]
    <2>1. Recursive(D, Nat, step)
      <3> HIDE DEF D
      <3>1. 0 \in Nat
        OBVIOUS
      <3> QED BY <1>2, <1>4, <3>1, Recursion, SearchSizeType DEF D
    <2> HIDE DEF D
    <2>2. PICK f \in [D -> Nat] : \A r \in D : f[r] = step[<<r, f>>]
      BY <2>1 DEF Recursive
    <2>3. \A r \in D : f[r] = EndedStep(e, f, r)
      BY <1>3, <2>2
    <2>4. f = [r \in D |-> EndedStep(e, f, r)]
      BY <2>3
    <2> QED BY <2>4 DEF D
  <1> QED BY <1>5, Zenon DEF Ended, EndedStep, Searches

\* No more intervals of a range end than there are.
LEMMA EndedStepRange ==
    ASSUME NEW e \in Seq(Nat), NEW r \in Searches(e), NEW f,
           \A q \in Searches(e) : SearchSize(e)[q] < SearchSize(e)[r] =>
              f[q] \in Nat /\ (q[1] <= q[2] => f[q] <= q[2] - q[1] + 1)
    PROVE  EndedStep(e, f, r) \in Nat /\ (r[1] <= r[2] => EndedStep(e, f, r) <= r[2] - r[1] + 1)
  <1>1. EndedStep(e, f, r) \in Nat
    BY EndedStepType
  <1>2. r[1] \in Nat /\ r[2] \in Nat /\ r[3] \in Nat
    BY SearchKinds
  <1>3. CASE r[1] > r[2]
    BY <1>1, <1>2, <1>3
  <1>4. CASE r[1] = r[2] /\ ~(r[1] > r[2])
    <2>1. EndedStep(e, f, r) \in {0, 1}
      BY <1>4 DEF EndedStep
    <2> QED BY <1>2, <1>4, <2>1
  <1>5. CASE ~(r[1] > r[2]) /\ ~(r[1] = r[2]) /\ \E m, first : GoesOnAt(e, r, m, first)
    <2>1. PICK m, first : GoesOnAt(e, r, m, first)
      BY <1>5
    <2>2. /\ m = Half(r[1], r[2]) /\ first = Sums(e)[<<r[1], m>>]
          /\ m \in Nat /\ r[1] <= m /\ m < r[2]
      BY <2>1, SearchKinds DEF GoesOnAt
    <2>3. CASE first < r[3]
      <3> DEFINE q == <<m + 1, r[2], r[3] - first>>
      <3>1. q \in Searches(e) /\ SearchSize(e)[q] < SearchSize(e)[r] /\ q[1] = m + 1 /\ q[2] = r[2]
        BY <2>1, <2>3 DEF GoesOnAt
      <3>2. EndedStep(e, f, r) = m - r[1] + 1 + f[q]
        BY <1>5, <2>2, <2>3 DEF EndedStep
      <3> HIDE DEF q
      <3>3. m + 1 <= r[2]
        BY <1>2, <2>2
      <3>4. f[q] \in Nat /\ f[q] <= r[2] - (m + 1) + 1
        BY <3>1, <3>3
      <3>5. PICK x \in Nat : x = f[q] /\ x <= r[2] - (m + 1) + 1
        BY <3>4
      <3>6. m - r[1] + 1 + x <= r[2] - r[1] + 1
        <4>1. \A i, j, k \in Nat : x <= j - (k + 1) + 1 => k - i + 1 + x <= j - i + 1
          OBVIOUS
        <4> QED BY <1>2, <2>2, <3>5, <4>1
      <3> QED BY <1>1, <3>2, <3>5, <3>6
    <2>4. CASE ~(first < r[3])
      <3> DEFINE q == <<r[1], m, r[3]>>
      <3>1. q \in Searches(e) /\ SearchSize(e)[q] < SearchSize(e)[r] /\ q[1] = r[1] /\ q[2] = m
        BY <2>1, <2>4 DEF GoesOnAt
      <3>2. EndedStep(e, f, r) = f[q]
        BY <1>5, <2>2, <2>4 DEF EndedStep
      <3> HIDE DEF q
      <3>3. f[q] \in Nat /\ f[q] <= m - r[1] + 1
        BY <2>2, <3>1
      <3> QED BY <1>1, <1>2, <2>2, <3>2, <3>3
    <2> QED BY <2>3, <2>4
  <1> QED BY <1>3, <1>4, <1>5, SearchKinds

LEMMA EndedRange ==
    ASSUME NEW e \in Seq(Nat), NEW r \in Searches(e)
    PROVE  Ended(e)[r] \in Nat /\ (r[1] <= r[2] => Ended(e)[r] <= r[2] - r[1] + 1)
  <1>1. \A q \in Searches(e) : Ended(e)[q] = EndedStep(e, Ended(e), q)
    BY EndedDefined, Zenon
  <1> DEFINE InRange(q) == Ended(e)[q] \in Nat /\ (q[1] <= q[2] => Ended(e)[q] <= q[2] - q[1] + 1)
             S == {n \in Nat : \A q \in Searches(e) : SearchSize(e)[q] < n => InRange(q)}
  <1>2. \A q \in Searches(e) : SearchSize(e)[q] \in Nat
    BY SearchSizeType
  <1>3. ASSUME NEW q \in Searches(e),
               \A x \in Searches(e) : SearchSize(e)[x] < SearchSize(e)[q] => InRange(x)
        PROVE  InRange(q)
    <2>1. /\ EndedStep(e, Ended(e), q) \in Nat
          /\ q[1] <= q[2] => EndedStep(e, Ended(e), q) <= q[2] - q[1] + 1
      BY <1>3, EndedStepRange
    <2> QED BY <1>1, <2>1
  <1> HIDE DEF InRange
  <1>4. 0 \in S
    <2>1. \A q \in Searches(e) : ~(SearchSize(e)[q] < 0)
      BY <1>2
    <2> QED BY <2>1
  <1>5. ASSUME NEW n \in S
        PROVE  n + 1 \in S
    <2>1. n \in Nat /\ \A q \in Searches(e) : SearchSize(e)[q] < n => InRange(q)
      OBVIOUS
    <2> HIDE DEF S
    <2>2. ASSUME NEW q \in Searches(e), SearchSize(e)[q] < n + 1
          PROVE  InRange(q)
      <3>1. \A x \in Searches(e) : SearchSize(e)[x] < SearchSize(e)[q] => InRange(x)
        BY <1>2, <2>1, <2>2
      <3> QED BY <1>3, <3>1
    <2> QED BY <2>1, <2>2 DEF S
  <1>6. S = Nat
    <2>1. S \subseteq Nat
      OBVIOUS
    <2> HIDE DEF S
    <2> QED BY <1>4, <1>5, <2>1, AllNat
  <1>7. SearchSize(e)[r] + 1 \in Nat /\ SearchSize(e)[r] < SearchSize(e)[r] + 1
    BY <1>2
  <1>8. InRange(r)
    BY <1>6, <1>7
  <1> QED BY <1>8 DEF InRange

\* No more intervals end within a time than there are.
LEMMA EndedWithinRange ==
    ASSUME NEW e \in Seq(Nat), NEW time \in Nat
    PROVE  EndedWithin(e, time) \in 0 .. Len(e)
  <1>1. CASE e = <<>>
    BY <1>1 DEF EndedWithin
  <1>2. CASE e # <<>>
    <2>1. Len(e) \in Nat /\ 1 <= Len(e)
      BY <1>2
    <2> DEFINE r == <<1, Len(e), time>>
    <2>2. r \in Searches(e) /\ r[1] = 1 /\ r[2] = Len(e)
      BY <2>1 DEF Searches
    <2>3. EndedWithin(e, time) = Ended(e)[r]
      BY <1>2 DEF EndedWithin
    <2> HIDE DEF r
    <2>4. Ended(e)[r] \in Nat /\ Ended(e)[r] <= Len(e) - 1 + 1
      BY <2>1, <2>2, EndedRange
    <2> QED BY <2>1, <2>3, <2>4
  <1> QED BY <1>1, <1>2
-----------------------------------------------------------------------------
(* Elapsed time. *)

\* P tells the time at which each interval of e has ended.
Elapsed(e, P) ==
    /\ P \in [Nat -> Nat] /\ P[0] = 0
    /\ \A k \in Nat : k < Len(e) => P[k + 1] = P[k] + e[k + 1]
    /\ \A k \in Nat : P[k] <= P[k + 1]

\* Every sequence of intervals has such times.
LEMMA TimesElapse ==
    ASSUME NEW e \in Seq(Nat)
    PROVE  \E P : Elapsed(e, P)
  <1> DEFINE step == [x \in Nat \X Nat |->
                         x[2] + (IF x[1] < Len(e) THEN e[x[1] + 1] ELSE 0)]
  <1>1. ASSUME NEW x \in Nat \X Nat
        PROVE  x[2] + (IF x[1] < Len(e) THEN e[x[1] + 1] ELSE 0) \in Nat
    <2>1. CASE x[1] < Len(e)
      <3>1. x[1] + 1 \in 1 .. Len(e)
        BY <2>1
      <3>2. e[x[1] + 1] \in Nat
        BY <3>1
      <3> QED BY <2>1, <3>2
    <2>2. CASE ~(x[1] < Len(e))
      BY <2>2
    <2> QED BY <2>1, <2>2
  <1>2. step \in [Nat \X Nat -> Nat]
    BY <1>1
  <1>3. PICK P \in [Nat -> Nat] : P[0] = 0 /\ \A n \in Nat : P[n + 1] = step[<<n, P[n]>>]
    <2> HIDE DEF step
    <2>1. Iterable(Nat, 0, step)
      BY <1>2, NatRecursion
    <2> QED BY <2>1 DEF Iterable
  <1>4. ASSUME NEW n \in Nat
        PROVE  P[n + 1] = P[n] + (IF n < Len(e) THEN e[n + 1] ELSE 0)
    <2>1. <<n, P[n]>> \in Nat \X Nat
      BY <1>3
    <2>2. step[<<n, P[n]>>] = P[n] + (IF n < Len(e) THEN e[n + 1] ELSE 0)
      BY <2>1
    <2> QED BY <1>3, <2>2
  <1>5. ASSUME NEW n \in Nat
        PROVE  P[n] <= P[n + 1]
    <2>1. PICK v \in Nat : v = IF n < Len(e) THEN e[n + 1] ELSE 0
      <3>1. CASE n < Len(e)
        <4>1. n + 1 \in 1 .. Len(e)
          BY <3>1
        <4> QED BY <3>1, <4>1
      <3>2. CASE ~(n < Len(e))
        BY <3>2
      <3> QED BY <3>1, <3>2
    <2>2. PICK p \in Nat : p = P[n]
      BY <1>3
    <2>3. P[n + 1] = p + v
      BY <1>4, <2>1, <2>2, Zenon
    <2> QED BY <2>2, <2>3
  <1> HIDE DEF step
  <1> QED BY <1>3, <1>4, <1>5 DEF Elapsed

\* Time goes on.
LEMMA ElapsedGrows ==
    ASSUME NEW e, NEW P, Elapsed(e, P), NEW i \in Nat, NEW j \in Nat, i <= j
    PROVE  P[i] \in Nat /\ P[j] \in Nat /\ P[i] <= P[j]
  <1> DEFINE S == {n \in Nat : P[i] <= P[i + n]}
  <1>0. P \in [Nat -> Nat] /\ \A k \in Nat : P[k] <= P[k + 1]
    BY DEF Elapsed
  <1>1. 0 \in S
    <2>1. i + 0 = i /\ P[i] \in Nat
      BY <1>0
    <2> QED BY <2>1
  <1>2. ASSUME NEW n \in S
        PROVE  n + 1 \in S
    <2>1. n \in Nat /\ P[i] <= P[i + n]
      OBVIOUS
    <2>2. i + n \in Nat /\ i + (n + 1) = (i + n) + 1
      BY <2>1
    <2>3. P[i + n] <= P[i + (n + 1)]
      BY <1>0, <2>2, Zenon
    <2>4. P[i] \in Nat /\ P[i + n] \in Nat /\ P[i + (n + 1)] \in Nat
      BY <1>0, <2>1
    <2>5. P[i] <= P[i + (n + 1)]
      BY <2>1, <2>3, <2>4
    <2> QED BY <2>1, <2>5
  <1>3. S = Nat
    <2>1. S \subseteq Nat
      OBVIOUS
    <2> HIDE DEF S
    <2> QED BY <1>1, <1>2, <2>1, AllNat
  <1>4. j - i \in S /\ i + (j - i) = j
    <2>1. j - i \in Nat /\ i + (j - i) = j
      OBVIOUS
    <2> HIDE DEF S
    <2> QED BY <1>3, <2>1
  <1>5. P[i] <= P[j]
    BY <1>4
  <1> QED BY <1>0, <1>5

\* Sums tells the time of a range.
Summed(e, P, q) == q[1] <= q[2] => Sums(e)[q] = P[q[2]] - P[q[1] - 1]

\* The time of a range is that of its two parts.
LEMMA TimesAdd ==
    \A x, y, z \in Int : (y - x) + (z - y) = z - x
  OBVIOUS

LEMMA SummedStep ==
    ASSUME NEW e \in Seq(Nat), NEW P, Elapsed(e, P), NEW q \in Ranges(e),
           \A x \in Ranges(e) : RangeSize(e)[x] < RangeSize(e)[q] => Summed(e, P, x)
    PROVE  Summed(e, P, q)
  <1>1. Sums(e)[q] = SumStep(e, Sums(e), q)
    BY SumsDefined, Zenon
  <1>2. P \in [Nat -> Nat] /\ \A k \in Nat : k < Len(e) => P[k + 1] = P[k] + e[k + 1]
    BY DEF Elapsed
  <1>3. PICK i \in 1 .. Len(e), j \in 1 .. Len(e) : q = <<i, j>> /\ q[1] = i /\ q[2] = j
    <2>1. q[1] \in 1 .. Len(e) /\ q[2] \in 1 .. Len(e) /\ q = <<q[1], q[2]>>
      BY DEF Ranges
    <2> QED BY <2>1, Zenon
  <1>4. CASE i = j
    <2>1. ~(q[1] > q[2]) /\ q[1] = q[2] /\ e[q[1]] = e[i]
      BY <1>3, <1>4
    <2>2. Sums(e)[q] = e[i]
      BY <1>1, <2>1, Zenon DEF SumStep
    <2>3. i - 1 \in Nat /\ i - 1 < Len(e) /\ (i - 1) + 1 = i
      OBVIOUS
    <2>4. P[i] = P[i - 1] + e[i] /\ P[i - 1] \in Nat
      BY <1>2, <2>3, Zenon
    <2>5. e[i] \in Nat
      OBVIOUS
    <2>6. Sums(e)[q] = P[i] - P[i - 1]
      BY <2>2, <2>4, <2>5
    <2> QED BY <1>3, <1>4, <2>6, Zenon DEF Summed
  <1>5. CASE i < j
    <2>1. ~(q[1] > q[2]) /\ ~(q[1] = q[2])
      BY <1>3, <1>5
    <2>2. SplitsAt(e, q, Half(q[1], q[2]))
      BY <2>1, RangeKinds, Zenon
    <2>3. PICK m \in Nat : /\ m = Half(q[1], q[2]) /\ q[1] <= m /\ m < q[2]
                           /\ <<q[1], m>> \in Ranges(e) /\ <<m + 1, q[2]>> \in Ranges(e)
                           /\ RangeSize(e)[<<q[1], m>>] < RangeSize(e)[q]
                           /\ RangeSize(e)[<<m + 1, q[2]>>] < RangeSize(e)[q]
      BY <2>2, Zenon DEF SplitsAt
    <2>4. Sums(e)[q] = Sums(e)[<<q[1], m>>] + Sums(e)[<<m + 1, q[2]>>]
      BY <1>1, <2>1, <2>3, Zenon DEF SumStep
    <2>5. Summed(e, P, <<i, m>>) /\ Summed(e, P, <<m + 1, j>>)
      BY <1>3, <2>3, Zenon
    <2>6. i <= m /\ m + 1 <= j /\ (m + 1) - 1 = m
      BY <1>3, <2>3
    <2>7. Sums(e)[<<i, m>>] = P[m] - P[i - 1]
      BY <2>5, <2>6 DEF Summed
    <2>8. Sums(e)[<<m + 1, j>>] = P[j] - P[m]
      BY <2>5, <2>6 DEF Summed
    <2>9. P[m] \in Int /\ P[i - 1] \in Int /\ P[j] \in Int
      <3>1. i - 1 \in Nat /\ j \in Nat
        OBVIOUS
      <3>2. P[m] \in Nat /\ P[i - 1] \in Nat /\ P[j] \in Nat
        BY <1>2, <2>3, <3>1, Zenon
      <3> QED BY <3>2
    <2>10. Sums(e)[q] = P[j] - P[i - 1]
      <3>1. Sums(e)[q] = (P[m] - P[i - 1]) + (P[j] - P[m])
        BY <1>3, <2>4, <2>7, <2>8, Zenon
      <3> QED BY <2>9, <3>1, TimesAdd, Zenon
    <2> QED BY <1>3, <2>10, Zenon DEF Summed
  <1>6. CASE i > j
    <2>1. ~(q[1] <= q[2])
      BY <1>3, <1>6
    <2> QED BY <2>1, Zenon DEF Summed
  <1>7. i = j \/ i < j \/ i > j
    OBVIOUS
  <1> QED BY <1>4, <1>5, <1>6, <1>7

LEMMA SumsElapsed ==
    ASSUME NEW e \in Seq(Nat), NEW P, Elapsed(e, P), NEW r \in Ranges(e)
    PROVE  Summed(e, P, r)
  <1> DEFINE S == {n \in Nat : \A q \in Ranges(e) : RangeSize(e)[q] < n => Summed(e, P, q)}
  <1>1. \A q \in Ranges(e) : RangeSize(e)[q] \in Nat
    BY RangeSizeType
  <1>2. 0 \in S
    <2>1. \A q \in Ranges(e) : ~(RangeSize(e)[q] < 0)
      BY <1>1
    <2> QED BY <2>1
  <1>3. ASSUME NEW n \in S
        PROVE  n + 1 \in S
    <2>1. n \in Nat /\ \A q \in Ranges(e) : RangeSize(e)[q] < n => Summed(e, P, q)
      OBVIOUS
    <2> HIDE DEF S
    <2>2. ASSUME NEW q \in Ranges(e), RangeSize(e)[q] < n + 1
          PROVE  Summed(e, P, q)
      <3>1. \A x \in Ranges(e) : RangeSize(e)[x] < RangeSize(e)[q] => Summed(e, P, x)
        BY <1>1, <2>1, <2>2
      <3> QED BY <3>1, SummedStep
    <2> QED BY <2>1, <2>2 DEF S
  <1>4. S = Nat
    <2>1. S \subseteq Nat
      OBVIOUS
    <2> HIDE DEF S
    <2> QED BY <1>2, <1>3, <2>1, AllNat
  <1>5. RangeSize(e)[r] + 1 \in Nat /\ RangeSize(e)[r] < RangeSize(e)[r] + 1
    BY <1>1
  <1> QED BY <1>4, <1>5

\* Ended counts the intervals from the first of its range on that end in time.
Counted(e, P, q) ==
    \A k \in Nat : q[1] <= k /\ k <= q[2] /\ P[k] - P[q[1] - 1] < q[3]
                      => Ended(e)[q] >= k - q[1] + 1

\* Those of the first part of a range, and those of the second.
LEMMA CountsAdd ==
    \A m, i, k, c \in Int : (k <= m /\ c >= 0) \/ c >= k - (m + 1) + 1
                               => m - i + 1 + c >= k - i + 1
  OBVIOUS

\* What is left of a time after the first part of a range.
LEMMA TimeLeft ==
    \A x, y, z, t \in Int : z - x < t => z - y < t - (y - x)
  OBVIOUS

LEMMA CountedStep ==
    ASSUME NEW e \in Seq(Nat), NEW P, Elapsed(e, P), NEW q \in Searches(e),
           \A x \in Searches(e) : SearchSize(e)[x] < SearchSize(e)[q] => Counted(e, P, x)
    PROVE  Counted(e, P, q)
  <1>1. \A x \in Searches(e) : Ended(e)[x] = EndedStep(e, Ended(e), x)
    BY EndedDefined, Zenon
  <1>2. P \in [Nat -> Nat] /\ \A k \in Nat : k < Len(e) => P[k + 1] = P[k] + e[k + 1]
    BY DEF Elapsed
  <1>4. SUFFICES ASSUME NEW k \in Nat, q[1] <= k, k <= q[2], P[k] - P[q[1] - 1] < q[3]
                 PROVE  Ended(e)[q] >= k - q[1] + 1
    BY DEF Counted
  <1>5. PICK i \in 1 .. Len(e), j \in 1 .. Len(e), t \in Nat :
           q = <<i, j, t>> /\ q[1] = i /\ q[2] = j /\ q[3] = t
    <2>1. /\ q[1] \in 1 .. Len(e) /\ q[2] \in 1 .. Len(e) /\ q[3] \in Nat
          /\ q = <<q[1], q[2], q[3]>>
      BY DEF Searches
    <2> QED BY <2>1, Zenon
  <1>3. i <= k /\ k <= j /\ P[k] - P[i - 1] < t
    BY <1>4, <1>5, Zenon
  <1>6. CASE i = j
    <2>1. i - 1 \in Nat /\ i - 1 < Len(e) /\ (i - 1) + 1 = i /\ k = i
      BY <1>4, <1>5, <1>6
    <2>2. P[i] = P[i - 1] + e[i] /\ P[i - 1] \in Nat /\ e[i] \in Nat
      <3>1. e[i] \in Nat
        OBVIOUS
      <3>2. P[(i - 1) + 1] = P[i - 1] + e[(i - 1) + 1]
        BY <1>2, <2>1, Zenon
      <3> QED BY <1>2, <2>1, <3>1, <3>2, Zenon
    <2>3. e[i] < t
      BY <1>4, <1>5, <2>1, <2>2
    <2>4. EndedStep(e, Ended(e), q) = 1
      BY <1>5, <1>6, <2>3 DEF EndedStep
    <2>5. Ended(e)[q] = 1
      BY <1>1, <2>4
    <2> QED BY <1>5, <2>1, <2>5
  <1>7. CASE i < j
    <2>1. ~(q[1] > q[2]) /\ ~(q[1] = q[2])
      BY <1>5, <1>7
    <2>2. PICK m, first : GoesOnAt(e, q, m, first)
      BY <2>1, SearchKinds
    <2>3. /\ m \in Nat /\ m = Half(q[1], q[2]) /\ i <= m /\ m < j
          /\ first = Sums(e)[<<q[1], m>>] /\ first \in Nat
      BY <1>5, <2>2 DEF GoesOnAt
    <2>4. first = P[m] - P[i - 1]
      <3>1. <<i, m>> \in Ranges(e)
        BY <2>3 DEF Ranges
      <3>2. Summed(e, P, <<i, m>>)
        BY <3>1, SumsElapsed
      <3>3. Sums(e)[<<i, m>>] = P[m] - P[i - 1]
        BY <2>3, <3>2 DEF Summed
      <3> QED BY <1>5, <2>3, <3>3, Zenon
    <2>5. P[m] \in Nat /\ P[i - 1] \in Nat /\ P[k] \in Nat
      <3>1. i - 1 \in Nat
        OBVIOUS
      <3> QED BY <1>2, <2>3, <3>1
    <2>6. CASE first < t
      <3>1. PICK x : x = <<m + 1, j, t - first>> /\ x \in Searches(e)
                     /\ SearchSize(e)[x] < SearchSize(e)[q]
        BY <1>5, <2>2, <2>6 DEF GoesOnAt
      <3>2. Ended(e)[q] = m - i + 1 + Ended(e)[x]
        <4>1. EndedStep(e, Ended(e), q) = m - i + 1 + Ended(e)[x]
          BY <1>5, <2>1, <2>3, <2>6, <3>1 DEF EndedStep
        <4> QED BY <1>1, <4>1
      <3>3. Ended(e)[x] \in Nat
        BY <3>1, EndedRange
      <3>4. CASE k <= m
        <4>1. PICK c \in Nat : c = Ended(e)[x]
          BY <3>3
        <4>2. m \in Int /\ i \in Int /\ k \in Int /\ c \in Int /\ c >= 0
          BY <2>3
        <4>3. m - i + 1 + c >= k - i + 1
          BY <3>4, <4>2, CountsAdd, Zenon
        <4> QED BY <1>5, <3>2, <4>1, <4>3, Zenon
      <3>5. CASE m < k
        <4>1. x[1] = m + 1 /\ x[2] = j /\ x[3] = t - first
          BY <3>1
        <4>2. P[k] - P[m] < t - first
          <5>1. P[m] \in Int /\ P[i - 1] \in Int /\ P[k] \in Int /\ t \in Int
            BY <2>5
          <5> QED BY <1>3, <2>4, <5>1, TimeLeft, Zenon
        <4>3. (m + 1) - 1 = m /\ m + 1 <= k /\ k <= j
          <5>1. m \in Nat /\ (m + 1) - 1 = m /\ m + 1 <= k
            BY <2>3, <3>5
          <5> QED BY <1>3, <5>1, Zenon
        <4>4. Counted(e, P, x)
          BY <3>1, Zenon
        <4>5. Ended(e)[x] >= k - (m + 1) + 1
          <5>1. P[k] - P[x[1] - 1] < x[3] /\ x[1] <= k /\ k <= x[2]
            BY <4>1, <4>2, <4>3, Zenon
          <5> QED BY <4>1, <4>4, <5>1, Zenon DEF Counted
        <4>6. PICK c \in Nat : c = Ended(e)[x] /\ c >= k - (m + 1) + 1
          BY <3>3, <4>5, Zenon
        <4>7. m - i + 1 + c >= k - i + 1
          <5>1. m \in Int /\ i \in Int /\ k \in Int /\ c \in Int
            BY <2>3
          <5> QED BY <4>6, <5>1, CountsAdd, Zenon
        <4> QED BY <1>5, <3>2, <4>6, <4>7, Zenon
      <3> QED BY <2>3, <3>4, <3>5
    <2>7. CASE ~(first < t)
      <3>1. PICK x : x = <<i, m, t>> /\ x \in Searches(e)
                     /\ SearchSize(e)[x] < SearchSize(e)[q]
        BY <1>5, <2>2 DEF GoesOnAt
      <3>2. Ended(e)[q] = Ended(e)[x]
        <4>1. EndedStep(e, Ended(e), q) = Ended(e)[x]
          BY <1>5, <2>1, <2>3, <2>7, <3>1 DEF EndedStep
        <4> QED BY <1>1, <4>1
      <3>3. P[k] < P[m]
        BY <1>3, <2>4, <2>5, <2>7
      <3>4. k <= m
        <4>1. m <= k => P[m] <= P[k]
          BY <2>3, ElapsedGrows
        <4> QED BY <2>3, <2>5, <3>3, <4>1
      <3>5. x[1] = i /\ x[2] = m /\ x[3] = t
        BY <3>1
      <3>6. Counted(e, P, x)
        BY <3>1, Zenon
      <3>7. Ended(e)[x] >= k - i + 1
        <4>1. P[k] - P[x[1] - 1] < x[3] /\ x[1] <= k /\ k <= x[2]
          BY <1>3, <3>4, <3>5, Zenon
        <4> QED BY <3>5, <3>6, <4>1, Zenon DEF Counted
      <3> QED BY <1>5, <3>2, <3>7, Zenon
    <2> QED BY <2>6, <2>7
  <1> QED BY <1>4, <1>5, <1>6, <1>7

LEMMA EndedCounts ==
    ASSUME NEW e \in Seq(Nat), NEW P, Elapsed(e, P), NEW r \in Searches(e)
    PROVE  Counted(e, P, r)
  <1> DEFINE S == {k \in Nat : \A q \in Searches(e) : SearchSize(e)[q] < k => Counted(e, P, q)}
  <1>1. \A q \in Searches(e) : SearchSize(e)[q] \in Nat
    BY SearchSizeType
  <1>2. 0 \in S
    <2>1. \A q \in Searches(e) : ~(SearchSize(e)[q] < 0)
      BY <1>1
    <2> QED BY <2>1
  <1>3. ASSUME NEW k \in S
        PROVE  k + 1 \in S
    <2>1. k \in Nat /\ \A q \in Searches(e) : SearchSize(e)[q] < k => Counted(e, P, q)
      OBVIOUS
    <2> HIDE DEF S
    <2>2. ASSUME NEW q \in Searches(e), SearchSize(e)[q] < k + 1
          PROVE  Counted(e, P, q)
      <3>1. \A x \in Searches(e) : SearchSize(e)[x] < SearchSize(e)[q] => Counted(e, P, x)
        BY <1>1, <2>1, <2>2
      <3> QED BY <3>1, CountedStep
    <2> QED BY <2>1, <2>2 DEF S
  <1>4. S = Nat
    <2>1. S \subseteq Nat
      OBVIOUS
    <2> HIDE DEF S
    <2> QED BY <1>2, <1>3, <2>1, AllNat
  <1>5. SearchSize(e)[r] + 1 \in Nat /\ SearchSize(e)[r] < SearchSize(e)[r] + 1
    BY <1>1
  <1> QED BY <1>4, <1>5

\* All intervals up to one that ends in time are recorded.
LEMMA EndedInTime ==
    ASSUME NEW e \in Seq(Nat), NEW P, Elapsed(e, P), NEW time \in Nat,
           NEW n \in 1 .. Len(e), P[n] < time
    PROVE  EndedWithin(e, time) >= n
  <1>1. Len(e) \in Nat /\ 1 <= Len(e) /\ e # <<>>
    OBVIOUS
  <1>2. PICK r : r = <<1, Len(e), time>>
    OBVIOUS
  <1>3. r \in Searches(e) /\ r[1] = 1 /\ r[2] = Len(e) /\ r[3] = time
    BY <1>1, <1>2 DEF Searches
  <1>4. P[n] - P[r[1] - 1] < r[3]
    <2>1. P[0] = 0 /\ P[n] \in Nat
      BY DEF Elapsed
    <2>2. r[1] - 1 = 0
      BY <1>3
    <2> QED BY <1>3, <2>1, <2>2
  <1>5. Ended(e)[r] >= n - r[1] + 1
    <2>1. n \in Nat /\ r[1] <= n /\ n <= r[2]
      BY <1>1, <1>3
    <2>2. Counted(e, P, r)
      BY <1>3, EndedCounts
    <2> QED BY <1>4, <2>1, <2>2, Zenon DEF Counted
  <1>6. EndedWithin(e, time) = Ended(e)[r]
    BY <1>1, <1>2, Zenon DEF EndedWithin
  <1>7. Ended(e)[r] \in Nat
    BY <1>3, EndedRange
  <1> QED BY <1>3, <1>5, <1>6, <1>7

-----------------------------------------------------------------------------
(* The waves. *)

\* A sequence whose members are of another set as well.
LEMMA MembersType ==
    ASSUME NEW S, NEW V, NEW t \in Seq(S), \A k \in 1 .. Len(t) : t[k] \in V
    PROVE  t \in Seq(V)
  <1>1. PICK n \in Nat : n = Len(t)
    OBVIOUS
  <1>2. t = [k \in 1 .. n |-> t[k]]
    BY <1>1
  <1>3. \A k \in 1 .. n : t[k] \in V
    BY <1>1
  <1>4. [k \in 1 .. n |-> t[k]] \in Seq(V)
    BY <1>3
  <1> QED BY <1>2, <1>4, Zenon

\* The data of a frame.
LEMMA DataType ==
    ASSUME NEW f, NEW V, NEW pulse \in V, NEW short \in V, NEW long \in V
    PROVE  Data(f, pulse, short, long) \in Seq(V) /\ Len(Data(f, pulse, short, long)) = DataEdges
  <1>1. DataEdges \in Nat
    BY DEF DataEdges, FrameBits
  <1>2. \A k \in 1 .. DataEdges :
           (IF k % 2 = 1 THEN pulse ELSE IF FrameBit(f, k \div 2) = 1 THEN long ELSE short) \in V
    OBVIOUS
  <1> QED BY <1>1, <1>2 DEF Data

\* A period, some times.
LEMMA RepeatedType ==
    ASSUME NEW V, NEW period \in Seq(V), Len(period) > 0, NEW repeats \in Nat, repeats > 0
    PROVE  Repeated(period, repeats) \in Seq(V) /\ Len(Repeated(period, repeats)) > 0
  <1>1. PICK n \in Nat : n = Len(period) /\ n > 0
    OBVIOUS
  <1>2. n * repeats \in Nat /\ n * repeats > 0
    BY <1>1
  <1>3. PICK m \in Nat : m = n * repeats /\ m > 0
    BY <1>2
  <1>4. ASSUME NEW k \in 1 .. m
        PROVE  period[((k - 1) % n) + 1] \in V
    <2>1. (k - 1) % n \in 0 .. (n - 1)
      BY <1>1
    <2>2. ((k - 1) % n) + 1 \in 1 .. Len(period)
      BY <1>1, <2>1
    <2> QED BY <2>2
  <1>5. Repeated(period, repeats) = [k \in 1 .. m |-> period[((k - 1) % n) + 1]]
    BY <1>1, <1>3 DEF Repeated
  <1> QED BY <1>3, <1>4, <1>5

\* A wave whose last interval is another one.
LEMMA LastChanged ==
    ASSUME NEW V, NEW wave \in Seq(V), Len(wave) > 0, NEW us \in V
    PROVE  /\ [wave EXCEPT ![Len(wave)] = us] \in Seq(V)
           /\ Len([wave EXCEPT ![Len(wave)] = us]) = Len(wave)
  OBVIOUS

\* Intervals that no demodulator makes disappear.
Lasting == {us \in Nat : us >= 300}

Waves == {wave \in Seq(Lasting) : Len(wave) > 0}

LEMMA LastingTimes ==
    /\ 250 \in Nat /\ 1169 \in Lasting /\ 4092 \in Lasting /\ 1107 \in Lasting
    /\ 2486 \in Lasting /\ 363 \in Lasting /\ 9030 \in Lasting /\ 4506 \in Lasting
    /\ 488 \in Lasting /\ 1464 \in Lasting /\ 500 \in Lasting /\ 1500 \in Lasting
    /\ 4596 \in Lasting /\ 4513 \in Lasting /\ Silence \in Lasting
    /\ InterFrameGap \in Nat /\ InterFrameGap + 250 \in Lasting
    /\ \A us \in Lasting : us + InterFrameGap \in Lasting
  BY SMT DEF Lasting, Silence, InterFrameGap

LEMMA EndingType ==
    ASSUME NEW wave \in Waves
    PROVE  EndingInSilence(wave) \in Waves
  BY LastingTimes, LastChanged DEF EndingInSilence, Waves

LEMMA MergedType ==
    ASSUME NEW wave \in Waves
    PROVE  Merged(wave, InterFrameGap) \in Waves
  <1>1. wave[Len(wave)] \in Lasting
    BY DEF Waves
  <1>2. wave[Len(wave)] + InterFrameGap \in Lasting
    BY <1>1, LastingTimes
  <1> QED BY <1>2, LastChanged DEF Merged, Waves

LEMMA RepeatedWave ==
    ASSUME NEW wave \in Waves, NEW repeats \in Nat, repeats > 0
    PROVE  Repeated(wave, repeats) \in Waves
  BY RepeatedType DEF Waves

LEMMA JoinedWaves ==
    ASSUME NEW wave \in Waves, NEW other \in Waves
    PROVE  wave \o other \in Waves
  BY DEF Waves

LEMMA TxParts ==
    ASSUME NEW f
    PROVE  TxHeader \in Waves /\ TxData(f) \in Waves
  <1>1. TxHeader \in Waves
    <2>1. PICK a \in Lasting, b \in Lasting : a = 4596 /\ b = 4513
      BY LastingTimes, SMT
    <2>2. TxHeader = <<a, b>>
      BY <2>1, SMT DEF TxHeader
    <2> QED BY <2>2 DEF Waves
  <1>2. TxData(f) \in Waves
    <2>1. PICK a \in Lasting, b \in Lasting : a = 488 /\ b = 1464
      BY LastingTimes, SMT
    <2>2. TxData(f) = Data(f, a, a, b)
      BY <2>1, SMT DEF TxData
    <2>3. Data(f, a, a, b) \in Seq(Lasting) /\ Len(Data(f, a, a, b)) = DataEdges
      BY DataType, Zenon
    <2>4. DataEdges > 0
      BY DEF DataEdges, FrameBits
    <2> QED BY <2>2, <2>3, <2>4 DEF Waves
  <1> QED BY <1>1, <1>2

\* A sequence that begins with another one, without its head.
LEMMA TailOfJoined ==
    ASSUME NEW V, NEW h \in Seq(Nat), Len(h) > 0, \A k \in 2 .. Len(h) : h[k] \in V,
           V \subseteq Nat, NEW d \in Seq(V)
    PROVE  Head(h \o d) = h[1] /\ Tail(h \o d) \in Seq(V)
  <1>0. d \in Seq(Nat)
    <2>0. \A k \in 1 .. Len(d) : d[k] \in V
      OBVIOUS
    <2>1. \A k \in 1 .. Len(d) : d[k] \in Nat
      BY <2>0
    <2> QED BY <2>1, MembersType, Zenon
  <1>1. PICK c \in Seq(Nat) : c = h \o d
    <2>1. h \o d \in Seq(Nat)
      BY <1>0
    <2> QED BY <2>1, Zenon
  <1>2. PICK n \in Nat, m \in Nat : n = Len(h) /\ m = Len(d) /\ n > 0
    OBVIOUS
  <1>3. Len(c) = n + m /\ \A k \in 1 .. (n + m) : c[k] = IF k <= n THEN h[k] ELSE d[k - n]
    BY <1>0, <1>1, <1>2
  <1>4. Head(c) = h[1]
    BY <1>2, <1>3
  <1>5. /\ Tail(c) \in Seq(Nat) /\ Len(Tail(c)) = n + m - 1
        /\ \A k \in 1 .. (n + m - 1) : Tail(c)[k] = c[k + 1]
    <2>1. c # <<>>
      BY <1>2, <1>3
    <2>2. Tail(c) \in Seq(Nat)
      BY <2>1
    <2>3. Len(Tail(c)) = Len(c) - 1 /\ \A k \in 1 .. (Len(c) - 1) : Tail(c)[k] = c[k + 1]
      BY <2>1
    <2> QED BY <1>2, <1>3, <2>2, <2>3
  <1>6. ASSUME NEW k \in 1 .. (n + m - 1)
        PROVE  c[k + 1] \in V
    <2>1. k + 1 \in 1 .. (n + m) /\ c[k + 1] = IF k + 1 <= n THEN h[k + 1] ELSE d[k + 1 - n]
      <3>1. k + 1 \in 1 .. (n + m)
        BY <1>2
      <3>2. \A y \in 1 .. (n + m) : c[y] = IF y <= n THEN h[y] ELSE d[y - n]
        BY <1>3
      <3>3. c[k + 1] = IF k + 1 <= n THEN h[k + 1] ELSE d[(k + 1) - n]
        BY <3>1, <3>2, Zenon
      <3> QED BY <3>1, <3>3
    <2>2. CASE k + 1 <= n
      BY <1>2, <2>1, <2>2
    <2>3. CASE k + 1 > n
      <3>1. k + 1 - n \in 1 .. Len(d)
        BY <1>2, <2>3
      <3>2. d[k + 1 - n] \in V
        BY <3>1
      <3>3. ~(k + 1 <= n)
        BY <2>3
      <3> QED BY <2>1, <3>2, <3>3
    <2> QED BY <2>2, <2>3
  <1>7. Tail(c) \in Seq(V)
    <2>1. n + m - 1 \in Nat
      BY <1>2
    <2>2. \A k \in 1 .. (n + m - 1) : Tail(c)[k] \in V
      BY <1>5, <1>6
    <2>3. PICK t \in Seq(Nat) : t = Tail(c)
      BY <1>5
    <2>4. \A k \in 1 .. Len(t) : t[k] \in V
      BY <1>5, <2>2, <2>3
    <2>5. t \in Seq(V)
      BY <2>4, MembersType, Zenon
    <2> QED BY <2>3, <2>5
  <1> QED BY <1>1, <1>4, <1>7

LEMMA CanonicalPeriod ==
    ASSUME NEW f
    PROVE  Tail(CanonicalEdges(f)) \o <<InterFrameGap + Head(CanonicalEdges(f))>> \in Waves
  <1>1. CanonicalHeader \in Seq(Nat) /\ Len(CanonicalHeader) = 8
    BY SMT DEF CanonicalHeader
  <1>2. CanonicalHeader[1] = 250 /\ \A k \in 2 .. 8 : CanonicalHeader[k] \in Lasting
    BY SMT DEF CanonicalHeader, Lasting
  <1>3. PICK h \in Seq(Nat) : h = CanonicalHeader
    BY <1>1
  <1>4. Len(h) = 8 /\ h[1] = 250 /\ \A k \in 2 .. 8 : h[k] \in Lasting
    BY <1>1, <1>2, <1>3
  <1>5. PICK a \in Lasting, b \in Lasting : a = 500 /\ b = 1500
    BY LastingTimes, SMT
  <1>6. CanonicalEdges(f) = h \o Data(f, a, a, b)
    BY <1>3, <1>5, SMT DEF CanonicalEdges
  <1>7. PICK d \in Seq(Lasting) : d = Data(f, a, a, b)
    BY DataType, Zenon
  <1>8. Head(h \o d) = h[1] /\ Tail(h \o d) \in Seq(Lasting)
    <2>1. Lasting \subseteq Nat
      BY DEF Lasting
    <2>2. Len(h) > 0 /\ \A k \in 2 .. Len(h) : h[k] \in Lasting
      BY <1>4
    <2> QED BY <2>1, <2>2, TailOfJoined, Zenon
  <1>9. CanonicalEdges(f) = h \o d
    BY <1>6, <1>7, Zenon
  <1>10. PICK t \in Seq(Lasting), last \in Lasting :
           t = Tail(h \o d) /\ last = InterFrameGap + Head(h \o d)
    <2>1. InterFrameGap + h[1] \in Lasting
      BY <1>4, LastingTimes, SMT
    <2> QED BY <1>8, <2>1
  <1>11. t \o <<last>> \in Waves
    BY DEF Waves
  <1> QED BY <1>9, <1>10, <1>11, Zenon

\* The waves of the three senders.
LEMMA WaveTypes ==
    ASSUME NEW f, NEW repeats \in Nat, repeats > 0
    PROVE  /\ CanonicalWave(f, repeats) \in Waves
           /\ Cc1101Wave(f, repeats) \in Waves
           /\ PowerOffWave(f, repeats) \in Waves
  <1>1. CanonicalWave(f, repeats) \in Waves
    BY CanonicalPeriod, RepeatedWave, EndingType, Zenon DEF CanonicalWave, StxWave
  <1>2. Cc1101Wave(f, repeats) \in Waves
    BY TxParts, MergedType, RepeatedWave, JoinedWaves, EndingType, Zenon DEF Cc1101Wave
  <1>3. PowerOffWave(f, repeats) \in Waves
    BY TxParts, MergedType, RepeatedWave, JoinedWaves, EndingType, Zenon DEF PowerOffWave
  <1> QED BY <1>1, <1>2, <1>3

-----------------------------------------------------------------------------
(* What stands in a wave, interval by interval. *)

\* A bit of the data is a pulse and a gap that is as long as the bit says.
LEMMA DataAt ==
    ASSUME NEW f, NEW pulse, NEW short, NEW long, NEW j \in 1 .. FrameBits
    PROVE  /\ 2 * j - 1 \in 1 .. DataEdges /\ 2 * j \in 1 .. DataEdges
           /\ Data(f, pulse, short, long)[2 * j - 1] = pulse
           /\ Data(f, pulse, short, long)[2 * j] = IF FrameBit(f, j) = 1 THEN long ELSE short
  <1>1. 2 * j - 1 \in 1 .. DataEdges /\ 2 * j \in 1 .. DataEdges
    BY DEF DataEdges, FrameBits
  <1>2. j \in Nat /\ (2 * j - 1) % 2 = 1 /\ (2 * j) % 2 = 0 /\ (2 * j) \div 2 = j
    BY DEF FrameBits
  <1>3. \A k \in 1 .. DataEdges : Data(f, pulse, short, long)[k] =
           IF k % 2 = 1 THEN pulse ELSE IF FrameBit(f, k \div 2) = 1 THEN long ELSE short
    BY DEF Data
  <1>4. Data(f, pulse, short, long)[2 * j - 1] = pulse
    BY <1>1, <1>2, <1>3
  <1>5. Data(f, pulse, short, long)[2 * j] =
           IF (2 * j) % 2 = 1 THEN pulse ELSE IF FrameBit(f, (2 * j) \div 2) = 1 THEN long ELSE short
    BY <1>1, <1>3, Zenon
  <1>6. Data(f, pulse, short, long)[2 * j] = IF FrameBit(f, j) = 1 THEN long ELSE short
    BY <1>2, <1>5, SMT
  <1> QED BY <1>1, <1>4, <1>6

PeriodLengths == {70, 72, 78}

\* The intervals of a repeated period, by their places in the period.
PlacedAs(r, period, n, repeats) ==
    \A a \in Nat, b \in 1 .. n : a < repeats =>
        n * a + b \in 1 .. n * repeats /\ r[n * a + b] = period[b]

\* Every interval of a repeated period is one of the period.
LEMMA RepeatedAt ==
    ASSUME NEW n \in PeriodLengths, NEW period, n = Len(period),
           NEW repeats \in Nat, repeats > 0
    PROVE  PlacedAs(Repeated(period, repeats), period, n, repeats)
  <1>1. PICK m \in Nat : m = n * repeats
    <2>1. n \in Nat
      BY DEF PeriodLengths
    <2> QED BY <2>1
  <1>2. Repeated(period, repeats) = [i \in 1 .. m |-> period[((i - 1) % n) + 1]]
    BY <1>1 DEF Repeated
  <1>3. ASSUME NEW a \in Nat, a < repeats, NEW b \in 1 .. n
        PROVE  n * a + b \in 1 .. n * repeats /\ Repeated(period, repeats)[n * a + b] = period[b]
    <2>1. n * a + b \in 1 .. n * repeats
      <3>1. CASE n = 70
        BY <1>3, <3>1
      <3>2. CASE n = 72
        BY <1>3, <3>2
      <3>3. CASE n = 78
        BY <1>3, <3>3
      <3> QED BY <3>1, <3>2, <3>3 DEF PeriodLengths
    <2>2. ((n * a + b - 1) % n) + 1 = b
      <3>1. CASE n = 70
        BY <3>1
      <3>2. CASE n = 72
        BY <3>2
      <3>3. CASE n = 78
        BY <3>3
      <3> QED BY <3>1, <3>2, <3>3 DEF PeriodLengths
    <2>3. PICK k \in 1 .. m : k = n * a + b
      BY <1>1, <2>1, Zenon
    <2>4. Repeated(period, repeats)[k] = period[((k - 1) % n) + 1]
      BY <1>2, <2>3, Zenon
    <2>5. ((k - 1) % n) + 1 = b
      <3>1. n * a + b - 1 = k - 1
        BY <2>3
      <3>2. ((n * a + b - 1) % n) = (k - 1) % n
        BY <3>1, Zenon
      <3> QED BY <2>2, <3>2, Zenon
    <2>6. Repeated(period, repeats)[k] = period[b]
      BY <2>4, <2>5, Zenon
    <2> QED BY <2>1, <2>3, <2>6, Zenon
  <1> QED BY <1>3, Zenon DEF PlacedAs

\* The place of an interval: how many periods are before it, and where it is in its.
LEMMA Places ==
    ASSUME NEW n \in PeriodLengths, NEW repeats \in Nat, NEW k \in 1 .. n * repeats
    PROVE  \E a \in Nat, b \in 1 .. n : a < repeats /\ k = n * a + b
  <1>1. CASE n = 70
    <2>1. (k - 1) \div 70 \in Nat /\ ((k - 1) % 70) + 1 \in 1 .. 70
          /\ (k - 1) \div 70 < repeats
          /\ k = 70 * ((k - 1) \div 70) + (((k - 1) % 70) + 1)
      BY <1>1
    <2> QED BY <1>1, <2>1
  <1>2. CASE n = 72
    <2>1. (k - 1) \div 72 \in Nat /\ ((k - 1) % 72) + 1 \in 1 .. 72
          /\ (k - 1) \div 72 < repeats
          /\ k = 72 * ((k - 1) \div 72) + (((k - 1) % 72) + 1)
      BY <1>2
    <2> QED BY <1>2, <2>1
  <1>3. CASE n = 78
    <2>1. (k - 1) \div 78 \in Nat /\ ((k - 1) % 78) + 1 \in 1 .. 78
          /\ (k - 1) \div 78 < repeats
          /\ k = 78 * ((k - 1) \div 78) + (((k - 1) % 78) + 1)
      BY <1>3
    <2> QED BY <1>3, <2>1
  <1> QED BY <1>1, <1>2, <1>3 DEF PeriodLengths

PausesAt(t) ==
    /\ t[1] = 1169 /\ t[2] = 4092 /\ t[3] = 1107 /\ t[4] = 2486
    /\ t[5] = 363 /\ t[6] = 9030 /\ t[7] = 4506

\* Where things are in the period of the canonical wave.
CanonicalPlaces(t, f) ==
    /\ Len(t) = 78
    /\ PausesAt(t) /\ t[78] = 2710
    /\ \A j \in 1 .. FrameBits :
          t[6 + 2 * j] = 500 /\ t[7 + 2 * j] = IF FrameBit(f, j) = 1 THEN 1500 ELSE 500

\* The members of a concatenation, and of a tail.
JoinedAs(c, s, n, t, m) ==
    /\ c = s \o t /\ Len(c) = n + m
    /\ \A k \in Nat : 1 <= k /\ k <= n => c[k] = s[k]
    /\ \A k \in Nat : 1 <= k /\ k <= m => c[n + k] = t[k]

\* Two sequences one after the other.
LEMMA JoinedAt ==
    ASSUME NEW s \in Seq(Nat), NEW t \in Seq(Nat),
           NEW n \in Nat, n = Len(s), NEW m \in Nat, m = Len(t)
    PROVE  \E c \in Seq(Nat) : JoinedAs(c, s, n, t, m)
  <1>1. s \o t \in Seq(Nat)
    OBVIOUS
  <1>2. JoinedAs(s \o t, s, n, t, m)
    BY DEF JoinedAs
  <1> QED BY <1>1, <1>2, Zenon

TailAs(u, s, n) ==
    /\ u = Tail(s) /\ Len(u) = n - 1 /\ Head(s) = s[1]
    /\ \A k \in Nat : 1 <= k /\ k < n => u[k] = s[k + 1]

\* A sequence without its first interval.
LEMMA TailAt ==
    ASSUME NEW s \in Seq(Nat), NEW n \in Nat, n = Len(s), n > 0
    PROVE  \E u \in Seq(Nat) : TailAs(u, s, n)
  <1>1. s # <<>>
    OBVIOUS
  <1>2. Tail(s) \in Seq(Nat)
    BY <1>1
  <1>3. TailAs(Tail(s), s, n)
    BY <1>1 DEF TailAs
  <1> QED BY <1>2, <1>3, Zenon

\* A burst without its first interval, which joins the gap after it.
StxPart(h, d, gap) == Tail(h \o d) \o <<gap + Head(h \o d)>>

SentData(f) == Data(f, 500, 500, 1500)
CanonicalPart(f) == StxPart(CanonicalHeader, SentData(f), InterFrameGap)

\* A period of send_frame_stx882_: the rest of the header, the data, and the pause
\* with the first interval of the next header.
LEMMA StxPartAt ==
    ASSUME NEW h \in Seq(Nat), Len(h) > 0, NEW d \in Seq(Nat), NEW gap \in Nat
    PROVE  /\ StxPart(h, d, gap) \in Seq(Nat)
           /\ Len(StxPart(h, d, gap)) = Len(h) + Len(d)
           /\ \A k \in Nat : 1 <= k /\ k < Len(h) => StxPart(h, d, gap)[k] = h[k + 1]
           /\ \A k \in Nat : 1 <= k /\ k <= Len(d) => StxPart(h, d, gap)[Len(h) - 1 + k] = d[k]
           /\ StxPart(h, d, gap)[Len(h) + Len(d)] = gap + h[1]
  <1>1. PICK n \in Nat, m \in Nat : n = Len(h) /\ m = Len(d) /\ n > 0
    OBVIOUS
  <1>2. PICK c \in Seq(Nat) : JoinedAs(c, h, n, d, m)
    BY <1>1, JoinedAt, Zenon
  <1>3. /\ c = h \o d /\ Len(c) = n + m
        /\ \A k \in Nat : 1 <= k /\ k <= n => c[k] = h[k]
        /\ \A k \in Nat : 1 <= k /\ k <= m => c[n + k] = d[k]
    BY <1>2, Zenon DEF JoinedAs
  <1>4. PICK z \in Nat : z = n + m /\ z = Len(c) /\ z > 0 /\ c[1] = h[1]
    BY <1>1, <1>3
  <1>5. PICK u \in Seq(Nat) : TailAs(u, c, z)
    BY <1>4, TailAt, Zenon
  <1>6. /\ u = Tail(c) /\ Head(c) = h[1]
        /\ \A k \in Nat : 1 <= k /\ k < z => u[k] = c[k + 1]
    BY <1>4, <1>5, Zenon DEF TailAs
  <1>7. PICK y \in Nat : y = Len(u) /\ y = z - 1
    BY <1>4, <1>5 DEF TailAs
  <1>8. PICK x \in Nat : x = gap + Head(c) /\ x = gap + h[1]
    <2>1. h[1] \in Nat
      BY <1>1
    <2>2. PICK v \in Nat : v = h[1] /\ v = Head(c)
      BY <2>1, <1>6, Zenon
    <2>3. gap + v \in Nat
      OBVIOUS
    <2> QED BY <2>2, <2>3, Zenon
  <1>9. PICK l \in Seq(Nat) : l = <<x>> /\ Len(l) = 1 /\ l[1] = x
    <2>1. <<x>> \in Seq(Nat) /\ Len(<<x>>) = 1 /\ <<x>>[1] = x
      OBVIOUS
    <2> QED BY <2>1, Zenon
  <1>10. PICK t \in Seq(Nat) : JoinedAs(t, u, y, l, 1)
    <2>1. 1 \in Nat
      OBVIOUS
    <2> QED BY <1>7, <1>9, <2>1, JoinedAt, Zenon
  <1>11. /\ t = u \o l /\ Len(t) = y + 1
         /\ \A k \in Nat : 1 <= k /\ k <= y => t[k] = u[k]
         /\ \A k \in Nat : 1 <= k /\ k <= 1 => t[y + k] = l[k]
    BY <1>10, Zenon DEF JoinedAs
  <1>12. StxPart(h, d, gap) = t
    BY <1>3, <1>6, <1>8, <1>9, <1>11, Zenon DEF StxPart
  <1>13. Len(t) = n + m /\ t[n + m] = x
    <2>1. y + 1 = n + m
      BY <1>4, <1>7
    <2>2. t[y + 1] = l[1]
      <3>1. 1 \in Nat /\ 1 <= 1
        OBVIOUS
      <3> QED BY <1>11, <3>1, Zenon
    <2> QED BY <1>9, <1>11, <2>1, <2>2, Zenon
  <1>14. ASSUME NEW k \in Nat, 1 <= k, k < n
         PROVE  t[k] = h[k + 1]
    <2>1. y = (n + m) - 1 /\ z = n + m
      BY <1>4, <1>7, Zenon
    <2>2. k <= y /\ k < z /\ k + 1 \in Nat /\ 1 <= k + 1 /\ k + 1 <= n
      BY <1>14, <2>1
    <2> QED BY <1>3, <1>6, <1>11, <1>14, <2>2, Zenon
  <1>15. ASSUME NEW k \in Nat, 1 <= k, k <= m
         PROVE  t[n - 1 + k] = d[k]
    <2>1. PICK p \in Nat : p = n - 1 + k /\ p + 1 = n + k /\ 1 <= p /\ p < z /\ p <= y
      <3>1. z = n + m /\ y = z - 1
        BY <1>4, <1>7
      <3>2. n - 1 + k \in Nat /\ n - 1 + k + 1 = n + k /\ 1 <= n - 1 + k /\ n - 1 + k < z /\ n - 1 + k <= y
        BY <1>1, <1>15, <3>1
      <3> QED BY <3>2
    <2>2. t[p] = u[p] /\ u[p] = c[p + 1] /\ c[n + k] = d[k]
      BY <1>3, <1>6, <1>11, <1>15, <2>1, Zenon
    <2> QED BY <2>1, <2>2, Zenon
  <1> QED BY <1>1, <1>8, <1>12, <1>13, <1>14, <1>15, Zenon

HeaderPlaces(h) ==
    /\ h[1] = 250 /\ h[2] = 1169 /\ h[3] = 4092 /\ h[4] = 1107
    /\ h[5] = 2486 /\ h[6] = 363 /\ h[7] = 9030 /\ h[8] = 4506

\* The header of the canonical wave.
LEMMA CanonicalHeaderAt ==
    \E h \in Seq(Nat) : h = CanonicalHeader /\ Len(h) = 8 /\ HeaderPlaces(h)
  <1>1. CanonicalHeader \in Seq(Nat) /\ Len(CanonicalHeader) = 8
    BY SMT DEF CanonicalHeader
  <1>2. /\ CanonicalHeader[1] = 250 /\ CanonicalHeader[2] = 1169 /\ CanonicalHeader[3] = 4092
        /\ CanonicalHeader[4] = 1107
    BY SMT DEF CanonicalHeader
  <1>3. /\ CanonicalHeader[5] = 2486 /\ CanonicalHeader[6] = 363 /\ CanonicalHeader[7] = 9030
        /\ CanonicalHeader[8] = 4506
    BY SMT DEF CanonicalHeader
  <1>4. HeaderPlaces(CanonicalHeader)
    BY <1>2, <1>3, SMT DEF HeaderPlaces
  <1> QED BY <1>1, <1>4, Zenon

DataPlaces(d, f) ==
    \A j \in 1 .. FrameBits :
        d[2 * j - 1] = 500 /\ d[2 * j] = IF FrameBit(f, j) = 1 THEN 1500 ELSE 500

\* The data of the canonical wave.
LEMMA CanonicalDataAt ==
    ASSUME NEW f
    PROVE  \E d \in Seq(Nat) :
              d = SentData(f) /\ Len(d) = 70 /\ DataPlaces(d, f)
  <1>1. PICK a \in Nat, b \in Nat : a = 500 /\ b = 1500
    BY SMT
  <1>2. Data(f, a, a, b) \in Seq(Nat) /\ Len(Data(f, a, a, b)) = DataEdges
    BY DataType, Zenon
  <1>3. DataEdges = 70
    BY DEF DataEdges, FrameBits
  <1>4. PICK d \in Seq(Nat) : d = Data(f, a, a, b)
    BY <1>2
  <1>5. Data(f, a, a, b) = SentData(f)
    BY <1>1, SMT DEF SentData
  <1>6. \A j \in 1 .. FrameBits :
            d[2 * j - 1] = a /\ d[2 * j] = IF FrameBit(f, j) = 1 THEN b ELSE a
    <2>1. ASSUME NEW j \in 1 .. FrameBits
          PROVE  d[2 * j - 1] = a /\ d[2 * j] = IF FrameBit(f, j) = 1 THEN b ELSE a
      <3>1. /\ Data(f, a, a, b)[2 * j - 1] = a
            /\ Data(f, a, a, b)[2 * j] = IF FrameBit(f, j) = 1 THEN b ELSE a
        BY DataAt
      <3> QED BY <1>4, <3>1, Zenon
    <2> QED BY <2>1, Zenon
  <1>7. Len(d) = 70
    BY <1>2, <1>3, <1>4, Zenon
  <1>8. DataPlaces(d, f)
    BY <1>1, <1>6, SMT DEF DataPlaces
  <1> QED BY <1>4, <1>5, <1>7, <1>8, Zenon

\* A period begins with the pauses of the header.
LEMMA HeaderShifted ==
    ASSUME NEW t, NEW h, NEW n \in Nat, n = 8, HeaderPlaces(h),
           \A k \in Nat : 1 <= k /\ k < n => t[k] = h[k + 1]
    PROVE  PausesAt(t)
  BY DEF HeaderPlaces, PausesAt

\* A period of the canonical wave, interval by interval.
LEMMA CanonicalPartPlaces ==
    ASSUME NEW f
    PROVE  /\ CanonicalPart(f) \in Seq(Nat)
           /\ CanonicalPlaces(CanonicalPart(f), f)
  <1>1. PICK h \in Seq(Nat) : h = CanonicalHeader /\ Len(h) = 8 /\ HeaderPlaces(h)
    BY CanonicalHeaderAt, Zenon
  <1>2. PICK d \in Seq(Nat) :
           d = SentData(f) /\ Len(d) = 70 /\ DataPlaces(d, f)
    BY CanonicalDataAt
  <1>3. PICK gap \in Nat : gap = InterFrameGap /\ gap + 250 = 2710
    BY DEF InterFrameGap
  <1>4. gap = InterFrameGap
    BY <1>3
  <1>5. CanonicalPart(f) = StxPart(h, d, gap)
    BY <1>1, <1>2, <1>4, Zenon DEF CanonicalPart
  <1>6. PICK n \in Nat, m \in Nat : n = 8 /\ m = 70
    OBVIOUS
  <1>7. n = 8
    BY <1>6
  <1>8. n = Len(h) /\ m = Len(d)
    BY <1>1, <1>2, <1>6, Zenon
  <1>9. PICK t \in Seq(Nat) :
           /\ t = StxPart(h, d, gap)
           /\ Len(t) = Len(h) + Len(d)
           /\ \A k \in Nat : 1 <= k /\ k < Len(h) => t[k] = h[k + 1]
           /\ \A k \in Nat : 1 <= k /\ k <= Len(d) => t[Len(h) - 1 + k] = d[k]
           /\ t[Len(h) + Len(d)] = gap + h[1]
    <2>1. Len(h) > 0
      <3>1. n > 0
        BY <1>7
      <3> QED BY <1>8, <3>1, Zenon
    <2> QED BY <2>1, StxPartAt, ZenonT(40)
  <1>10. \A k \in Nat : 1 <= k /\ k <= m => t[n - 1 + k] = d[k]
    BY <1>8, <1>9, Zenon
  <1>11. \A k \in Nat : 1 <= k /\ k < n => t[k] = h[k + 1]
    BY <1>8, <1>9, Zenon
  <1>12. t[n + m] = gap + h[1] /\ Len(t) = n + m
    BY <1>8, <1>9, Zenon
  <1>13. PausesAt(t)
    BY <1>1, <1>11, <1>7, HeaderShifted, Zenon
  <1>14. Len(t) = 78 /\ t[78] = 2710
    BY <1>1, <1>6, <1>3, <1>12, SMT DEF HeaderPlaces
  <1>15. ASSUME NEW j \in 1 .. FrameBits
         PROVE  t[6 + 2 * j] = 500 /\ t[7 + 2 * j] = IF FrameBit(f, j) = 1 THEN 1500 ELSE 500
    <2>1. j \in Nat /\ 1 <= j /\ j <= 35
      BY DEF FrameBits
    <2>2. 2 * j - 1 \in Nat /\ 1 <= 2 * j - 1 /\ 2 * j - 1 <= m /\ 2 * j \in Nat /\ 1 <= 2 * j /\ 2 * j <= m
          /\ n - 1 + (2 * j - 1) = 6 + 2 * j /\ n - 1 + 2 * j = 7 + 2 * j
      BY <1>6, <2>1
    <2>3. t[n - 1 + (2 * j - 1)] = d[2 * j - 1] /\ t[n - 1 + 2 * j] = d[2 * j]
      BY <1>10, <2>2, Zenon
    <2>4. t[6 + 2 * j] = d[2 * j - 1] /\ t[7 + 2 * j] = d[2 * j]
      BY <2>2, <2>3, Zenon
    <2>5. d[2 * j - 1] = 500 /\ d[2 * j] = IF FrameBit(f, j) = 1 THEN 1500 ELSE 500
      BY <1>2, SMT DEF DataPlaces
    <2> QED BY <2>4, <2>5, SMT
  <1>16. CanonicalPlaces(t, f)
    BY <1>13, <1>14, <1>15, SMT DEF CanonicalPlaces
  <1> QED BY <1>5, <1>9, <1>16, Zenon

\* A period repeated.
RepeatedAs(r, part, n, repeats) ==
    /\ r = Repeated(part, repeats) /\ Len(r) = n * repeats
    /\ PlacedAs(r, part, n, repeats)

LEMMA RepeatingAt ==
    ASSUME NEW n \in PeriodLengths, NEW part \in Seq(Nat), n = Len(part),
           NEW repeats \in Nat, repeats > 0
    PROVE  \E r \in Seq(Nat) : RepeatedAs(r, part, n, repeats)
  <1>1. PICK r \in Seq(Nat) : r = Repeated(part, repeats)
    <2>1. n > 0
      BY DEF PeriodLengths
    <2>2. Len(part) > 0
      BY <2>1, Zenon
    <2> QED BY <2>2, RepeatedType, Zenon
  <1>2. PICK m \in Nat : m = n * repeats
    <2>1. n \in Nat
      BY DEF PeriodLengths
    <2> QED BY <2>1
  <1>3. Len(r) = m
    <2>1. r = [k \in 1 .. m |-> part[((k - 1) % n) + 1]]
      BY <1>1, <1>2, Zenon DEF Repeated
    <2> QED BY <1>2, <2>1
  <1>4. PlacedAs(r, part, n, repeats)
    BY <1>1, RepeatedAt, Zenon
  <1> QED BY <1>1, <1>2, <1>3, <1>4, Zenon DEF RepeatedAs

\* A period repeated, with silence at last.
EndedAs(w, part, n, repeats) ==
    /\ w = EndingInSilence(Repeated(part, repeats)) /\ Len(w) = n * repeats
    /\ \A a \in Nat, b \in 1 .. n : a < repeats =>
          /\ n * a + b \in 1 .. n * repeats
          /\ w[n * a + b] = IF n * a + b = n * repeats THEN Silence ELSE part[b]

\* The same with the silence at the end of the transmission.
LEMMA EndingAt ==
    ASSUME NEW n \in PeriodLengths, NEW part \in Seq(Nat), n = Len(part),
           NEW repeats \in Nat, repeats > 0
    PROVE  \E w \in Seq(Nat) : EndedAs(w, part, n, repeats)
  <1>1. PICK r \in Seq(Nat) : RepeatedAs(r, part, n, repeats)
    BY RepeatingAt, Zenon
  <1>2. PICK m \in Nat : m = n * repeats /\ m > 0
    <2>1. n \in Nat /\ n > 0
      BY DEF PeriodLengths
    <2> QED BY <2>1
  <1>3. r = Repeated(part, repeats) /\ Len(r) = m /\ PlacedAs(r, part, n, repeats)
    BY <1>1, <1>2, Zenon DEF RepeatedAs
  <1>4. Len(r) = m
    BY <1>3, Zenon
  <1>5. PICK w \in Seq(Nat) : w = EndingInSilence(r) /\ Len(w) = m /\ w = [r EXCEPT ![m] = Silence]
    <2>1. Silence \in Nat
      BY DEF Silence
    <2>2. Len(r) > 0
      BY <1>2, <1>4
    <2>3. EndingInSilence(r) = [r EXCEPT ![m] = Silence]
      BY <1>4, Zenon DEF EndingInSilence
    <2>4. [r EXCEPT ![m] = Silence] \in Seq(Nat) /\ Len([r EXCEPT ![m] = Silence]) = m
      BY <1>4, <2>1, <2>2, LastChanged, Zenon
    <2> QED BY <2>3, <2>4, Zenon
  <1>6. \A k \in 1 .. m : w[k] = IF k = m THEN Silence ELSE r[k]
    <2>1. DOMAIN r = 1 .. m
      BY <1>4
    <2> QED BY <1>5, <2>1, Zenon
  <1>7. ASSUME NEW a \in Nat, NEW b \in 1 .. n, a < repeats
        PROVE  /\ n * a + b \in 1 .. n * repeats
               /\ w[n * a + b] = IF n * a + b = n * repeats THEN Silence ELSE part[b]
    <2>1. n * a + b \in 1 .. n * repeats /\ r[n * a + b] = part[b]
      BY <1>3, <1>7, Zenon DEF PlacedAs
    <2>2. n * a + b \in 1 .. m
      BY <1>2, <2>1, Zenon
    <2>3. w[n * a + b] = IF n * a + b = m THEN Silence ELSE part[b]
      BY <1>6, <2>1, <2>2, Zenon
    <2> QED BY <1>2, <2>1, <2>3, Zenon
  <1>8. EndedAs(w, part, n, repeats)
    BY <1>2, <1>3, <1>5, <1>7, Zenon DEF EndedAs
  <1> QED BY <1>8, Zenon

\* What there is in the places that a run of 35 symbols from the interval h on
\* takes: a pause; ones where there should be pulses; or a frame, and a pause.
IsLong(us) == us >= 2400

Barrier(w, h) == \E d \in Nat : 1 <= d /\ d <= 68 /\ IsLong(w[h + d])
EndBarrier(w, h) == IsLong(w[h + 69])

InsideOnes(f) == {j \in Nat : 1 < j /\ j < FrameBits /\ FrameBit(f, j) = 1}

OnesHere(w, f, h) == \A j \in InsideOnes(f) : w[h + 2 * j - 2] >= 1464
OnesNext(w, f, h) == \A j \in InsideOnes(f) : w[h + 2 * j] >= 1464

SentGap(f, j) == IF FrameBit(f, j) = 1 THEN 1500 ELSE 500

\* Where the pauses of a canonical repeat are.
PausePlaces == {2, 4, 6, 7, 78}

GapsAfter(w, f, k) ==
    \A j \in 1 .. FrameBits : w[k + 2 * j] = SentGap(f, j)

FrameHere(w, f, h) ==
    /\ h + 70 <= Len(w) /\ IsLong(w[h + 70])
    /\ GapsAfter(w, f, h - 1)

CanonicalRepeat(w, f, a) ==
    /\ IsLong(w[78 * a + 2]) /\ IsLong(w[78 * a + 4]) /\ IsLong(w[78 * a + 6])
    /\ IsLong(w[78 * a + 7]) /\ IsLong(w[78 * a + 78])
    /\ GapsAfter(w, f, 78 * a + 7)

CanonicalLayout(w, f, repeats) ==
    /\ Len(w) = 78 * repeats
    /\ \A a \in Nat : a < repeats => CanonicalRepeat(w, f, a)

\* The intervals of the canonical wave are those of a period, again and again.
CanonicalPeriods(w, part, f, repeats) ==
    /\ CanonicalPlaces(part, f) /\ Len(w) = 78 * repeats
    /\ \A a \in Nat, b \in Nat : a < repeats /\ 1 <= b /\ b <= 78 =>
          w[78 * a + b] = IF 78 * a + b = 78 * repeats THEN Silence ELSE part[b]

LEMMA CanonicalIsPeriods ==
    ASSUME NEW f, NEW repeats \in Nat, repeats > 0
    PROVE  \E part \in Seq(Nat) : CanonicalPeriods(CanonicalWave(f, repeats), part, f, repeats)
  <1>1. PICK part \in Seq(Nat) : part = CanonicalPart(f) /\ CanonicalPlaces(part, f)
    BY CanonicalPartPlaces, Zenon
  <1>2. PICK n \in PeriodLengths : n = 78
    BY DEF PeriodLengths
  <1>3. n = Len(part)
    BY <1>1, <1>2, Zenon DEF CanonicalPlaces
  <1>4. PICK w \in Seq(Nat) : EndedAs(w, part, n, repeats)
    BY <1>3, EndingAt, Zenon
  <1>5. /\ w = EndingInSilence(Repeated(part, repeats)) /\ Len(w) = n * repeats
        /\ \A a \in Nat, b \in 1 .. n : a < repeats =>
              w[n * a + b] = IF n * a + b = n * repeats THEN Silence ELSE part[b]
    BY <1>4, Zenon DEF EndedAs
  <1>6. CanonicalWave(f, repeats) = w
    <2>1. CanonicalPart(f) = Tail(CanonicalEdges(f)) \o <<InterFrameGap + Head(CanonicalEdges(f))>>
      BY DEF CanonicalPart, StxPart, SentData, CanonicalEdges
    <2> QED BY <1>1, <1>5, <2>1, Zenon DEF CanonicalWave, StxWave
  <1>7. ASSUME NEW a \in Nat, a < repeats, NEW b \in Nat, 1 <= b, b <= 78
        PROVE  w[78 * a + b] = IF 78 * a + b = 78 * repeats THEN Silence ELSE part[b]
    <2>1. b \in 1 .. n
      BY <1>2, <1>7
    <2>2. w[n * a + b] = IF n * a + b = n * repeats THEN Silence ELSE part[b]
      BY <1>5, <1>7, <2>1, Zenon
    <2>3. n * a + b = 78 * a + b /\ n * repeats = 78 * repeats
      BY <1>2
    <2> QED BY <2>2, <2>3, Zenon
  <1>8. Len(w) = 78 * repeats
    BY <1>2, <1>5, SMT
  <1>9. CanonicalPeriods(w, part, f, repeats)
    BY <1>1, <1>7, <1>8, Zenon DEF CanonicalPeriods
  <1> QED BY <1>6, <1>9, Zenon

\* The canonical wave is made of such repeats.
LEMMA CanonicalIsLaidOut ==
    ASSUME NEW f, NEW repeats \in Nat, repeats > 0
    PROVE  CanonicalLayout(CanonicalWave(f, repeats), f, repeats)
  <1>1. PICK w, part : w = CanonicalWave(f, repeats) /\ CanonicalPeriods(w, part, f, repeats)
    BY CanonicalIsPeriods, Zenon
  <1>2. CanonicalPlaces(part, f)
    BY <1>1, Zenon DEF CanonicalPeriods
  <1>3. ASSUME NEW a \in Nat, a < repeats, NEW b \in Nat, 1 <= b, b <= 78
        PROVE  w[78 * a + b] = IF 78 * a + b = 78 * repeats THEN Silence ELSE part[b]
    BY <1>1, <1>3, Zenon DEF CanonicalPeriods
  <1>4. ASSUME NEW a \in Nat, a < repeats
        PROVE  /\ IsLong(w[78 * a + 2]) /\ IsLong(w[78 * a + 4]) /\ IsLong(w[78 * a + 6])
               /\ IsLong(w[78 * a + 7]) /\ IsLong(w[78 * a + 78])
    <2>1. /\ IsLong(part[2]) /\ IsLong(part[4]) /\ IsLong(part[6]) /\ IsLong(part[7])
          /\ IsLong(part[78]) /\ IsLong(Silence)
      BY <1>2, SMT DEF CanonicalPlaces, PausesAt, Silence, IsLong
    <2>2. ASSUME NEW b \in {2, 4, 6, 7, 78}
          PROVE  IsLong(w[78 * a + b])
      <3>1. b \in Nat /\ 1 <= b /\ b <= 78
        OBVIOUS
      <3>2. w[78 * a + b] = IF 78 * a + b = 78 * repeats THEN Silence ELSE part[b]
        BY <1>3, <1>4, <3>1, ZenonT(40)
      <3>3. IsLong(part[b])
        BY <2>1, Zenon
      <3> QED BY <2>1, <3>2, <3>3, Zenon
    <2> QED BY <2>2, Zenon
  <1>5. ASSUME NEW a \in Nat, a < repeats, NEW j \in 1 .. FrameBits
        PROVE  w[(78 * a + 7) + 2 * j] = SentGap(f, j)
    <2>1. j \in Nat /\ 1 <= j /\ j <= 35
      BY DEF FrameBits
    <2>2. PICK b \in Nat : b = 7 + 2 * j /\ 1 <= b /\ b <= 78 /\ b < 78
      BY <2>1
    <2>3. 78 * a + b # 78 * repeats
      BY <1>5, <2>2
    <2>4. w[78 * a + b] = part[b]
      <3>1. b \in Nat /\ 1 <= b /\ b <= 78
        BY <2>2
      <3> QED BY <1>3, <1>5, <2>3, <3>1, Zenon
    <2>5. 78 * a + b = (78 * a + 7) + 2 * j
      BY <2>1, <2>2
    <2>6. part[b] = SentGap(f, j)
      BY <1>2, <2>2, SMT DEF CanonicalPlaces, SentGap
    <2>7. w[(78 * a + 7) + 2 * j] = part[b]
      BY <2>4, <2>5, Zenon
    <2> QED BY <2>6, <2>7, Zenon
  <1>6. Len(w) = 78 * repeats
    BY <1>1, Zenon DEF CanonicalPeriods
  <1>7. CanonicalLayout(w, f, repeats)
    <2>1. ASSUME NEW a \in Nat, a < repeats
          PROVE  CanonicalRepeat(w, f, a)
      <3>1. \A j \in 1 .. FrameBits :
               w[(78 * a + 7) + 2 * j] = SentGap(f, j)
        BY <1>5, <2>1, Zenon
      <3>2. GapsAfter(w, f, 78 * a + 7)
        BY <3>1, Zenon DEF GapsAfter
      <3> QED BY <1>4, <2>1, <3>2, ZenonT(40) DEF CanonicalRepeat
    <2> QED BY <1>6, <2>1, Zenon DEF CanonicalLayout
  <1> QED BY <1>1, <1>7, Zenon

\* Seventy intervals of the canonical wave in a row: there is a pause among them,
\* or they are half a bit off, or they are the frame.
LEMMA CanonicalWindow ==
    ASSUME NEW w, NEW f, NEW repeats \in Nat, CanonicalLayout(w, f, repeats),
           NEW h \in Nat, 1 <= h, h + 69 <= Len(w)
    PROVE  \/ Barrier(w, h) \/ OnesHere(w, f, h) \/ OnesNext(w, f, h)
           \/ FrameHere(w, f, h)
  <1>1. PICK n \in PeriodLengths : n = 78
    BY DEF PeriodLengths
  <1>2. Len(w) = 78 * repeats
    BY DEF CanonicalLayout
  <1>3. h \in 1 .. n * repeats
    BY <1>1, <1>2
  <1>4. PICK a \in Nat, b \in 1 .. n : a < repeats /\ h = n * a + b
    BY <1>3, Places, Zenon
  <1>5. h = 78 * a + b /\ 1 <= b /\ b <= 78 /\ b \in Nat
    BY <1>1, <1>4
  <1>6. CanonicalRepeat(w, f, a)
    BY <1>4, Zenon DEF CanonicalLayout
  <1>7. ASSUME NEW c \in Nat, IsLong(w[78 * a + c]), b < c, c - b <= 68
        PROVE  Barrier(w, h)
    <2>1. PICK d \in Nat : d = c - b /\ 1 <= d /\ d <= 68 /\ h + d = 78 * a + c
      BY <1>5, <1>7
    <2> QED BY <1>7, <2>1, Zenon DEF Barrier
  <1>8. ASSUME NEW c \in PausePlaces
        PROVE  IsLong(w[78 * a + c])
    <2>1. /\ IsLong(w[78 * a + 2]) /\ IsLong(w[78 * a + 4]) /\ IsLong(w[78 * a + 6])
          /\ IsLong(w[78 * a + 7]) /\ IsLong(w[78 * a + 78])
      BY <1>6, SMT DEF CanonicalRepeat
    <2>2. CASE c = 2
      BY <2>1, <2>2, SMT
    <2>3. CASE c = 4
      BY <2>1, <2>3, SMT
    <2>4. CASE c = 6
      BY <2>1, <2>4, SMT
    <2>5. CASE c = 7
      BY <2>1, <2>5, SMT
    <2>6. CASE c = 78
      BY <2>1, <2>6, SMT
    <2>7. c = 2 \/ c = 4 \/ c = 6 \/ c = 7 \/ c = 78
      BY <1>8, SMT DEF PausePlaces
    <2> QED BY <2>2, <2>3, <2>4, <2>5, <2>6, <2>7
  <1>9. CASE b < 7
    <2>1. \E c \in PausePlaces : c \in Nat /\ b < c /\ c - b <= 68
      BY <1>5, <1>9 DEF PausePlaces
    <2> QED BY <1>7, <1>8, <2>1, Zenon
  <1>10. CASE b >= 10 /\ b < 78
    <2>1. \E c \in PausePlaces : c \in Nat /\ b < c /\ c - b <= 68
      BY <1>5, <1>10 DEF PausePlaces
    <2> QED BY <1>7, <1>8, <2>1, Zenon
  <1>11. CASE b = 78
    <2>1. a + 1 \in Nat /\ a + 1 < repeats
      BY <1>2, <1>5, <1>11
    <2>2. CanonicalRepeat(w, f, a + 1)
      BY <2>1, Zenon DEF CanonicalLayout
    <2>3. IsLong(w[78 * (a + 1) + 2])
      BY <2>2, Zenon DEF CanonicalRepeat
    <2>4. 78 * (a + 1) + 2 = h + 2 /\ 2 \in Nat /\ 1 <= 2 /\ 2 <= 68
      BY <1>5, <1>11
    <2> QED BY <2>3, <2>4, Zenon DEF Barrier
  <1>12. GapsAfter(w, f, 78 * a + 7)
    BY <1>6, Zenon DEF CanonicalRepeat
  <1>13. ASSUME NEW j \in InsideOnes(f)
         PROVE  j \in Nat /\ w[(78 * a + 7) + 2 * j] = 1500
    <2>1. j \in 1 .. FrameBits /\ FrameBit(f, j) = 1 /\ j \in Nat
      BY DEF InsideOnes, FrameBits
    <2>2. w[(78 * a + 7) + 2 * j] = SentGap(f, j)
      BY <1>12, <2>1, Zenon DEF GapsAfter
    <2> QED BY <2>1, <2>2, SMT DEF SentGap
  <1>14. CASE b = 7
    <2>1. ASSUME NEW j \in InsideOnes(f)
          PROVE  w[h + 2 * j] >= 1464
      <3>1. h + 2 * j = (78 * a + 7) + 2 * j
        BY <1>5, <1>14, <1>13
      <3>2. w[h + 2 * j] = 1500
        BY <1>13, <3>1
      <3> QED BY <3>2
    <2> QED BY <2>1 DEF OnesNext
  <1>15. CASE b = 8
    <2>1. h - 1 = 78 * a + 7 /\ h + 70 = 78 * a + 78
      BY <1>5, <1>15
    <2>2. h + 70 <= Len(w)
      BY <1>2, <1>4, <2>1
    <2>3. IsLong(w[78 * a + 78])
      BY <1>6, Zenon DEF CanonicalRepeat
    <2>4. IsLong(w[h + 70]) /\ GapsAfter(w, f, h - 1)
      BY <1>12, <2>1, <2>3, Zenon
    <2> QED BY <2>2, <2>4, Zenon DEF FrameHere
  <1>16. CASE b = 9
    <2>1. ASSUME NEW j \in InsideOnes(f)
          PROVE  w[h + 2 * j - 2] >= 1464
      <3>1. h + 2 * j - 2 = (78 * a + 7) + 2 * j
        BY <1>5, <1>16, <1>13
      <3>2. w[h + 2 * j - 2] = 1500
        BY <1>13, <3>1
      <3> QED BY <3>2
    <2> QED BY <2>1 DEF OnesHere
  <1> QED BY <1>5, <1>9, <1>10, <1>11, <1>14, <1>15, <1>16

-----------------------------------------------------------------------------
\* The data of the two other senders, with the last gap joined to the pause.
TxPartAs(t, f) ==
    /\ t = Merged(TxData(f), InterFrameGap) /\ Len(t) = 70 /\ IsLong(t[70])
    /\ \A j \in InsideOnes(f) : t[2 * j] = 1464

\* The data of a frame as these senders send it.
LEMMA TxPartAt ==
    ASSUME NEW f
    PROVE  \E t \in Seq(Nat) : TxPartAs(t, f)
  <1>1. PICK a \in Nat, b \in Nat : a = 488 /\ b = 1464
    BY SMT
  <1>2. PICK n \in Nat : n = 70 /\ n = DataEdges /\ n > 0
    BY DEF DataEdges, FrameBits
  <1>3. PICK d \in Seq(Nat) : d = Data(f, a, a, b) /\ Len(d) = n
    <2>1. Data(f, a, a, b) \in Seq(Nat) /\ Len(Data(f, a, a, b)) = DataEdges
      BY DataType, Zenon
    <2> QED BY <1>2, <2>1, Zenon
  <1>4. d = TxData(f)
    BY <1>1, <1>3, SMT DEF TxData
  <1>5. ASSUME NEW j \in 1 .. FrameBits
        PROVE  d[2 * j] = IF FrameBit(f, j) = 1 THEN b ELSE a
    <2>1. Data(f, a, a, b)[2 * j] = IF FrameBit(f, j) = 1 THEN b ELSE a
      BY DataAt
    <2> QED BY <1>3, <2>1, Zenon
  <1>6. PICK us \in Nat : us = d[n] + InterFrameGap /\ IsLong(us)
    <2>1. d[n] \in Nat
      <3>1. n \in 1 .. n
        BY <1>2
      <3>2. \A k \in 1 .. Len(d) : d[k] \in Nat
        OBVIOUS
      <3> QED BY <1>3, <3>1, <3>2, Zenon
    <2>2. PICK v \in Nat : v = d[n]
      BY <2>1
    <2>3. v + InterFrameGap \in Nat /\ IsLong(v + InterFrameGap)
      BY DEF InterFrameGap, IsLong
    <2> QED BY <2>2, <2>3, Zenon
  <1>7. PICK t \in Seq(Nat) : t = [d EXCEPT ![n] = us] /\ Len(t) = n
    <2>1. Len(d) > 0
      BY <1>2, <1>3, Zenon
    <2>2. [d EXCEPT ![Len(d)] = us] \in Seq(Nat) /\ Len([d EXCEPT ![Len(d)] = us]) = Len(d)
      BY <2>1, LastChanged, Zenon
    <2> QED BY <1>3, <2>2, Zenon
  <1>8. t = Merged(TxData(f), InterFrameGap)
    <2>1. Merged(d, InterFrameGap) = t
      BY <1>3, <1>6, <1>7, Zenon DEF Merged
    <2> QED BY <1>4, <2>1, Zenon
  <1>9. \A k \in 1 .. n : t[k] = IF k = n THEN us ELSE d[k]
    <2>1. DOMAIN d = 1 .. n
      BY <1>3
    <2> QED BY <1>7, <2>1, Zenon
  <1>10. IsLong(t[70])
    <2>1. n \in 1 .. n
      BY <1>2
    <2>2. IsLong(t[n])
      BY <1>6, <1>9, <2>1, Zenon
    <2>3. n = 70
      BY <1>2
    <2> QED BY <2>2, <2>3, Zenon
  <1>11. ASSUME NEW j \in InsideOnes(f)
         PROVE  t[2 * j] = 1464
    <2>1. j \in 1 .. FrameBits /\ FrameBit(f, j) = 1 /\ j \in Nat /\ j < 35
      BY DEF InsideOnes, FrameBits
    <2>2. 2 * j \in 1 .. n /\ 2 * j # n
      BY <1>2, <2>1, SMT DEF FrameBits
    <2>3. t[2 * j] = d[2 * j]
      BY <1>9, <2>2, Zenon
    <2>4. d[2 * j] = b
      BY <1>5, <2>1, Zenon
    <2> QED BY <1>1, <2>3, <2>4, SMT
  <1>12. Len(t) = 70
    BY <1>2, <1>7, Zenon
  <1>13. TxPartAs(t, f)
    BY <1>8, <1>10, <1>11, <1>12, Zenon DEF TxPartAs
  <1> QED BY <1>13, Zenon

TxHeaderAs(h) == h = TxHeader /\ IsLong(h[1]) /\ IsLong(h[2])

\* The header of send_cc1101_tx_ is two pauses.
LEMMA TxHeaderAt == \E h \in Seq(Nat) : Len(h) = 2 /\ TxHeaderAs(h)
  <1>1. TxHeader \in Seq(Nat) /\ Len(TxHeader) = 2
    BY SMT DEF TxHeader
  <1>2. IsLong(TxHeader[1]) /\ IsLong(TxHeader[2])
    BY SMT DEF TxHeader, IsLong
  <1> QED BY <1>1, <1>2, Zenon DEF TxHeaderAs

-----------------------------------------------------------------------------

TxRepeat(w, f, k) ==
    IsLong(w[k + 70]) /\ \A j \in InsideOnes(f) : w[k + 2 * j] = 1464

Cc1101Layout(w, f, repeats) ==
    /\ Len(w) = 70 * repeats + 2 /\ IsLong(w[1]) /\ IsLong(w[2])
    /\ \A a \in Nat : a < repeats => TxRepeat(w, f, 70 * a + 2)

PowerOffRepeat(w, f, a) ==
    /\ IsLong(w[72 * a + 1]) /\ IsLong(w[72 * a + 2])
    /\ TxRepeat(w, f, 72 * a + 2)

PowerOffLayout(w, f, repeats) ==
    /\ Len(w) = 72 * repeats
    /\ \A a \in Nat : a < repeats => PowerOffRepeat(w, f, a)

\* The silence after a transmission is a pause.
LEMMA SilenceIsLong == IsLong(Silence) /\ Silence \in Nat
  BY DEF IsLong, Silence

\* The POWER OFF wave is made of such repeats.
LEMMA PowerOffIsLaidOut ==
    ASSUME NEW f, NEW repeats \in Nat, repeats > 0
    PROVE  PowerOffLayout(PowerOffWave(f, repeats), f, repeats)
  <1>1. PICK t \in Seq(Nat) : TxPartAs(t, f)
    BY TxPartAt, Zenon
  <1>2. PICK h \in Seq(Nat) : Len(h) = 2 /\ TxHeaderAs(h)
    BY TxHeaderAt, Zenon
  <1>3. PICK n \in PeriodLengths, m \in Nat, l \in Nat :
           n = 72 /\ m = 70 /\ l = 2 /\ n = l + m
    BY DEF PeriodLengths
  <1>4. m = Len(t) /\ l = Len(h)
    BY <1>1, <1>2, <1>3, Zenon DEF TxPartAs
  <1>5. PICK part \in Seq(Nat) : JoinedAs(part, h, l, t, m)
    BY <1>4, JoinedAt, Zenon
  <1>6. /\ part = h \o t /\ Len(part) = l + m
        /\ \A k \in Nat : 1 <= k /\ k <= l => part[k] = h[k]
        /\ \A k \in Nat : 1 <= k /\ k <= m => part[l + k] = t[k]
    BY <1>5, Zenon DEF JoinedAs
  <1>7. PICK w \in Seq(Nat) : EndedAs(w, part, n, repeats)
    <2>1. n = Len(part)
      BY <1>3, <1>6, Zenon
    <2> QED BY <2>1, EndingAt, Zenon
  <1>8. /\ w = EndingInSilence(Repeated(part, repeats)) /\ Len(w) = n * repeats
        /\ \A a \in Nat, b \in 1 .. n : a < repeats =>
              w[n * a + b] = IF n * a + b = n * repeats THEN Silence ELSE part[b]
    BY <1>7, Zenon DEF EndedAs
  <1>9. w = PowerOffWave(f, repeats)
    BY <1>1, <1>2, <1>6, <1>8, Zenon DEF PowerOffWave, TxPartAs, TxHeaderAs
  <1>10. ASSUME NEW a \in Nat, a < repeats, NEW b \in Nat, 1 <= b, b <= 72
         PROVE  w[72 * a + b] = IF 72 * a + b = 72 * repeats THEN Silence ELSE part[b]
    <2>1. b \in 1 .. n
      BY <1>3, <1>10
    <2>2. w[n * a + b] = IF n * a + b = n * repeats THEN Silence ELSE part[b]
      BY <1>8, <1>10, <2>1, Zenon
    <2>3. n * a + b = 72 * a + b /\ n * repeats = 72 * repeats
      BY <1>3
    <2> QED BY <2>2, <2>3, Zenon
  <1>11. ASSUME NEW k \in Nat, 1 <= k, k <= 70
         PROVE  part[2 + k] = t[k]
    <2>1. k <= m /\ l = 2
      BY <1>3, <1>11
    <2> QED BY <1>6, <1>11, <2>1, Zenon
  <1>12. ASSUME NEW a \in Nat, a < repeats
         PROVE  PowerOffRepeat(w, f, a)
    <2>1. ASSUME NEW b \in Nat, 1 <= b, b <= 72, IsLong(part[b])
          PROVE  IsLong(w[72 * a + b])
      BY <1>10, <1>12, <2>1, SilenceIsLong, Zenon
    <2>2. IsLong(part[1]) /\ IsLong(part[2]) /\ IsLong(part[72])
      <3>1. 1 <= l /\ 2 <= l /\ 1 \in Nat /\ 2 \in Nat /\ 1 <= 1 /\ 1 <= 2
        BY <1>3
      <3>2. part[1] = h[1] /\ part[2] = h[2]
        BY <1>6, <3>1, Zenon
      <3>3. part[72] = t[70]
        <4>1. 1 <= m /\ m <= m /\ l + m = 72 /\ m = 70
          BY <1>3
        <4>2. part[l + m] = t[m]
          BY <1>6, <4>1, Zenon
        <4> QED BY <4>1, <4>2
      <3>4. IsLong(h[1]) /\ IsLong(h[2]) /\ IsLong(t[70])
        BY <1>1, <1>2, Zenon DEF TxPartAs, TxHeaderAs
      <3> QED BY <3>2, <3>3, <3>4
    <2>3. IsLong(w[72 * a + 1]) /\ IsLong(w[72 * a + 2]) /\ IsLong(w[72 * a + 72])
      BY <2>1, <2>2
    <2>4. ASSUME NEW j \in InsideOnes(f)
          PROVE  w[(72 * a + 2) + 2 * j] = 1464
      <3>1. j \in Nat /\ 1 < j /\ j < 35
        BY DEF InsideOnes, FrameBits
      <3>2. PICK b \in Nat, k \in Nat : b = 2 + 2 * j /\ k = 2 * j /\ b = 2 + k /\ 1 <= k /\ k <= 70
                                       /\ 1 <= b /\ b <= 72 /\ b # 72
        BY <3>1
      <3>3. 72 * a + b # 72 * repeats /\ (72 * a + 2) + 2 * j = 72 * a + b
        BY <1>12, <3>1, <3>2
      <3>4. w[72 * a + b] = part[b]
        <4>1. n \in Nat /\ b <= n
          BY <1>3, <3>2
        <4>2. b \in 1 .. n
          <5> HIDE <1>3
          <5> QED BY <3>2, <4>1
        <4>3. n * a + b = 72 * a + b /\ n * repeats = 72 * repeats
          BY <1>3
        <4>4. b \in 1 .. n /\ n * a + b # n * repeats /\ n * a + b = 72 * a + b
          BY <3>3, <4>2, <4>3
        <4>5. w[n * a + b] = part[b]
          BY <1>8, <1>12, <4>4, Zenon
        <4> QED BY <4>4, <4>5, Zenon
      <3>5. part[b] = t[2 * j]
        BY <1>11, <3>2, Zenon
      <3>6. t[2 * j] = 1464
        BY <1>1, SMT DEF TxPartAs
      <3>7. w[(72 * a + 2) + 2 * j] = w[72 * a + b]
        BY <3>3
      <3> QED BY <3>4, <3>5, <3>6, <3>7, SMT
    <2>5. (72 * a + 2) + 70 = 72 * a + 72
      OBVIOUS
    <2>6. TxRepeat(w, f, 72 * a + 2)
      BY <2>3, <2>4, <2>5, SMT DEF TxRepeat
    <2> QED BY <2>3, <2>6, Zenon DEF PowerOffRepeat
  <1>13. Len(w) = 72 * repeats
    BY <1>3, <1>8, SMT
  <1>14. PowerOffLayout(w, f, repeats)
    BY <1>12, <1>13, Zenon DEF PowerOffLayout
  <1> QED BY <1>9, <1>14, Zenon

\* So is the wave of the CC1101, which has its header once.
LEMMA Cc1101IsLaidOut ==
    ASSUME NEW f, NEW repeats \in Nat, repeats > 0
    PROVE  Cc1101Layout(Cc1101Wave(f, repeats), f, repeats)
  <1>1. PICK t \in Seq(Nat) : TxPartAs(t, f)
    BY TxPartAt, Zenon
  <1>2. PICK h \in Seq(Nat) : Len(h) = 2 /\ TxHeaderAs(h)
    BY TxHeaderAt, Zenon
  <1>3. PICK n \in PeriodLengths, l \in Nat : n = 70 /\ l = 2
    BY DEF PeriodLengths
  <1>4. n = Len(t) /\ l = Len(h)
    BY <1>1, <1>2, <1>3, Zenon DEF TxPartAs
  <1>5. PICK r \in Seq(Nat), m \in Nat :
           /\ r = Repeated(t, repeats) /\ m = Len(r) /\ m = n * repeats /\ m > 0
           /\ \A a \in Nat, b \in 1 .. n : a < repeats =>
                 n * a + b \in 1 .. m /\ r[n * a + b] = t[b]
    <2>1. n \in Nat /\ n > 0
      BY DEF PeriodLengths
    <2>2. PICK m \in Nat : m = n * repeats /\ m > 0
      BY <2>1
    <2>3. n = Len(t)
      BY <1>4, Zenon
    <2>4. PICK r \in Seq(Nat) : RepeatedAs(r, t, n, repeats)
      BY <2>3, RepeatingAt, Zenon
    <2>5. /\ r = Repeated(t, repeats) /\ Len(r) = n * repeats
          /\ \A a \in Nat, b \in 1 .. n : a < repeats =>
                n * a + b \in 1 .. n * repeats /\ r[n * a + b] = t[b]
      BY <2>4, Zenon DEF RepeatedAs, PlacedAs
    <2> QED BY <2>2, <2>5, Zenon
  <1>6. PICK c \in Seq(Nat) : JoinedAs(c, h, l, r, m)
    BY <1>4, <1>5, JoinedAt, Zenon
  <1>7. /\ c = h \o r /\ Len(c) = l + m
        /\ \A k \in Nat : 1 <= k /\ k <= l => c[k] = h[k]
        /\ \A k \in Nat : 1 <= k /\ k <= m => c[l + k] = r[k]
    BY <1>6, Zenon DEF JoinedAs
  <1>8. PICK z \in Nat : z = l + m /\ z > 2 /\ z = 70 * repeats + 2
    <2>1. l + m \in Nat
      OBVIOUS
    <2>2. l + m = 70 * repeats + 2
      BY <1>3, <1>5
    <2>3. 70 * repeats + 2 > 2
      OBVIOUS
    <2> QED BY <2>1, <2>2, <2>3
  <1>9. PICK w \in Seq(Nat) : w = EndingInSilence(c) /\ Len(w) = z /\ w = [c EXCEPT ![z] = Silence]
    <2>1. Len(c) = z /\ Len(c) > 0
      <3>1. z > 0
        BY <1>8
      <3> QED BY <1>7, <1>8, <3>1, Zenon
    <2>2. EndingInSilence(c) = [c EXCEPT ![z] = Silence]
      BY <2>1, Zenon DEF EndingInSilence
    <2>3. [c EXCEPT ![z] = Silence] \in Seq(Nat) /\ Len([c EXCEPT ![z] = Silence]) = z
      BY <2>1, SilenceIsLong, LastChanged, Zenon
    <2> QED BY <2>2, <2>3, Zenon
  <1>10. \A k \in 1 .. z : w[k] = IF k = z THEN Silence ELSE c[k]
    <2>1. DOMAIN c = 1 .. z
      BY <1>7, <1>8
    <2> QED BY <1>9, <2>1, Zenon
  <1>11. w = Cc1101Wave(f, repeats)
    BY <1>1, <1>2, <1>5, <1>7, <1>9, Zenon DEF Cc1101Wave, TxPartAs, TxHeaderAs
  <1>12. IsLong(w[1]) /\ IsLong(w[2])
    <2>1. 1 <= l /\ 2 <= l /\ 1 \in Nat /\ 2 \in Nat /\ 1 <= 1 /\ 1 <= 2
          /\ 1 \in 1 .. z /\ 2 \in 1 .. z /\ 1 # z /\ 2 # z
      BY <1>3, <1>8
    <2>2. w[1] = c[1] /\ w[2] = c[2]
      BY <1>10, <2>1, Zenon
    <2>3. c[1] = h[1] /\ c[2] = h[2]
      BY <1>7, <2>1, Zenon
    <2>4. IsLong(h[1]) /\ IsLong(h[2])
      BY <1>2, Zenon DEF TxHeaderAs
    <2> QED BY <2>2, <2>3, <2>4
  <1>13. ASSUME NEW a \in Nat, a < repeats, NEW b \in Nat, 1 <= b, b <= 70
         PROVE  w[(70 * a + 2) + b] = IF (70 * a + 2) + b = z THEN Silence ELSE t[b]
    <2>1. b \in 1 .. n
      BY <1>3, <1>13
    <2>2. n * a + b \in 1 .. m /\ r[n * a + b] = t[b]
      BY <1>5, <1>13, <2>1, Zenon
    <2>3. PICK k \in Nat : k = n * a + b /\ 1 <= k /\ k <= m
      BY <2>2
    <2>4. c[l + k] = t[b]
      BY <1>7, <2>2, <2>3, Zenon
    <2>5. l + k \in 1 .. z /\ l + k = (70 * a + 2) + b
      BY <1>3, <1>8, <2>3
    <2> QED BY <1>10, <2>4, <2>5, Zenon
  <1>14. ASSUME NEW a \in Nat, a < repeats
         PROVE  TxRepeat(w, f, 70 * a + 2)
    <2>1. IsLong(w[(70 * a + 2) + 70])
      <3>1. IsLong(t[70])
        BY <1>1, Zenon DEF TxPartAs
      <3>2. 70 \in Nat /\ 1 <= 70 /\ 70 <= 70
        OBVIOUS
      <3> QED BY <1>13, <1>14, <3>1, <3>2, SilenceIsLong, ZenonT(40)
    <2>2. ASSUME NEW j \in InsideOnes(f)
          PROVE  w[(70 * a + 2) + 2 * j] = 1464
      <3>1. j \in Nat /\ 1 < j /\ j < 35
        BY DEF InsideOnes, FrameBits
      <3>2. 2 * j \in Nat /\ 1 <= 2 * j /\ 2 * j <= 70
        BY <3>1
      <3>3. (70 * a + 2) + 2 * j # z
        BY <1>8, <1>14, <3>1
      <3>4. w[(70 * a + 2) + 2 * j] = t[2 * j]
        BY <1>13, <1>14, <3>2, <3>3, Zenon
      <3>5. t[2 * j] = 1464
        BY <1>1, SMT DEF TxPartAs
      <3> QED BY <3>4, <3>5, SMT
    <2> QED BY <2>1, <2>2, SMT DEF TxRepeat
  <1>15. Cc1101Layout(w, f, repeats)
    <2>1. Len(w) = 70 * repeats + 2
      BY <1>8, <1>9, Zenon
    <2> QED BY <1>12, <1>14, <2>1, Zenon DEF Cc1101Layout
  <1> QED BY <1>11, <1>15, Zenon

\* Seventy intervals of the POWER OFF wave in a row: there is a pause among them,
\* be it the last, or they are half a bit off.
LEMMA PowerOffWindow ==
    ASSUME NEW w, NEW f, NEW repeats \in Nat, PowerOffLayout(w, f, repeats),
           NEW h \in Nat, 1 <= h, h + 69 <= Len(w)
    PROVE  Barrier(w, h) \/ EndBarrier(w, h) \/ OnesNext(w, f, h)
  <1>1. PICK n \in PeriodLengths : n = 72
    BY DEF PeriodLengths
  <1>2. Len(w) = 72 * repeats
    BY DEF PowerOffLayout
  <1>3. h \in 1 .. n * repeats
    BY <1>1, <1>2
  <1>4. PICK a \in Nat, b \in 1 .. n : a < repeats /\ h = n * a + b
    BY <1>3, Places, Zenon
  <1>5. h = 72 * a + b /\ 1 <= b /\ b <= 72 /\ b \in Nat
    BY <1>1, <1>4
  <1>6. PowerOffRepeat(w, f, a)
    BY <1>4, Zenon DEF PowerOffLayout
  <1>7. IsLong(w[72 * a + 2]) /\ IsLong(w[(72 * a + 2) + 70])
    BY <1>6, Zenon DEF PowerOffRepeat, TxRepeat
  <1>8. CASE b = 1
    <2>1. h + 1 = 72 * a + 2 /\ 1 \in Nat /\ 1 <= 1 /\ 1 <= 68
      BY <1>5, <1>8
    <2> QED BY <1>7, <2>1, Zenon DEF Barrier
  <1>9. CASE b = 2
    <2>1. ASSUME NEW j \in InsideOnes(f)
          PROVE  w[h + 2 * j] >= 1464
      <3>1. TxRepeat(w, f, 72 * a + 2)
        BY <1>6, Zenon DEF PowerOffRepeat
      <3>2. h = 72 * a + 2
        BY <1>5, <1>9
      <3>3. TxRepeat(w, f, h)
        BY <3>1, <3>2, Zenon
      <3>4. w[h + 2 * j] = 1464
        BY <3>3, SMT DEF TxRepeat
      <3> QED BY <3>4, SMT
    <2> QED BY <2>1 DEF OnesNext
  <1>10. CASE b = 3
    <2>1. h + 69 = (72 * a + 2) + 70
      BY <1>5, <1>10
    <2> QED BY <1>7, <2>1, Zenon DEF EndBarrier
  <1>11. CASE b > 3 /\ b < 72
    <2>1. PICK d \in Nat : d = 72 - b /\ 1 <= d /\ d <= 68 /\ h + d = (72 * a + 2) + 70
      BY <1>5, <1>11
    <2> QED BY <1>7, <2>1, Zenon DEF Barrier
  <1>12. CASE b = 72
    <2>1. a + 1 \in Nat /\ a + 1 < repeats
      BY <1>2, <1>5, <1>12
    <2>2. IsLong(w[72 * (a + 1) + 1])
      BY <2>1, Zenon DEF PowerOffLayout, PowerOffRepeat
    <2>3. 72 * (a + 1) + 1 = h + 1 /\ 1 \in Nat /\ 1 <= 1 /\ 1 <= 68
      BY <1>5, <1>12
    <2> QED BY <2>2, <2>3, Zenon DEF Barrier
  <1> QED BY <1>5, <1>8, <1>9, <1>10, <1>11, <1>12

\* The same of the wave of the CC1101.
LEMMA Cc1101Window ==
    ASSUME NEW w, NEW f, NEW repeats \in Nat, Cc1101Layout(w, f, repeats),
           NEW h \in Nat, 1 <= h, h + 69 <= Len(w)
    PROVE  Barrier(w, h) \/ EndBarrier(w, h) \/ OnesNext(w, f, h)
  <1>2. Len(w) = 70 * repeats + 2
    BY DEF Cc1101Layout
  <1>3. CASE h = 1
    <2>1. IsLong(w[2]) /\ h + 1 = 2 /\ 1 \in Nat /\ 1 <= 1 /\ 1 <= 68
      BY <1>3 DEF Cc1101Layout
    <2>2. IsLong(w[h + 1])
      BY <2>1, Zenon
    <2> QED BY <2>1, <2>2, Zenon DEF Barrier
  <1>4. ASSUME NEW a \in Nat, a < repeats, h = 70 * a + 2
        PROVE  OnesNext(w, f, h)
    <2>1. ASSUME NEW j \in InsideOnes(f)
          PROVE  w[h + 2 * j] >= 1464
      <3>1. TxRepeat(w, f, 70 * a + 2)
        BY <1>4, Zenon DEF Cc1101Layout
      <3>2. TxRepeat(w, f, h)
        BY <1>4, <3>1, Zenon
      <3>3. w[h + 2 * j] = 1464
        BY <3>2, SMT DEF TxRepeat
      <3> QED BY <3>3, SMT
    <2> QED BY <2>1 DEF OnesNext
  <1>5. CASE h = 2
    <2>1. 0 \in Nat /\ 0 < repeats /\ h = 70 * 0 + 2
      BY <1>2, <1>5
    <2> QED BY <1>4, <2>1, Zenon
  <1>6. CASE h > 2
    <2>1. PICK n \in PeriodLengths : n = 70
      BY DEF PeriodLengths
    <2>2. h - 2 \in 1 .. n * repeats
      BY <1>2, <1>6, <2>1
    <2>3. PICK a \in Nat, b \in 1 .. n : a < repeats /\ h - 2 = n * a + b
      BY <2>2, Places, Zenon
    <2>4. h = 70 * a + 2 + b /\ 1 <= b /\ b <= 70 /\ b \in Nat
      BY <2>1, <2>3
    <2>9. TxRepeat(w, f, 70 * a + 2)
      BY <2>3, Zenon DEF Cc1101Layout
    <2>5. IsLong(w[(70 * a + 2) + 70])
      BY <2>9, SMT DEF TxRepeat
    <2>6. CASE b = 1
      <3>1. h + 69 = (70 * a + 2) + 70
        BY <2>4, <2>6
      <3> QED BY <2>5, <3>1, Zenon DEF EndBarrier
    <2>7. CASE 1 < b /\ b < 70
      <3>1. PICK d \in Nat : d = 70 - b /\ 1 <= d /\ d <= 68 /\ h + d = (70 * a + 2) + 70
        BY <2>4, <2>7
      <3> QED BY <2>5, <3>1, Zenon DEF Barrier
    <2>8. CASE b = 70
      <3>1. a + 1 \in Nat /\ a + 1 < repeats /\ h = 70 * (a + 1) + 2
        BY <1>2, <2>4, <2>8
      <3> QED BY <1>4, <3>1, Zenon
    <2> QED BY <2>4, <2>6, <2>7, <2>8
  <1> QED BY <1>3, <1>5, <1>6
=============================================================================
