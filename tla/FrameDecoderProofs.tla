------------------------- MODULE FrameDecoderProofs -------------------------
(***************************************************************************)
(* Theorems about FrameDecoder: it keeps its types for every set of        *)
(* frames, starts, stretches and noises, reports every command of which it *)
(* recorded a repeat whole, as it does of one that is repeated, reports as *)
(* complete no frame that is not on the air, and so reports the command.   *)
(*                                                                         *)
(* The first part follows the data: what arrives is a sequence of          *)
(* intervals, what is recorded of it one of 16-bit integers, what a run of *)
(* symbols reads as a word.  Words are read bit by bit from the most       *)
(* significant on: a run of n bits is less than the n-th power of two, and *)
(* the bits of a word are read as the word.  The second part is about the  *)
(* scan: a repeat that was received whole is a candidate with the fields   *)
(* of the frame that was sent, and the best candidate scores no less.  The *)
(* third goes back from what is read to what was sent: every interval that *)
(* arrives is traced to one of the wave, so a run of 35 bits is seventy    *)
(* intervals of the wave in a row, and these are the frame or not symbols. *)
(* The fourth adds up the times of the wave and of what arrives of it: the *)
(* window holds the rest of one frame and the whole of the next.           *)
(***************************************************************************)
EXTENDS FrameDecoder, WaveformProofs, FiniteSetTheorems

-----------------------------------------------------------------------------
(* What arrives. *)

LEMMA TransmissionKinds ==
    ASSUME NEW s \in Transmissions
    PROVE  /\ s.repeats \in Nat /\ s.repeats > 0
           /\ s.path \in {"canonical", "cc1101", "power_off"}
           /\ s.frame \in SentFrames
  <1>1. s.repeats \in Repeats /\ s.frame \in SentFrames
    BY DEF Transmissions
  <1>2. s.path \in {"canonical", "cc1101", "power_off"}
    BY DEF Transmissions
  <1>3. s.repeats \in 1 .. 12
    BY <1>1, RepeatsAssumption
  <1> QED BY <1>1, <1>2, <1>3

LEMMA WaveType ==
    ASSUME NEW s \in Transmissions
    PROVE  Wave(s) \in Waves
  <1>1. /\ CanonicalWave(s.frame, s.repeats) \in Waves
        /\ Cc1101Wave(s.frame, s.repeats) \in Waves
        /\ PowerOffWave(s.frame, s.repeats) \in Waves
    BY TransmissionKinds, WaveTypes
  <1>2. CASE s.path = "canonical"
    BY <1>1, <1>2 DEF Wave
  <1>3. CASE s.path = "cc1101"
    BY <1>1, <1>3 DEF Wave
  <1>4. CASE s.path = "power_off"
    BY <1>1, <1>4 DEF Wave
  <1> QED BY <1>2, <1>3, <1>4, TransmissionKinds

\* Where a capture can begin, and what the receiver does.
LEMMA ReceptionKinds ==
    ASSUME NEW r \in Receptions
    PROVE  /\ r.start.interval \in Nat /\ r.start.interval > 0 /\ r.start.left \in Nat
           /\ r.stretch \in Int /\ -300 <= r.stretch /\ r.stretch <= 300
           /\ r.noise.lead \in Nat /\ r.noise.width \in Nat /\ r.noise.edges \in Nat
  <1>1. r.start \in Starts /\ r.stretch \in Stretches /\ r.noise \in Noises
    BY DEF Receptions
  <1>2. r.start.interval \in Nat \ {0} /\ r.start.left \in Nat \ {0}
    BY <1>1, StartsAssumption
  <1>3. r.stretch \in Int /\ -300 <= r.stretch /\ r.stretch <= 300
    <2>1. \A x \in -300 .. 300 : x \in Int /\ -300 <= x /\ x <= 300
      OBVIOUS
    <2>2. r.stretch \in -300 .. 300
      BY <1>1, StretchAssumption
    <2> QED BY <2>1, <2>2, Zenon
  <1>4. r.noise.lead \in Nat /\ r.noise.width \in Nat /\ r.noise.edges \in Nat
    BY <1>1, NoiseAssumption
  <1> QED BY <1>2, <1>3, <1>4

\* Chatter splits an interval that is longer than it.
LEMMA SplitType ==
    ASSUME NEW us \in Nat, NEW n, n.lead \in Nat, n.width \in Nat, n.edges \in Nat,
           us > n.lead + n.edges * n.width
    PROVE  Split(us, n) \in Seq(Nat)
  <1>1. PICK lead \in Nat, width \in Nat, edges1 \in Nat :
           lead = n.lead /\ width = n.width /\ edges1 = n.edges
    OBVIOUS
  <1>2. edges1 * width \in Nat
    OBVIOUS
  <1>3. us - lead - edges1 * width \in Nat
    BY <1>1, <1>2
  <1>4. PICK last \in Nat : last = us - n.lead - n.edges * n.width
    BY <1>1, <1>3
  <1>5. [j \in 1 .. edges1 |-> width] \in Seq(Nat)
    OBVIOUS
  <1>6. <<lead>> \o [j \in 1 .. edges1 |-> width] \o <<last>> \in Seq(Nat)
    BY <1>5
  <1> QED BY <1>1, <1>4, <1>6, Zenon DEF Split

\* No interval disappears in the receiver.
LEMMA ArrivesType ==
    ASSUME NEW wave \in Waves, NEW r \in Receptions, NEW k \in 1 .. Len(wave)
    PROVE  Arrives(wave, r, k) \in Seq(Nat)
  <1>1. wave[k] \in Nat /\ wave[k] >= 300
    BY DEF Waves, Lasting
  <1>2. PICK us \in Nat :
           us = IF k % 2 = 1 THEN wave[k] + r.stretch ELSE wave[k] - r.stretch
    <2>1. PICK n \in Nat, x \in Int : /\ n = wave[k] /\ n >= 300 /\ x = r.stretch
                                       /\ -300 <= x /\ x <= 300
      BY <1>1, ReceptionKinds
    <2>2. n + x \in Nat /\ n - x \in Nat
      BY <2>1
    <2> QED BY <2>1, <2>2
  <1>3. <<us>> \in Seq(Nat)
    OBVIOUS
  <1>4. us > r.noise.lead + r.noise.edges * r.noise.width => Split(us, r.noise) \in Seq(Nat)
    BY ReceptionKinds, SplitType
  <1> QED BY <1>2, <1>3, <1>4, Zenon DEF Arrives

\* The body of the recursion in Arriving.
ArrivingStep(s, r, f, k) ==
    IF k = r.start.interval
    THEN <<Clamped(r.start.left, 0, Wave(s)[r.start.interval])>>
    ELSE f[k - 1] \o Arrives(Wave(s), r, k)

\* The intervals from the one on in which the capture begins.
Heard(s, r) == r.start.interval .. Len(Wave(s))

\* One step of the recursion keeps the type.
LEMMA ArrivingStepType ==
    ASSUME NEW s \in Transmissions, NEW r \in Receptions, NEW k \in Heard(s, r), NEW f,
           k # r.start.interval => f[k - 1] \in Seq(Nat)
    PROVE  ArrivingStep(s, r, f, k) \in Seq(Nat)
  <1>1. PICK wave \in Waves : wave = Wave(s)
    BY WaveType
  <1>2. Len(wave) \in Nat /\ r.start.interval \in 1 .. Len(wave) /\ k \in 1 .. Len(wave)
    BY <1>1, ReceptionKinds DEF Heard, Waves
  <1>3. CASE k = r.start.interval
    <2>1. wave[k] \in Nat
      BY <1>2 DEF Waves, Lasting
    <2>2. Clamped(r.start.left, 0, wave[k]) \in Nat
      BY <2>1, ReceptionKinds DEF Clamped
    <2>3. PICK us \in Nat : us = Clamped(r.start.left, 0, wave[k])
      BY <2>2
    <2>4. <<us>> \in Seq(Nat)
      OBVIOUS
    <2> QED BY <1>1, <1>3, <2>3, <2>4 DEF ArrivingStep
  <1>4. CASE k # r.start.interval
    <2>1. f[k - 1] \in Seq(Nat) /\ Arrives(wave, r, k) \in Seq(Nat)
      BY <1>2, <1>4, ArrivesType
    <2>2. f[k - 1] \o Arrives(wave, r, k) \in Seq(Nat)
      BY <2>1
    <2> QED BY <1>1, <1>4, <2>2 DEF ArrivingStep
  <1> QED BY <1>3, <1>4

\* Arriving satisfies its recursion.
LEMMA ArrivingDefined ==
    ASSUME NEW s \in Transmissions, NEW r \in Receptions, r.start.interval <= Len(Wave(s))
    PROVE  \E f : /\ f = [k \in Heard(s, r) |-> ArrivingStep(s, r, f, k)]
                  /\ Arriving(s, r) = f[Len(Wave(s))]
  <1> DEFINE D == Heard(s, r)
             V == Seq(Nat)
             size == [k \in D |-> k - r.start.interval]
             step == [x \in D \X [D -> V] |-> ArrivingStep(s, r, x[2], x[1])]
  <1>0. Len(Wave(s)) \in Nat /\ r.start.interval \in Nat
    BY WaveType, ReceptionKinds DEF Waves
  <1>1. ASSUME NEW f \in [D -> V], NEW k \in D
        PROVE  ArrivingStep(s, r, f, k) \in V
    <2>1. k # r.start.interval => k - 1 \in D
      BY <1>0 DEF Heard
    <2>2. k # r.start.interval => f[k - 1] \in Seq(Nat)
      BY <2>1
    <2> QED BY <2>2, ArrivingStepType
  <1>2. step \in [D \X [D -> V] -> V]
    <2>1. ASSUME NEW x \in D \X [D -> V]
          PROVE  ArrivingStep(s, r, x[2], x[1]) \in V
      <3> HIDE DEF D, V
      <3> QED BY <1>1
    <2> HIDE DEF D, V
    <2> QED BY <2>1, Zenon
  <1>3. \A f \in [D -> V] : \A k \in D : step[<<k, f>>] = ArrivingStep(s, r, f, k)
    <2> HIDE DEF D, V
    <2> QED OBVIOUS
  <1>4. size \in [D -> Nat] /\ \A k \in D : size[k] = k - r.start.interval
    BY <1>0 DEF Heard
  <1> HIDE DEF step, size
  <1>5. LooksBelow(D, V, size, step)
    <2>1. ASSUME NEW k \in D, NEW f \in [D -> V], NEW g \in [D -> V],
                 \A q \in D : size[q] < size[k] => f[q] = g[q]
          PROVE  step[<<k, f>>] = step[<<k, g>>]
      <3>1. CASE k = r.start.interval
        <4>1. ArrivingStep(s, r, f, k) = ArrivingStep(s, r, g, k)
          BY <3>1 DEF ArrivingStep
        <4> HIDE DEF D, V
        <4> QED BY <1>3, <4>1
      <3>2. CASE k # r.start.interval
        <4>1. k - 1 \in D /\ size[k - 1] < size[k]
          <5>1. k - 1 \in D
            BY <1>0, <3>2 DEF Heard
          <5>2. size[k - 1] = k - 1 - r.start.interval /\ size[k] = k - r.start.interval
            <6> HIDE DEF D
            <6> QED BY <1>4, <5>1
          <5>3. k \in Int
            BY <1>0 DEF Heard
          <5>4. k - 1 - r.start.interval < k - r.start.interval
            BY <1>0, <5>3
          <5> QED BY <5>1, <5>2, <5>4
        <4>2. f[k - 1] = g[k - 1]
          BY <2>1, <4>1
        <4>3. ArrivingStep(s, r, f, k) = ArrivingStep(s, r, g, k)
          BY <4>2 DEF ArrivingStep
        <4> HIDE DEF D, V
        <4> QED BY <1>3, <4>3
      <3> QED BY <3>1, <3>2
    <2> HIDE DEF D, V
    <2> QED BY <2>1 DEF LooksBelow
  <1>6. <<>> \in V
    OBVIOUS
  <1>7. Recursive(D, V, step)
    <2> HIDE DEF D, V
    <2> QED BY <1>2, <1>4, <1>5, <1>6, Recursion
  <1>8. PICK f \in [D -> V] : \A k \in D : f[k] = step[<<k, f>>]
    BY <1>7 DEF Recursive
  <1>9. f = [k \in D |-> ArrivingStep(s, r, f, k)]
    <2> HIDE DEF D, V
    <2>1. \A k \in D : f[k] = ArrivingStep(s, r, f, k)
      BY <1>3, <1>8
    <2> QED BY <2>1
  <1> DEFINE P(g) == g = [k \in D |-> ArrivingStep(s, r, g, k)]
  <1>10. P(CHOOSE g : P(g))
    <2>1. P(f)
      BY <1>9
    <2> HIDE DEF P
    <2> QED BY <2>1, Zenon
  <1>11. Arriving(s, r) = (CHOOSE g : P(g))[Len(Wave(s))]
    BY DEF Arriving, ArrivingStep, Heard
  <1> QED BY <1>10, <1>11, Zenon

LEMMA ArrivingType ==
    ASSUME NEW s \in Transmissions, NEW r \in Receptions, r.start.interval <= Len(Wave(s))
    PROVE  Arriving(s, r) \in Seq(Nat)
  <1>0. Len(Wave(s)) \in Nat /\ r.start.interval \in Nat
    BY WaveType, ReceptionKinds DEF Waves
  <1>1. PICK f : /\ f = [k \in Heard(s, r) |-> ArrivingStep(s, r, f, k)]
                 /\ Arriving(s, r) = f[Len(Wave(s))]
    BY ArrivingDefined
  <1>2. \A k \in Heard(s, r) : f[k] = ArrivingStep(s, r, f, k)
    BY <1>1, Zenon
  <1> DEFINE S == {n \in Nat : r.start.interval + n <= Len(Wave(s))
                                  => f[r.start.interval + n] \in Seq(Nat)}
  <1>3. 0 \in S
    <2>1. r.start.interval \in Heard(s, r)
      BY <1>0 DEF Heard
    <2>2. f[r.start.interval] \in Seq(Nat)
      BY <1>2, <2>1, ArrivingStepType
    <2> QED BY <1>0, <2>2
  <1>4. ASSUME NEW n \in S
        PROVE  n + 1 \in S
    <2>1. n \in Nat
      OBVIOUS
    <2>2. ASSUME r.start.interval + (n + 1) <= Len(Wave(s))
          PROVE  f[r.start.interval + (n + 1)] \in Seq(Nat)
      <3>1. PICK k \in Heard(s, r) : k = r.start.interval + (n + 1)
        BY <1>0, <2>1, <2>2 DEF Heard
      <3>2. k - 1 = r.start.interval + n /\ r.start.interval + n <= Len(Wave(s))
        <4>1. PICK begin \in Nat, end \in Nat : begin = r.start.interval /\ end = Len(Wave(s))
          BY <1>0
        <4>2. k = begin + (n + 1) /\ begin + (n + 1) <= end
          BY <2>2, <3>1, <4>1, Zenon
        <4> HIDE DEF S
        <4>3. k - 1 = begin + n /\ begin + n <= end
          BY <2>1, <4>2
        <4> QED BY <4>1, <4>3, Zenon
      <3>3. f[k - 1] \in Seq(Nat)
        BY <3>2
      <3>4. f[k] \in Seq(Nat)
        BY <1>2, <3>3, ArrivingStepType
      <3> QED BY <3>1, <3>4
    <2> QED BY <2>1, <2>2
  <1>5. S = Nat
    <2>1. S \subseteq Nat
      OBVIOUS
    <2> HIDE DEF S
    <2> QED BY <1>3, <1>4, <2>1, AllNat
  <1>6. Len(Wave(s)) - r.start.interval \in S
    BY <1>0, <1>5
  <1>7. r.start.interval + (Len(Wave(s)) - r.start.interval) = Len(Wave(s))
    BY <1>0
  <1> QED BY <1>0, <1>1, <1>6, <1>7

\* What is recorded of anything that arrives fits rx_edges_.
LEMMA CapturedType ==
    ASSUME NEW intervals \in Seq(Nat)
    PROVE  Captured(intervals) \in Seq(Uint16) /\ Len(Captured(intervals)) <= MaxEdges
  <1>1. EndedWithin(intervals, CaptureWindow) \in 0 .. Len(intervals)
    <2>1. PICK time \in Nat : time = CaptureWindow
      BY SMT DEF CaptureWindow
    <2> QED BY <2>1, EndedWithinRange
  <1>2. PICK n \in Nat : /\ n = Recorded(EndedWithin(intervals, CaptureWindow))
                         /\ n <= MaxEdges /\ n <= Len(intervals)
    BY <1>1 DEF Recorded, MaxEdges
  <1>3. ASSUME NEW k \in 1 .. n
        PROVE  Delta(intervals[k]) \in Uint16
    <2>1. intervals[k] \in Nat
      BY <1>2
    <2>2. MaxUint16 \in Nat
      BY DEF MaxUint16
    <2> QED BY <2>1, <2>2 DEF Delta, Clamped, Uint16
  <1>4. Captured(intervals) = [k \in 1 .. n |-> Delta(intervals[k])]
    BY <1>2, Zenon DEF Captured
  <1> QED BY <1>2, <1>3, <1>4

-----------------------------------------------------------------------------
(* Words, bit by bit. *)

IsPowers(P) == P \in [Nat -> Nat] /\ P[0] = 1 /\ \A n \in Nat : P[n + 1] = 2 * P[n]

RemoteCount == 2048

\* The powers of two, up to those of a word.
LEMMA Powers == \E P : IsPowers(P) /\ P[11] = RemoteCount /\ P[24] = WordCount
  <1> DEFINE step == [x \in Nat \X Nat |-> 2 * x[2]]
  <1>1. step \in [Nat \X Nat -> Nat] /\ \A n, v \in Nat : step[<<n, v>>] = 2 * v
    OBVIOUS
  <1> HIDE DEF step
  <1>2. Iterable(Nat, 1, step)
    BY <1>1, NatRecursion
  <1>3. PICK P \in [Nat -> Nat] : P[0] = 1 /\ \A n \in Nat : P[n + 1] = step[<<n, P[n]>>]
    BY <1>2 DEF Iterable
  <1>4. \A n \in Nat : P[n + 1] = 2 * P[n]
    BY <1>1, <1>3
  <1>5. P[0+1] = 2 /\ P[1+1] = 4 /\ P[2+1] = 8 /\ P[3+1] = 16 /\ P[4+1] = 32 /\ P[5+1] = 64
    BY <1>3, <1>4
  <1>6. P[6+1] = 128 /\ P[7+1] = 256 /\ P[8+1] = 512 /\ P[9+1] = 1024 /\ P[10+1] = 2048
    BY <1>4, <1>5
  <1>7. P[11+1] = 4096 /\ P[12+1] = 8192 /\ P[13+1] = 16384 /\ P[14+1] = 32768 /\ P[15+1] = 65536
    BY <1>4, <1>6, SMT
  <1>8. P[16+1] = 2 * 65536 /\ P[17+1] = 4 * 65536 /\ P[18+1] = 8 * 65536 /\ P[19+1] = 16 * 65536
    BY <1>4, <1>7, SMT
  <1>9. P[20+1] = 32 * 65536 /\ P[21+1] = 64 * 65536 /\ P[22+1] = 128 * 65536
        /\ P[23+1] = 256 * 65536
    BY <1>4, <1>8, SMT
  <1>10. P[11] = RemoteCount /\ P[24] = WordCount
    BY <1>6, <1>9, SMT DEF WordCount, RemoteCount
  <1> QED BY <1>3, <1>4, <1>10 DEF IsPowers

\* The recursion of BitsValue ends.
LEMMA BitsDefined ==
    ASSUME NEW e, NEW i, NEW from \in Nat, NEW to \in Nat, 1 <= from, from <= to + 1
    PROVE  \E v : /\ BitsValue(e, i, from, to) = v[to]
                  /\ v[from - 1] = 0
                  /\ \A j \in from .. to : v[j] = 2 * v[j - 1] + BitAt(e, i, j)
  <1> DEFINE step == [x \in Nat \X Nat |-> 2 * x[2] + BitAt(e, i, from + x[1])]
             Body(v) == [j \in (from - 1) .. to |->
                           IF j < from THEN 0 ELSE 2 * v[j - 1] + BitAt(e, i, j)]
             P(v) == v = Body(v)
  <1>1. \A j : BitAt(e, i, j) \in {0, 1}
    BY DEF BitAt
  <1>2. step \in [Nat \X Nat -> Nat]
    <2>1. ASSUME NEW x \in Nat \X Nat
          PROVE  2 * x[2] + BitAt(e, i, from + x[1]) \in Nat
      BY <1>1
    <2> QED BY <2>1
  <1>3. \A n, v \in Nat : step[<<n, v>>] = 2 * v + BitAt(e, i, from + n)
    OBVIOUS
  <1> HIDE DEF step
  <1>4. Iterable(Nat, 0, step)
    BY <1>2, NatRecursion
  <1>5. PICK w \in [Nat -> Nat] : w[0] = 0 /\ \A n \in Nat : w[n + 1] = step[<<n, w[n]>>]
    BY <1>4 DEF Iterable
  <1>6. \A n \in Nat : w[n + 1] = 2 * w[n] + BitAt(e, i, from + n)
    BY <1>3, <1>5
  <1> DEFINE u == [j \in (from - 1) .. to |-> w[j - from + 1]]
  <1>7. P(u)
    <2>1. ASSUME NEW j \in (from - 1) .. to
          PROVE  w[j - from + 1] = IF j < from THEN 0 ELSE 2 * u[j - 1] + BitAt(e, i, j)
      <3>1. CASE j < from
        <4>1. j - from + 1 = 0
          BY <3>1
        <4> QED BY <1>5, <3>1, <4>1
      <3>2. CASE ~(j < from)
        <4>1. j - from \in Nat /\ j - 1 \in (from - 1) .. to
              /\ j - 1 - from + 1 = j - from /\ from + (j - from) = j
          BY <3>2
        <4>2. u[j - 1] = w[j - from]
          BY <4>1
        <4>3. w[j - from + 1] = 2 * w[j - from] + BitAt(e, i, from + (j - from))
          BY <1>6, <4>1
        <4> QED BY <3>2, <4>1, <4>2, <4>3
      <3> QED BY <3>1, <3>2
    <2> QED BY <2>1
  <1> DEFINE v == CHOOSE x : P(x)
  <1>8. P(v)
    <2> HIDE DEF P, u
    <2> QED BY <1>7, Zenon
  <1>9. BitsValue(e, i, from, to) = v[to]
    BY DEF BitsValue
  <1> HIDE DEF v
  <1>10. v[from - 1] = 0 /\ \A j \in from .. to : v[j] = 2 * v[j - 1] + BitAt(e, i, j)
    <2>1. \A j \in (from - 1) .. to :
             v[j] = IF j < from THEN 0 ELSE 2 * v[j - 1] + BitAt(e, i, j)
      BY <1>8, Zenon
    <2>2. from - 1 \in (from - 1) .. to /\ from - 1 < from
      OBVIOUS
    <2>3. \A j \in from .. to : j \in (from - 1) .. to /\ ~(j < from)
      OBVIOUS
    <2> HIDE DEF P, Body
    <2> QED BY <2>1, <2>2, <2>3
  <1> QED BY <1>9, <1>10

\* A word of n bits is less than 2^n.
LEMMA BitsRange ==
    ASSUME NEW e, NEW i, NEW from \in Nat, NEW to \in Nat, 1 <= from, from <= to + 1,
           NEW P, IsPowers(P)
    PROVE  BitsValue(e, i, from, to) \in Nat /\ BitsValue(e, i, from, to) < P[to - from + 1]
  <1>1. PICK v : /\ BitsValue(e, i, from, to) = v[to]
                 /\ v[from - 1] = 0
                 /\ \A j \in from .. to : v[j] = 2 * v[j - 1] + BitAt(e, i, j)
    BY BitsDefined
  <1>2. P \in [Nat -> Nat] /\ P[0] = 1 /\ \A n \in Nat : P[n + 1] = 2 * P[n]
    BY DEF IsPowers
  <1> DEFINE S == {n \in Nat : from - 1 + n <= to
                                  => v[from - 1 + n] \in Nat /\ v[from - 1 + n] < P[n]}
  <1>3. 0 \in S
    BY <1>1, <1>2
  <1>4. ASSUME NEW n \in S
        PROVE  n + 1 \in S
    <2>1. n \in Nat
      OBVIOUS
    <2>2. ASSUME from - 1 + (n + 1) <= to
          PROVE  v[from - 1 + (n + 1)] \in Nat /\ v[from - 1 + (n + 1)] < P[n + 1]
      <3>1. PICK j \in from .. to : j = from - 1 + (n + 1)
        BY <2>1, <2>2
      <3>2. j - 1 = from - 1 + n /\ from - 1 + n <= to
        BY <2>1, <3>1
      <3>3. v[j - 1] \in Nat /\ v[j - 1] < P[n]
        BY <3>2
      <3>4. v[j] = 2 * v[j - 1] + BitAt(e, i, j) /\ BitAt(e, i, j) \in {0, 1}
        BY <1>1 DEF BitAt
      <3>5. P[n + 1] = 2 * P[n] /\ P[n] \in Nat
        BY <1>2, <2>1
      <3>6. PICK x \in Nat, b \in {0, 1}, p \in Nat :
               x = v[j - 1] /\ b = BitAt(e, i, j) /\ p = P[n]
        BY <3>3, <3>4, <3>5
      <3>7. 2 * x + b \in Nat /\ 2 * x + b < 2 * p
        BY <3>3, <3>6
      <3> QED BY <3>1, <3>4, <3>5, <3>6, <3>7
    <2> QED BY <2>1, <2>2
  <1>5. S = Nat
    <2>1. S \subseteq Nat
      OBVIOUS
    <2> HIDE DEF S
    <2> QED BY <1>3, <1>4, <2>1, AllNat
  <1>6. to - from + 1 \in S
    BY <1>5
  <1>7. from - 1 + (to - from + 1) = to
    OBVIOUS
  <1> QED BY <1>1, <1>6, <1>7

-----------------------------------------------------------------------------
(* Candidates. *)

\* The first edge after the run of symbols that starts at i.
RunEndOf(e, i) ==
    CHOOSE t \in Ends(e) :
        /\ t >= i /\ (t - i) % 2 = 0
        /\ \A u \in Ends(e) : u >= i /\ (u - i) % 2 = 0 => t <= u

LEMMA RunEndFacts ==
    ASSUME NEW e, Len(e) \in Nat, NEW i \in ScanStarts(e)
    PROVE  LET t == RunEndOf(e, i)
           IN  /\ t \in Ends(e) /\ t \in Nat /\ t >= i /\ (t - i) % 2 = 0
               /\ \A u \in Ends(e) : u >= i /\ (u - i) % 2 = 0 => t <= u
  <1> DEFINE T == {t \in Ends(e) : t >= i /\ (t - i) % 2 = 0}
  <1>1. i \in Nat /\ 1 <= i /\ i <= Len(e) - 1
    BY DEF ScanStarts
  <1>2. Len(e) \in Ends(e) /\ Len(e) + 1 \in Ends(e)
    BY <1>1 DEF Ends
  <1>3. (Len(e) - i) % 2 = 0 \/ (Len(e) + 1 - i) % 2 = 0
    BY <1>1
  <1>4. T # {} /\ T \subseteq Nat
    <2>1. Ends(e) \subseteq Nat
      BY DEF Ends
    <2> QED BY <1>1, <1>2, <1>3, <2>1
  <1>5. PICK m \in T : \A n \in T : m <= n
    <2> HIDE DEF T
    <2> QED BY <1>4, Least
  <1> DEFINE Q(t) == /\ t >= i /\ (t - i) % 2 = 0
                     /\ \A u \in Ends(e) : u >= i /\ (u - i) % 2 = 0 => t <= u
  <1>6. m \in Ends(e) /\ Q(m)
    BY <1>5
  <1>7. RunEndOf(e, i) \in Ends(e) /\ Q(RunEndOf(e, i))
    <2>1. RunEndOf(e, i) = CHOOSE t \in Ends(e) : Q(t)
      BY DEF RunEndOf
    <2> HIDE DEF Q
    <2> QED BY <1>6, <2>1, Zenon
  <1>8. RunEndOf(e, i) \in Nat
    BY <1>7 DEF Ends
  <1> QED BY <1>7, <1>8

\* What the scan finds.
LEMMA CandidateKinds ==
    ASSUME NEW e
    PROVE  Candidates(e) =
              {c \in {[start |-> i, bits |-> (RunEndOf(e, i) - i) \div 2] : i \in ScanStarts(e)} :
                  c.bits \in MinBits .. MaxBits}
  BY DEF Candidates, RunEndOf

LEMMA CandidateFacts ==
    ASSUME NEW e, NEW c \in Candidates(e)
    PROVE  /\ c.start \in ScanStarts(e) /\ c.start \in Nat
           /\ c.bits \in Nat /\ MinBits <= c.bits /\ c.bits <= MaxBits
           /\ c = [start |-> c.start, bits |-> c.bits]
  <1>1. PICK i \in ScanStarts(e) :
           c = [start |-> i, bits |-> (RunEndOf(e, i) - i) \div 2] /\ c.bits \in MinBits .. MaxBits
    BY CandidateKinds
  <1>2. i \in Nat
    BY DEF ScanStarts
  <1>3. MinBits \in Nat /\ MaxBits \in Nat
    BY DEF MinBits, MaxBits
  <1> QED BY <1>1, <1>2, <1>3

\* The word and the identifier of a candidate fit 24 and 11 bits.
LEMMA FieldsRange ==
    ASSUME NEW e, NEW c \in Candidates(e)
    PROVE  Low24(e, c) \in Words /\ Remote(e, c) \in RemoteIds
  <1>1. PICK P : IsPowers(P) /\ P[11] = RemoteCount /\ P[24] = WordCount
    BY Powers
  <1>2. PICK bits \in Nat : bits = c.bits /\ bits >= 24
    BY CandidateFacts DEF MinBits
  <1>3. Low24(e, c) \in Words
    <2>1. PICK from \in Nat : from = bits - 23 /\ 1 <= from /\ from <= bits + 1 /\ bits - from + 1 = 24
      BY <1>2
    <2>2. BitsValue(e, c.start, from, bits) \in Nat
          /\ BitsValue(e, c.start, from, bits) < P[bits - from + 1]
      <3>1. IsPowers(P) /\ 1 <= from /\ from <= bits + 1
        BY <1>1, <2>1
      <3> QED BY <3>1, BitsRange, Zenon
    <2>3. WordCount \in Nat
      BY SMT DEF WordCount
    <2>4. Low24(e, c) = BitsValue(e, c.start, from, bits)
      BY <1>2, <2>1 DEF Low24
    <2> QED BY <1>1, <2>1, <2>2, <2>3, <2>4 DEF Words
  <1>4. Remote(e, c) \in RemoteIds
    <2>1. PICK to \in Nat : to = PrefixBits /\ to = 11 /\ to - 1 + 1 = 11
      BY DEF PrefixBits
    <2>2. BitsValue(e, c.start, 1, to) \in Nat /\ BitsValue(e, c.start, 1, to) < P[11]
      <3>1. IsPowers(P) /\ 1 <= 1 /\ 1 <= to + 1 /\ 1 \in Nat /\ to - 1 + 1 = 11
        BY <1>1, <2>1
      <3>2. BitsValue(e, c.start, 1, to) \in Nat /\ BitsValue(e, c.start, 1, to) < P[to - 1 + 1]
        BY <3>1, BitsRange, Zenon
      <3> QED BY <3>1, <3>2
    <2> QED BY <1>1, <2>1, <2>2, SMT DEF Remote, RemoteIds, RemoteCount
  <1> QED BY <1>3, <1>4

\* What a command of either family scores besides its bits.
TopBonus == 1120

LEMMA BonusValues ==
    ASSUME NEW low24
    PROVE  Bonus(low24) \in {0, 20, 100, 120, 1000, 1020, 1100, TopBonus}
  <1> DEFINE a == IF low24 \div 65536 \in {64, 96} THEN 1000 ELSE 0
             b == IF low24 % 16 \in VentCommands THEN 100 ELSE 0
             c == IF (low24 \div 16) % 16 <= 7 THEN 20 ELSE 0
  <1>1. a \in {0, 1000} /\ b \in {0, 100} /\ c \in {0, 20}
    OBVIOUS
  <1>2. Bonus(low24) = a + b + c
    BY DEF Bonus
  <1> HIDE DEF a, b, c
  <1>3. a + b + c \in {0, 20, 100, 120, 1000, 1020, 1100, 1120}
    BY <1>1, SMT
  <1> QED BY <1>2, <1>3, SMT DEF TopBonus

LEMMA ScoreType ==
    ASSUME NEW e, NEW c \in Candidates(e)
    PROVE  /\ Bonus(Low24(e, c)) \in 0 .. TopBonus
           /\ Score(e, c) \in Nat /\ Score(e, c) = c.bits + Bonus(Low24(e, c))
           /\ Score(e, c) <= MaxBits + TopBonus
  <1>1. Bonus(Low24(e, c)) \in 0 .. TopBonus
    BY BonusValues, SMT DEF TopBonus
  <1>2. c.bits \in Nat /\ c.bits <= MaxBits /\ MaxBits \in Nat
    BY CandidateFacts DEF MaxBits
  <1>3. TopBonus \in Nat
    BY SMT DEF TopBonus
  <1>4. PICK b \in 0 .. TopBonus : b = Bonus(Low24(e, c))
    BY <1>1, Zenon
  <1>5. Score(e, c) = c.bits + b
    BY <1>4, Zenon DEF Score
  <1>6. c.bits + b \in Nat /\ c.bits + b <= MaxBits + TopBonus
    BY <1>2, <1>3, SMT
  <1> QED BY <1>4, <1>5, <1>6, Zenon

\* The scan settles on a candidate, and no other one scores more.
LEMMA BestIsOne ==
    ASSUME NEW e, Candidates(e) # {}
    PROVE  /\ Best(e) \in Candidates(e)
           /\ \A c \in Candidates(e) : Score(e, c) <= Score(e, Best(e))
  <1> DEFINE Scored(c) == [c |-> c, score |-> Score(e, c)]
             scored == {Scored(c) : c \in Candidates(e)}
             Beats(x, y) ==
                \/ x.score > y.score
                \/ /\ x.score = y.score
                   /\ x.c.bits > y.c.bits \/ (x.c.bits = y.c.bits /\ x.c.start <= y.c.start)
             W(x) == \A y \in scored : Beats(x, y)
  <1>1. PICK b1 \in Candidates(e) : \A c \in Candidates(e) : Score(e, c) <= Score(e, b1)
    <2> DEFINE T == {Score(e, c) : c \in Candidates(e)}
    <2>1. T # {} /\ T \subseteq Int /\ \A n \in T : n <= MaxBits + TopBonus
      BY ScoreType
    <2>2. PICK top \in Int : top = MaxBits + TopBonus
      BY SMT DEF MaxBits, TopBonus
    <2>3. PICK m \in T : \A n \in T : n <= m
      <3>1. \A n \in T : n <= top
        BY <2>1, <2>2
      <3> HIDE DEF T
      <3> QED BY <2>1, <3>1, Greatest, Zenon
    <2> QED BY <2>3
  <1> DEFINE C1 == {c \in Candidates(e) : Score(e, c) = Score(e, b1)}
  <1>2. PICK b2 \in C1 : \A c \in C1 : c.bits <= b2.bits
    <2> DEFINE T == {c.bits : c \in C1}
    <2>1. T # {} /\ T \subseteq Int /\ \A n \in T : n <= MaxBits
      BY CandidateFacts
    <2>2. MaxBits \in Int
      BY DEF MaxBits
    <2>3. PICK m \in T : \A n \in T : n <= m
      <3> HIDE DEF T
      <3> QED BY <2>1, <2>2, Greatest
    <2> QED BY <2>3
  <1> DEFINE C2 == {c \in C1 : c.bits = b2.bits}
  <1>3. PICK b3 \in C2 : \A c \in C2 : b3.start <= c.start
    <2> DEFINE T == {c.start : c \in C2}
    <2>1. T # {} /\ T \subseteq Nat
      BY CandidateFacts
    <2>2. PICK m \in T : \A n \in T : m <= n
      <3> HIDE DEF T
      <3> QED BY <2>1, Least
    <2> QED BY <2>2
  <1>4. \A c \in Candidates(e) :
           Scored(c).c = c /\ Scored(c).score = Score(e, c) /\ Scored(c) \in scored
    OBVIOUS
  <1>5. b3 \in Candidates(e) /\ Score(e, b3) = Score(e, b1) /\ b3.bits = b2.bits
    BY <1>3
  <1>6. ASSUME NEW c \in Candidates(e)
        PROVE  Beats(Scored(b3), Scored(c))
    <2>1. Score(e, c) \in Nat /\ Score(e, b3) \in Nat /\ c.bits \in Nat /\ b3.bits \in Nat
          /\ c.start \in Nat /\ b3.start \in Nat
      BY <1>5, ScoreType, CandidateFacts
    <2>2. Score(e, c) <= Score(e, b3)
      BY <1>1, <1>5
    <2>3. CASE Score(e, c) < Score(e, b3)
      BY <1>4, <1>5, <2>1, <2>3
    <2>4. CASE Score(e, c) = Score(e, b3)
      <3>1. c \in C1 /\ c.bits <= b3.bits
        BY <1>2, <1>5, <2>4
      <3>2. c.bits = b3.bits => b3.start <= c.start
        BY <1>3, <1>5, <3>1
      <3> QED BY <1>4, <1>5, <2>1, <2>4, <3>1, <3>2
    <2> QED BY <2>1, <2>2, <2>3, <2>4
  <1>7. Scored(b3) \in scored /\ W(Scored(b3))
    <2>1. \A y \in scored : \E c \in Candidates(e) : y = Scored(c)
      OBVIOUS
    <2> HIDE DEF scored, Scored, Beats
    <2> QED BY <1>4, <1>5, <1>6, <2>1
  <1> DEFINE x == CHOOSE s \in scored : W(s)
  <1>8. x \in scored /\ W(x)
    <2> HIDE DEF scored, Scored, W
    <2> QED BY <1>7, Zenon
  <1>9. Best(e) = x.c
    BY DEF Best
  <1> HIDE DEF x
  <1>10. PICK b \in Candidates(e) : x = Scored(b)
    BY <1>8
  <1>11. \A c \in Candidates(e) : Score(e, c) <= Score(e, b)
    <2>1. ASSUME NEW c \in Candidates(e)
          PROVE  Score(e, c) <= Score(e, b)
      <3>1. Beats(Scored(b), Scored(c))
        BY <1>4, <1>8, <1>10
      <3>2. Score(e, b) > Score(e, c) \/ Score(e, b) = Score(e, c)
        BY <1>4, <3>1
      <3> QED BY <3>2, ScoreType
    <2> QED BY <2>1
  <1> QED BY <1>4, <1>9, <1>10, <1>11

Kinds == {"none", "discarded", "unknown", "clipped", "complete"}
Outcomes == [kind : Kinds, bits : 0 .. MaxBits, remote : RemoteIds, low24 : Words]

LEMMA UndecodedType ==
    ASSUME NEW kind \in Kinds
    PROVE  Undecoded(kind) \in Outcomes
  <1>1. 0 \in RemoteIds
    BY SMT DEF RemoteIds
  <1>2. 0 \in Words
    <2>1. WordCount \in Nat /\ WordCount > 0
      BY SMT DEF WordCount
    <2> QED BY <2>1 DEF Words
  <1>3. 0 \in 0 .. MaxBits
    BY DEF MaxBits
  <1> HIDE DEF Kinds
  <1> QED BY <1>1, <1>2, <1>3 DEF Undecoded, Outcomes

\* Whatever is recorded decodes to a well-formed outcome.
LEMMA DecodedType ==
    ASSUME NEW e \in Seq(Uint16)
    PROVE  Decoded(e) \in Outcomes
  <1>0. Len(e) \in Nat /\ RxMinEdges \in Nat
    BY DEF RxMinEdges
  <1>1. CASE Len(e) < RxMinEdges
    <2>1. ~(Len(e) >= RxMinEdges)
      BY <1>0, <1>1
    <2>2. Decoded(e) = Undecoded("discarded")
      BY <1>1, <2>1 DEF Decoded
    <2> QED BY <2>2, UndecodedType DEF Kinds
  <1>2. CASE Len(e) >= RxMinEdges /\ (~Outprizeish(e) \/ Candidates(e) = {})
    <2>1. ~(Len(e) < RxMinEdges)
      BY <1>0, <1>2
    <2>2. Decoded(e) = Undecoded("unknown")
      BY <1>2, <2>1 DEF Decoded
    <2> QED BY <2>2, UndecodedType DEF Kinds
  <1>3. CASE Len(e) >= RxMinEdges /\ Outprizeish(e) /\ Candidates(e) # {}
    <2>1. ~(Len(e) < RxMinEdges)
      BY <1>0, <1>3
    <2>2. PICK best \in Candidates(e) : best = Best(e)
      BY <1>3, BestIsOne
    <2>3. Decoded(e) = [kind |-> IF IsComplete(best) THEN "complete" ELSE "clipped",
                        bits |-> best.bits, low24 |-> Low24(e, best),
                        remote |-> IF best.bits >= FrameBits THEN Remote(e, best) ELSE 0]
      BY <1>3, <2>1, <2>2 DEF Decoded
    <2>4. best.bits \in 0 .. MaxBits
      <3>1. best.bits \in Nat /\ best.bits <= MaxBits
        BY CandidateFacts, Zenon
      <3>2. MaxBits \in Nat
        BY DEF MaxBits
      <3> QED BY <3>1, <3>2
    <2>5. PICK remote \in RemoteIds :
             remote = IF best.bits >= FrameBits THEN Remote(e, best) ELSE 0
      <3>1. 0 \in RemoteIds
        BY SMT DEF RemoteIds
      <3> QED BY <3>1, FieldsRange
    <2>6. PICK kind \in Kinds : kind = IF IsComplete(best) THEN "complete" ELSE "clipped"
      BY DEF Kinds
    <2>7. PICK low24 \in Words : low24 = Low24(e, best)
      BY FieldsRange
    <2> HIDE DEF Kinds
    <2> QED BY <2>3, <2>4, <2>5, <2>6, <2>7 DEF Outcomes
  <1> QED BY <1>0, <1>1, <1>2, <1>3

-----------------------------------------------------------------------------
(* What a whole repeat reads as. *)

\* Shifting by one is halving.
LEMMA ShiftedFacts ==
    ASSUME NEW n \in Nat
    PROVE  /\ Shifted(n)[0] = n
           /\ \A k \in Nat : Shifted(n)[k] \in Nat /\ Shifted(n)[k + 1] = Shifted(n)[k] \div 2
  <1> DEFINE step == [x \in Nat \X Nat |-> x[2] \div 2]
             P(g) == g = [k \in Nat |-> IF k = 0 THEN n ELSE g[k - 1] \div 2]
  <1>1. step \in [Nat \X Nat -> Nat] /\ \A k, v \in Nat : step[<<k, v>>] = v \div 2
    OBVIOUS
  <1> HIDE DEF step
  <1>2. Iterable(Nat, n, step)
    BY <1>1, NatRecursion
  <1>3. PICK f \in [Nat -> Nat] : f[0] = n /\ \A k \in Nat : f[k + 1] = step[<<k, f[k]>>]
    BY <1>2 DEF Iterable
  <1>4. P(f)
    <2>1. ASSUME NEW k \in Nat
          PROVE  f[k] = IF k = 0 THEN n ELSE f[k - 1] \div 2
      <3>1. CASE k # 0
        <4>1. k - 1 \in Nat /\ (k - 1) + 1 = k
          BY <3>1
        <4>2. f[(k - 1) + 1] = step[<<k - 1, f[k - 1]>>] /\ f[k - 1] \in Nat
          BY <1>3, <4>1
        <4> QED BY <1>1, <3>1, <4>1, <4>2
      <3> QED BY <1>3, <3>1
    <2> QED BY <2>1
  <1> DEFINE g == CHOOSE h : P(h)
  <1>5. P(g)
    <2> HIDE DEF P
    <2> QED BY <1>4, Zenon
  <1>6. Shifted(n) = g
    BY DEF Shifted
  <1> HIDE DEF g
  <1>7. \A k \in Nat : g[k] = IF k = 0 THEN n ELSE g[k - 1] \div 2
    BY <1>5, Zenon
  <1>8. g[0] = n
    BY <1>7
  <1>9. \A k \in Nat : g[k + 1] = g[k] \div 2
    <2>1. ASSUME NEW k \in Nat
          PROVE  g[k + 1] = g[k] \div 2
      <3>1. k + 1 \in Nat /\ k + 1 # 0 /\ (k + 1) - 1 = k
        OBVIOUS
      <3>2. g[k + 1] = g[(k + 1) - 1] \div 2
        BY <1>7, <3>1
      <3> QED BY <3>1, <3>2
    <2> QED BY <2>1
  <1> DEFINE S == {k \in Nat : g[k] \in Nat}
  <1>10. S = Nat
    <2>1. 0 \in S
      BY <1>8
    <2>2. ASSUME NEW k \in S
          PROVE  k + 1 \in S
      <3>1. g[k] \in Nat /\ k \in Nat
        OBVIOUS
      <3>2. g[k] \div 2 \in Nat
        BY <3>1
      <3> QED BY <1>9, <3>1, <3>2
    <2>3. S \subseteq Nat
      OBVIOUS
    <2> HIDE DEF S
    <2> QED BY <2>1, <2>2, <2>3, AllNat
  <1>11. \A k \in Nat : g[k] \in Nat
    BY <1>10
  <1> QED BY <1>6, <1>8, <1>9, <1>11, Zenon

\* Shifting a word of m bits by m leaves nothing.
LEMMA ShiftedOut ==
    ASSUME NEW P, IsPowers(P), NEW m \in Nat, NEW n \in Nat, n < P[m]
    PROVE  Shifted(n)[m] = 0
  <1>0. P \in [Nat -> Nat] /\ P[0] = 1 /\ \A k \in Nat : P[k + 1] = 2 * P[k]
    BY DEF IsPowers
  <1> DEFINE g == Shifted(n)
             S == {k \in Nat : k <= m => g[k] < P[m - k]}
  <1>1. g[0] = n /\ \A k \in Nat : g[k] \in Nat /\ g[k + 1] = g[k] \div 2
    BY ShiftedFacts
  <1> HIDE DEF g
  <1>2. 0 \in S
    BY <1>1
  <1>3. ASSUME NEW k \in S
        PROVE  k + 1 \in S
    <2>1. k \in Nat
      OBVIOUS
    <2>2. ASSUME k + 1 <= m
          PROVE  g[k + 1] < P[m - (k + 1)]
      <3>1. g[k] < P[m - k]
        BY <2>1, <2>2
      <3>2. PICK d \in Nat : d = m - (k + 1) /\ d + 1 = m - k
        BY <2>1, <2>2
      <3>3. PICK p \in Nat, v \in Nat : p = P[d] /\ v = g[k] /\ g[k + 1] = v \div 2
        BY <1>0, <1>1, <2>1
      <3>4. v < 2 * p
        BY <1>0, <3>1, <3>2, <3>3
      <3>5. v \div 2 < p
        BY <3>4
      <3> QED BY <3>2, <3>3, <3>5
    <2> QED BY <2>1, <2>2
  <1>4. S = Nat
    <2>1. S \subseteq Nat
      OBVIOUS
    <2> HIDE DEF S
    <2> QED BY <1>2, <1>3, <2>1, AllNat
  <1>5. g[m] < P[m - m]
    BY <1>4
  <1>6. m - m = 0 /\ g[m] \in Nat
    BY <1>1
  <1>7. g[m] = 0
    BY <1>0, <1>5, <1>6
  <1> QED BY <1>7 DEF g

\* Bits from .. to are those of n, the most significant one first.
BitsOf(e, i, from, to, n) == \A j \in from .. to : BitAt(e, i, j) = Shifted(n)[to - j] % 2

\* They read as n.
LEMMA WordRead ==
    ASSUME NEW e, NEW i, NEW from \in Nat, NEW to \in Nat, 1 <= from, from <= to + 1,
           NEW P, IsPowers(P), NEW n \in Nat, n < P[to - from + 1],
           BitsOf(e, i, from, to, n)
    PROVE  BitsValue(e, i, from, to) = n
  <1>1. PICK v : /\ BitsValue(e, i, from, to) = v[to]
                 /\ v[from - 1] = 0
                 /\ \A j \in from .. to : v[j] = 2 * v[j - 1] + BitAt(e, i, j)
    BY BitsDefined
  <1> DEFINE g == Shifted(n)
             m == to - from + 1
             S == {k \in Nat : k <= m => v[from - 1 + k] = g[m - k]}
  <1>2. g[0] = n /\ \A k \in Nat : g[k] \in Nat /\ g[k + 1] = g[k] \div 2
    BY ShiftedFacts
  <1>3. m \in Nat /\ g[m] = 0
    <2>1. m \in Nat
      OBVIOUS
    <2>2. n < P[m]
      OBVIOUS
    <2> HIDE DEF m
    <2> QED BY <2>1, <2>2, ShiftedOut
  <1>4. \A j \in from .. to : BitAt(e, i, j) = g[to - j] % 2
    BY DEF BitsOf
  <1> HIDE DEF g
  <1>5. 0 \in S
    BY <1>1, <1>3
  <1>6. ASSUME NEW k \in S
        PROVE  k + 1 \in S
    <2>1. k \in Nat
      OBVIOUS
    <2>2. ASSUME k + 1 <= m
          PROVE  v[from - 1 + (k + 1)] = g[m - (k + 1)]
      <3>1. PICK j \in from .. to : j = from - 1 + (k + 1) /\ j - 1 = from - 1 + k
        BY <2>1, <2>2
      <3>2. PICK d \in Nat : d = m - (k + 1) /\ d + 1 = m - k /\ d = to - j
        BY <2>1, <2>2, <3>1
      <3>3. v[j] = 2 * v[j - 1] + BitAt(e, i, j)
        BY <1>1
      <3>4. v[j - 1] = g[d + 1]
        BY <2>1, <2>2, <3>1, <3>2
      <3>5. BitAt(e, i, j) = g[d] % 2
        BY <1>4, <3>2
      <3>6. PICK x \in Nat : x = g[d] /\ g[d + 1] = x \div 2
        BY <1>2
      <3>7. 2 * (x \div 2) + (x % 2) = x
        OBVIOUS
      <3> QED BY <3>1, <3>2, <3>3, <3>4, <3>5, <3>6, <3>7
    <2> QED BY <2>1, <2>2
  <1>7. S = Nat
    <2>1. S \subseteq Nat
      OBVIOUS
    <2> HIDE DEF S
    <2> QED BY <1>5, <1>6, <2>1, AllNat
  <1>8. v[from - 1 + m] = g[m - m]
    <2>1. m \in S
      BY <1>3, <1>7
    <2>2. m <= m
      BY <1>3
    <2> QED BY <2>1, <2>2
  <1>9. from - 1 + m = to /\ m - m = 0
    OBVIOUS
  <1> QED BY <1>1, <1>2, <1>8, <1>9

\* The pulse and the gap of bit j of a frame whose edges are those from i on.
PulseOf(e, i, j) == e[i + 2 * j - 2]
GapOf(e, i, j) == e[i + 2 * j - 1]

\* The edges from i on are those of a frame, received with a stretch that the
\* bands of the decoder allow, and no symbol follows them.
CleanAt(e, i, f, x) ==
    /\ i \in 1 .. Len(e) - DataEdges + 1
    /\ SubSeq(e, i, i + DataEdges - 1) =
          [k \in 1 .. DataEdges |-> SentData(f)[k] + (IF k % 2 = 0 THEN x ELSE -x)]
    /\ i + DataEdges \in Ends(e)

Frames == [remote : RemoteIds, low24 : Words]

LEMMA FrameType ==
    ASSUME NEW f \in Frames
    PROVE  /\ f.remote \in Nat /\ f.remote < RemoteCount
           /\ f.low24 \in Nat /\ f.low24 < WordCount
  <1>1. f.remote \in RemoteIds /\ f.low24 \in Words
    BY DEF Frames
  <1>2. \A n \in RemoteIds : n \in Nat /\ n < RemoteCount
    BY SMT DEF RemoteIds, RemoteCount
  <1>3. WordCount \in Nat
    BY SMT DEF WordCount
  <1>4. \A n \in Words : n \in Nat /\ n < WordCount
    BY <1>3 DEF Words
  <1> QED BY <1>1, <1>2, <1>4, Zenon

LEMMA BitType ==
    ASSUME NEW f \in Frames, NEW j \in 1 .. FrameBits
    PROVE  FrameBit(f, j) \in {0, 1}
  <1>1. \A n \in Nat : n % 2 \in {0, 1}
    OBVIOUS
  <1>2. PrefixBits \in Nat /\ FrameBits \in Nat
    BY DEF PrefixBits, FrameBits
  <1>3. j \in Nat /\ (j <= PrefixBits => PrefixBits - j \in Nat) /\ FrameBits - j \in Nat
    BY <1>2
  <1>4. j <= PrefixBits => Shifted(f.remote)[PrefixBits - j] \in Nat
    BY <1>3, FrameType, ShiftedFacts
  <1>5. Shifted(f.low24)[FrameBits - j] \in Nat
    BY <1>3, FrameType, ShiftedFacts
  <1> QED BY <1>1, <1>4, <1>5, Zenon DEF FrameBit

\* A pulse and a gap of each bit.
LEMMA CleanEdges ==
    ASSUME NEW e \in Seq(Uint16), NEW i, NEW f \in Frames, NEW x \in Int, CleanAt(e, i, f, x),
           NEW j \in 1 .. FrameBits
    PROVE  /\ i + 2 * j - 2 \in 1 .. Len(e) /\ i + 2 * j - 1 \in 1 .. Len(e)
           /\ PulseOf(e, i, j) = 500 - x
           /\ FrameBit(f, j) = 1 => GapOf(e, i, j) = 1500 + x
           /\ FrameBit(f, j) = 0 => GapOf(e, i, j) = 500 + x
  <1>0. FrameBits \in Nat /\ DataEdges = 2 * FrameBits /\ Len(e) \in Nat
    BY DEF FrameBits, DataEdges
  <1>1. i \in Nat /\ 1 <= i /\ i + DataEdges - 1 <= Len(e) /\ j \in Nat /\ 1 <= j /\ j <= FrameBits
    BY <1>0 DEF CleanAt
  <1>2. 2 * j - 1 \in 1 .. DataEdges /\ 2 * j \in 1 .. DataEdges
    BY <1>0, <1>1
  <1>3. ASSUME NEW k \in 1 .. DataEdges
        PROVE  /\ i + k - 1 \in 1 .. Len(e)
               /\ e[i + k - 1] = SentData(f)[k] + (IF k % 2 = 0 THEN x ELSE -x)
    <2> DEFINE d == [y \in 1 .. DataEdges |->
                        SentData(f)[y] + (IF y % 2 = 0 THEN x ELSE -x)]
               s == SubSeq(e, i, i + DataEdges - 1)
    <2>1. i + k - 1 \in 1 .. Len(e)
      BY <1>0, <1>1
    <2>2. s = d
      BY DEF CleanAt
    <2>3. s[k] = e[i + k - 1]
      BY <1>0, <1>1
    <2>4. d[k] = SentData(f)[k] + (IF k % 2 = 0 THEN x ELSE -x)
      OBVIOUS
    <2> HIDE DEF d, s
    <2> QED BY <2>1, <2>2, <2>3, <2>4, Zenon
  <1>4. SentData(f)[2 * j - 1] = 500
    <2>1. (2 * j - 1) % 2 = 1
      BY <1>1
    <2> QED BY <1>2, <2>1 DEF Data, SentData
  <1>5. SentData(f)[2 * j] = IF FrameBit(f, j) = 1 THEN 1500 ELSE 500
    <2>1. (2 * j) % 2 # 1 /\ (2 * j) \div 2 = j
      BY <1>1
    <2> QED BY <1>2, <2>1 DEF Data, SentData
  <1>6. i + (2 * j - 1) - 1 = i + 2 * j - 2 /\ i + 2 * j - 1 \in Int /\ (2 * j - 1) % 2 # 0
        /\ (2 * j) % 2 = 0
    BY <1>1
  <1>7. i + 2 * j - 2 \in 1 .. Len(e) /\ e[i + 2 * j - 2] = 500 + -x
    BY <1>2, <1>3, <1>4, <1>6
  <1>8. i + 2 * j - 1 \in 1 .. Len(e)
        /\ e[i + 2 * j - 1] = (IF FrameBit(f, j) = 1 THEN 1500 ELSE 500) + x
    BY <1>2, <1>3, <1>5, <1>6
  <1> QED BY <1>7, <1>8 DEF PulseOf, GapOf

\* Within the bands.
InBand(x) == x \in Int /\ -150 <= x /\ x <= 150

LEMMA CleanSymbols ==
    ASSUME NEW e \in Seq(Uint16), NEW i, NEW f \in Frames, NEW x, InBand(x), CleanAt(e, i, f, x),
           NEW j \in 1 .. FrameBits
    PROVE  /\ IsPulse(PulseOf(e, i, j)) /\ Within(PulseOf(e, i, j), 350, 750)
           /\ IsZero(GapOf(e, i, j)) \/ IsOne(GapOf(e, i, j))
           /\ FrameBit(f, j) = 1 => IsOne(GapOf(e, i, j))
           /\ BitAt(e, i, j) = FrameBit(f, j)
  <1>1. x \in Int /\ -150 <= x /\ x <= 150
    BY DEF InBand
  <1>2. /\ PulseOf(e, i, j) = 500 - x
        /\ FrameBit(f, j) = 1 => GapOf(e, i, j) = 1500 + x
        /\ FrameBit(f, j) = 0 => GapOf(e, i, j) = 500 + x
    BY <1>1, CleanEdges
  <1>3. IsPulse(PulseOf(e, i, j)) /\ Within(PulseOf(e, i, j), 350, 750)
    BY <1>1, <1>2, SMT DEF IsPulse, Within
  <1>4. BitAt(e, i, j) = IF IsOne(GapOf(e, i, j)) THEN 1 ELSE 0
    BY DEF BitAt, GapOf
  <1>5. CASE FrameBit(f, j) = 1
    <2>1. GapOf(e, i, j) = 1500 + x
      BY <1>2, <1>5
    <2>2. IsOne(GapOf(e, i, j))
      BY <1>1, <2>1, SMT DEF IsOne, Within
    <2> QED BY <1>3, <1>4, <1>5, <2>2
  <1>6. CASE FrameBit(f, j) = 0
    <2>1. GapOf(e, i, j) = 500 + x
      BY <1>2, <1>6
    <2>2. IsZero(GapOf(e, i, j)) /\ ~IsOne(GapOf(e, i, j))
      BY <1>1, <2>1, SMT DEF IsZero, IsOne, Within
    <2> QED BY <1>3, <1>4, <1>6, <2>2
  <1> QED BY <1>5, <1>6, BitType

\* The run of symbols is the frame.
LEMMA CleanRun ==
    ASSUME NEW e \in Seq(Uint16), NEW i, NEW f \in Frames, NEW x, InBand(x), CleanAt(e, i, f, x)
    PROVE  /\ i \in ScanStarts(e) /\ i \in Nat
           /\ RunEndOf(e, i) = i + DataEdges
  <1>0. FrameBits \in Nat /\ DataEdges = 2 * FrameBits /\ Len(e) \in Nat /\ FrameBits > 0
    BY DEF FrameBits, DataEdges
  <1>1. i \in Nat /\ 1 <= i /\ i + DataEdges - 1 <= Len(e) /\ i + DataEdges \in Ends(e)
    BY <1>0 DEF CleanAt
  <1>2. i \in ScanStarts(e)
    <2>1. PICK j \in 1 .. FrameBits : j = 1 /\ i + 2 * j - 2 = i
      BY <1>0, <1>1
    <2>2. IsPulse(PulseOf(e, i, j))
      BY CleanSymbols
    <2>3. IsPulse(e[i])
      BY <2>1, <2>2 DEF PulseOf
    <2>4. i \in 1 .. Len(e) - 1
      BY <1>0, <1>1
    <2> QED BY <2>3, <2>4 DEF ScanStarts
  <1>3. PICK t \in Nat : /\ t = RunEndOf(e, i)
                         /\ t \in Ends(e) /\ t >= i /\ (t - i) % 2 = 0
                         /\ \A u \in Ends(e) : u >= i /\ (u - i) % 2 = 0 => t <= u
    BY <1>0, <1>2, RunEndFacts
  <1>4. t <= i + DataEdges
    <2>1. PICK u \in Ends(e) : u = i + DataEdges
      BY <1>1
    <2>2. u >= i /\ (u - i) % 2 = 0
      BY <1>0, <1>1, <2>1
    <2>3. t <= u
      BY <1>3, <2>2
    <2> QED BY <2>1, <2>3
  <1>5. ASSUME t < i + DataEdges
        PROVE  FALSE
    <2>1. PICK d \in Nat : d = t - i /\ t = i + d /\ d < DataEdges /\ d % 2 = 0
      BY <1>0, <1>1, <1>3, <1>5
    <2>2. PICK h \in Nat : d = 2 * h /\ h < FrameBits
      <3>1. d = 2 * (d \div 2) /\ d \div 2 \in Nat
        BY <2>1
      <3>2. d \div 2 < FrameBits
        BY <1>0, <2>1, <3>1
      <3> QED BY <3>1, <3>2
    <2>3. PICK j \in 1 .. FrameBits : j = h + 1
      BY <1>0, <2>2
    <2>4. i + 2 * j - 2 = t /\ i + 2 * j - 1 = t + 1
      BY <1>1, <2>1, <2>2, <2>3
    <2>5. IsPulse(PulseOf(e, i, j)) /\ (IsZero(GapOf(e, i, j)) \/ IsOne(GapOf(e, i, j)))
      BY CleanSymbols
    <2>6. IsPulse(e[t]) /\ (IsZero(e[t + 1]) \/ IsOne(e[t + 1]))
      BY <2>4, <2>5 DEF PulseOf, GapOf
    <2>7. t < Len(e)
      BY <1>0, <1>1, <2>1
    <2> QED BY <1>3, <2>6, <2>7 DEF Ends
  <1> QED BY <1>0, <1>1, <1>2, <1>3, <1>4, <1>5

\* Bits that are those of a frame are read as its fields.
LEMMA FieldsRead ==
    ASSUME NEW e, NEW i, NEW f \in Frames,
           \A j \in 1 .. FrameBits : BitAt(e, i, j) = FrameBit(f, j)
    PROVE  /\ BitsValue(e, i, FrameBits - 23, FrameBits) = f.low24
           /\ BitsValue(e, i, 1, PrefixBits) = f.remote
  <1>1. PICK P : IsPowers(P) /\ P[11] = RemoteCount /\ P[24] = WordCount
    BY Powers
  <1>2. \A j \in 1 .. FrameBits : BitAt(e, i, j) = FrameBit(f, j)
    OBVIOUS
  <1>3. BitsValue(e, i, FrameBits - 23, FrameBits) = f.low24
    <2>1. PICK n \in Nat : n = f.low24 /\ n < WordCount
      BY FrameType
    <2>2. PICK from \in Nat, to \in Nat :
             /\ from = FrameBits - 23 /\ to = FrameBits
             /\ 1 <= from /\ from <= to + 1 /\ to - from + 1 = 24
             /\ from > PrefixBits
      BY DEF FrameBits, PrefixBits
    <2>3. ASSUME NEW j \in from .. to
          PROVE  BitAt(e, i, j) = Shifted(n)[to - j] % 2
      <3>1. j \in 1 .. FrameBits /\ ~(j <= PrefixBits)
        BY <2>2 DEF PrefixBits
      <3>2. FrameBit(f, j) = Shifted(n)[to - j] % 2
        BY <2>1, <2>2, <3>1 DEF FrameBit
      <3> QED BY <1>2, <3>1, <3>2
    <2>4. n < P[to - from + 1]
      BY <1>1, <2>1, <2>2
    <2>5. BitsValue(e, i, from, to) = n
      <3>1. IsPowers(P) /\ 1 <= from /\ from <= to + 1
        BY <1>1, <2>2
      <3>2. BitsOf(e, i, from, to, n)
        BY <2>3 DEF BitsOf
      <3> QED BY <2>4, <3>1, <3>2, WordRead, Zenon
    <2> QED BY <2>1, <2>2, <2>5
  <1>4. BitsValue(e, i, 1, PrefixBits) = f.remote
    <2>1. PICK n \in Nat : n = f.remote /\ n < RemoteCount
      BY FrameType
    <2>2. PICK from \in Nat, to \in Nat :
             /\ from = 1 /\ to = PrefixBits
             /\ 1 <= from /\ from <= to + 1 /\ to - from + 1 = 11
             /\ to <= FrameBits
      BY DEF FrameBits, PrefixBits
    <2>3. ASSUME NEW j \in from .. to
          PROVE  BitAt(e, i, j) = Shifted(n)[to - j] % 2
      <3>1. j \in 1 .. FrameBits /\ j <= PrefixBits
        BY <2>2 DEF FrameBits
      <3>2. FrameBit(f, j) = Shifted(n)[to - j] % 2
        BY <2>1, <2>2, <3>1 DEF FrameBit
      <3> QED BY <1>2, <3>1, <3>2
    <2>4. n < P[to - from + 1]
      BY <1>1, <2>1, <2>2
    <2>5. BitsValue(e, i, from, to) = n
      <3>1. IsPowers(P) /\ 1 <= from /\ from <= to + 1
        BY <1>1, <2>2
      <3>2. BitsOf(e, i, from, to, n)
        BY <2>3 DEF BitsOf
      <3> QED BY <2>4, <3>1, <3>2, WordRead, Zenon
    <2> QED BY <2>1, <2>2, <2>5
  <1> QED BY <1>3, <1>4

\* The candidate that starts with a clean frame reads it.
LEMMA CleanIsRead ==
    ASSUME NEW e \in Seq(Uint16), NEW i, NEW f \in Frames, NEW x, InBand(x), CleanAt(e, i, f, x)
    PROVE  LET c == [start |-> i, bits |-> FrameBits]
           IN  c \in Candidates(e) /\ Low24(e, c) = f.low24 /\ Remote(e, c) = f.remote
  <1> DEFINE c == [start |-> i, bits |-> FrameBits]
  <1>0. i \in Nat /\ i \in ScanStarts(e) /\ RunEndOf(e, i) = i + DataEdges
    BY CleanRun
  <1>1. c \in Candidates(e)
    <2>1. PICK t \in Nat : t = RunEndOf(e, i) /\ t = i + 70
      BY <1>0 DEF DataEdges, FrameBits
    <2>2. (t - i) \div 2 = FrameBits
      BY <1>0, <2>1 DEF FrameBits
    <2>3. (RunEndOf(e, i) - i) \div 2 = FrameBits
      BY <2>1, <2>2, Zenon
    <2>4. FrameBits \in MinBits .. MaxBits
      BY DEF FrameBits, MinBits, MaxBits
    <2>5. c \in {[start |-> k, bits |-> (RunEndOf(e, k) - k) \div 2] : k \in ScanStarts(e)}
      BY <1>0, <2>3
    <2>6. c.bits = FrameBits
      OBVIOUS
    <2> HIDE DEF c
    <2> QED BY <2>4, <2>5, <2>6, CandidateKinds
  <1>2. /\ BitsValue(e, i, FrameBits - 23, FrameBits) = f.low24
        /\ BitsValue(e, i, 1, PrefixBits) = f.remote
    BY CleanSymbols, FieldsRead
  <1> QED BY <1>1, <1>2 DEF Low24, Remote

\* A set of edges that has one for each of some bits is at least as large.
LEMMA OnePerBit ==
    ASSUME NEW e \in Seq(Uint16), NEW B, B \subseteq 1 .. FrameBits,
           NEW at, \A j \in B : at[j] \in DOMAIN e,
           \A j, k \in B : at[j] = at[k] => j = k,
           NEW E, E \subseteq DOMAIN e, \A j \in B : at[j] \in E
    PROVE  Cardinality(B) \in Nat /\ Cardinality(E) \in Nat /\ Cardinality(B) <= Cardinality(E)
  <1>1. IsFiniteSet(E) /\ IsFiniteSet(B)
    <2>1. DOMAIN e = 1 .. Len(e) /\ Len(e) \in Int /\ 1 \in Int /\ FrameBits \in Int
      BY DEF FrameBits
    <2>2. IsFiniteSet(1 .. Len(e)) /\ IsFiniteSet(1 .. FrameBits)
      BY <2>1, FS_Interval
    <2> QED BY <2>1, <2>2, FS_Subset
  <1> DEFINE f == [j \in B |-> at[j]]
  <1>2. f \in Injection(B, E)
    BY DEF Injection, IsInjective
  <1>3. Cardinality(B) <= Cardinality(E)
    BY <1>1, <1>2, FS_Injection
  <1> QED BY <1>1, <1>3, FS_CardinalityType

\* A capture with a clean frame and four long intervals passes the test for Outprize
\* timing.
LEMMA CleanIsOutprizeish ==
    ASSUME NEW e \in Seq(Uint16), NEW i, NEW f \in Frames, NEW x, InBand(x), CleanAt(e, i, f, x),
           Cardinality({k \in DOMAIN e : IsOne(e[k])}) >= 4
    PROVE  Outprizeish(e) /\ Len(e) >= RxMinEdges
  <1>0. FrameBits \in Nat /\ DataEdges = 2 * FrameBits /\ Len(e) \in Nat /\ FrameBits = 35
        /\ DOMAIN e = 1 .. Len(e)
    BY DEF FrameBits, DataEdges
  <1>1. i \in Nat /\ 1 <= i /\ i + DataEdges - 1 <= Len(e)
    BY <1>0 DEF CleanAt
  <1>2. Len(e) >= OutprizeMinEdges /\ Len(e) >= RxMinEdges
    BY <1>0, <1>1 DEF OutprizeMinEdges, RxMinEdges
  <1> DEFINE Short(us) == Within(us, 350, 750)
  <1>3. \A j \in 1 .. FrameBits :
           /\ i + 2 * j - 2 \in DOMAIN e /\ i + 2 * j - 1 \in DOMAIN e
           /\ Short(e[i + 2 * j - 2])
    <2>1. ASSUME NEW j \in 1 .. FrameBits
          PROVE  i + 2 * j - 2 \in DOMAIN e /\ i + 2 * j - 1 \in DOMAIN e
      <3>1. x \in Int
        BY DEF InBand
      <3>2. /\ i + 2 * j - 2 \in 1 .. Len(e) /\ i + 2 * j - 1 \in 1 .. Len(e)
        BY <1>1, <1>0, SMT
      <3> QED BY <1>0, <3>2
    <2>2. ASSUME NEW j \in 1 .. FrameBits
          PROVE  Within(PulseOf(e, i, j), 350, 750)
      BY CleanSymbols
    <2> QED BY <2>1, <2>2 DEF PulseOf
  <1> DEFINE shorts == {k \in DOMAIN e : Short(e[k])}
  <1> HIDE DEF Short
  <1>4. Cardinality(shorts) >= 18
    <2> DEFINE B == 1 .. FrameBits
    <2>0. PICK at : \A j \in B : at[j] = i + 2 * j - 2
      <3> WITNESS [j \in B |-> i + 2 * j - 2]
      <3> QED OBVIOUS
    <2>1. \A j \in B : at[j] \in DOMAIN e /\ at[j] \in shorts
      <3>1. ASSUME NEW j \in B
            PROVE  at[j] \in DOMAIN e /\ at[j] \in shorts
        <4>1. PICK k : k = at[j] /\ k = i + 2 * j - 2
          BY <2>0, Zenon
        <4>2. i + 2 * j - 2 \in DOMAIN e /\ Short(e[i + 2 * j - 2])
          BY <1>3, Zenon
        <4>3. k \in DOMAIN e /\ Short(e[k])
          BY <4>1, <4>2
        <4> QED BY <4>1, <4>3
      <3> QED BY <3>1
    <2>2. \A j, k \in B : at[j] = at[k] => j = k
      <3>1. ASSUME NEW j \in B, NEW k \in B, at[j] = at[k]
            PROVE  j = k
        <4>1. i + 2 * j - 2 = i + 2 * k - 2
          BY <2>0, <3>1
        <4>2. j \in Int /\ k \in Int
          BY <1>0
        <4> QED BY <1>1, <4>1, <4>2
      <3> QED BY <3>1
    <2>3. shorts \subseteq DOMAIN e /\ B \subseteq 1 .. FrameBits
      OBVIOUS
    <2>4. Cardinality(B) = 35
      <3>1. 1 \in Int /\ FrameBits \in Int /\ ~(1 > FrameBits) /\ FrameBits - 1 + 1 = 35
        BY <1>0
      <3> QED BY <3>1, FS_Interval
    <2> HIDE DEF shorts, B
    <2>5. Cardinality(B) \in Nat /\ Cardinality(shorts) \in Nat
          /\ Cardinality(B) <= Cardinality(shorts)
      BY <2>1, <2>2, <2>3, OnePerBit
    <2> QED BY <2>4, <2>5
  <1> QED BY <1>2, <1>4 DEF Outprizeish, Short

\* rx_score_outprize_candidate_ gives the word all it can: family, vent nibble
\* and fan nibble are those of a command.
ScoresFully(low24) == Bonus(low24) = TopBonus

\* Only that is enough for a candidate to score as much as a whole command does.
LEMMA TopOrLess ==
    ASSUME NEW low24, NEW bits \in Nat, bits <= MaxBits,
           bits + Bonus(low24) >= FrameBits + TopBonus
    PROVE  ScoresFully(low24) /\ bits >= FrameBits
  <1>1. Bonus(low24) \in {0, 20, 100, 120, 1000, 1020, 1100, TopBonus}
    BY BonusValues
  <1>2. FrameBits = 35 /\ MaxBits = 40 /\ TopBonus = 1120
    BY SMT DEF FrameBits, MaxBits, TopBonus
  <1>3. Bonus(low24) = TopBonus
    BY <1>1, <1>2, SMT
  <1> QED BY <1>2, <1>3, SMT DEF ScoresFully

\* Outprizeish captures with a candidate that scores as a whole command are
\* reported as complete: no candidate of fewer bits scores as much.
LEMMA TopIsComplete ==
    ASSUME NEW e \in Seq(Uint16), Len(e) >= RxMinEdges, Outprizeish(e),
           NEW c \in Candidates(e), c.bits = FrameBits, ScoresFully(Low24(e, c))
    PROVE  /\ Decoded(e).kind = "complete"
           /\ Decoded(e).bits >= FrameBits
           /\ ScoresFully(Decoded(e).low24)
  <1>1. /\ Best(e) \in Candidates(e)
        /\ Score(e, c) <= Score(e, Best(e))
    BY BestIsOne
  <1>2. PICK best \in Candidates(e) : best = Best(e)
    BY <1>1
  <1>3. ScoresFully(Low24(e, best)) /\ best.bits >= FrameBits
    <2>1. best.bits \in Nat /\ best.bits <= MaxBits
      BY CandidateFacts
    <2>2. Score(e, best) = best.bits + Bonus(Low24(e, best))
      BY ScoreType
    <2>3. Score(e, c) = FrameBits + TopBonus
      BY ScoreType DEF ScoresFully
    <2>4. Score(e, best) >= Score(e, c)
      BY <1>1, <1>2, ScoreType
    <2> QED BY <2>1, <2>2, <2>3, <2>4, TopOrLess
  <1>4. ~(Len(e) < RxMinEdges)
    BY DEF RxMinEdges
  <1>5. Candidates(e) # {}
    OBVIOUS
  <1>6. Decoded(e) = [kind |-> IF IsComplete(best) THEN "complete" ELSE "clipped",
                      bits |-> best.bits, low24 |-> Low24(e, best),
                      remote |-> IF best.bits >= FrameBits THEN Remote(e, best) ELSE 0]
    BY <1>2, <1>4, <1>5 DEF Decoded
  <1>7. IsComplete(best)
    BY <1>3 DEF IsComplete
  <1> QED BY <1>3, <1>6, <1>7

-----------------------------------------------------------------------------
(* Where what arrives comes from. *)

\* An interval that the receiver may break up, whatever its stretch.
IsWide(us) == us >= 1700

\* us is v, stretched.
Near(us, v) == v - 300 <= us /\ us <= v + 300

\* What the receiver puts in cannot be taken for a symbol.
NoFalseSymbols(r) == r.noise.edges = 0 \/ ~IsSymbol(r.noise.width)

\* Of two intervals in a row, one is chatter.
Chatters(r, u, v) == NoFalseSymbols(r) => ~IsSymbol(u) \/ ~IsSymbol(v)

\* The interval k of the wave arrives whole, or it is long and broken up by chatter.
ArrivesWhole(p, w, k) == Len(p) = 1 /\ Near(p[1], w[k])
ArrivesBroken(p, w, r, k) ==
    /\ Len(p) > 1 /\ r.noise.edges > 0 /\ IsWide(w[k])
    /\ \A x \in Nat : 1 <= x /\ x < Len(p) => Chatters(r, p[x], p[x + 1])

\* What noise leaves of an interval is as long as a piece of it or as the noise.
LEMMA SplitChatters ==
    ASSUME NEW us \in Nat, NEW r \in Receptions, r.noise.edges > 0,
           us > r.noise.lead + r.noise.edges * r.noise.width
    PROVE  /\ Len(Split(us, r.noise)) > 1
           /\ \A x \in Nat : 1 <= x /\ x < Len(Split(us, r.noise)) =>
                 Chatters(r, Split(us, r.noise)[x], Split(us, r.noise)[x + 1])
  <1>1. PICK lead \in Nat, width \in Nat, n \in Nat :
           lead = r.noise.lead /\ width = r.noise.width /\ n = r.noise.edges /\ n > 0
    BY ReceptionKinds
  <1>2. PICK last \in Nat : last = us - r.noise.lead - r.noise.edges * r.noise.width
    <2>1. n * width \in Nat
      BY <1>1
    <2>2. PICK all \in Nat : all = n * width
      BY <2>1
    <2>3. us - lead - all \in Nat
      BY <1>1, <2>2
    <2> QED BY <1>1, <2>2, <2>3
  <1>3. PICK s \in Seq(Nat) : s = [j \in 1 .. n |-> width] /\ Len(s) = n
    <2>1. [j \in 1 .. n |-> width] \in Seq(Nat) /\ Len([j \in 1 .. n |-> width]) = n
      OBVIOUS
    <2> QED BY <2>1, Zenon
  <1>4. Split(us, r.noise) = <<lead>> \o s \o <<last>>
    BY <1>1, <1>2, <1>3, Zenon DEF Split
  <1>5. PICK p \in Seq(Nat) : p = <<lead>> \o s \o <<last>>
    <2>1. <<lead>> \o s \o <<last>> \in Seq(Nat)
      OBVIOUS
    <2> QED BY <2>1, Zenon
  <1>6. Len(p) = n + 2 /\ \A x \in Nat : 1 <= x /\ x <= n => p[x + 1] = width
    <2>1. Len(p) = n + 2
      BY <1>3, <1>5
    <2>2. ASSUME NEW x \in Nat, 1 <= x, x <= n
          PROVE  p[x + 1] = width
      <3>1. s[x] = width
        BY <1>3, <2>2
      <3>2. p[x + 1] = s[x]
        BY <1>3, <1>5, <2>2
      <3> QED BY <3>1, <3>2
    <2> QED BY <2>1, <2>2
  <1>7. ASSUME NEW x \in Nat, 1 <= x, x < Len(p)
        PROVE  Chatters(r, p[x], p[x + 1])
    <2>1. NoFalseSymbols(r) => ~IsSymbol(width)
      BY <1>1 DEF NoFalseSymbols
    <2>2. p[x] = width \/ p[x + 1] = width
      <3>1. CASE x = 1
        <4>1. x <= n
          BY <1>1, <3>1
        <4> QED BY <1>6, <1>7, <4>1
      <3>2. CASE x > 1
        <4>1. PICK y \in Nat : x = y + 1 /\ 1 <= y /\ y <= n
          BY <1>6, <1>7, <3>2
        <4> QED BY <1>6, <4>1
      <3> QED BY <1>7, <3>1, <3>2
    <2> QED BY <2>1, <2>2 DEF Chatters
  <1>8. Len(p) > 1
    BY <1>1, <1>6
  <1>9. Split(us, r.noise) = p
    BY <1>4, <1>5, Zenon
  <1> QED BY <1>7, <1>8, <1>9, Zenon

\* An interval arrives whole, or in pieces of it that are no symbols when noise is not.
LEMMA ArrivesAs ==
    ASSUME NEW w \in Waves, NEW r \in Receptions, NEW k \in 1 .. Len(w)
    PROVE  ArrivesWhole(Arrives(w, r, k), w, k) \/ ArrivesBroken(Arrives(w, r, k), w, r, k)
  <1>1. PICK v \in Nat : v = w[k] /\ v >= 300
    BY DEF Waves, Lasting
  <1>2. PICK x \in Int : x = r.stretch /\ -300 <= x /\ x <= 300
    BY ReceptionKinds
  <1>3. PICK us \in Nat : us = (IF k % 2 = 1 THEN w[k] + r.stretch ELSE w[k] - r.stretch)
                          /\ Near(us, v)
    <2>0. Near(v + x, v) /\ Near(v - x, v)
      BY <1>2 DEF Near
    <2>1. v + x \in Nat /\ v - x \in Nat
      BY <1>1, <1>2
    <2>2. CASE k % 2 = 1
      BY <1>1, <1>2, <2>0, <2>1, <2>2
    <2>3. CASE k % 2 # 1
      BY <1>1, <1>2, <2>0, <2>1, <2>3
    <2> QED BY <2>2, <2>3
  <1> DEFINE Broken == /\ k % 2 = 0 /\ us >= LongPause
                       /\ r.noise.edges > 0 /\ r.noise.from <= k /\ k <= r.noise.to
                       /\ us > r.noise.lead + r.noise.edges * r.noise.width
  <1>4. Arrives(w, r, k) = IF Broken THEN Split(us, r.noise) ELSE <<us>>
    BY <1>3, Zenon DEF Arrives
  <1>5. CASE Broken
    <2>1. PICK p : p = Split(us, r.noise) /\ Arrives(w, r, k) = p
      BY <1>4, <1>5, Zenon
    <2>2. r.noise.edges > 0 /\ us > r.noise.lead + r.noise.edges * r.noise.width
      BY <1>5, Zenon
    <2>3. Len(p) > 1 /\ \A y \in Nat : 1 <= y /\ y < Len(p) => Chatters(r, p[y], p[y + 1])
      BY <2>1, <2>2, SplitChatters, Zenon
    <2>4. IsWide(v)
      <3>1. us >= LongPause
        BY <1>5, Zenon
      <3> QED BY <1>3, <3>1, SMT DEF LongPause, Near, IsWide
    <2> QED BY <1>1, <2>1, <2>2, <2>3, <2>4, Zenon DEF ArrivesBroken
  <1>6. CASE ~Broken
    <2>1. Arrives(w, r, k) = <<us>>
      BY <1>4, <1>6, Zenon
    <2>2. Len(<<us>>) = 1 /\ <<us>>[1] = us
      OBVIOUS
    <2> QED BY <1>1, <1>3, <2>1, <2>2, Zenon DEF ArrivesWhole
  <1> QED BY <1>5, <1>6, Zenon

-----------------------------------------------------------------------------

\* m says of each interval that arrives which one of the wave it comes from: the
\* next one, or the same one again where chatter has broken it up.
Follows(a, m, r, j) ==
    m[j + 1] = m[j] + 1 \/ (m[j + 1] = m[j] /\ r.noise.edges > 0 /\ Chatters(r, a[j], a[j + 1]))

\* The interval j is a piece of one that chatter has broken up.
IsPiece(a, m, w, r, j) ==
    /\ r.noise.edges > 0 /\ IsWide(w[m[j]])
    /\ (1 < j /\ m[j - 1] = m[j]) \/ (j < Len(a) /\ m[j + 1] = m[j])

\* It is as long as it was sent, or it is such a piece.
Exact(a, m, w, r, j) == Near(a[j], w[m[j]]) \/ IsPiece(a, m, w, r, j)

\* m traces a to the first k intervals of the wave.
Traces(m, a, w, r, k) ==
    /\ a \in Seq(Nat) /\ Len(a) > 0 /\ m[Len(a)] = k
    /\ \A j \in Nat : 1 <= j /\ j <= Len(a) => m[j] \in Nat /\ 1 <= m[j] /\ m[j] <= k
    /\ \A j \in Nat : 1 <= j /\ j < Len(a) => Follows(a, m, r, j)
    /\ \A j \in Nat : 1 < j /\ j <= Len(a) => Exact(a, m, w, r, j)

\* One more interval of the wave goes on with the trace.
LEMMA TraceGoesOn ==
    ASSUME NEW w, NEW r, NEW a \in Seq(Nat), NEW m, NEW k \in Nat, Traces(m, a, w, r, k),
           NEW p \in Seq(Nat),
           ArrivesWhole(p, w, k + 1) \/ ArrivesBroken(p, w, r, k + 1)
    PROVE  \E m2 : Traces(m2, a \o p, w, r, k + 1)
  <1>1. PICK n \in Nat : n = Len(a) /\ n > 0
    BY DEF Traces
  <1>2. PICK l \in Nat : l = Len(p) /\ l > 0
    BY DEF ArrivesWhole, ArrivesBroken
  <1>3. PICK b \in Seq(Nat) : b = a \o p /\ Len(b) = n + l
    <2>1. a \o p \in Seq(Nat) /\ Len(a \o p) = n + l
      BY <1>1, <1>2
    <2> QED BY <2>1, Zenon
  <1>4. \A j \in Nat : 1 <= j /\ j <= n => b[j] = a[j]
    BY <1>1, <1>2, <1>3
  <1>5. \A j \in Nat : 1 <= j /\ j <= l => b[n + j] = p[j]
    BY <1>1, <1>2, <1>3
  <1>6. PICK m2 : m2 = [j \in Nat |-> IF j <= n THEN m[j] ELSE k + 1]
    OBVIOUS
  <1>7. \A j \in Nat : j <= n => m2[j] = m[j]
    BY <1>6
  <1>8. \A j \in Nat : n < j => m2[j] = k + 1
    BY <1>1, <1>6
  <1>9. m[n] = k
    BY <1>1, Zenon DEF Traces
  <1>10. m2[n + l] = k + 1
    <2>1. n + l \in Nat /\ n < n + l
      BY <1>1, <1>2
    <2> QED BY <1>8, <2>1
  <1>11. ASSUME NEW j \in Nat, 1 <= j, j <= n + l
         PROVE  m2[j] \in Nat /\ 1 <= m2[j] /\ m2[j] <= k + 1
    <2>1. CASE j <= n
      <3>1. m[j] \in Nat /\ 1 <= m[j] /\ m[j] <= k
        BY <1>1, <1>11, <2>1, Zenon DEF Traces
      <3>2. m2[j] = m[j]
        BY <1>7, <2>1
      <3> QED BY <3>1, <3>2
    <2>2. CASE n < j
      BY <1>8, <2>2
    <2> QED BY <1>1, <2>1, <2>2
  <1>12. ASSUME NEW j \in Nat, 1 <= j, j < n + l
         PROVE  Follows(b, m2, r, j)
    <2>1. CASE j < n
      <3>1. Follows(a, m, r, j)
        BY <1>1, <1>12, <2>1, Zenon DEF Traces
      <3>2. j + 1 \in Nat /\ 1 <= j + 1 /\ j + 1 <= n /\ j <= n
        BY <1>1, <2>1
      <3>3. m2[j] = m[j] /\ m2[j + 1] = m[j + 1] /\ b[j] = a[j] /\ b[j + 1] = a[j + 1]
        BY <1>4, <1>7, <1>12, <3>2, Zenon
      <3> QED BY <3>1, <3>3, Zenon DEF Follows
    <2>2. CASE j = n
      <3>1. j <= n /\ j + 1 \in Nat /\ n < j + 1
        BY <1>1, <2>2
      <3>2. m2[j] = m[n] /\ m2[j + 1] = k + 1
        BY <1>7, <1>8, <2>2, <3>1, Zenon
      <3>3. m2[j + 1] = m2[j] + 1
        BY <1>9, <3>2, Zenon
      <3> QED BY <3>3, Zenon DEF Follows
    <2>3. CASE n < j
      <3>0. PICK x \in Nat : x = j - n
        BY <2>3
      <3>1. /\ j = n + x /\ j + 1 = n + (x + 1) /\ 1 <= x /\ x < l /\ n < j + 1
            /\ x + 1 \in Nat /\ j + 1 \in Nat /\ 1 <= x + 1 /\ x + 1 <= l /\ x <= l
            /\ l > 1
        BY <1>1, <1>2, <1>12, <2>3, <3>0
      <3>2. m2[j] = k + 1 /\ m2[j + 1] = k + 1
        BY <1>8, <2>3, <3>1, Zenon
      <3>3. b[j] = p[x] /\ b[j + 1] = p[x + 1]
        BY <1>5, <3>1, Zenon
      <3>4. ~(l = 1)
        BY <3>1
      <3>5. ArrivesBroken(p, w, r, k + 1)
        BY <1>2, <3>4, Zenon DEF ArrivesWhole
      <3>6. Chatters(r, p[x], p[x + 1]) /\ r.noise.edges > 0
        BY <1>2, <3>1, <3>5, Zenon DEF ArrivesBroken
      <3> QED BY <3>2, <3>3, <3>6, Zenon DEF Follows
    <2> QED BY <1>1, <2>1, <2>2, <2>3
  <1>13. ASSUME NEW j \in Nat, 1 < j, j <= n + l
         PROVE  Exact(b, m2, w, r, j)
    <2>1. CASE j <= n
      <3>1. Exact(a, m, w, r, j)
        BY <1>1, <1>13, <2>1, Zenon DEF Traces
      <3>2. m2[j] = m[j] /\ b[j] = a[j]
        BY <1>4, <1>7, <1>13, <2>1
      <3>3. CASE Near(a[j], w[m[j]])
        BY <3>2, <3>3, Zenon DEF Exact
      <3>4. CASE IsPiece(a, m, w, r, j)
        <4>1. r.noise.edges > 0 /\ IsWide(w[m2[j]])
          BY <3>2, <3>4 DEF IsPiece
        <4>2. CASE 1 < j /\ m[j - 1] = m[j]
          <5>1. j - 1 \in Nat /\ j - 1 <= n
            BY <1>1, <1>13, <2>1
          <5>2. m2[j - 1] = m2[j]
            BY <1>7, <3>2, <4>2, <5>1, Zenon
          <5> QED BY <4>1, <4>2, <5>2, Zenon DEF IsPiece, Exact
        <4>3. CASE j < n /\ m[j + 1] = m[j]
          <5>1. j + 1 \in Nat /\ j + 1 <= n /\ j < n + l
            BY <1>1, <1>2, <4>3
          <5>2. m2[j + 1] = m2[j]
            BY <1>7, <3>2, <4>3, <5>1, Zenon
          <5> QED BY <1>3, <4>1, <5>1, <5>2, Zenon DEF IsPiece, Exact
        <4> QED BY <1>1, <3>4, <4>2, <4>3, Zenon DEF IsPiece
      <3> QED BY <3>1, <3>3, <3>4, Zenon DEF Exact
    <2>2. CASE n < j
      <3>0. PICK x \in Nat : x = j - n
        BY <2>2
      <3>1. j = n + x /\ 1 <= x /\ x <= l
        BY <1>1, <1>2, <1>13, <2>2, <3>0
      <3>2. m2[j] = k + 1 /\ b[j] = p[x]
        BY <1>5, <1>8, <2>2, <3>1, Zenon
      <3>3. CASE ArrivesWhole(p, w, k + 1)
        <4>1. x = 1
          BY <1>2, <3>1, <3>3 DEF ArrivesWhole
        <4>2. Near(b[j], w[m2[j]])
          BY <3>2, <3>3, <4>1, Zenon DEF ArrivesWhole
        <4> QED BY <4>2, Zenon DEF Exact
      <3>4. CASE ArrivesBroken(p, w, r, k + 1)
        <4>1. r.noise.edges > 0 /\ IsWide(w[m2[j]])
          BY <3>2, <3>4 DEF ArrivesBroken
        <4>2. l > 1
          BY <1>2, <3>4, Zenon DEF ArrivesBroken
        <4>3. CASE x > 1
          <5>1. j - 1 \in Nat /\ n < j - 1 /\ 1 < j
            BY <1>1, <3>1, <4>3
          <5>2. m2[j - 1] = m2[j]
            BY <1>8, <3>2, <5>1, Zenon
          <5> QED BY <4>1, <5>1, <5>2, Zenon DEF IsPiece, Exact
        <4>4. CASE x = 1
          <5>1. j + 1 \in Nat /\ n < j + 1 /\ j < n + l
            BY <1>1, <1>2, <3>1, <4>2, <4>4
          <5>2. m2[j + 1] = m2[j]
            BY <1>8, <3>2, <5>1, Zenon
          <5> QED BY <1>3, <4>1, <5>1, <5>2, Zenon DEF IsPiece, Exact
        <4> QED BY <3>1, <4>3, <4>4
      <3> QED BY <3>3, <3>4
    <2> QED BY <1>1, <2>1, <2>2
  <1>14. b \in Seq(Nat) /\ Len(b) = n + l /\ n + l > 0
    BY <1>1, <1>2, <1>3
  <1>15. Traces(m2, b, w, r, k + 1)
    BY <1>10, <1>11, <1>12, <1>13, <1>14, Zenon DEF Traces
  <1> QED BY <1>3, <1>15, Zenon

HasTrace(a, w, r, k) == \E m : Traces(m, a, w, r, k)

\* The rest of the interval a capture begins in has a trace.
LEMMA TraceBegins ==
    ASSUME NEW us \in Nat, NEW w, NEW r, NEW k \in Nat, 1 <= k
    PROVE  HasTrace(<<us>>, w, r, k)
  <1>1. PICK m : m = [j \in Nat |-> k]
    OBVIOUS
  <1>2. PICK a \in Seq(Nat) : a = <<us>> /\ Len(a) = 1
    <2>1. <<us>> \in Seq(Nat) /\ Len(<<us>>) = 1
      OBVIOUS
    <2> QED BY <2>1, Zenon
  <1>3. \A j \in Nat : m[j] = k
    BY <1>1
  <1>4. \A j \in Nat : ~(1 <= j /\ j < Len(a)) /\ ~(1 < j /\ j <= Len(a))
    BY <1>2
  <1>5. Len(a) > 0 /\ m[Len(a)] = k
    BY <1>2, <1>3
  <1>6. \A j \in Nat : 1 <= j /\ j <= Len(a) => m[j] \in Nat /\ 1 <= m[j] /\ m[j] <= k
    BY <1>3
  <1>7. Traces(m, a, w, r, k)
    BY <1>4, <1>5, <1>6, Zenon DEF Traces
  <1> QED BY <1>2, <1>7, Zenon DEF HasTrace

\* Every interval that arrives comes from one of the wave.
LEMMA ArrivingIsTraced ==
    ASSUME NEW s \in Transmissions, NEW r \in Receptions, r.start.interval <= Len(Wave(s))
    PROVE  HasTrace(Arriving(s, r), Wave(s), r, Len(Wave(s)))
  <1>1. PICK w \in Waves : w = Wave(s)
    BY WaveType
  <1>2. PICK begin \in Nat, end \in Nat : begin = r.start.interval /\ end = Len(w)
                                          /\ 1 <= begin /\ begin <= end
    BY <1>1, ReceptionKinds DEF Waves
  <1>3. PICK f : /\ f = [k \in Heard(s, r) |-> ArrivingStep(s, r, f, k)]
                 /\ Arriving(s, r) = f[Len(Wave(s))]
    BY ArrivingDefined
  <1>4. ASSUME NEW k \in Nat, begin <= k, k <= end
        PROVE  f[k] = ArrivingStep(s, r, f, k)
    <2>1. k \in Heard(s, r)
      BY <1>1, <1>2, <1>4 DEF Heard
    <2> QED BY <1>3, <2>1, Zenon
  <1> DEFINE S == {n \in Nat : begin + n <= end => HasTrace(f[begin + n], w, r, begin + n)}
  <1>5. 0 \in S
    <2>1. w[begin] \in Nat
      BY <1>1, <1>2 DEF Waves, Lasting
    <2>2. Clamped(r.start.left, 0, w[begin]) \in Nat
      BY <2>1, ReceptionKinds DEF Clamped
    <2>3. f[begin] = <<Clamped(r.start.left, 0, w[begin])>>
      BY <1>1, <1>2, <1>4 DEF ArrivingStep
    <2>4. HasTrace(f[begin], w, r, begin)
      BY <1>2, <2>2, <2>3, TraceBegins, Zenon
    <2>5. begin + 0 = begin
      OBVIOUS
    <2> QED BY <2>4, <2>5
  <1>6. ASSUME NEW n \in S
        PROVE  n + 1 \in S
    <2>1. n \in Nat
      OBVIOUS
    <2>2. ASSUME begin + (n + 1) <= end
          PROVE  HasTrace(f[begin + (n + 1)], w, r, begin + (n + 1))
      <3>1. PICK k \in Nat : k = begin + n
        BY <2>1
      <3>2. begin \in Nat /\ end \in Nat /\ 1 <= begin /\ begin + (n + 1) <= end
        BY <1>2, <2>2
      <3>3. /\ k + 1 \in Nat /\ k + 1 = begin + (n + 1) /\ begin <= k + 1 /\ k + 1 <= end
            /\ k + 1 # begin /\ (k + 1) - 1 = k /\ k + 1 \in 1 .. end /\ begin + n <= end
        <4> HIDE DEF S
        <4> QED BY <2>1, <3>2, <3>1
      <3>4. f[k + 1] = f[k] \o Arrives(w, r, k + 1)
        <4>1. f[k + 1] = ArrivingStep(s, r, f, k + 1)
          BY <1>4, <3>3, Zenon
        <4>2. k + 1 # r.start.interval
          BY <1>2, <3>3
        <4>3. ArrivingStep(s, r, f, k + 1) = f[(k + 1) - 1] \o Arrives(Wave(s), r, k + 1)
          BY <4>2, Zenon DEF ArrivingStep
        <4> QED BY <1>1, <3>3, <4>1, <4>3, Zenon
      <3>5. HasTrace(f[k], w, r, k)
        BY <3>1, <3>3
      <3>6. PICK m : Traces(m, f[k], w, r, k)
        BY <3>5, Zenon DEF HasTrace
      <3>7. f[k] \in Seq(Nat)
        BY <3>6, Zenon DEF Traces
      <3>8. k + 1 \in 1 .. Len(w)
        BY <1>2, <3>3, Zenon
      <3>9. PICK p \in Seq(Nat) : p = Arrives(w, r, k + 1)
        BY <3>8, ArrivesType, Zenon
      <3>10. ArrivesWhole(p, w, k + 1) \/ ArrivesBroken(p, w, r, k + 1)
        BY <3>8, <3>9, ArrivesAs, Zenon
      <3>11. HasTrace(f[k] \o p, w, r, k + 1)
        BY <3>6, <3>7, <3>10, TraceGoesOn, Zenon DEF HasTrace
      <3> QED BY <3>3, <3>4, <3>9, <3>11, Zenon
    <2> QED BY <2>1, <2>2
  <1>7. S = Nat
    <2>1. S \subseteq Nat
      OBVIOUS
    <2> HIDE DEF S
    <2> QED BY <1>5, <1>6, <2>1, AllNat
  <1>8. end - begin \in S
    <2>1. end - begin \in Nat
      BY <1>2
    <2> HIDE DEF S
    <2> QED BY <1>7, <2>1, Zenon
  <1>9. begin + (end - begin) = end
    BY <1>2
  <1>10. HasTrace(f[end], w, r, end)
    BY <1>8, <1>9
  <1> QED BY <1>1, <1>2, <1>3, <1>10, Zenon

\* A run of symbols is not broken: its intervals are those of a part of the wave,
\* and but for the first and the last one they arrive as they are.
Matches(a, w, i, h, n) ==
    \A d \in Nat : 1 <= d /\ d + 1 < n => Near(a[i + d], w[h + d])

LastMatches(a, w, r, i, h, d) ==
    r.noise.edges = 0 \/ ~IsWide(w[h + d]) => Near(a[i + d], w[h + d])

\* So symbols in a row come from consecutive intervals of the wave.
LEMMA SymbolsMatch ==
    ASSUME NEW w, NEW r, NEW a \in Seq(Nat), NEW m, NEW k, Traces(m, a, w, r, k),
           NoFalseSymbols(r),
           NEW i \in Nat, 1 <= i, NEW n \in Nat, n > 1, i + n <= Len(a) + 1,
           \A d \in Nat : d < n => IsSymbol(a[i + d])
    PROVE  \E h \in Nat :
              /\ 1 <= h /\ h + (n - 1) <= k
              /\ Matches(a, w, i, h, n) /\ LastMatches(a, w, r, i, h, n - 1)
  <1>1. PICK l \in Nat : l = Len(a) /\ i + n <= l + 1
    OBVIOUS
  <1>2. PICK h \in Nat : h = m[i] /\ 1 <= h
    <2>1. i <= Len(a)
      BY <1>1
    <2> QED BY <2>1 DEF Traces
  <1>3. ASSUME NEW d \in Nat, d + 1 < n
        PROVE  m[i + d + 1] = m[i + d] + 1
    <2>1. PICK j \in Nat : j = i + d /\ 1 <= j /\ j < l /\ j + 1 = i + (d + 1) /\ d + 1 \in Nat /\ d < n
      <3>1. i + d \in Nat /\ 1 <= i + d /\ i + d < l /\ i + d + 1 = i + (d + 1) /\ d + 1 \in Nat /\ d < n
        BY <1>1, <1>3
      <3> QED BY <3>1, Zenon
    <2>2. Follows(a, m, r, j)
      BY <1>1, <2>1, Zenon DEF Traces
    <2>3. IsSymbol(a[j]) /\ IsSymbol(a[j + 1])
      BY <1>3, <2>1
    <2>4. m[j + 1] = m[j] + 1
      BY <2>2, <2>3, Zenon DEF Follows, Chatters
    <2> QED BY <2>1, <2>4
  <1> DEFINE S == {d \in Nat : d < n => m[i + d] = h + d}
  <1>4. S = Nat
    <2>1. 0 \in S
      BY <1>2
    <2>2. ASSUME NEW d \in S
          PROVE  d + 1 \in S
      <3>1. d \in Nat
        OBVIOUS
      <3>2. ASSUME d + 1 < n
            PROVE  m[i + (d + 1)] = h + (d + 1)
        <4>1. m[i + d] = h + d
          BY <3>1, <3>2
        <4>2. m[i + d + 1] = m[i + d] + 1
          BY <1>3, <3>1, <3>2
        <4>3. i + d + 1 = i + (d + 1) /\ (h + d) + 1 = h + (d + 1)
          BY <3>1
        <4> QED BY <4>1, <4>2, <4>3, Zenon
      <3> QED BY <3>1, <3>2
    <2>3. S \subseteq Nat
      OBVIOUS
    <2> HIDE DEF S
    <2> QED BY <2>1, <2>2, <2>3, AllNat
  <1>5. \A d \in Nat : d < n => m[i + d] = h + d
    BY <1>4
  <1> HIDE DEF S
  <1>6. ASSUME NEW d \in Nat, 1 <= d, d < n
        PROVE  Exact(a, m, w, r, i + d) /\ m[i + d] = h + d /\ m[(i + d) - 1] # m[i + d]
    <2>1. i + d \in Nat /\ 1 < i + d /\ i + d <= l
      BY <1>1, <1>6
    <2>2. Exact(a, m, w, r, i + d)
      BY <1>1, <2>1, Zenon DEF Traces
    <2>3. PICK x \in Nat : x = d - 1 /\ x < n /\ (i + d) - 1 = i + x /\ h + x # h + d
      BY <1>6
    <2>4. m[i + d] = h + d /\ m[i + x] = h + x
      BY <1>5, <1>6, <2>3, Zenon
    <2> QED BY <2>2, <2>3, <2>4
  <1>7. ASSUME NEW d \in Nat, 1 <= d, d + 1 < n
        PROVE  Near(a[i + d], w[h + d])
    <2>1. d < n /\ d + 1 \in Nat /\ i + (d + 1) = (i + d) + 1 /\ h + (d + 1) # h + d
      BY <1>7
    <2>2. Exact(a, m, w, r, i + d) /\ m[i + d] = h + d /\ m[(i + d) - 1] # m[i + d]
      BY <1>6, <1>7, <2>1, Zenon
    <2>3. m[i + (d + 1)] = h + (d + 1)
      BY <1>5, <1>7, <2>1, Zenon
    <2>4. m[(i + d) + 1] # m[i + d]
      BY <2>1, <2>2, <2>3, Zenon
    <2>5. ~IsPiece(a, m, w, r, i + d)
      BY <2>2, <2>4, Zenon DEF IsPiece
    <2>6. Near(a[i + d], w[m[i + d]])
      BY <2>2, <2>5, Zenon DEF Exact
    <2> QED BY <2>2, <2>6, Zenon
  <1>8. PICK z \in Nat : z = n - 1 /\ 1 <= z /\ z < n /\ i + z <= l
    BY <1>1
  <1>9. Exact(a, m, w, r, i + z) /\ m[i + z] = h + z
    BY <1>6, <1>8, Zenon
  <1>10. h + z <= k
    <2>1. i + z \in Nat /\ 1 <= i + z
      BY <1>8
    <2>2. m[i + z] <= k
      BY <1>1, <1>8, <2>1, Zenon DEF Traces
    <2> QED BY <1>9, <2>2, Zenon
  <1>11. ASSUME r.noise.edges = 0 \/ ~IsWide(w[h + z])
         PROVE  Near(a[i + z], w[h + z])
    <2>1. ~IsPiece(a, m, w, r, i + z)
      <3>1. CASE r.noise.edges = 0
        BY <3>1 DEF IsPiece
      <3>2. CASE ~IsWide(w[h + z])
        BY <1>9, <3>2 DEF IsPiece
      <3> QED BY <1>11, <3>1, <3>2, Zenon
    <2>2. Near(a[i + z], w[m[i + z]])
      BY <1>9, <2>1, Zenon DEF Exact
    <2> QED BY <1>9, <2>2, Zenon
  <1>12. Matches(a, w, i, h, n)
    BY <1>7, Zenon DEF Matches
  <1>13. LastMatches(a, w, r, i, h, n - 1)
    BY <1>8, <1>11, Zenon DEF LastMatches
  <1>14. h + (n - 1) <= k
    BY <1>8, <1>10, Zenon
  <1> QED BY <1>2, <1>12, <1>13, <1>14, Zenon

-----------------------------------------------------------------------------
(* What is read of it. *)

\* A symbol is recorded as it arrives.
LEMMA SymbolKept ==
    ASSUME NEW us \in Nat, IsSymbol(Delta(us))
    PROVE  Delta(us) = us
  BY SMT DEF Delta, Clamped, MaxUint16, IsSymbol, IsPulse, IsZero, IsOne, Within

\* What is recorded of an interval.
LEMMA RecordedAt ==
    ASSUME NEW a \in Seq(Nat), NEW j \in 1 .. Len(Captured(a)), IsSymbol(Captured(a)[j])
    PROVE  j \in 1 .. Len(a) /\ Captured(a)[j] = a[j]
  <1>1. EndedWithin(a, CaptureWindow) \in 0 .. Len(a)
    <2>1. PICK time \in Nat : time = CaptureWindow
      BY SMT DEF CaptureWindow
    <2> QED BY <2>1, EndedWithinRange
  <1>2. PICK n \in Nat : n = Recorded(EndedWithin(a, CaptureWindow)) /\ n <= Len(a)
    BY <1>1 DEF Recorded, MaxEdges
  <1>3. PICK e : e = Captured(a) /\ e = [k \in 1 .. n |-> Delta(a[k])]
    BY <1>2, Zenon DEF Captured
  <1>4. Len(e) = n
    BY <1>2, <1>3
  <1>5. j \in 1 .. n /\ j \in 1 .. Len(a)
    BY <1>2, <1>3, <1>4
  <1>6. e[j] = Delta(a[j])
    BY <1>3, <1>5, Zenon
  <1>7. PICK us \in Nat : us = a[j]
    BY <1>5
  <1>8. IsSymbol(Delta(us))
    BY <1>3, <1>6, <1>7, Zenon
  <1>9. Delta(us) = us
    BY <1>8, SymbolKept, Zenon
  <1> QED BY <1>3, <1>5, <1>6, <1>7, <1>9, Zenon

\* A pulse and a gap for each bit of a run.
SymbolsAt(e, i, bits) ==
    \A j \in Nat : 1 <= j /\ j <= bits =>
        /\ IsPulse(PulseOf(e, i, j))
        /\ IsZero(GapOf(e, i, j)) \/ IsOne(GapOf(e, i, j))

\* A candidate reads its bits from a run of symbols.
LEMMA CandidateIsRun ==
    ASSUME NEW e, Len(e) \in Nat, NEW c \in Candidates(e)
    PROVE  SymbolsAt(e, c.start, c.bits) /\ c.start + 2 * c.bits <= Len(e) + 1
  <1>1. PICK i \in ScanStarts(e) : c.start = i /\ c.bits = (RunEndOf(e, i) - i) \div 2
    BY CandidateKinds
  <1>2. i \in Nat
    BY DEF ScanStarts
  <1>3. PICK t \in Nat : /\ t = RunEndOf(e, i)
                         /\ t \in Ends(e) /\ t >= i /\ (t - i) % 2 = 0
                         /\ \A u \in Ends(e) : u >= i /\ (u - i) % 2 = 0 => t <= u
    BY RunEndFacts
  <1>4. PICK bits \in Nat : bits = c.bits /\ t = i + 2 * bits
    <2>1. PICK n \in Nat : n = t - i
      BY <1>2, <1>3
    <2>2. n % 2 = 0 /\ t = i + n /\ c.bits = n \div 2
      BY <1>1, <1>2, <1>3, <2>1
    <2>3. n \div 2 \in Nat /\ n = 2 * (n \div 2)
      BY <2>2
    <2> QED BY <2>2, <2>3
  <1>5. t <= Len(e) + 1 /\ t \in Nat /\ 1 <= i
    BY <1>3 DEF Ends, ScanStarts
  <1>6. ASSUME NEW j \in Nat, 1 <= j, j <= bits
        PROVE  /\ IsPulse(PulseOf(e, i, j))
               /\ IsZero(GapOf(e, i, j)) \/ IsOne(GapOf(e, i, j))
    <2>1. PICK u \in Nat : u = i + 2 * j - 2
      BY <1>2, <1>6
    <2>2. u >= i /\ (u - i) % 2 = 0 /\ u < t /\ u \in 1 .. Len(e) + 1 /\ u + 1 = i + 2 * j - 1
      BY <1>2, <1>4, <1>5, <1>6, <2>1
    <2>3. u \notin Ends(e)
      <3>1. ~(t <= u)
        BY <2>2
      <3> QED BY <1>3, <2>2, <3>1, Zenon
    <2>4. IsPulse(e[u]) /\ (IsZero(e[u + 1]) \/ IsOne(e[u + 1]))
      BY <2>2, <2>3, Zenon DEF Ends
    <2> QED BY <2>1, <2>2, <2>4 DEF PulseOf, GapOf
  <1> QED BY <1>1, <1>4, <1>5, <1>6 DEF SymbolsAt

\* The run stands in what arrived.
RecordedRun(e, a, i, bits) ==
    /\ e = Captured(a) /\ Len(e) \in Nat
    /\ SymbolsAt(e, i, bits) /\ 1 <= i /\ i + 2 * bits <= Len(e) + 1

\* A run of recorded symbols is one of symbols that arrived.
LEMMA RunArrives ==
    ASSUME NEW a \in Seq(Nat), NEW e, NEW i \in Nat, NEW bits \in Nat,
           RecordedRun(e, a, i, bits), NEW d \in Nat, d < 2 * bits
    PROVE  i + d \in 1 .. Len(a) /\ e[i + d] = a[i + d] /\ IsSymbol(a[i + d])
  <1>0. e = Captured(a) /\ Len(e) \in Nat /\ SymbolsAt(e, i, bits)
        /\ 1 <= i /\ i + 2 * bits <= Len(e) + 1
    BY Zenon DEF RecordedRun
  <1>1. PICK j \in Nat : 1 <= j /\ j <= bits /\ (d = 2 * j - 2 \/ d = 2 * j - 1)
    <2>1. PICK j \in Nat : j = (d \div 2) + 1
      OBVIOUS
    <2>2. 1 <= j /\ j <= bits /\ (d = 2 * j - 2 \/ d = 2 * j - 1)
      BY <2>1
    <2> QED BY <2>2
  <1>2. IsPulse(PulseOf(e, i, j)) /\ (IsZero(GapOf(e, i, j)) \/ IsOne(GapOf(e, i, j)))
    BY <1>0, <1>1, Zenon DEF SymbolsAt
  <1>3. IsSymbol(e[i + d])
    <2>1. CASE d = 2 * j - 2
      <3>1. i + d = i + 2 * j - 2
        BY <1>1, <2>1
      <3>2. e[i + d] = PulseOf(e, i, j)
        BY <3>1, Zenon DEF PulseOf
      <3> QED BY <1>2, <3>2, Zenon DEF IsSymbol
    <2>2. CASE d = 2 * j - 1
      <3>1. i + d = i + 2 * j - 1
        BY <1>1, <2>2
      <3>2. e[i + d] = GapOf(e, i, j)
        BY <3>1, Zenon DEF GapOf
      <3> QED BY <1>2, <3>2, Zenon DEF IsSymbol
    <2> QED BY <1>1, <2>1, <2>2
  <1>4. PICK k \in 1 .. Len(e) : k = i + d
    <2>1. i + d \in 1 .. Len(e)
      BY <1>0
    <2> QED BY <2>1, Zenon
  <1>5. k \in 1 .. Len(a) /\ e[k] = a[k]
    BY <1>0, <1>3, <1>4, RecordedAt, Zenon
  <1> QED BY <1>3, <1>4, <1>5, Zenon

-----------------------------------------------------------------------------
(* The bands, up to the stretch of a receiver. *)

\* A pause is no symbol, however a receiver stretches it.
LEMMA LongIsNoSymbol ==
    ASSUME NEW us \in Nat, NEW v \in Nat, Near(us, v), IsLong(v)
    PROVE  ~IsSymbol(us)
  BY SMT DEF Near, IsLong, IsSymbol, IsPulse, IsZero, IsOne, Within

\* The gap of a one is no pulse.
LEMMA OneIsNoPulse ==
    ASSUME NEW us \in Nat, NEW v \in Nat, Near(us, v), v >= 1464
    PROVE  ~IsPulse(us)
  BY SMT DEF Near, IsPulse, Within

\* A gap is read as the bit it was sent for.
LEMMA GapIsRead ==
    ASSUME NEW us \in Nat, NEW f, NEW j, Near(us, SentGap(f, j)), FrameBit(f, j) \in {0, 1}
    PROVE  (IF IsOne(us) THEN 1 ELSE 0) = FrameBit(f, j)
  <1>1. CASE FrameBit(f, j) = 1
    <2>1. SentGap(f, j) = 1500
      BY <1>1 DEF SentGap
    <2>2. us >= 1200 /\ us <= 1800
      BY <2>1, SMT DEF Near
    <2>3. IsOne(us)
      BY <2>2, SMT DEF IsOne, Within
    <2> QED BY <1>1, <2>3
  <1>2. CASE FrameBit(f, j) = 0
    <2>1. SentGap(f, j) = 500
      BY <1>2 DEF SentGap
    <2>2. us <= 800
      BY <2>1, SMT DEF Near
    <2>3. ~IsOne(us)
      BY <2>2, SMT DEF IsOne, Within
    <2> QED BY <1>2, <2>3
  <1> QED BY <1>1, <1>2

\* No gap is wide enough for chatter.
LEMMA GapIsNotWide ==
    ASSUME NEW f, NEW j
    PROVE  ~IsWide(SentGap(f, j))
  BY SMT DEF SentGap, IsWide

-----------------------------------------------------------------------------
(* A candidate of 35 bits or more. *)

\* The run of a candidate, n of whose intervals match those of the wave from h on.
RunAt(e, a, i, w, h, bits, n) ==
    /\ SymbolsAt(e, i, bits)
    /\ \A d \in Nat : d < n => /\ e[i + d] = a[i + d] /\ a[i + d] \in Nat /\ IsSymbol(a[i + d])
                               /\ w[h + d] \in Nat
    /\ Matches(a, w, i, h, n)

\* So a run of symbols is as many intervals of the wave in a row.
LEMMA RunMatches ==
    ASSUME NEW w \in Waves, NEW r, NoFalseSymbols(r),
           NEW a \in Seq(Nat), HasTrace(a, w, r, Len(w)),
           NEW e, NEW i \in Nat, NEW bits \in Nat, RecordedRun(e, a, i, bits),
           NEW n \in Nat, n > 1, n <= 2 * bits
    PROVE  \E h \in Nat : /\ 1 <= h /\ h + (n - 1) <= Len(w)
                          /\ RunAt(e, a, i, w, h, bits, n)
                          /\ LastMatches(a, w, r, i, h, n - 1)
  <1>1. SymbolsAt(e, i, bits) /\ 1 <= i
    BY Zenon DEF RecordedRun
  <1>2. ASSUME NEW d \in Nat, d < n
        PROVE  i + d \in 1 .. Len(a) /\ e[i + d] = a[i + d] /\ IsSymbol(a[i + d])
    <2>1. d < 2 * bits
      BY <1>2
    <2> QED BY <2>1, RunArrives, Zenon
  <1>3. PICK k \in Nat : k = Len(w)
    BY DEF Waves
  <1>4. PICK m : Traces(m, a, w, r, k)
    BY <1>3, Zenon DEF HasTrace
  <1>5. i + n <= Len(a) + 1
    <2>1. PICK z \in Nat : z = n - 1 /\ z < n
      OBVIOUS
    <2>2. i + z \in 1 .. Len(a)
      BY <1>2, <2>1, Zenon
    <2> QED BY <2>1, <2>2
  <1>6. PICK h \in Nat :
           /\ 1 <= h /\ h + (n - 1) <= k
           /\ Matches(a, w, i, h, n) /\ LastMatches(a, w, r, i, h, n - 1)
    BY <1>1, <1>2, <1>4, <1>5, SymbolsMatch, Zenon
  <1>7. ASSUME NEW d \in Nat, d < n
        PROVE  a[i + d] \in Nat /\ w[h + d] \in Nat
    <2>1. i + d \in 1 .. Len(a)
      BY <1>2, <1>7
    <2>2. h + d \in 1 .. Len(w)
      <3>1. 1 <= h /\ h + (n - 1) <= k
        BY <1>6
      <3>2. PICK x \in Nat : x = h + d /\ 1 <= x
        BY <3>1
      <3>3. x <= k
        BY <1>7, <3>1, <3>2
      <3>4. x \in 1 .. k
        BY <3>2, <3>3
      <3> QED BY <1>3, <3>2, <3>4, Zenon
    <2>3. \A j \in 1 .. Len(w) : w[j] \in Nat
      BY DEF Waves, Lasting
    <2>4. \A j \in 1 .. Len(a) : a[j] \in Nat
      OBVIOUS
    <2> QED BY <2>1, <2>2, <2>3, <2>4, Zenon
  <1>8. RunAt(e, a, i, w, h, bits, n)
    BY <1>1, <1>2, <1>6, <1>7, Zenon DEF RunAt
  <1> QED BY <1>3, <1>6, <1>8, Zenon

\* The run of a candidate of 35 bits or more.
LongRunAt(e, a, i, w, r, h, bits) ==
    /\ RunAt(e, a, i, w, h, bits, 2 * bits) /\ LastMatches(a, w, r, i, h, 2 * bits - 1)
    /\ bits >= FrameBits

\* An interval that arrived as it stands in the wave.
Arrived(e, i, w, h, d) ==
    /\ e[i + d] \in Nat /\ IsSymbol(e[i + d]) /\ w[h + d] \in Nat
    /\ Near(e[i + d], w[h + d])

\* Every interval of the run but the first and the last arrives as it is.
LEMMA InRun ==
    ASSUME NEW e, NEW a, NEW i \in Nat, NEW w, NEW r, NEW h \in Nat, NEW bits \in Nat,
           LongRunAt(e, a, i, w, r, h, bits),
           NEW d \in Nat, 1 <= d, d < 2 * bits - 1
    PROVE  Arrived(e, i, w, h, d)
  <1>1. RunAt(e, a, i, w, h, bits, 2 * bits)
    BY DEF LongRunAt
  <1>2. PICK n \in Nat : n = 2 * bits /\ d < n /\ d + 1 < n
    OBVIOUS
  <1>3. RunAt(e, a, i, w, h, bits, n)
    BY <1>1, <1>2, Zenon
  <1>4. e[i + d] = a[i + d] /\ a[i + d] \in Nat /\ IsSymbol(a[i + d]) /\ w[h + d] \in Nat
    BY <1>2, <1>3, Zenon DEF RunAt
  <1>5. Near(a[i + d], w[h + d])
    BY <1>2, <1>3, Zenon DEF RunAt, Matches
  <1> QED BY <1>4, <1>5, Zenon DEF Arrived

\* So does the last, if it is not one that chatter can break.
LEMMA LastInRun ==
    ASSUME NEW e, NEW a, NEW i \in Nat, NEW w, NEW r, NEW h \in Nat, NEW bits \in Nat,
           LongRunAt(e, a, i, w, r, h, bits),
           NEW d \in Nat, d = DataEdges - 1, r.noise.edges = 0 \/ ~IsWide(w[h + d])
    PROVE  Arrived(e, i, w, h, d)
  <1>1. DataEdges = 2 * FrameBits /\ FrameBits \in Nat /\ bits >= FrameBits /\ FrameBits > 1
    BY DEF DataEdges, FrameBits, LongRunAt
  <1>2. CASE d < 2 * bits - 1
    <2>1. 1 <= d
      BY <1>1
    <2> QED BY <1>2, <2>1, InRun, Zenon
  <1>3. CASE d = 2 * bits - 1
    <2>1. RunAt(e, a, i, w, h, bits, 2 * bits) /\ LastMatches(a, w, r, i, h, d)
      BY <1>3, Zenon DEF LongRunAt
    <2>2. PICK n \in Nat : n = 2 * bits /\ d < n
      BY <1>3
    <2>3. RunAt(e, a, i, w, h, bits, n)
      BY <2>1, <2>2, Zenon
    <2>4. e[i + d] = a[i + d] /\ a[i + d] \in Nat /\ IsSymbol(a[i + d]) /\ w[h + d] \in Nat
      BY <2>2, <2>3, Zenon DEF RunAt
    <2>5. Near(a[i + d], w[h + d])
      BY <2>1, Zenon DEF LastMatches
    <2> QED BY <2>4, <2>5, Zenon DEF Arrived
  <1> QED BY <1>1, <1>2, <1>3

\* No run of 35 bits goes over a pause.
LEMMA NoBarrierInRun ==
    ASSUME NEW e, NEW a, NEW i \in Nat, NEW w, NEW r, NEW h \in Nat, NEW bits \in Nat,
           LongRunAt(e, a, i, w, r, h, bits)
    PROVE  ~Barrier(w, h) /\ (r.noise.edges = 0 => ~EndBarrier(w, h))
  <1>1. bits >= 35
    BY DEF LongRunAt, FrameBits
  <1>2. ASSUME NEW d \in Nat, 1 <= d, d <= 68, IsLong(w[h + d])
        PROVE  FALSE
    <2>1. d < 2 * bits - 1
      BY <1>1, <1>2
    <2>2. PICK us \in Nat, v \in Nat :
            us = e[i + d] /\ v = w[h + d] /\ IsSymbol(us) /\ Near(us, v)
      <3>1. Arrived(e, i, w, h, d)
        BY <1>2, <2>1, InRun, Zenon
      <3> QED BY <3>1, Zenon DEF Arrived
    <2> QED BY <1>2, <2>2, LongIsNoSymbol
  <1>3. ASSUME r.noise.edges = 0, IsLong(w[h + 69])
        PROVE  FALSE
    <2>1. PICK d \in Nat : d = DataEdges - 1 /\ d = 69
      BY DEF DataEdges, FrameBits
    <2>2. PICK us \in Nat, v \in Nat :
            us = e[i + d] /\ v = w[h + d] /\ IsSymbol(us) /\ Near(us, v)
      <3>0. d = DataEdges - 1 /\ r.noise.edges = 0
        BY <1>3, <2>1
      <3>1. Arrived(e, i, w, h, d)
        BY <3>0, LastInRun, Zenon
      <3> QED BY <3>1, Zenon DEF Arrived
    <2> QED BY <1>3, <2>1, <2>2, LongIsNoSymbol
  <1> QED BY <1>2, <1>3 DEF Barrier, EndBarrier

\* Nor does one take a one for a pulse.
LEMMA NoOneIsAPulse ==
    ASSUME NEW e, NEW a, NEW i \in Nat, NEW w, NEW r, NEW h \in Nat, NEW bits \in Nat,
           LongRunAt(e, a, i, w, r, h, bits), NEW f, InsideOnes(f) # {}
    PROVE  ~OnesHere(w, f, h) /\ ~OnesNext(w, f, h)
  <1>1. bits >= 35
    BY DEF LongRunAt, FrameBits
  <1>2. PICK j \in InsideOnes(f) : j \in Nat /\ 1 < j /\ j < 35
    BY DEF InsideOnes, FrameBits
  <1>3. SymbolsAt(e, i, bits)
    BY Zenon DEF LongRunAt, RunAt
  <1>4. w[h + 2 * j - 2] < 1464
    <2>1. PICK d \in Nat : d = 2 * j - 2
      BY <1>2
    <2>2. 1 <= d /\ d < 2 * bits - 1 /\ h + d = h + 2 * j - 2 /\ i + d = i + 2 * j - 2
          /\ 1 <= j /\ j <= bits
      BY <1>1, <1>2, <2>1
    <2>3. PICK us \in Nat, v \in Nat :
            us = e[i + d] /\ v = w[h + d] /\ IsSymbol(us) /\ Near(us, v)
      <3>1. Arrived(e, i, w, h, d)
        BY <2>2, InRun, Zenon
      <3> QED BY <3>1, Zenon DEF Arrived
    <2>4. IsPulse(us)
      BY <1>2, <1>3, <2>2, <2>3 DEF SymbolsAt, PulseOf
    <2>5. ~(v >= 1464)
      BY <2>3, <2>4, OneIsNoPulse
    <2> QED BY <2>2, <2>3, <2>5
  <1>5. w[h + 2 * j] < 1464
    <2>1. PICK d \in Nat : d = 2 * j
      BY <1>2
    <2>2. 1 <= d /\ d < 2 * bits - 1 /\ h + d = h + 2 * j /\ i + d = i + 2 * (j + 1) - 2
          /\ 1 <= j + 1 /\ j + 1 <= bits /\ j + 1 \in Nat
      BY <1>1, <1>2, <2>1
    <2>3. PICK us \in Nat, v \in Nat :
            us = e[i + d] /\ v = w[h + d] /\ IsSymbol(us) /\ Near(us, v)
      <3>1. Arrived(e, i, w, h, d)
        BY <2>2, InRun, Zenon
      <3> QED BY <3>1, Zenon DEF Arrived
    <2>4. IsPulse(us)
      BY <1>3, <2>2, <2>3 DEF SymbolsAt, PulseOf
    <2>5. ~(v >= 1464)
      BY <2>3, <2>4, OneIsNoPulse
    <2> QED BY <2>2, <2>3, <2>5
  <1>6. PICK u, v : u = w[h + 2 * j - 2] /\ v = w[h + 2 * j]
    OBVIOUS
  <1>7. w[h + 2 * j - 2] \in Nat /\ w[h + 2 * j] \in Nat
    <2>1. PICK d1 \in Nat, d2 \in Nat :
             /\ d1 = 2 * j - 2 /\ d2 = 2 * j /\ h + d1 = h + 2 * j - 2 /\ h + d2 = h + 2 * j
             /\ 1 <= d1 /\ d1 < 2 * bits - 1 /\ 1 <= d2 /\ d2 < 2 * bits - 1
      <3>1. 2 * j - 2 \in Nat /\ 2 * j \in Nat
        BY <1>2
      <3> QED BY <1>1, <1>2, <3>1
    <2>2. Arrived(e, i, w, h, d1) /\ Arrived(e, i, w, h, d2)
      BY <2>1, InRun, Zenon
    <2>3. w[h + d1] \in Nat /\ w[h + d2] \in Nat
      BY <2>2, Zenon DEF Arrived
    <2> QED BY <2>1, <2>3
  <1>8. ~(w[h + 2 * j - 2] >= 1464) /\ ~(w[h + 2 * j] >= 1464)
    BY <1>4, <1>5, <1>7
  <1> QED BY <1>2, <1>8 DEF OnesHere, OnesNext

\* A run that stands on a frame is read as that frame, and ends with it.
LEMMA FrameIsRead ==
    ASSUME NEW e, NEW a, NEW i \in Nat, NEW w, NEW r, NEW h \in Nat, 1 <= h, NEW bits \in Nat,
           LongRunAt(e, a, i, w, r, h, bits), NEW f \in Frames, FrameHere(w, f, h)
    PROVE  bits = FrameBits /\ \A j \in 1 .. FrameBits : BitAt(e, i, j) = FrameBit(f, j)
  <1>1. bits >= 35 /\ FrameBits = 35 /\ DataEdges = 70
    BY DEF LongRunAt, FrameBits, DataEdges
  <1>2. ASSUME bits > 35
        PROVE  FALSE
    <2>1. PICK d \in Nat : d = 70
      OBVIOUS
    <2>2. 1 <= d /\ d < 2 * bits - 1
      BY <1>2, <2>1
    <2>3. PICK us \in Nat, v \in Nat :
            us = e[i + d] /\ v = w[h + d] /\ IsSymbol(us) /\ Near(us, v)
      <3>1. Arrived(e, i, w, h, d)
        BY <2>2, InRun, Zenon
      <3> QED BY <3>1, Zenon DEF Arrived
    <2>4. IsLong(w[h + d])
      BY <2>1 DEF FrameHere
    <2> QED BY <2>3, <2>4, LongIsNoSymbol
  <1>3. ASSUME NEW j \in 1 .. FrameBits
        PROVE  BitAt(e, i, j) = FrameBit(f, j)
    <2>1. j \in Nat /\ 1 <= j /\ j <= 35
      BY <1>1
    <2>2. PICK d \in Nat : d = 2 * j - 1
      BY <2>1
    <2>3. i + d = i + 2 * j - 1 /\ h + d = (h - 1) + 2 * j /\ 1 <= d /\ d <= 69
      BY <2>1, <2>2
    <2>4. w[h + d] = SentGap(f, j)
      <3>1. w[(h - 1) + 2 * j] = SentGap(f, j)
        BY Zenon DEF FrameHere, GapsAfter
      <3> QED BY <2>3, <3>1
    <2>5. PICK us \in Nat, v \in Nat : us = e[i + d] /\ v = w[h + d] /\ Near(us, v)
      <3>1. ASSUME d < 69
            PROVE  Arrived(e, i, w, h, d)
        <4>1. d < 2 * bits - 1
          BY <1>1, <3>1
        <4> QED BY <2>3, <4>1, InRun, Zenon
      <3>2. ASSUME d = 69
            PROVE  Arrived(e, i, w, h, d)
        <4>1. ~IsWide(w[h + d])
          BY <2>4, GapIsNotWide
        <4>2. d = DataEdges - 1
          BY <1>1, <3>2
        <4> QED BY <4>1, <4>2, LastInRun, Zenon
      <3>3. Arrived(e, i, w, h, d)
        BY <2>3, <3>1, <3>2
      <3> QED BY <3>3, Zenon DEF Arrived
    <2>6. (IF IsOne(us) THEN 1 ELSE 0) = FrameBit(f, j)
      <3>1. Near(us, SentGap(f, j))
        BY <2>4, <2>5, Zenon
      <3>2. FrameBit(f, j) \in {0, 1}
        BY BitType
      <3> QED BY <3>1, <3>2, GapIsRead
    <2> QED BY <2>3, <2>5, <2>6, Zenon DEF BitAt
  <1> QED BY <1>1, <1>2, <1>3

\* The window that a run of 35 bits is read from has a pause in it, or is half a bit
\* off the frame; or it is the frame, which only the canonical wave sets off on
\* both sides.
LEMMA RunIsFrame ==
    ASSUME NEW s \in Transmissions, NEW w, w = Wave(s), NEW f, f = s.frame, NEW r,
           NEW h \in Nat, 1 <= h, h + 69 <= Len(w),
           ~Barrier(w, h), ~OnesHere(w, f, h), ~OnesNext(w, f, h),
           s.path = "canonical" \/ ~EndBarrier(w, h)
    PROVE  FrameHere(w, f, h)
  <1>1. PICK n \in Nat : n = s.repeats /\ n > 0
    BY TransmissionKinds
  <1>2. CASE s.path = "canonical"
    <2>1. w = CanonicalWave(f, n)
      BY <1>1, <1>2 DEF Wave
    <2>2. CanonicalLayout(w, f, n)
      BY <1>1, <2>1, CanonicalIsLaidOut, Zenon
    <2> QED BY <2>2, CanonicalWindow, Zenon
  <1>3. CASE s.path = "cc1101"
    <2>1. w = Cc1101Wave(f, n)
      BY <1>1, <1>3 DEF Wave
    <2>2. Cc1101Layout(w, f, n)
      BY <1>1, <2>1, Cc1101IsLaidOut, Zenon
    <2>3. ~EndBarrier(w, h)
      BY <1>3
    <2> QED BY <2>2, <2>3, Cc1101Window, Zenon
  <1>4. CASE s.path = "power_off"
    <2>1. w = PowerOffWave(f, n)
      BY <1>1, <1>4 DEF Wave
    <2>2. PowerOffLayout(w, f, n)
      BY <1>1, <2>1, PowerOffIsLaidOut, Zenon
    <2>3. ~EndBarrier(w, h)
      BY <1>4
    <2> QED BY <2>2, <2>3, PowerOffWindow, Zenon
  <1> QED BY <1>2, <1>3, <1>4, TransmissionKinds

\* A candidate of 35 bits or more has the fields of the frame on the air.
LEMMA CandidateIsSent ==
    ASSUME NEW s \in Transmissions, NEW r \in Receptions, r.start.interval <= Len(Wave(s)),
           HasOneInside(s.frame),
           r.noise.edges = 0 \/ (s.path = "canonical" /\ NoFalseSymbols(r)),
           NEW e \in Seq(Uint16), e = Captured(Arriving(s, r)),
           NEW c \in Candidates(e), c.bits >= FrameBits
    PROVE  Low24(e, c) = s.frame.low24 /\ Remote(e, c) = s.frame.remote
  <1>1. PICK w \in Waves : w = Wave(s)
    BY WaveType
  <1>2. PICK f \in Frames : f = s.frame
    BY TransmissionKinds, FramesAssumption DEF Frames
  <1>3. PICK a \in Seq(Nat) : a = Arriving(s, r)
    BY ArrivingType
  <1>4. PICK i \in Nat, bits \in Nat : i = c.start /\ bits = c.bits /\ 1 <= i
    BY CandidateFacts DEF ScanStarts
  <1>5. RecordedRun(e, a, i, bits)
    <2>1. Len(e) \in Nat
      OBVIOUS
    <2>2. SymbolsAt(e, i, bits) /\ i + 2 * bits <= Len(e) + 1
      BY <1>4, <2>1, CandidateIsRun, Zenon
    <2> QED BY <1>3, <1>4, <2>1, <2>2, Zenon DEF RecordedRun
  <1>6. NoFalseSymbols(r)
    BY DEF NoFalseSymbols
  <1>7. HasTrace(a, w, r, Len(w))
    BY <1>1, <1>3, ArrivingIsTraced, Zenon
  <1>8. PICK n \in Nat : n = 2 * bits /\ n > 1 /\ n <= 2 * bits /\ n >= 70
    <2>1. bits >= 35
      BY <1>4 DEF FrameBits
    <2> QED BY <2>1
  <1>9. PICK h \in Nat : /\ 1 <= h /\ h + (n - 1) <= Len(w)
                         /\ RunAt(e, a, i, w, h, bits, n)
                         /\ LastMatches(a, w, r, i, h, n - 1)
    BY <1>5, <1>6, <1>7, <1>8, RunMatches, Zenon
  <1>10. LongRunAt(e, a, i, w, r, h, bits)
    BY <1>4, <1>8, <1>9, Zenon DEF LongRunAt
  <1>11. h + 69 <= Len(w)
    <2>1. Len(w) \in Nat
      BY DEF Waves
    <2> QED BY <1>8, <1>9, <2>1
  <1>12. InsideOnes(f) # {}
    <2>1. PICK j \in 1 .. FrameBits : 1 < j /\ j < FrameBits /\ FrameBit(f, j) = 1
      BY <1>2, Zenon DEF HasOneInside, Ones
    <2>2. \A k \in 1 .. FrameBits : k \in Nat
      BY DEF FrameBits
    <2>3. j \in InsideOnes(f)
      BY <2>1, <2>2, Zenon DEF InsideOnes
    <2> QED BY <2>3
  <1>13. ~Barrier(w, h) /\ (r.noise.edges = 0 => ~EndBarrier(w, h))
    BY <1>10, NoBarrierInRun, Zenon
  <1>14. ~OnesHere(w, f, h) /\ ~OnesNext(w, f, h)
    BY <1>10, <1>12, NoOneIsAPulse, Zenon
  <1>15. FrameHere(w, f, h)
    BY <1>1, <1>2, <1>9, <1>11, <1>13, <1>14, RunIsFrame, Zenon
  <1>16. bits = FrameBits /\ \A j \in 1 .. FrameBits : BitAt(e, i, j) = FrameBit(f, j)
    BY <1>9, <1>10, <1>15, FrameIsRead
  <1>17. BitsValue(e, i, FrameBits - 23, FrameBits) = f.low24
         /\ BitsValue(e, i, 1, PrefixBits) = f.remote
    BY <1>16, FieldsRead, Zenon
  <1> QED BY <1>2, <1>4, <1>16, <1>17, Zenon DEF Low24, Remote

\* What is reported as complete is a candidate of 35 bits or more.
LEMMA CompleteIsCandidate ==
    ASSUME NEW e \in Seq(Uint16), Decoded(e).kind = "complete"
    PROVE  \E c \in Candidates(e) : /\ c.bits >= FrameBits
                                    /\ Decoded(e).low24 = Low24(e, c)
                                    /\ Decoded(e).remote = Remote(e, c)
  <1>0. Len(e) \in Nat /\ RxMinEdges \in Nat
    BY DEF RxMinEdges
  <1>1. CASE Len(e) < RxMinEdges
    <2>1. Decoded(e) = Undecoded("discarded")
      BY <1>0, <1>1 DEF Decoded
    <2> QED BY <2>1 DEF Undecoded
  <1>2. CASE Len(e) >= RxMinEdges /\ (~Outprizeish(e) \/ Candidates(e) = {})
    <2>1. ~(Len(e) < RxMinEdges)
      BY <1>0, <1>2
    <2>2. Decoded(e) = Undecoded("unknown")
      BY <1>2, <2>1 DEF Decoded
    <2> QED BY <2>2 DEF Undecoded
  <1>3. CASE Len(e) >= RxMinEdges /\ Outprizeish(e) /\ Candidates(e) # {}
    <2>1. ~(Len(e) < RxMinEdges)
      BY <1>0, <1>3
    <2>2. PICK best \in Candidates(e) : best = Best(e)
      BY <1>3, BestIsOne
    <2>3. Decoded(e) = [kind |-> IF IsComplete(best) THEN "complete" ELSE "clipped",
                        bits |-> best.bits, low24 |-> Low24(e, best),
                        remote |-> IF best.bits >= FrameBits THEN Remote(e, best) ELSE 0]
      BY <1>3, <2>1, <2>2 DEF Decoded
    <2>4. IsComplete(best)
      BY <2>3
    <2>5. best.bits >= FrameBits
      BY <2>4 DEF IsComplete
    <2> QED BY <2>3, <2>5
  <1> QED BY <1>0, <1>1, <1>2, <1>3

-----------------------------------------------------------------------------
(* How long a repeat takes. *)

\* A repeat of the canonical wave, after the first b intervals, but for its pause.
RepeatAt(w, f, b) ==
    /\ w[b + 1] = 1169 /\ w[b + 2] = 4092 /\ w[b + 3] = 1107 /\ w[b + 4] = 2486
    /\ w[b + 5] = 363 /\ w[b + 6] = 9030 /\ w[b + 7] = 4506
    /\ \A j \in 1 .. FrameBits :
          w[(b + 6) + 2 * j] = 500 /\ w[(b + 7) + 2 * j] = SentGap(f, j)

\* The canonical wave has one wherever it repeats, and a pause after all but the last.
LEMMA CanonicalRepeats ==
    ASSUME NEW f, NEW repeats \in Nat, NEW a \in Nat, a < repeats,
           NEW w, w = CanonicalWave(f, repeats)
    PROVE  /\ RepeatAt(w, f, 78 * a)
           /\ w[78 * a + 78] = IF a + 1 = repeats THEN Silence ELSE 2710
           /\ Len(w) = 78 * repeats
  <1>1. repeats > 0
    OBVIOUS
  <1>2. PICK part : CanonicalPeriods(w, part, f, repeats)
    BY <1>1, CanonicalIsPeriods
  <1>3. PausesAt(part) /\ part[78] = 2710 /\ Len(w) = 78 * repeats
    BY <1>2 DEF CanonicalPeriods, CanonicalPlaces
  <1>4. \A j \in 1 .. FrameBits : part[6 + 2 * j] = 500 /\ part[7 + 2 * j] = SentGap(f, j)
    BY <1>2 DEF CanonicalPeriods, CanonicalPlaces, SentGap
  <1>5. ASSUME NEW b \in Nat, 1 <= b, b <= 77
        PROVE  w[78 * a + b] = part[b]
    <2>1. b <= 78 /\ 78 * a + b # 78 * repeats
      BY <1>5
    <2>2. w[78 * a + b] = IF 78 * a + b = 78 * repeats THEN Silence ELSE part[b]
      BY <1>2, <1>5, <2>1 DEF CanonicalPeriods
    <2> QED BY <2>1, <2>2
  <1>6. w[78 * a + 78] = IF a + 1 = repeats THEN Silence ELSE 2710
    <2>1. 78 \in Nat /\ 1 <= 78 /\ 78 <= 78
      OBVIOUS
    <2>2. w[78 * a + 78] = IF 78 * a + 78 = 78 * repeats THEN Silence ELSE part[78]
      BY <1>2, <2>1 DEF CanonicalPeriods
    <2>3. 78 * a + 78 = 78 * repeats <=> a + 1 = repeats
      OBVIOUS
    <2> QED BY <1>3, <2>2, <2>3
  <1>7. /\ w[78 * a + 1] = 1169 /\ w[78 * a + 2] = 4092 /\ w[78 * a + 3] = 1107
        /\ w[78 * a + 4] = 2486 /\ w[78 * a + 5] = 363 /\ w[78 * a + 6] = 9030
        /\ w[78 * a + 7] = 4506
    <2>1. \A b \in 1 .. 7 : w[78 * a + b] = part[b]
      <3>1. ASSUME NEW b \in 1 .. 7
            PROVE  w[78 * a + b] = part[b]
        <4>1. b \in Nat /\ 1 <= b /\ b <= 77
          OBVIOUS
        <4> QED BY <1>5, <4>1
      <3> QED BY <3>1
    <2>2. /\ w[78 * a + 1] = part[1] /\ w[78 * a + 2] = part[2] /\ w[78 * a + 3] = part[3]
          /\ w[78 * a + 4] = part[4] /\ w[78 * a + 5] = part[5] /\ w[78 * a + 6] = part[6]
          /\ w[78 * a + 7] = part[7]
      BY <2>1
    <2>3. /\ part[1] = 1169 /\ part[2] = 4092 /\ part[3] = 1107 /\ part[4] = 2486
          /\ part[5] = 363 /\ part[6] = 9030 /\ part[7] = 4506
      BY <1>3 DEF PausesAt
    <2> QED BY <2>2, <2>3
  <1>8. ASSUME NEW j \in 1 .. FrameBits
        PROVE  w[(78 * a + 6) + 2 * j] = 500 /\ w[(78 * a + 7) + 2 * j] = SentGap(f, j)
    <2>1. j \in Nat /\ 1 <= j /\ j <= 35
      BY DEF FrameBits
    <2>2. PICK b \in Nat : b = 6 + 2 * j /\ 1 <= b /\ b <= 77 /\ 78 * a + b = (78 * a + 6) + 2 * j
      BY <2>1
    <2>3. PICK c \in Nat : c = 7 + 2 * j /\ 1 <= c /\ c <= 77 /\ 78 * a + c = (78 * a + 7) + 2 * j
      BY <2>1
    <2>4. w[78 * a + b] = part[b] /\ w[78 * a + c] = part[c]
      BY <1>5, <2>2, <2>3
    <2>5. part[b] = 500 /\ part[c] = SentGap(f, j)
      BY <1>4, <2>2, <2>3
    <2> QED BY <2>2, <2>3, <2>4, <2>5
  <1>9. RepeatAt(w, f, 78 * a)
    BY <1>7, <1>8 DEF RepeatAt
  <1> QED BY <1>3, <1>6, <1>9

\* The ones among the first j bits of a frame.
OnesUpTo(f, j) == {i \in Ones(f) : i <= j}

LEMMA OnesCounted ==
    ASSUME NEW f, NEW j \in Nat
    PROVE  /\ Cardinality(OnesUpTo(f, j)) \in Nat
           /\ j < FrameBits =>
                 Cardinality(OnesUpTo(f, j + 1)) =
                    Cardinality(OnesUpTo(f, j)) + (IF FrameBit(f, j + 1) = 1 THEN 1 ELSE 0)
           /\ j = 0 => Cardinality(OnesUpTo(f, j)) = 0
           /\ j = FrameBits => OnesUpTo(f, j) = Ones(f)
  <1>1. IsFiniteSet(OnesUpTo(f, j))
    <2>1. IsFiniteSet(1 .. FrameBits)
      <3>1. 1 \in Int /\ FrameBits \in Int
        BY DEF FrameBits
      <3> QED BY <3>1, FS_Interval
    <2>2. OnesUpTo(f, j) \subseteq 1 .. FrameBits
      BY DEF OnesUpTo, Ones
    <2> QED BY <2>1, <2>2, FS_Subset
  <1>2. Cardinality(OnesUpTo(f, j)) \in Nat
    BY <1>1, FS_CardinalityType
  <1>3. ASSUME j < FrameBits
        PROVE  Cardinality(OnesUpTo(f, j + 1)) =
                  Cardinality(OnesUpTo(f, j)) + (IF FrameBit(f, j + 1) = 1 THEN 1 ELSE 0)
    <2>1. j + 1 \in 1 .. FrameBits /\ j + 1 \notin OnesUpTo(f, j)
      BY <1>3 DEF OnesUpTo, FrameBits
    <2>2. CASE FrameBit(f, j + 1) = 1
      <3>1. OnesUpTo(f, j + 1) = OnesUpTo(f, j) \cup {j + 1}
        BY <2>1, <2>2 DEF OnesUpTo, Ones
      <3>2. Cardinality(OnesUpTo(f, j) \cup {j + 1}) = Cardinality(OnesUpTo(f, j)) + 1
        BY <1>1, <2>1, FS_AddElement
      <3> QED BY <2>2, <3>1, <3>2
    <2>3. CASE FrameBit(f, j + 1) # 1
      <3>1. OnesUpTo(f, j + 1) = OnesUpTo(f, j)
        <4>1. j + 1 \notin Ones(f)
          BY <2>3 DEF Ones
        <4>2. \A i \in Ones(f) : i \in Int /\ i # j + 1
          BY <4>1 DEF Ones
        <4> QED BY <4>2 DEF OnesUpTo
      <3> QED BY <1>2, <2>3, <3>1
    <2> QED BY <2>2, <2>3
  <1>4. ASSUME j = 0
        PROVE  Cardinality(OnesUpTo(f, j)) = 0
    <2>1. OnesUpTo(f, j) = {}
      BY <1>4 DEF OnesUpTo, Ones
    <2> QED BY <2>1, FS_EmptySet
  <1>5. ASSUME j = FrameBits
        PROVE  OnesUpTo(f, j) = Ones(f)
    BY <1>5 DEF OnesUpTo, Ones
  <1> QED BY <1>2, <1>3, <1>4, <1>5

\* The data take a millisecond for each bit, and another one for each one.
DataTimeUpTo(f, j) == 1000 * j + 1000 * Cardinality(OnesUpTo(f, j))

LEMMA DataTime ==
    ASSUME NEW w, NEW W, Elapsed(w, W), NEW f, NEW b \in Nat, b + 77 <= Len(w), Len(w) \in Nat,
           RepeatAt(w, f, b)
    PROVE  W[b + 77] = W[b + 7] + 35000 + 1000 * Cardinality(Ones(f))
  <1> DEFINE S == {j \in Nat : j <= FrameBits =>
                       W[(b + 7) + 2 * j] = W[b + 7] + DataTimeUpTo(f, j)}
  <1>0. W \in [Nat -> Nat] /\ \A k \in Nat : k < Len(w) => W[k + 1] = W[k] + w[k + 1]
    BY DEF Elapsed
  <1>1. 0 \in S
    <2>1. DataTimeUpTo(f, 0) = 0
      <3>1. 0 \in Nat /\ Cardinality(OnesUpTo(f, 0)) = 0
        BY OnesCounted
      <3> QED BY <3>1 DEF DataTimeUpTo
    <2>2. (b + 7) + 2 * 0 = b + 7 /\ b + 7 \in Nat
      OBVIOUS
    <2>3. W[b + 7] \in Nat
      BY <1>0, <2>2
    <2> QED BY <2>1, <2>2, <2>3
  <1>2. ASSUME NEW j \in S
        PROVE  j + 1 \in S
    <2>1. j \in Nat
      OBVIOUS
    <2>2. ASSUME j + 1 <= FrameBits
          PROVE  W[(b + 7) + 2 * (j + 1)] = W[b + 7] + DataTimeUpTo(f, j + 1)
      <3>1. W[(b + 7) + 2 * j] = W[b + 7] + DataTimeUpTo(f, j)
        BY <2>1, <2>2 DEF FrameBits
      <3> HIDE DEF S
      <3>2. PICK k \in Nat : /\ k = (b + 7) + 2 * j /\ k + 1 = (b + 6) + 2 * (j + 1)
                             /\ k + 2 = (b + 7) + 2 * (j + 1) /\ k + 1 < Len(w) /\ k < Len(w)
                             /\ (k + 1) + 1 = k + 2 /\ k + 1 \in Nat
        BY <2>1, <2>2 DEF FrameBits
      <3>3. j + 1 \in 1 .. FrameBits /\ j < FrameBits
        BY <2>1, <2>2 DEF FrameBits
      <3>4. w[k + 1] = 500 /\ w[k + 2] = SentGap(f, j + 1)
        <4>1. PICK i \in 1 .. FrameBits : i = j + 1
          BY <3>3
        <4>2. w[(b + 6) + 2 * i] = 500 /\ w[(b + 7) + 2 * i] = SentGap(f, i)
          BY DEF RepeatAt
        <4>3. (b + 6) + 2 * i = k + 1 /\ (b + 7) + 2 * i = k + 2
          BY <3>2, <4>1
        <4> QED BY <4>1, <4>2, <4>3
      <3>5. W[k + 1] = W[k] + w[k + 1] /\ W[(k + 1) + 1] = W[k + 1] + w[(k + 1) + 1]
        BY <1>0, <3>2
      <3>6. W[k + 1] = W[k] + 500 /\ W[k + 2] = W[k + 1] + SentGap(f, j + 1)
        BY <3>2, <3>4, <3>5
      <3>7. PICK c \in Nat : c = Cardinality(OnesUpTo(f, j))
        BY <2>1, OnesCounted
      <3>8. Cardinality(OnesUpTo(f, j + 1)) = c + (IF FrameBit(f, j + 1) = 1 THEN 1 ELSE 0)
        BY <2>1, <3>3, <3>7, OnesCounted
      <3>9. PICK u \in Nat, t \in Nat : u = W[k] /\ t = W[b + 7]
        <4>1. b + 7 \in Nat
          OBVIOUS
        <4> QED BY <1>0, <3>2, <4>1
      <3>10. u = t + (1000 * j + 1000 * c)
        BY <3>1, <3>2, <3>7, <3>9 DEF DataTimeUpTo
      <3>11. CASE FrameBit(f, j + 1) = 1
        <4>1. SentGap(f, j + 1) = 1500 /\ Cardinality(OnesUpTo(f, j + 1)) = c + 1
          BY <3>8, <3>11 DEF SentGap
        <4>2. W[k + 2] = (u + 500) + 1500
          BY <3>6, <3>9, <4>1
        <4>3. (u + 500) + 1500 = t + (1000 * (j + 1) + 1000 * (c + 1))
          BY <2>1, <3>10
        <4> QED BY <3>2, <3>9, <4>1, <4>2, <4>3 DEF DataTimeUpTo
      <3>12. CASE FrameBit(f, j + 1) # 1
        <4>1. SentGap(f, j + 1) = 500 /\ Cardinality(OnesUpTo(f, j + 1)) = c
          <5>1. Cardinality(OnesUpTo(f, j + 1)) = c + 0
            BY <3>8, <3>12
          <5>2. c + 0 = c
            OBVIOUS
          <5> QED BY <3>12, <5>1, <5>2 DEF SentGap
        <4>2. W[k + 2] = (u + 500) + 500
          BY <3>6, <3>9, <4>1
        <4>3. (u + 500) + 500 = t + (1000 * (j + 1) + 1000 * c)
          BY <2>1, <3>10
        <4> QED BY <3>2, <3>9, <4>1, <4>2, <4>3 DEF DataTimeUpTo
      <3> QED BY <3>11, <3>12
    <2> QED BY <2>1, <2>2
  <1>3. S = Nat
    <2>1. S \subseteq Nat
      OBVIOUS
    <2> HIDE DEF S
    <2> QED BY <1>1, <1>2, <2>1, AllNat
  <1>4. 35 \in S /\ 35 = FrameBits
    <2>1. 35 \in Nat /\ 35 = FrameBits
      BY DEF FrameBits
    <2> HIDE DEF S
    <2> QED BY <1>3, <2>1
  <1>5. W[(b + 7) + 2 * 35] = W[b + 7] + DataTimeUpTo(f, 35)
    BY <1>4
  <1>6. (b + 7) + 2 * 35 = b + 77
    OBVIOUS
  <1>7. OnesUpTo(f, 35) = Ones(f) /\ Cardinality(OnesUpTo(f, 35)) \in Nat
    BY <1>4, OnesCounted
  <1>8. PICK c \in Nat : c = Cardinality(Ones(f))
    BY <1>7
  <1>9. W[b + 77] = W[b + 7] + (1000 * 35 + 1000 * c)
    BY <1>5, <1>6, <1>7, <1>8 DEF DataTimeUpTo
  <1>10. W[b + 7] \in Nat
    <2>1. b + 7 \in Nat
      OBVIOUS
    <2> QED BY <1>0, <2>1
  <1> QED BY <1>8, <1>9, <1>10

\* The header takes as long as it says.
LEMMA HeaderTime ==
    ASSUME NEW w, NEW W, Elapsed(w, W), NEW f, NEW b \in Nat, b + 77 <= Len(w), Len(w) \in Nat,
           RepeatAt(w, f, b)
    PROVE  W[b + 7] = W[b] + 22753
  <1>1. W \in [Nat -> Nat] /\ \A k \in Nat : k < Len(w) => W[k + 1] = W[k] + w[k + 1]
    BY DEF Elapsed
  <1>2. ASSUME NEW d \in 0 .. 6, NEW us \in Nat, w[b + (d + 1)] = us
        PROVE  W[b + (d + 1)] = W[b + d] + us /\ W[b + d] \in Nat
    <2>1. b + d \in Nat /\ b + d < Len(w) /\ (b + d) + 1 = b + (d + 1)
      OBVIOUS
    <2>2. W[(b + d) + 1] = W[b + d] + w[(b + d) + 1] /\ W[b + d] \in Nat
      BY <1>1, <2>1
    <2> QED BY <1>2, <2>1, <2>2
  <1>3. W[b + 1] = W[b + 0] + 1169 /\ W[b + 0] \in Nat
    <2>1. 0 \in 0 .. 6 /\ 1169 \in Nat /\ 0 + 1 = 1 /\ w[b + 1] = 1169
      BY DEF RepeatAt
    <2>2. w[b + (0 + 1)] = 1169
      BY <2>1
    <2>3. W[b + (0 + 1)] = W[b + 0] + 1169 /\ W[b + 0] \in Nat
      BY <1>2, <2>1, <2>2
    <2> QED BY <2>3
  <1>4. W[b + 2] = W[b + 1] + 4092 /\ W[b + 1] \in Nat
    <2>1. 1 \in 0 .. 6 /\ 4092 \in Nat /\ 1 + 1 = 2 /\ w[b + 2] = 4092
      BY DEF RepeatAt
    <2>2. w[b + (1 + 1)] = 4092
      BY <2>1
    <2>3. W[b + (1 + 1)] = W[b + 1] + 4092 /\ W[b + 1] \in Nat
      BY <1>2, <2>1, <2>2
    <2> QED BY <2>3
  <1>5. W[b + 3] = W[b + 2] + 1107 /\ W[b + 2] \in Nat
    <2>1. 2 \in 0 .. 6 /\ 1107 \in Nat /\ 2 + 1 = 3 /\ w[b + 3] = 1107
      BY DEF RepeatAt
    <2>2. w[b + (2 + 1)] = 1107
      BY <2>1
    <2>3. W[b + (2 + 1)] = W[b + 2] + 1107 /\ W[b + 2] \in Nat
      BY <1>2, <2>1, <2>2
    <2> QED BY <2>3
  <1>6. W[b + 4] = W[b + 3] + 2486 /\ W[b + 3] \in Nat
    <2>1. 3 \in 0 .. 6 /\ 2486 \in Nat /\ 3 + 1 = 4 /\ w[b + 4] = 2486
      BY DEF RepeatAt
    <2>2. w[b + (3 + 1)] = 2486
      BY <2>1
    <2>3. W[b + (3 + 1)] = W[b + 3] + 2486 /\ W[b + 3] \in Nat
      BY <1>2, <2>1, <2>2
    <2> QED BY <2>3
  <1>7. W[b + 5] = W[b + 4] + 363 /\ W[b + 4] \in Nat
    <2>1. 4 \in 0 .. 6 /\ 363 \in Nat /\ 4 + 1 = 5 /\ w[b + 5] = 363
      BY DEF RepeatAt
    <2>2. w[b + (4 + 1)] = 363
      BY <2>1
    <2>3. W[b + (4 + 1)] = W[b + 4] + 363 /\ W[b + 4] \in Nat
      BY <1>2, <2>1, <2>2
    <2> QED BY <2>3
  <1>8. W[b + 6] = W[b + 5] + 9030 /\ W[b + 5] \in Nat
    <2>1. 5 \in 0 .. 6 /\ 9030 \in Nat /\ 5 + 1 = 6 /\ w[b + 6] = 9030
      BY DEF RepeatAt
    <2>2. w[b + (5 + 1)] = 9030
      BY <2>1
    <2>3. W[b + (5 + 1)] = W[b + 5] + 9030 /\ W[b + 5] \in Nat
      BY <1>2, <2>1, <2>2
    <2> QED BY <2>3
  <1>9. W[b + 7] = W[b + 6] + 4506 /\ W[b + 6] \in Nat
    <2>1. 6 \in 0 .. 6 /\ 4506 \in Nat /\ 6 + 1 = 7 /\ w[b + 7] = 4506
      BY DEF RepeatAt
    <2>2. w[b + (6 + 1)] = 4506
      BY <2>1
    <2>3. W[b + (6 + 1)] = W[b + 6] + 4506 /\ W[b + 6] \in Nat
      BY <1>2, <2>1, <2>2
    <2> QED BY <2>3
  <1>10. PICK t \in Nat : t = W[b] /\ W[b + 1] = t + 1169
    <2>1. b + 0 = b
      OBVIOUS
    <2> QED BY <1>3, <2>1
  <1>11. W[b + 2] = t + 5261
    BY <1>4, <1>10
  <1>12. W[b + 3] = t + 6368
    BY <1>5, <1>11
  <1>13. W[b + 4] = t + 8854
    BY <1>6, <1>12
  <1>14. W[b + 5] = t + 9217
    BY <1>7, <1>13
  <1>15. W[b + 6] = t + 18247
    BY <1>8, <1>14
  <1>16. W[b + 7] = t + 22753
    BY <1>9, <1>15
  <1> QED BY <1>10, <1>16

\* A repeat that is sent whole from the start of the capture on, soon enough.
InTime(w, W, f, begin, b) ==
    /\ begin <= b + 7 /\ b + 78 <= Len(w) /\ b % 2 = 0
    /\ RepeatAt(w, f, b) /\ IsLong(w[b + 78])
    /\ W[b + 77] - W[begin - 1] <= 139463

LEMMA SomeRepeatInTime ==
    ASSUME NEW f, Cardinality(Ones(f)) <= MostOnes, NEW repeats \in Nat, repeats >= 2,
           NEW w, w = CanonicalWave(f, repeats), NEW W, Elapsed(w, W),
           NEW begin \in 1 .. 78
    PROVE  \E b \in Nat : InTime(w, W, f, begin, b)
  <1>1. PICK ones \in Nat : ones = Cardinality(Ones(f)) /\ ones <= 22
    <2>1. OnesUpTo(f, FrameBits) = Ones(f) /\ Cardinality(OnesUpTo(f, FrameBits)) \in Nat
      <3>1. FrameBits \in Nat
        BY DEF FrameBits
      <3> QED BY <3>1, OnesCounted
    <2> QED BY <2>1 DEF MostOnes
  <1>2. /\ RepeatAt(w, f, 0) /\ RepeatAt(w, f, 78) /\ w[78] = 2710 /\ IsLong(w[78]) /\ IsLong(w[156])
        /\ Len(w) \in Nat /\ 156 <= Len(w)
    <2>1. PICK a \in Nat, c \in Nat : a = 0 /\ c = 1 /\ a < repeats /\ c < repeats
                                      /\ ~(a + 1 = repeats)
      OBVIOUS
    <2>2. RepeatAt(w, f, 78 * a) /\ w[78 * a + 78] = 2710 /\ Len(w) = 78 * repeats
      BY <2>1, CanonicalRepeats
    <2>3. RepeatAt(w, f, 78 * c) /\ w[78 * c + 78] = IF c + 1 = repeats THEN Silence ELSE 2710
      <3>1. c \in Nat /\ c < repeats
        BY <2>1
      <3> QED BY <3>1, CanonicalRepeats
    <2>4. 78 * a = 0 /\ 78 * a + 78 = 78 /\ 78 * c = 78 /\ 78 * c + 78 = 156
          /\ 78 * repeats \in Nat /\ 156 <= 78 * repeats
      BY <2>1
    <2>5. w[156] = Silence \/ w[156] = 2710
      BY <2>3, <2>4
    <2>6. IsLong(w[156])
      BY <2>5 DEF Silence, IsLong
    <2>7. IsLong(w[78])
      BY <2>2, <2>4 DEF IsLong
    <2> QED BY <2>2, <2>3, <2>4, <2>6, <2>7
  <1>3. W \in [Nat -> Nat] /\ \A k \in Nat : k < Len(w) => W[k + 1] = W[k] + w[k + 1]
    BY DEF Elapsed
  <1>4. W[77] = W[7] + 35000 + 1000 * ones /\ W[7] = W[0] + 22753
    <2>1. PICK b \in Nat : b = 0 /\ b + 77 = 77 /\ b + 7 = 7 /\ b + 77 <= Len(w)
      BY <1>2
    <2>2. W[b + 77] = W[b + 7] + 35000 + 1000 * Cardinality(Ones(f)) /\ W[b + 7] = W[b] + 22753
      BY <1>2, <2>1, DataTime, HeaderTime
    <2> QED BY <1>1, <2>1, <2>2
  <1>5. W[155] = W[85] + 35000 + 1000 * ones /\ W[85] = W[78] + 22753
    <2>1. PICK b \in Nat : b = 78 /\ b + 77 = 155 /\ b + 7 = 85 /\ b + 77 <= Len(w)
      BY <1>2
    <2>2. W[b + 77] = W[b + 7] + 35000 + 1000 * Cardinality(Ones(f)) /\ W[b + 7] = W[b] + 22753
      BY <1>2, <2>1, DataTime, HeaderTime
    <2> QED BY <1>1, <2>1, <2>2
  <1>6. W[78] = W[77] + 2710
    <2>1. PICK k \in Nat : k = 77 /\ k < Len(w) /\ k + 1 = 78
      BY <1>2
    <2>2. W[k + 1] = W[k] + w[k + 1]
      BY <1>3, <2>1
    <2> QED BY <1>2, <2>1, <2>2
  <1>7. W[0] \in Nat /\ W[7] \in Nat /\ W[77] \in Nat /\ W[78] \in Nat /\ W[85] \in Nat
        /\ W[155] \in Nat
    BY <1>3
  <1>8. CASE begin <= 7
    <2>1. begin - 1 \in Nat /\ 0 \in Nat /\ 0 <= begin - 1
      OBVIOUS
    <2>2. W[begin - 1] \in Nat /\ W[0] <= W[begin - 1]
      BY <2>1, ElapsedGrows
    <2>3. W[77] - W[begin - 1] <= 139463
      BY <1>1, <1>4, <1>7, <2>2
    <2>4. PICK b \in Nat : b = 0 /\ b + 7 = 7 /\ b + 78 = 78 /\ b + 77 = 77 /\ b % 2 = 0
      OBVIOUS
    <2>5. 78 <= Len(w)
      BY <1>2
    <2>6. InTime(w, W, f, begin, b)
      BY <1>2, <1>8, <2>3, <2>4, <2>5 DEF InTime
    <2> QED BY <2>6
  <1>9. CASE begin > 7
    <2>1. begin - 1 \in Nat /\ 7 \in Nat /\ 7 <= begin - 1 /\ begin <= 85
      BY <1>9
    <2>2. W[begin - 1] \in Nat /\ W[7] <= W[begin - 1]
      BY <2>1, ElapsedGrows
    <2>3. W[155] - W[begin - 1] <= 139463
      BY <1>1, <1>4, <1>5, <1>6, <1>7, <2>2
    <2>4. PICK b \in Nat : b = 78 /\ b + 7 = 85 /\ b + 78 = 156 /\ b + 77 = 155 /\ b % 2 = 0
      OBVIOUS
    <2>5. InTime(w, W, f, begin, b)
      BY <1>2, <2>1, <2>3, <2>4 DEF InTime
    <2> QED BY <2>5
  <1> QED BY <1>8, <1>9

-----------------------------------------------------------------------------
(* When what is sent arrives. *)

\* f[k] is what has arrived after the interval k of the wave.
Unfolds(f, a, w, r, begin, end) ==
    /\ f[begin] = <<Clamped(r.start.left, 0, w[begin])>> /\ a = f[end]
    /\ \A k \in Nat : begin <= k /\ k < end => f[k + 1] = f[k] \o Arrives(w, r, k + 1)
    /\ \A k \in Nat : begin <= k /\ k <= end => f[k] \in Seq(Nat)

LEMMA ArrivingUnfolds ==
    ASSUME NEW s \in Transmissions, NEW r \in Receptions, r.start.interval <= Len(Wave(s))
    PROVE  \E f : Unfolds(f, Arriving(s, r), Wave(s), r, r.start.interval, Len(Wave(s)))
  <1>1. PICK w \in Waves : w = Wave(s)
    BY WaveType
  <1>2. PICK begin \in Nat, end \in Nat : begin = r.start.interval /\ end = Len(w)
                                          /\ 1 <= begin /\ begin <= end
    BY <1>1, ReceptionKinds DEF Waves
  <1>3. PICK f : /\ f = [k \in Heard(s, r) |-> ArrivingStep(s, r, f, k)]
                 /\ Arriving(s, r) = f[Len(Wave(s))]
    BY ArrivingDefined
  <1>4. ASSUME NEW k \in Nat, begin <= k, k <= end
        PROVE  f[k] = ArrivingStep(s, r, f, k)
    <2>1. k \in Heard(s, r)
      BY <1>1, <1>2, <1>4 DEF Heard
    <2> QED BY <1>3, <2>1, Zenon
  <1>5. f[begin] = <<Clamped(r.start.left, 0, w[begin])>>
    BY <1>1, <1>2, <1>4 DEF ArrivingStep
  <1>6. ASSUME NEW k \in Nat, begin <= k, k < end
        PROVE  f[k + 1] = f[k] \o Arrives(w, r, k + 1)
    <2>1. k + 1 \in Nat /\ begin <= k + 1 /\ k + 1 <= end /\ k + 1 # begin /\ (k + 1) - 1 = k
      BY <1>2, <1>6
    <2>2. f[k + 1] = ArrivingStep(s, r, f, k + 1)
      BY <1>4, <2>1, Zenon
    <2> QED BY <1>1, <1>2, <2>1, <2>2, Zenon DEF ArrivingStep
  <1> DEFINE S == {n \in Nat : begin + n <= end => f[begin + n] \in Seq(Nat)}
  <1>7. 0 \in S
    <2>1. w[begin] \in Nat
      BY <1>1, <1>2 DEF Waves, Lasting
    <2>2. Clamped(r.start.left, 0, w[begin]) \in Nat
      BY <2>1, ReceptionKinds DEF Clamped
    <2>3. f[begin] \in Seq(Nat) /\ begin + 0 = begin
      BY <1>5, <2>2
    <2> QED BY <2>3
  <1>8. ASSUME NEW n \in S
        PROVE  n + 1 \in S
    <2>1. n \in Nat /\ (begin + n <= end => f[begin + n] \in Seq(Nat))
      OBVIOUS
    <2> HIDE DEF S
    <2>2. ASSUME begin + (n + 1) <= end
          PROVE  f[begin + (n + 1)] \in Seq(Nat)
      <3>1. PICK k \in Nat : k = begin + n /\ k + 1 = begin + (n + 1) /\ begin <= k /\ k < end
                             /\ k + 1 \in 1 .. Len(w)
        <4>1. /\ begin + n \in Nat /\ (begin + n) + 1 = begin + (n + 1)
              /\ begin <= begin + n /\ begin + n < end
              /\ (begin + n) + 1 \in 1 .. end
          <5>1. n \in Nat /\ begin \in Nat /\ end \in Nat /\ 1 <= begin /\ begin + (n + 1) <= end
            BY <1>2, <2>1, <2>2, Zenon
          <5> QED BY <5>1
        <4> QED BY <1>2, <4>1, Zenon
      <3>2. f[k] \in Seq(Nat)
        BY <2>1, <3>1
      <3>3. Arrives(w, r, k + 1) \in Seq(Nat)
        BY <3>1, ArrivesType
      <3>4. f[k + 1] = f[k] \o Arrives(w, r, k + 1)
        BY <1>6, <3>1, Zenon
      <3>5. f[k + 1] \in Seq(Nat)
        BY <3>2, <3>3, <3>4
      <3> QED BY <3>1, <3>5, Zenon
    <2> QED BY <2>1, <2>2 DEF S
  <1>9. S = Nat
    <2>1. S \subseteq Nat
      OBVIOUS
    <2> HIDE DEF S
    <2> QED BY <1>7, <1>8, <2>1, AllNat
  <1>10. ASSUME NEW k \in Nat, begin <= k, k <= end
         PROVE  f[k] \in Seq(Nat)
    <2>1. PICK n \in Nat : begin + n = k
      <3>1. k - begin \in Nat /\ begin + (k - begin) = k
        BY <1>2, <1>10
      <3> QED BY <3>1, Zenon
    <2>2. n \in S
      BY <1>9, <2>1
    <2> QED BY <1>10, <2>1, <2>2
  <1>11. Unfolds(f, Arriving(s, r), w, r, begin, end)
    BY <1>1, <1>2, <1>3, <1>5, <1>6, <1>10, Zenon DEF Unfolds
  <1> QED BY <1>1, <1>2, <1>11, Zenon

\* What has arrived stays.
BeginsWith(a, b) ==
    /\ Len(b) \in Nat /\ Len(b) <= Len(a)
    /\ \A x \in Nat : 1 <= x /\ x <= Len(b) => a[x] = b[x]

LEMMA BeginsFurther ==
    ASSUME NEW a, NEW b \in Seq(Nat), NEW p \in Seq(Nat), Len(a) \in Nat, BeginsWith(a, b \o p)
    PROVE  /\ BeginsWith(a, b) /\ Len(b \o p) = Len(b) + Len(p)
           /\ \A x \in Nat : 1 <= x /\ x <= Len(p) => a[Len(b) + x] = p[x]
  <1>1. PICK l \in Nat, n \in Nat : l = Len(b) /\ n = Len(p)
    OBVIOUS
  <1>2. PICK c \in Seq(Nat) : JoinedAs(c, b, l, p, n)
    BY <1>1, JoinedAt
  <1>3. /\ c = b \o p /\ Len(c) = l + n
        /\ \A k \in Nat : 1 <= k /\ k <= l => c[k] = b[k]
        /\ \A k \in Nat : 1 <= k /\ k <= n => c[l + k] = p[k]
    BY <1>2, Zenon DEF JoinedAs
  <1>4. l + n <= Len(a) /\ \A x \in Nat : 1 <= x /\ x <= l + n => a[x] = c[x]
    BY <1>3, Zenon DEF BeginsWith
  <1>5. l <= Len(a)
    BY <1>4
  <1>6. ASSUME NEW x \in Nat, 1 <= x, x <= l
        PROVE  a[x] = b[x]
    <2>1. x <= l + n
      BY <1>6
    <2> QED BY <1>3, <1>4, <1>6, <2>1, Zenon
  <1>7. ASSUME NEW x \in Nat, 1 <= x, x <= n
        PROVE  a[l + x] = p[x]
    <2>1. l + x \in Nat /\ 1 <= l + x /\ l + x <= l + n
      BY <1>7
    <2> QED BY <1>3, <1>4, <1>7, <2>1, Zenon
  <1> QED BY <1>1, <1>3, <1>5, <1>6, <1>7, Zenon DEF BeginsWith

LEMMA ArrivedStays ==
    ASSUME NEW f, NEW a, NEW w \in Waves, NEW r \in Receptions, NEW begin \in Nat, NEW end \in Nat,
           1 <= begin, begin <= end, end = Len(w), Unfolds(f, a, w, r, begin, end),
           NEW k \in Nat, begin <= k, k <= end
    PROVE  BeginsWith(a, f[k])
  <1> DEFINE S == {n \in Nat : n <= end - begin => BeginsWith(a, f[end - n])}
  <1>1. 0 \in S
    <2>1. end - 0 = end /\ a = f[end] /\ f[end] \in Seq(Nat)
      BY DEF Unfolds
    <2>2. BeginsWith(a, a)
      BY <2>1 DEF BeginsWith
    <2> QED BY <2>1, <2>2
  <1>2. ASSUME NEW n \in S
        PROVE  n + 1 \in S
    <2>1. n \in Nat /\ (n <= end - begin => BeginsWith(a, f[end - n]))
      OBVIOUS
    <2> HIDE DEF S
    <2>2. ASSUME n + 1 <= end - begin
          PROVE  BeginsWith(a, f[end - (n + 1)])
      <3>1. PICK j \in Nat : j = end - (n + 1) /\ j + 1 = end - n /\ begin <= j /\ j < end
                             /\ j <= end /\ j + 1 \in 1 .. Len(w)
        <4>1. /\ end - (n + 1) \in Nat /\ (end - (n + 1)) + 1 = end - n
              /\ begin <= end - (n + 1) /\ end - (n + 1) < end /\ end - (n + 1) <= end
              /\ (end - (n + 1)) + 1 \in 1 .. Len(w)
          BY <2>1, <2>2
        <4> QED BY <4>1, Zenon
      <3>2. BeginsWith(a, f[j + 1])
        <4>1. n <= end - begin
          BY <2>1, <2>2
        <4> QED BY <2>1, <3>1, <4>1, Zenon
      <3>3. f[j + 1] = f[j] \o Arrives(w, r, j + 1) /\ f[j] \in Seq(Nat)
        BY <3>1, Zenon DEF Unfolds
      <3>4. Arrives(w, r, j + 1) \in Seq(Nat)
        BY <3>1, ArrivesType
      <3>5. Len(a) \in Nat
        <4>1. end \in Nat /\ begin <= end /\ end <= end
          OBVIOUS
        <4>2. a \in Seq(Nat)
          BY <4>1, Zenon DEF Unfolds
        <4> QED BY <4>2
      <3>6. BeginsWith(a, f[j])
        BY <3>2, <3>3, <3>4, <3>5, BeginsFurther
      <3> QED BY <3>1, <3>6, Zenon
    <2> QED BY <2>1, <2>2 DEF S
  <1>3. S = Nat
    <2>1. S \subseteq Nat
      OBVIOUS
    <2> HIDE DEF S
    <2> QED BY <1>1, <1>2, <2>1, AllNat
  <1>4. PICK n \in Nat : end - n = k /\ n <= end - begin
    <2>1. end - k \in Nat /\ end - (end - k) = k /\ end - k <= end - begin
      OBVIOUS
    <2> QED BY <2>1, Zenon
  <1>5. n \in S
    BY <1>3, <1>4
  <1> QED BY <1>4, <1>5

\* What the receiver makes of the length of an interval.
Stretched(w, r, k) == IF k % 2 = 1 THEN w[k] + r.stretch ELSE w[k] - r.stretch

\* No interval is stretched to nothing.
LEMMA StretchedType ==
    ASSUME NEW w \in Waves, NEW r \in Receptions, NEW k \in 1 .. Len(w)
    PROVE  Stretched(w, r, k) \in Nat
  <1>1. PICK v \in Nat : v = w[k] /\ v >= 300
    BY DEF Waves, Lasting
  <1>2. PICK x \in Int : x = r.stretch /\ -300 <= x /\ x <= 300
    BY ReceptionKinds
  <1>3. v + x \in Nat /\ v - x \in Nat
    BY <1>1, <1>2
  <1> QED BY <1>1, <1>2, <1>3, Zenon DEF Stretched

\* p is found in a after the first l intervals.
FoundAt(a, l, p) ==
    /\ l \in Nat /\ p \in Seq(Nat) /\ l + Len(p) <= Len(a)
    /\ \A x \in Nat : 1 <= x /\ x <= Len(p) => a[l + x] = p[x]

\* The pieces p of an interval take as long as it does.
Lasts(P, l, p, us) == P[l + Len(p)] = P[l] + us

LEMMA SplitElapses ==
    ASSUME NEW us \in Nat, NEW r \in Receptions, us > r.noise.lead + r.noise.edges * r.noise.width,
           NEW a, NEW P, Elapsed(a, P), Len(a) \in Nat,
           NEW l, FoundAt(a, l, Split(us, r.noise))
    PROVE  Lasts(P, l, Split(us, r.noise), us)
  <1> DEFINE p == Split(us, r.noise)
  <1>0. /\ l \in Nat /\ l + Len(p) <= Len(a)
        /\ \A x \in Nat : 1 <= x /\ x <= Len(p) => a[l + x] = p[x]
    BY DEF FoundAt
  <1>1. PICK lead \in Nat, width \in Nat, n \in Nat :
           lead = r.noise.lead /\ width = r.noise.width /\ n = r.noise.edges
    BY ReceptionKinds
  <1>2. PICK all \in Nat : all = n * width
    <2>1. n * width \in Nat
      OBVIOUS
    <2> QED BY <2>1
  <1>3. PICK last \in Nat : last = us - lead - all /\ lead + all + last = us
    <2>1. us > lead + all
      BY <1>1, <1>2, Zenon
    <2>2. us - lead - all \in Nat /\ lead + all + (us - lead - all) = us
      BY <2>1
    <2> QED BY <2>2, Zenon
  <1>4. p = <<lead>> \o [j \in 1 .. n |-> width] \o <<last>>
    BY <1>1, <1>2, <1>3, Zenon DEF Split
  <1> HIDE DEF p
  <1>5. Len(p) = n + 2 /\ p[1] = lead /\ p[n + 2] = last
        /\ \A j \in 1 .. n : p[j + 1] = width
    BY <1>4
  <1>6. P \in [Nat -> Nat] /\ \A k \in Nat : k < Len(a) => P[k + 1] = P[k] + a[k + 1]
    BY DEF Elapsed
  <1>7. ASSUME NEW x \in Nat, x < n + 2
        PROVE  P[l + (x + 1)] = P[l + x] + p[x + 1] /\ P[l + x] \in Nat
    <2>1. l + x \in Nat /\ l + x < Len(a) /\ (l + x) + 1 = l + (x + 1)
      BY <1>0, <1>5, <1>7
    <2>2. P[(l + x) + 1] = P[l + x] + a[(l + x) + 1] /\ P[l + x] \in Nat
      BY <1>6, <2>1, Zenon
    <2>3. x + 1 \in Nat /\ 1 <= x + 1 /\ x + 1 <= Len(p)
      BY <1>5, <1>7
    <2>4. a[l + (x + 1)] = p[x + 1]
      BY <1>0, <2>3, Zenon
    <2> QED BY <2>1, <2>2, <2>4, Zenon
  <1> DEFINE S == {j \in Nat : j <= n => P[l + (j + 1)] = P[l] + lead + j * width}
  <1>8. 0 \in S
    <2>1. PICK z \in Nat : z = 0 /\ z < n + 2 /\ l + z = l /\ z + 1 = 1 /\ 0 * width = 0
      BY <1>0
    <2>2. P[l + (z + 1)] = P[l + z] + p[z + 1] /\ P[l + z] \in Nat
      BY <1>7, <2>1, Zenon
    <2>3. P[l + (0 + 1)] = P[l] + lead /\ P[l] \in Nat
      BY <1>5, <2>1, <2>2, Zenon
    <2>4. P[l] + lead + 0 * width = P[l] + lead
      BY <2>1, <2>3
    <2> QED BY <2>3, <2>4
  <1>9. ASSUME NEW j \in S
        PROVE  j + 1 \in S
    <2>1. j \in Nat /\ (j <= n => P[l + (j + 1)] = P[l] + lead + j * width)
      OBVIOUS
    <2> HIDE DEF S
    <2>2. ASSUME j + 1 <= n
          PROVE  P[l + ((j + 1) + 1)] = P[l] + lead + (j + 1) * width
      <3>1. P[l + (j + 1)] = P[l] + lead + j * width
        BY <2>1, <2>2
      <3>2. j + 1 \in Nat /\ j + 1 < n + 2 /\ j + 1 \in 1 .. n
        BY <2>1, <2>2
      <3>3. P[l + ((j + 1) + 1)] = P[l + (j + 1)] + p[(j + 1) + 1]
        BY <1>7, <3>2, Zenon
      <3>4. p[(j + 1) + 1] = width
        BY <1>5, <3>2, Zenon
      <3>5. PICK u \in Nat, m \in Nat : u = P[l] /\ m = j * width
        <4>1. j * width \in Nat
          BY <2>1
        <4>2. P[l] \in Nat
          BY <1>0, <1>6, Zenon
        <4> QED BY <4>1, <4>2, Zenon
      <3>6. (j + 1) * width = m + width
        BY <2>1, <3>5
      <3>7. u + lead + m + width = u + lead + (m + width)
        OBVIOUS
      <3> QED BY <3>1, <3>3, <3>4, <3>5, <3>6, <3>7, Zenon
    <2> QED BY <2>1, <2>2 DEF S
  <1>10. S = Nat
    <2>1. S \subseteq Nat
      OBVIOUS
    <2> HIDE DEF S
    <2> QED BY <1>8, <1>9, <2>1, AllNat
  <1>11. P[l + (n + 1)] = P[l] + lead + all
    <2>1. n \in S
      BY <1>10
    <2>2. n <= n
      OBVIOUS
    <2> QED BY <1>2, <2>1, <2>2
  <1>12. P[l + ((n + 1) + 1)] = P[l + (n + 1)] + p[(n + 1) + 1]
    <2>1. n + 1 \in Nat /\ n + 1 < n + 2
      OBVIOUS
    <2> QED BY <1>7, <2>1, Zenon
  <1>13. (n + 1) + 1 = n + 2
    OBVIOUS
  <1>14. PICK u \in Nat : u = P[l]
    BY <1>0, <1>6
  <1>15. P[l + (n + 2)] = u + lead + all + last
    BY <1>5, <1>11, <1>12, <1>13, <1>14, Zenon
  <1>16. u + lead + all + last = u + us
    BY <1>3
  <1>17. Lasts(P, l, p, us)
    BY <1>5, <1>14, <1>15, <1>16, Zenon DEF Lasts
  <1> QED BY <1>17 DEF p

\* An interval takes as long to arrive as the receiver has stretched it.
LEMMA ArrivesElapses ==
    ASSUME NEW w \in Waves, NEW r \in Receptions, NEW k \in 1 .. Len(w),
           NEW a, NEW P, Elapsed(a, P), Len(a) \in Nat,
           NEW l, FoundAt(a, l, Arrives(w, r, k))
    PROVE  Lasts(P, l, Arrives(w, r, k), Stretched(w, r, k))
  <1>1. PICK us \in Nat : us = Stretched(w, r, k)
    BY StretchedType, Zenon
  <1>2. us = IF k % 2 = 1 THEN w[k] + r.stretch ELSE w[k] - r.stretch
    BY <1>1 DEF Stretched
  <1> DEFINE Broken == /\ k % 2 = 0 /\ us >= LongPause
                       /\ r.noise.edges > 0 /\ r.noise.from <= k /\ k <= r.noise.to
                       /\ us > r.noise.lead + r.noise.edges * r.noise.width
  <1>3. PICK p : p = Arrives(w, r, k) /\ FoundAt(a, l, p)
    OBVIOUS
  <1>4. p = IF Broken THEN Split(us, r.noise) ELSE <<us>>
    BY <1>2, <1>3, Zenon DEF Arrives
  <1>5. CASE Broken
    <2>1. p = Split(us, r.noise) /\ us > r.noise.lead + r.noise.edges * r.noise.width
      BY <1>4, <1>5, Zenon
    <2> HIDE DEF Broken
    <2>2. FoundAt(a, l, Split(us, r.noise))
      BY <1>3, <2>1, Zenon
    <2>3. Lasts(P, l, Split(us, r.noise), us)
      BY <2>1, <2>2, SplitElapses, Zenon
    <2> QED BY <1>1, <1>3, <2>1, <2>3, Zenon
  <1>6. CASE ~Broken
    <2>1. p = <<us>>
      BY <1>4, <1>6, Zenon
    <2> HIDE DEF Broken
    <2>2. Len(p) = 1 /\ p[1] = us
      BY <2>1
    <2>3. l \in Nat /\ l < Len(a) /\ a[l + 1] = us
      BY <1>3, <2>2 DEF FoundAt
    <2>4. P[l + 1] = P[l] + us
      BY <2>3 DEF Elapsed
    <2>5. Lasts(P, l, p, us)
      BY <2>2, <2>4, Zenon DEF Lasts
    <2> QED BY <1>1, <1>3, <2>5, Zenon
  <1> QED BY <1>5, <1>6

\* a is what the receiver r makes of w from the interval begin on, f how it unfolds,
\* and P and W are the times of the two.
Received(f, a, w, r, begin, P, W) ==
    /\ w \in Waves /\ r \in Receptions /\ begin \in Nat /\ 1 <= begin /\ begin <= Len(w)
    /\ Unfolds(f, a, w, r, begin, Len(w))
    /\ a \in Seq(Nat) /\ Elapsed(a, P) /\ Elapsed(w, W)

\* The next interval arrives where those before it end.
ArrivesNext(f, a, w, r, k) ==
    /\ FoundAt(a, Len(f[k]), Arrives(w, r, k + 1))
    /\ Len(f[k + 1]) = Len(f[k]) + Len(Arrives(w, r, k + 1))

LEMMA NextArrives ==
    ASSUME NEW f, NEW a, NEW w, NEW r, NEW begin, NEW P, NEW W,
           Received(f, a, w, r, begin, P, W),
           NEW k \in Nat, begin <= k, k < Len(w)
    PROVE  ArrivesNext(f, a, w, r, k)
  <1> DEFINE l == Len(f[k])
             p == Arrives(w, r, k + 1)
  <1>1. /\ w \in Waves /\ r \in Receptions /\ begin \in Nat /\ 1 <= begin /\ begin <= Len(w)
        /\ Unfolds(f, a, w, r, begin, Len(w)) /\ a \in Seq(Nat)
    BY DEF Received
  <1>2. Len(w) \in Nat /\ Len(a) \in Nat
    BY <1>1 DEF Waves
  <1>3. k + 1 \in Nat /\ begin <= k + 1 /\ k + 1 <= Len(w) /\ k <= Len(w) /\ k + 1 \in 1 .. Len(w)
    BY <1>1, <1>2
  <1>4. f[k + 1] = f[k] \o p /\ f[k] \in Seq(Nat)
    BY <1>1, <1>3, Zenon DEF Unfolds
  <1>5. p \in Seq(Nat)
    BY <1>1, <1>3, ArrivesType
  <1>6. BeginsWith(a, f[k + 1])
    BY <1>1, <1>2, <1>3, ArrivedStays
  <1>7. BeginsWith(a, f[k] \o p)
    BY <1>4, <1>6, Zenon
  <1>8. /\ Len(f[k] \o p) = Len(f[k]) + Len(p)
        /\ \A x \in Nat : 1 <= x /\ x <= Len(p) => a[Len(f[k]) + x] = p[x]
    <2>1. PICK b \in Seq(Nat) : b = f[k]
      BY <1>4
    <2>2. BeginsWith(a, b \o p)
      BY <1>7, <2>1, Zenon
    <2>3. /\ Len(b \o p) = Len(b) + Len(p)
          /\ \A x \in Nat : 1 <= x /\ x <= Len(p) => a[Len(b) + x] = p[x]
      BY <1>2, <1>5, <2>2, BeginsFurther
    <2> QED BY <2>1, <2>3, Zenon
  <1>9. l \in Nat
    BY <1>4
  <1>10. l + Len(p) <= Len(a)
    BY <1>7, <1>8, Zenon DEF BeginsWith
  <1>11. FoundAt(a, l, p)
    BY <1>5, <1>8, <1>9, <1>10, Zenon DEF FoundAt
  <1> QED BY <1>4, <1>8, <1>11, Zenon DEF ArrivesNext

\* They end as much later as it has been stretched to.
ElapsesNext(f, a, w, r, k, P) ==
    /\ Len(f[k]) \in Nat /\ Len(f[k]) <= Len(a)
    /\ P[Len(f[k + 1])] = P[Len(f[k])] + Stretched(w, r, k + 1)

LEMMA NextElapses ==
    ASSUME NEW f, NEW a, NEW w, NEW r, NEW begin, NEW P, NEW W,
           Received(f, a, w, r, begin, P, W), NEW k \in Nat, begin <= k, k < Len(w)
    PROVE  ElapsesNext(f, a, w, r, k, P)
  <1>1. PICK l, p : l = Len(f[k]) /\ p = Arrives(w, r, k + 1)
    OBVIOUS
  <1>2. FoundAt(a, l, p) /\ Len(f[k + 1]) = l + Len(p)
    <2>1. ArrivesNext(f, a, w, r, k)
      BY NextArrives, Zenon
    <2> QED BY <1>1, <2>1, Zenon DEF ArrivesNext
  <1>3. w \in Waves /\ r \in Receptions /\ begin \in Nat /\ a \in Seq(Nat) /\ Elapsed(a, P)
    BY DEF Received
  <1>4. Len(a) \in Nat /\ Len(p) \in Nat /\ l \in Nat /\ l + Len(p) <= Len(a)
    BY <1>2, <1>3 DEF FoundAt
  <1>5. PICK j \in 1 .. Len(w) : j = k + 1
    <2>1. k + 1 \in 1 .. Len(w)
      BY <1>3 DEF Waves
    <2> QED BY <2>1
  <1>6. P[l + Len(p)] = P[l] + Stretched(w, r, j)
    <2>1. p = Arrives(w, r, j) /\ FoundAt(a, l, Arrives(w, r, j))
      BY <1>1, <1>2, <1>5, Zenon
    <2>2. Lasts(P, l, Arrives(w, r, j), Stretched(w, r, j))
      BY <1>3, <1>4, <2>1, ArrivesElapses, Zenon
    <2> QED BY <2>1, <2>2, Zenon DEF Lasts
  <1>7. l <= Len(a)
    BY <1>4
  <1> QED BY <1>1, <1>2, <1>4, <1>5, <1>6, <1>7, Zenon DEF ElapsesNext

\* How far what arrives may be behind what is sent after the interval k.
Drift(r, k) == IF k % 2 = 1 THEN r.stretch ELSE 0

LEMMA DriftSteps ==
    ASSUME NEW w \in Waves, NEW r \in Receptions, NEW k \in Nat, k < Len(w)
    PROVE  /\ Stretched(w, r, k + 1) = w[k + 1] + Drift(r, k + 1) - Drift(r, k)
           /\ Stretched(w, r, k + 1) \in Int /\ w[k + 1] \in Nat
           /\ Drift(r, k) \in Int /\ Drift(r, k + 1) \in Int
  <1>1. PICK x \in Int : x = r.stretch
    BY ReceptionKinds
  <1>2. PICK v \in Nat : v = w[k + 1]
    <2>1. k + 1 \in 1 .. Len(w)
      BY DEF Waves
    <2> QED BY <2>1 DEF Waves, Lasting
  <1>3. CASE k % 2 = 1
    <2>1. (k + 1) % 2 # 1
      BY <1>3
    <2>2. Stretched(w, r, k + 1) = v - x /\ Drift(r, k) = x /\ Drift(r, k + 1) = 0
      BY <1>1, <1>2, <1>3, <2>1 DEF Stretched, Drift
    <2> QED BY <1>2, <2>2
  <1>4. CASE k % 2 # 1
    <2>1. (k + 1) % 2 = 1
      BY <1>4
    <2>2. Stretched(w, r, k + 1) = v + x /\ Drift(r, k) = 0 /\ Drift(r, k + 1) = x
      BY <1>1, <1>2, <1>4, <2>1 DEF Stretched, Drift
    <2> QED BY <1>2, <2>2
  <1> QED BY <1>3, <1>4

LEMMA DriftIsSmall ==
    ASSUME NEW r \in Receptions, NEW k
    PROVE  Drift(r, k) \in Int /\ -300 <= Drift(r, k) /\ Drift(r, k) <= 300
           /\ (k % 2 = 1 => Drift(r, k) = r.stretch) /\ (k % 2 # 1 => Drift(r, k) = 0)
  BY ReceptionKinds DEF Drift

\* With less or as much to come before, and as much more of both, it is kept.
LEMMA KeepsUp ==
    \A p, q, s, v, u, d, e \in Int : p + q <= s + d - u => (p + (v + e - d)) + q <= (s + v) + e - u
  OBVIOUS

\* What has been sent has arrived, but for the drift.
LEMMA TimesKeepUp ==
    ASSUME NEW f, NEW a, NEW w, NEW r, NEW begin, NEW P, NEW W,
           Received(f, a, w, r, begin, P, W),
           NEW k \in Nat, begin <= k, k <= Len(w)
    PROVE  /\ P[Len(f[k])] \in Nat /\ W[k] \in Nat /\ W[begin - 1] \in Nat
           /\ P[Len(f[k])] + W[begin - 1] <= W[k] + Drift(r, k) - Drift(r, begin)
  <1>1. /\ w \in Waves /\ r \in Receptions /\ begin \in Nat /\ 1 <= begin /\ begin <= Len(w)
        /\ Unfolds(f, a, w, r, begin, Len(w)) /\ a \in Seq(Nat)
        /\ Elapsed(a, P) /\ Elapsed(w, W)
    BY DEF Received
  <1>2. Len(w) \in Nat /\ Len(a) \in Nat
    BY <1>1 DEF Waves
  <1>3. P \in [Nat -> Nat] /\ P[0] = 0 /\ \A j \in Nat : j < Len(a) => P[j + 1] = P[j] + a[j + 1]
    BY <1>1, Zenon DEF Elapsed
  <1>4. W \in [Nat -> Nat] /\ \A j \in Nat : j < Len(w) => W[j + 1] = W[j] + w[j + 1]
    BY <1>1, Zenon DEF Elapsed
  <1>5. begin - 1 \in Nat /\ begin - 1 < Len(w) /\ (begin - 1) + 1 = begin
    BY <1>1, <1>2
  <1>6. PICK before \in Nat : before = W[begin - 1] /\ W[begin] = before + w[begin]
    BY <1>4, <1>5
  <1> DEFINE Kept(j) == P[Len(f[j])] + before <= W[j] + Drift(r, j) - Drift(r, begin)
             S == {n \in Nat : begin + n <= Len(w) => Kept(begin + n)}
  <1>7. 0 \in S
    <2>1. PICK v \in Nat : v = w[begin]
      BY <1>1, <1>2 DEF Waves, Lasting
    <2>2. PICK c \in Nat : c = Clamped(r.start.left, 0, v) /\ c <= v
      <3>1. PICK left \in Nat : left = r.start.left
        BY <1>1, ReceptionKinds
      <3>2. Clamped(left, 0, v) \in Nat /\ Clamped(left, 0, v) <= v
        BY DEF Clamped
      <3> QED BY <3>1, <3>2, Zenon
    <2>3. f[begin] = <<c>>
      BY <1>1, <2>1, <2>2, Zenon DEF Unfolds
    <2>4. Len(f[begin]) = 1 /\ f[begin][1] = c
      BY <2>3
    <2>5. BeginsWith(a, f[begin])
      <3>1. begin <= begin
        BY <1>1
      <3> QED BY <1>1, <1>2, <3>1, ArrivedStays
    <2>6. 0 < Len(a) /\ a[1] = c
      BY <1>2, <2>4, <2>5 DEF BeginsWith
    <2>7. P[1] = c
      <3>1. 0 \in Nat /\ 0 + 1 = 1 /\ 0 + c = c
        OBVIOUS
      <3>2. P[0 + 1] = P[0] + a[0 + 1]
        BY <1>3, <2>6, <3>1
      <3> QED BY <1>3, <2>6, <3>1, <3>2
    <2>8. PICK d \in Int : d = Drift(r, begin)
      BY <1>1, DriftIsSmall
    <2>9. c + before <= (before + v) + d - d
      BY <2>2
    <2>10. Kept(begin)
      BY <1>6, <2>1, <2>4, <2>7, <2>8, <2>9, Zenon
    <2>11. begin + 0 = begin
      BY <1>1
    <2> QED BY <2>10, <2>11, Zenon
  <1>8. ASSUME NEW n \in S
        PROVE  n + 1 \in S
    <2>1. n \in Nat /\ (begin + n <= Len(w) => Kept(begin + n))
      OBVIOUS
    <2> HIDE DEF S
    <2>2. ASSUME begin + (n + 1) <= Len(w)
          PROVE  Kept(begin + (n + 1))
      <3>1. PICK j \in Nat : j = begin + n /\ j + 1 = begin + (n + 1) /\ begin <= j /\ j < Len(w)
                             /\ j <= Len(w) /\ j + 1 \in 1 .. Len(w)
        <4>1. /\ begin + n \in Nat /\ (begin + n) + 1 = begin + (n + 1) /\ begin <= begin + n
              /\ begin + n < Len(w) /\ begin + n <= Len(w) /\ (begin + n) + 1 \in 1 .. Len(w)
          <5>1. n \in Nat /\ begin \in Nat /\ 1 <= begin /\ begin + (n + 1) <= Len(w)
                /\ Len(w) \in Nat
            BY <1>1, <1>2, <2>1, <2>2, Zenon
          <5> QED BY <5>1
        <4> QED BY <4>1, Zenon
      <3>2. Kept(j)
        BY <2>1, <3>1, Zenon
      <3>3. ElapsesNext(f, a, w, r, j, P)
        BY <3>1, NextElapses, Zenon
      <3>4. PICK l \in Nat : l = Len(f[j]) /\ P[Len(f[j + 1])] = P[l] + Stretched(w, r, j + 1)
        BY <3>3, Zenon DEF ElapsesNext
      <3>6. PICK v \in Int, d \in Int, e \in Int :
               /\ v = w[j + 1] /\ d = Drift(r, j) /\ e = Drift(r, j + 1)
               /\ Stretched(w, r, j + 1) = v + e - d
        <4>1. /\ w[j + 1] \in Int /\ Drift(r, j) \in Int /\ Drift(r, j + 1) \in Int
              /\ Stretched(w, r, j + 1) = w[j + 1] + Drift(r, j + 1) - Drift(r, j)
          BY <1>1, <3>1, DriftSteps
        <4> QED BY <4>1, Zenon
      <3>7. PICK t \in Int, u \in Int, s \in Int : t = P[l] /\ u = Drift(r, begin) /\ s = W[j]
        <4>1. P[l] \in Int /\ W[j] \in Int
          <5>1. P[l] \in Nat /\ W[j] \in Nat
            BY <1>3, <1>4, Zenon
          <5>2. \A y \in Nat : y \in Int
            OBVIOUS
          <5> QED BY <5>1, <5>2, Zenon
        <4>2. Drift(r, begin) \in Int
          BY <1>1, DriftIsSmall
        <4> QED BY <4>1, <4>2, Zenon
      <3>8. t + before <= s + d - u
        BY <3>2, <3>4, <3>6, <3>7, Zenon
      <3>9. (t + (v + e - d)) + before <= (s + v) + e - u
        <4>1. before \in Int
          OBVIOUS
        <4> QED BY <3>8, <4>1, KeepsUp, Zenon
      <3>10. W[j + 1] = s + v
        BY <1>4, <3>1, <3>6, <3>7, Zenon
      <3>11. P[Len(f[j + 1])] = t + (v + e - d)
        BY <3>4, <3>6, <3>7, Zenon
      <3>12. Kept(j + 1)
        BY <3>6, <3>7, <3>9, <3>10, <3>11, Zenon
      <3> QED BY <3>1, <3>12, Zenon
    <2>3. n + 1 \in Nat
      BY <2>1
    <2> QED BY <2>2, <2>3, Zenon DEF S
  <1>9. S = Nat
    <2>1. S \subseteq Nat
      OBVIOUS
    <2> HIDE DEF S
    <2> QED BY <1>7, <1>8, <2>1, AllNat
  <1>10. Kept(k)
    <2>1. PICK n \in Nat : begin + n = k
      <3>1. k - begin \in Nat /\ begin + (k - begin) = k
        BY <1>1
      <3> QED BY <3>1, Zenon
    <2>2. n \in S
      BY <1>9, Zenon
    <2> QED BY <2>1, <2>2, Zenon
  <1>11. P[Len(f[k])] \in Nat
    <2>1. f[k] \in Seq(Nat)
      BY <1>1, Zenon DEF Unfolds
    <2>2. Len(f[k]) \in Nat
      BY <2>1
    <2> QED BY <1>3, <2>2
  <1> QED BY <1>4, <1>5, <1>6, <1>10, <1>11

\* An interval without noise arrives as one.
LEMMA ShortArrives ==
    ASSUME NEW w, NEW r, NEW k, ~(k % 2 = 0 /\ Stretched(w, r, k) >= LongPause)
    PROVE  Arrives(w, r, k) = <<Stretched(w, r, k)>>
  <1>1. Stretched(w, r, k) = IF k % 2 = 1 THEN w[k] + r.stretch ELSE w[k] - r.stretch
    BY DEF Stretched
  <1> QED BY <1>1, Zenon DEF Arrives

\* Edge y of the frame, as it arrives.
DataEdge(f, x, y) == SentData(f)[y] + (IF y % 2 = 0 THEN x ELSE -x)

LEMMA DataIsStretched ==
    ASSUME NEW w, NEW r, NEW f, NEW b \in Nat, b % 2 = 0, RepeatAt(w, f, b),
           InBand(r.stretch), NEW y \in 1 .. DataEdges
    PROVE  /\ Stretched(w, r, b + 7 + y) = DataEdge(f, r.stretch, y)
           /\ ~((b + 7 + y) % 2 = 0 /\ Stretched(w, r, b + 7 + y) >= LongPause)
  <1>1. PICK x \in Int : x = r.stretch /\ -150 <= x /\ x <= 150
    BY DEF InBand
  <1>2. y \in Nat /\ 1 <= y /\ y <= 70 /\ FrameBits = 35
    BY DEF DataEdges, FrameBits
  <1>3. PICK k \in Nat : k = b + 7 + y
    BY <1>2
  <1>4. CASE y % 2 = 0
    <2>1. PICK j \in Nat : y = 2 * j /\ 1 <= j /\ j <= 35
      <3>1. y \div 2 \in Nat /\ y = 2 * (y \div 2) /\ 1 <= y \div 2 /\ y \div 2 <= 35
        BY <1>2, <1>4
      <3> QED BY <3>1
    <2>2. k % 2 = 1 /\ k = (b + 7) + 2 * j /\ j \in 1 .. FrameBits /\ y \div 2 = j
      BY <1>2, <1>3, <1>4, <2>1
    <2>3. w[k] = SentGap(f, j)
      BY <2>2 DEF RepeatAt
    <2>4. SentData(f)[y] = SentGap(f, j)
      <3>1. y % 2 # 1
        BY <1>2, <1>4
      <3> QED BY <2>2, <3>1 DEF SentData, Data, SentGap
    <2>5. Stretched(w, r, k) = SentGap(f, j) + x
      BY <1>1, <2>2, <2>3 DEF Stretched
    <2>6. DataEdge(f, x, y) = SentGap(f, j) + x
      BY <1>4, <2>4, Zenon DEF DataEdge
    <2>7. k % 2 # 0
      BY <2>2
    <2>8. Stretched(w, r, k) = DataEdge(f, r.stretch, y)
      BY <1>1, <2>5, <2>6
    <2> QED BY <1>3, <2>7, <2>8, Zenon
  <1>5. CASE y % 2 # 0
    <2>1. PICK j \in Nat : y = 2 * j - 1 /\ 1 <= j /\ j <= 35
      <3>1. (y + 1) \div 2 \in Nat /\ y = 2 * ((y + 1) \div 2) - 1 /\ 1 <= (y + 1) \div 2
            /\ (y + 1) \div 2 <= 35
        BY <1>2, <1>5
      <3> QED BY <3>1
    <2>2. k % 2 = 0 /\ k % 2 # 1 /\ k = (b + 6) + 2 * j /\ j \in 1 .. FrameBits
      BY <1>2, <1>3, <1>5, <2>1
    <2>3. w[k] = 500
      BY <2>2 DEF RepeatAt
    <2>4. SentData(f)[y] = 500
      <3>1. y % 2 = 1
        BY <1>2, <1>5
      <3> QED BY <3>1 DEF SentData, Data
    <2>5. Stretched(w, r, k) = 500 - x
      BY <1>1, <2>2, <2>3 DEF Stretched
    <2>6. DataEdge(f, x, y) = 500 - x
      BY <1>5, <2>4 DEF DataEdge
    <2>7. ~(Stretched(w, r, k) >= LongPause)
      BY <1>1, <2>5 DEF LongPause
    <2>8. Stretched(w, r, k) = DataEdge(f, r.stretch, y)
      BY <1>1, <2>5, <2>6
    <2> QED BY <1>3, <2>7, <2>8, Zenon
  <1> QED BY <1>4, <1>5

\* The data of a repeat arrive as they are sent, but for the stretch.
DataFound(f, a, r, frame, b, l, y) ==
    /\ Len(f[b + 7 + y]) = l + y /\ l + y <= Len(a)
    /\ y > 0 => a[l + y] = DataEdge(frame, r.stretch, y)

LEMMA DataArrives ==
    ASSUME NEW f, NEW a, NEW w, NEW r, NEW begin, NEW P, NEW W,
           Received(f, a, w, r, begin, P, W), InBand(r.stretch),
           NEW frame, NEW b \in Nat, b % 2 = 0, RepeatAt(w, frame, b),
           begin <= b + 7, b + 78 <= Len(w), NEW l, l = Len(f[b + 7])
    PROVE  l \in Nat /\ \A y \in Nat : y <= DataEdges => DataFound(f, a, r, frame, b, l, y)
  <1>0. begin \in Nat /\ Len(w) \in Nat /\ Len(a) \in Nat /\ DataEdges = 70
    BY DEF Received, Waves, DataEdges, FrameBits
  <1>1. l \in Nat /\ l <= Len(a)
    <2>1. PICK k \in Nat : k = b + 7 /\ begin <= k /\ k < Len(w)
      BY <1>0
    <2>2. ArrivesNext(f, a, w, r, k)
      BY <2>1, NextArrives, Zenon
    <2>3. FoundAt(a, l, Arrives(w, r, k + 1))
      BY <2>1, <2>2, Zenon DEF ArrivesNext
    <2>4. PICK p \in Seq(Nat) : p = Arrives(w, r, k + 1)
      BY <2>3, Zenon DEF FoundAt
    <2>5. l \in Nat /\ l + Len(p) <= Len(a)
      BY <2>3, <2>4, Zenon DEF FoundAt
    <2>6. Len(p) \in Nat
      OBVIOUS
    <2> QED BY <1>0, <2>5, <2>6
  <1> DEFINE S == {y \in Nat : y <= DataEdges => DataFound(f, a, r, frame, b, l, y)}
  <1>2. 0 \in S
    <2>1. b + 7 + 0 = b + 7 /\ l + 0 = l /\ ~(0 > 0)
      BY <1>1
    <2>2. DataFound(f, a, r, frame, b, l, 0)
      BY <1>1, <2>1 DEF DataFound
    <2> QED BY <2>2
  <1>3. ASSUME NEW y \in S
        PROVE  y + 1 \in S
    <2>1. y \in Nat /\ y + 1 \in Nat /\ (y <= DataEdges => DataFound(f, a, r, frame, b, l, y))
      OBVIOUS
    <2> HIDE DEF S
    <2>2. ASSUME y + 1 <= DataEdges
          PROVE  DataFound(f, a, r, frame, b, l, y + 1)
      <3>1. PICK z \in 1 .. DataEdges : z = y + 1 /\ y <= DataEdges /\ z \in Nat
        BY <1>0, <2>1, <2>2
      <3>2. PICK k \in Nat : k = b + 7 + y /\ k + 1 = b + 7 + z /\ begin <= k /\ k < Len(w)
        BY <1>0, <2>1, <2>2, <3>1
      <3>3. Len(f[k]) = l + y
        BY <2>1, <3>1, <3>2, Zenon DEF DataFound
      <3>4. PICK us : us = Stretched(w, r, k + 1)
        OBVIOUS
      <3>5. us = DataEdge(frame, r.stretch, z) /\ Arrives(w, r, k + 1) = <<us>>
        <4>1. Stretched(w, r, b + 7 + z) = DataEdge(frame, r.stretch, z)
              /\ ~((b + 7 + z) % 2 = 0 /\ Stretched(w, r, b + 7 + z) >= LongPause)
          BY DataIsStretched
        <4>2. ~((k + 1) % 2 = 0 /\ Stretched(w, r, k + 1) >= LongPause)
          BY <3>2, <4>1, Zenon
        <4>3. Arrives(w, r, k + 1) = <<Stretched(w, r, k + 1)>>
          BY <4>2, ShortArrives, Zenon
        <4> QED BY <3>2, <3>4, <4>1, <4>3, Zenon
      <3>6. ArrivesNext(f, a, w, r, k)
        BY <3>2, NextArrives, Zenon
      <3>7. FoundAt(a, l + y, <<us>>) /\ Len(f[k + 1]) = (l + y) + Len(<<us>>)
        BY <3>3, <3>5, <3>6, Zenon DEF ArrivesNext
      <3>8. Len(<<us>>) = 1 /\ <<us>>[1] = us
        OBVIOUS
      <3>9. (l + y) + 1 <= Len(a) /\ a[(l + y) + 1] = us
        <4>1. 1 \in Nat /\ 1 <= 1
          OBVIOUS
        <4> QED BY <3>7, <3>8, <4>1, Zenon DEF FoundAt
      <3>10. (l + y) + 1 = l + z
        <4>1. \A c, d \in Nat : (c + d) + 1 = c + (d + 1)
          OBVIOUS
        <4> QED BY <1>1, <2>1, <3>1, <4>1, Zenon
      <3>11. Len(f[b + 7 + z]) = l + z
        BY <3>2, <3>7, <3>8, <3>10, Zenon
      <3>12. DataFound(f, a, r, frame, b, l, z)
        BY <3>5, <3>9, <3>10, <3>11, Zenon DEF DataFound
      <3> QED BY <3>1, <3>12, Zenon
    <2> QED BY <2>1, <2>2, Zenon DEF S
  <1>4. S = Nat
    <2>1. S \subseteq Nat
      OBVIOUS
    <2> HIDE DEF S
    <2> QED BY <1>2, <1>3, <2>1, AllNat
  <1> QED BY <1>1, <1>4

-----------------------------------------------------------------------------
(* A repeat that is sent in time. *)

\* No symbol begins where the data have ended.
LEMMA PauseArrives ==
    ASSUME NEW f, NEW a, NEW w, NEW r, NEW begin, NEW P, NEW W,
           Received(f, a, w, r, begin, P, W), NoFalseSymbols(r),
           NEW k \in Nat, begin <= k, k < Len(w), IsLong(w[k + 1]),
           NEW l, l = Len(f[k])
    PROVE  /\ l \in Nat /\ l + 1 <= Len(a)
           /\ ~(l + 2 <= Len(a) /\ IsSymbol(a[l + 1]) /\ IsSymbol(a[l + 2]))
  <1>1. w \in Waves /\ r \in Receptions /\ Len(a) \in Nat /\ Len(w) \in Nat
        /\ \A j \in 1 .. Len(a) : a[j] \in Nat
    BY DEF Received, Waves
  <1>2. ArrivesNext(f, a, w, r, k)
    BY NextArrives, Zenon
  <1>3. PICK p : p = Arrives(w, r, k + 1) /\ FoundAt(a, l, p)
    BY <1>2, Zenon DEF ArrivesNext
  <1>4. l \in Nat /\ p \in Seq(Nat) /\ l + Len(p) <= Len(a)
        /\ \A x \in Nat : 1 <= x /\ x <= Len(p) => a[l + x] = p[x]
    BY <1>3, Zenon DEF FoundAt
  <1>5. PICK n \in Nat : n = Len(p)
    BY <1>4
  <1>6. PICK j \in 1 .. Len(w) : j = k + 1
    BY <1>1
  <1>7. ArrivesWhole(p, w, j) \/ ArrivesBroken(p, w, r, j)
    BY <1>1, <1>3, <1>6, ArrivesAs, Zenon
  <1>8. CASE ArrivesWhole(p, w, j)
    <2>1. n = 1 /\ Near(p[1], w[j])
      BY <1>5, <1>8, Zenon DEF ArrivesWhole
    <2>2. l + 1 <= Len(a) /\ a[l + 1] = p[1]
      BY <1>4, <1>5, <2>1
    <2>3. PICK us \in Nat : us = a[l + 1]
      BY <1>1, <1>4, <2>2
    <2>4. PICK v \in Nat : v = w[j] /\ IsLong(v)
      <3>1. w[j] \in Nat
        BY <1>1 DEF Waves, Lasting
      <3> QED BY <1>6, <3>1, Zenon
    <2>5. ~IsSymbol(us)
      <3>1. Near(us, v)
        BY <2>1, <2>2, <2>3, <2>4, Zenon
      <3> QED BY <2>4, <3>1, LongIsNoSymbol, Zenon
    <2> QED BY <1>4, <2>2, <2>3, <2>5, Zenon
  <1>9. CASE ArrivesBroken(p, w, r, j)
    <2>1. n > 1 /\ \A x \in Nat : 1 <= x /\ x < n => Chatters(r, p[x], p[x + 1])
      BY <1>5, <1>9, Zenon DEF ArrivesBroken
    <2>2. Chatters(r, p[1], p[2])
      <3>1. 1 \in Nat /\ 1 <= 1 /\ 1 < n /\ 1 + 1 = 2
        BY <2>1
      <3>2. Chatters(r, p[1], p[1 + 1])
        BY <2>1, <3>1
      <3> QED BY <3>1, <3>2
    <2>3. a[l + 1] = p[1] /\ a[l + 2] = p[2] /\ l + 1 <= Len(a)
      <3>1. 1 <= n /\ 2 <= n
        BY <2>1
      <3> QED BY <1>1, <1>4, <1>5, <3>1
    <2>4. ~IsSymbol(p[1]) \/ ~IsSymbol(p[2])
      BY <2>2, Zenon DEF Chatters
    <2> QED BY <1>4, <2>3, <2>4
  <1> QED BY <1>7, <1>8, <1>9

\* What is read as a symbol is one.
LEMMA EndsAtNoSymbols ==
    ASSUME NEW a \in Seq(Nat), NEW e, e = Captured(a), NEW i \in Nat, 1 <= i, i <= Len(e) + 1,
           ~(i + 1 <= Len(a) /\ IsSymbol(a[i]) /\ IsSymbol(a[i + 1]))
    PROVE  i \in Ends(e)
  <1>1. e \in Seq(Uint16) /\ Len(e) \in Nat /\ Len(a) \in Nat
    BY CapturedType
  <1>2. ~(i < Len(e) /\ IsPulse(e[i]) /\ (IsZero(e[i + 1]) \/ IsOne(e[i + 1])))
    <2>1. SUFFICES ASSUME i < Len(e), IsPulse(e[i]), IsZero(e[i + 1]) \/ IsOne(e[i + 1])
                   PROVE  FALSE
      OBVIOUS
    <2>2. PICK j \in Nat : j = i + 1
      OBVIOUS
    <2>3. i \in 1 .. Len(e) /\ j \in 1 .. Len(e)
      BY <1>1, <2>1, <2>2
    <2>4. IsSymbol(e[i]) /\ IsSymbol(e[j])
      BY <2>1, <2>2, Zenon DEF IsSymbol
    <2>5. e[i] = a[i] /\ j \in 1 .. Len(a) /\ e[j] = a[j]
      BY <2>3, <2>4, RecordedAt, Zenon
    <2>6. i + 1 <= Len(a)
      BY <1>1, <2>2, <2>5
    <2> QED BY <2>2, <2>4, <2>5, <2>6, Zenon
  <1>3. i \in 1 .. Len(e) + 1
    BY <1>1
  <1> QED BY <1>2, <1>3, Zenon DEF Ends

\* What arrives in time is recorded, while there is room.
LEMMA RecordsInTime ==
    ASSUME NEW a \in Seq(Nat), NEW P, Elapsed(a, P), NEW n \in 1 .. Len(a), P[n] < CaptureWindow,
           NEW e, e = Captured(a), Len(e) < MaxEdges
    PROVE  /\ Len(e) \in Nat /\ n <= Len(e)
           /\ \A j \in 1 .. Len(e) : e[j] = Delta(a[j])
  <1>1. PICK time \in Nat : time = CaptureWindow
    BY SMT DEF CaptureWindow
  <1>2. PICK c \in Nat : c = EndedWithin(a, time) /\ c >= n
    <2>1. EndedWithin(a, time) \in 0 .. Len(a)
      BY EndedWithinRange
    <2>2. EndedWithin(a, time) >= n
      BY <1>1, EndedInTime
    <2> QED BY <2>1, <2>2
  <1>3. PICK m \in Nat : m = Recorded(c) /\ (m < MaxEdges => m = c)
    BY SMT DEF Recorded, MaxEdges
  <1>4. e = [j \in 1 .. m |-> Delta(a[j])]
    BY <1>1, <1>2, <1>3, Zenon DEF Captured
  <1>5. Len(e) = m
    BY <1>4
  <1>6. m = c
    BY <1>3, <1>5, Zenon
  <1> QED BY <1>2, <1>4, <1>5, <1>6

\* The edges of a frame fit 16 bits.
LEMMA DataEdgeKept ==
    ASSUME NEW f, NEW x, InBand(x), NEW y \in 1 .. DataEdges
    PROVE  Delta(DataEdge(f, x, y)) = DataEdge(f, x, y)
  <1>1. SentData(f)[y] = 500 \/ SentData(f)[y] = 1500
    BY SMT DEF SentData, Data
  <1>2. x \in Int /\ -150 <= x /\ x <= 150
    BY DEF InBand
  <1>3. PICK us \in Nat : us = DataEdge(f, x, y) /\ us <= 1650
    <2>1. CASE y % 2 = 0
      BY <1>1, <1>2, <2>1, SMT DEF DataEdge
    <2>2. CASE y % 2 # 0
      BY <1>1, <1>2, <2>2, SMT DEF DataEdge
    <2> QED BY <2>1, <2>2
  <1>4. Delta(us) = us
    BY <1>3, SMT DEF Delta, Clamped, MaxUint16
  <1> QED BY <1>3, <1>4, Zenon

\* The data have arrived at p, when the drift was d at first and is d2 then.
DataIn(p, W, begin, b, d, d2) ==
    /\ p \in Nat /\ W[b + 77] \in Nat /\ W[begin - 1] \in Nat
    /\ p + W[begin - 1] <= W[b + 77] + d2 - d

\* A repeat that is sent in time arrives in time.
LEMMA InTimeArrives ==
    ASSUME NEW w, NEW W, NEW frame, NEW begin, NEW b \in Nat, InTime(w, W, frame, begin, b),
           NEW x, InBand(x), NEW d \in {0, x}, NEW d2 \in {0, x},
           NEW p, DataIn(p, W, begin, b, d, d2)
    PROVE  p < CaptureWindow
  <1>1. d \in Int /\ d2 \in Int /\ -150 <= d /\ d2 <= 150
    BY SMT DEF InBand
  <1>2. W[b + 77] - W[begin - 1] <= 139463
    BY DEF InTime
  <1> QED BY <1>1, <1>2, SMT DEF DataIn, CaptureWindow

\* There is a drift or there is none.
LEMMA DriftKinds ==
    ASSUME NEW r, NEW k
    PROVE  Drift(r, k) \in {0, r.stretch}
  BY DEF Drift

\* What a repeat needs to be in time.
LEMMA InTimeFacts ==
    ASSUME NEW w, NEW W, NEW frame, NEW begin, NEW b \in Nat, InTime(w, W, frame, begin, b)
    PROVE  /\ begin <= b + 7 /\ b + 78 <= Len(w) /\ b % 2 = 0 /\ RepeatAt(w, frame, b)
           /\ (b + 77) + 1 = b + 78 /\ IsLong(w[(b + 77) + 1])
  <1>1. begin <= b + 7 /\ b + 78 <= Len(w) /\ b % 2 = 0 /\ RepeatAt(w, frame, b)
    BY DEF InTime
  <1>2. (b + 77) + 1 = b + 78
    OBVIOUS
  <1>3. IsLong(w[b + 78])
    BY DEF InTime
  <1> QED BY <1>1, <1>2, <1>3

\* A part of a sequence, item by item.
IsPart(p, e, i, n) == p = [y \in 1 .. n - i + 1 |-> e[i + y - 1]]

LEMMA PartOf ==
    ASSUME NEW S, NEW e \in Seq(S), NEW i \in Nat, NEW n \in Nat, 1 <= i, i <= n, n <= Len(e)
    PROVE  IsPart(SubSeq(e, i, n), e, i, n)
  BY DEF IsPart

\* A repeat that is sent in time is recorded whole, and nothing is taken for a symbol
\* after it.
LEMMA RepeatIsHeld ==
    ASSUME NEW f, NEW a, NEW w, NEW r, NEW begin, NEW P, NEW W,
           Received(f, a, w, r, begin, P, W), InBand(r.stretch), NoFalseSymbols(r),
           NEW frame, NEW b \in Nat, InTime(w, W, frame, begin, b),
           NEW e, e = Captured(a), Len(e) < MaxEdges
    PROVE  \E i : CleanAt(e, i, frame, r.stretch)
  <1>0. /\ begin \in Nat /\ 1 <= begin /\ Len(w) \in Nat /\ a \in Seq(Nat) /\ Len(a) \in Nat
        /\ Elapsed(a, P) /\ DataEdges = 70
    BY DEF Received, Waves, DataEdges, FrameBits
  <1>1. /\ begin <= b + 7 /\ b + 78 <= Len(w) /\ b % 2 = 0 /\ RepeatAt(w, frame, b)
        /\ (b + 77) + 1 = b + 78 /\ IsLong(w[(b + 77) + 1])
    BY InTimeFacts, Zenon
  <1>2. PICK l : l = Len(f[b + 7])
    OBVIOUS
  <1>3. l \in Nat /\ \A y \in Nat : y <= DataEdges => DataFound(f, a, r, frame, b, l, y)
    BY <1>1, <1>2, DataArrives, Zenon
  <1>4. PICK n \in Nat : n = l + 70 /\ Len(f[b + 77]) = n /\ n <= Len(a) /\ n \in 1 .. Len(a)
    <2>1. 70 \in Nat /\ 70 <= DataEdges
      BY <1>0
    <2>2. DataFound(f, a, r, frame, b, l, 70)
      BY <1>3, <2>1
    <2>3. b + 7 + 70 = b + 77 /\ l + 70 \in Nat
      BY <1>3
    <2>4. Len(f[b + 77]) = l + 70 /\ l + 70 <= Len(a)
      BY <2>2, <2>3 DEF DataFound
    <2> QED BY <1>0, <1>3, <2>3, <2>4
  <1>5. PICK k \in Nat : k = b + 77 /\ begin <= k /\ k < Len(w) /\ k <= Len(w)
    BY <1>0, <1>1
  <1>6. P[n] < CaptureWindow
    <2>1. /\ P[Len(f[k])] \in Nat /\ W[k] \in Nat /\ W[begin - 1] \in Nat
          /\ P[Len(f[k])] + W[begin - 1] <= W[k] + Drift(r, k) - Drift(r, begin)
      BY <1>5, TimesKeepUp
    <2>2. PICK d, d2 : d = Drift(r, begin) /\ d2 = Drift(r, k)
      OBVIOUS
    <2>3. d \in {0, r.stretch} /\ d2 \in {0, r.stretch}
      BY <2>2, DriftKinds, Zenon
    <2>4. DataIn(P[n], W, begin, b, d, d2)
      BY <1>4, <1>5, <2>1, <2>2, Zenon DEF DataIn
    <2> QED BY <2>3, <2>4, InTimeArrives, Zenon
  <1>7. Len(e) \in Nat /\ n <= Len(e) /\ \A j \in 1 .. Len(e) : e[j] = Delta(a[j])
    BY <1>0, <1>4, <1>6, RecordsInTime, Zenon
  <1>8. ASSUME NEW y \in 1 .. DataEdges
        PROVE  e[l + y] = DataEdge(frame, r.stretch, y)
    <2>1. y \in Nat /\ y <= DataEdges /\ y > 0 /\ l + y \in 1 .. Len(e)
      BY <1>0, <1>3, <1>4, <1>7
    <2>2. a[l + y] = DataEdge(frame, r.stretch, y)
      BY <1>3, <2>1, Zenon DEF DataFound
    <2>3. e[l + y] = Delta(DataEdge(frame, r.stretch, y))
      BY <1>7, <2>1, <2>2, Zenon
    <2> QED BY <2>3, DataEdgeKept, Zenon
  <1>9. PICK i \in Nat : i = l + 1 /\ i + DataEdges = n + 1 /\ i + DataEdges - 1 = n
                         /\ i \in 1 .. Len(e) - DataEdges + 1
    <2>1. /\ l + 1 \in Nat /\ (l + 1) + DataEdges = n + 1 /\ (l + 1) + DataEdges - 1 = n
          /\ l + 1 \in 1 .. Len(e) - DataEdges + 1
      BY <1>0, <1>3, <1>4, <1>7
    <2> QED BY <2>1, Zenon
  <1>10. SubSeq(e, i, i + DataEdges - 1) = [y \in 1 .. DataEdges |-> DataEdge(frame, r.stretch, y)]
    <2>1. SubSeq(e, i, n) = [y \in 1 .. n - i + 1 |-> e[i + y - 1]]
      <3>1. e \in Seq(Uint16)
        BY <1>0, CapturedType
      <3>2. 1 <= i /\ i <= n
        BY <1>0, <1>3, <1>4, <1>9
      <3>3. IsPart(SubSeq(e, i, n), e, i, n)
        BY <1>7, <3>1, <3>2, PartOf, Zenon
      <3> QED BY <3>3, Zenon DEF IsPart
    <2>2. n - i + 1 = DataEdges
      BY <1>0, <1>3, <1>4, <1>9
    <2>3. \A y \in 1 .. DataEdges : i + y - 1 = l + y
      BY <1>0, <1>3, <1>9
    <2>4. \A y \in 1 .. DataEdges : e[i + y - 1] = DataEdge(frame, r.stretch, y)
      BY <1>8, <2>3, Zenon
    <2>5. SubSeq(e, i, n) = [y \in 1 .. DataEdges |-> e[i + y - 1]]
      BY <2>1, <2>2, Zenon
    <2>6. [y \in 1 .. DataEdges |-> e[i + y - 1]]
             = [y \in 1 .. DataEdges |-> DataEdge(frame, r.stretch, y)]
      BY <2>4, Zenon
    <2> QED BY <1>9, <2>5, <2>6, Zenon
  <1>11. n + 1 \in Ends(e)
    <2>1. n \in Nat /\ n + 1 <= Len(a)
          /\ ~(n + 2 <= Len(a) /\ IsSymbol(a[n + 1]) /\ IsSymbol(a[n + 2]))
      <3>1. IsLong(w[k + 1]) /\ n = Len(f[k])
        BY <1>1, <1>4, <1>5, Zenon
      <3> QED BY <1>5, <3>1, PauseArrives, Zenon
    <2>2. PICK j \in Nat : j = n + 1 /\ j + 1 = n + 2 /\ 1 <= j /\ j <= Len(e) + 1
      BY <1>7
    <2>3. ~(j + 1 <= Len(a) /\ IsSymbol(a[j]) /\ IsSymbol(a[j + 1]))
      BY <2>1, <2>2, Zenon
    <2> QED BY <1>0, <2>2, <2>3, EndsAtNoSymbols
  <1>12. CleanAt(e, i, frame, r.stretch)
    BY <1>9, <1>10, <1>11, Zenon DEF CleanAt, DataEdge
  <1> QED BY <1>12

-----------------------------------------------------------------------------
(* The inductive invariant. *)

\* Captures begin in the wave, what is recorded is what arrives of it, and the
\* outcome is that of what was recorded.
IInv ==
    /\ TypeOK
    /\ phase # "idle" => reception.start.interval <= Len(Wave(sending))
    /\ phase \in {"captured", "decoded"} => edges = Captured(Arriving(sending, reception))
    /\ outcome = IF phase = "decoded" THEN Decoded(edges) ELSE Undecoded("none")

LEMMA Initially == Init => IInv
  <1> SUFFICES ASSUME Init PROVE IInv
    OBVIOUS
  <1>1. outcome \in Outcomes
    BY UndecodedType DEF Init, Kinds
  <1>2. edges \in Seq(Uint16) /\ Len(edges) <= MaxEdges
    BY DEF Init, MaxEdges
  <1>3. phase = "idle" /\ sending = Nothing /\ reception = Nothing
    BY DEF Init
  <1>4. outcome = Undecoded("none")
    BY DEF Init
  <1> QED BY <1>1, <1>2, <1>3, <1>4 DEF IInv, TypeOK, Outcomes, Kinds

LEMMA StepKeeps == IInv /\ [Next]_vars => IInv'
  <1> SUFFICES ASSUME IInv, [Next]_vars PROVE IInv'
    OBVIOUS
  <1>0. /\ edges \in Seq(Uint16) /\ Len(edges) <= MaxEdges
        /\ outcome \in Outcomes
        /\ phase # "idle" => sending \in Transmissions /\ reception \in Receptions
    BY DEF IInv, TypeOK, Outcomes, Kinds
  <1>1. CASE Transmit
    <2>1. sending' \in Transmissions /\ reception' \in Receptions
          /\ reception'.start.interval <= Len(Wave(sending'))
      BY <1>1 DEF Transmit
    <2>2. /\ phase' = "listening" /\ edges' = edges
          /\ outcome' = outcome /\ outcome = Undecoded("none")
      BY <1>1 DEF Transmit, IInv
    <2>3. TypeOK'
      BY <1>0, <2>1, <2>2 DEF TypeOK, Outcomes, Kinds
    <2> QED BY <2>1, <2>2, <2>3 DEF IInv
  <1>2. CASE Capture
    <2>1. /\ phase = "listening" /\ phase' = "captured"
          /\ edges' = Captured(Arriving(sending, reception))
          /\ sending' = sending /\ reception' = reception
          /\ outcome' = outcome /\ outcome = Undecoded("none")
          /\ reception.start.interval <= Len(Wave(sending))
      BY <1>2 DEF Capture, IInv
    <2>2. Arriving(sending, reception) \in Seq(Nat)
      BY <1>0, <2>1, ArrivingType
    <2>3. edges' \in Seq(Uint16) /\ Len(edges') <= MaxEdges
      BY <2>1, <2>2, CapturedType
    <2>4. TypeOK'
      BY <1>0, <2>1, <2>3 DEF TypeOK, Outcomes, Kinds
    <2> QED BY <2>1, <2>4 DEF IInv
  <1>3. CASE Decode
    <2>1. /\ phase = "captured" /\ phase' = "decoded" /\ outcome' = Decoded(edges)
          /\ sending' = sending /\ reception' = reception /\ edges' = edges
          /\ edges = Captured(Arriving(sending, reception))
          /\ reception.start.interval <= Len(Wave(sending))
      BY <1>3 DEF Decode, IInv
    <2>2. outcome' \in Outcomes
      BY <1>0, <2>1, DecodedType
    <2>3. TypeOK'
      BY <1>0, <2>1, <2>2 DEF TypeOK, Outcomes, Kinds
    <2> QED BY <2>1, <2>3 DEF IInv
  <1>4. CASE Reset
    <2>1. /\ phase' = "idle" /\ edges' = <<>> /\ outcome' = Undecoded("none")
          /\ sending' = Nothing /\ reception' = Nothing
      BY <1>4 DEF Reset
    <2>2. outcome' \in Outcomes
      BY <2>1, UndecodedType DEF Kinds
    <2>3. edges' \in Seq(Uint16) /\ Len(edges') <= MaxEdges
      BY <2>1 DEF MaxEdges
    <2>4. TypeOK'
      BY <2>1, <2>2, <2>3 DEF TypeOK, Outcomes, Kinds
    <2> QED BY <2>1, <2>4 DEF IInv
  <1>5. CASE UNCHANGED vars
    BY <1>5 DEF vars, IInv, TypeOK
  <1> QED BY <1>1, <1>2, <1>3, <1>4, <1>5 DEF Next

\* IInv holds in every state.
THEOREM Inductive == Spec => []IInv
  <1>1. Init => IInv
    BY Initially
  <1>2. IInv /\ [Next]_vars => IInv'
    BY StepKeeps
  <1> QED BY <1>1, <1>2, PTL DEF Spec

\* rx_edges_ and the fields read from it are never outgrown.
THEOREM TypeCorrect == Spec => []TypeOK
  <1>1. IInv => TypeOK
    BY DEF IInv
  <1> QED BY <1>1, Inductive, PTL

-----------------------------------------------------------------------------
(* Commands. *)

\* The word of a command: a family, and fields in its low half.
LEMMA CommandWord ==
    ASSUME NEW w \in Commands
    PROVE  /\ w \in Nat /\ w \div 65536 \in {64, 96}
           /\ w % 16 \in VentCommands
  <1>1. PICK family \in {Family60, Family40} : w \in ProtocolWords(family)
    BY DEF Commands
  <1>2. PICK high \in {64, 96} : family = high * 65536
    BY DEF Family60, Family40
  <1>3. 0 \in VentCommands /\ VentCommands = {0, 4, 8, 12}
    BY DEF VentCommands, VentNone, VentClose, VentOpen, VentStop
  <1>4. CASE w = family
    <2>1. w \in Nat /\ w \div 65536 = high /\ w % 16 = 0
      BY <1>2, <1>4, SMT
    <2> QED BY <1>3, <2>1
  <1>5. CASE w # family
    <2>1. PICK step \in SpeedSteps, d \in BOOLEAN, r \in BOOLEAN, v \in VentCommands :
             w = family + 64 * Reversed5(16 + (step \div 10))
                        + (IF d THEN 32 ELSE 0) + (IF r THEN 16 ELSE 0) + v
      BY <1>1, <1>5 DEF ProtocolWords
    <2>2. PICK code \in 0 .. 31 : code = Reversed5(16 + (step \div 10))
      <3>1. step \in Nat
        BY DEF SpeedSteps
      <3>2. PICK n \in Nat : n = 16 + (step \div 10)
        BY <3>1, SMT
      <3>3. Reversed5(n) \in 0 .. 31
        BY SMT DEF Reversed5
      <3> QED BY <3>2, <3>3
    <2>3. PICK two \in 0 .. 3 : (IF d THEN 32 ELSE 0) + (IF r THEN 16 ELSE 0) = 16 * two
      <3>1. (IF d THEN 32 ELSE 0) + (IF r THEN 16 ELSE 0) \in {16 * 0, 16 * 1, 16 * 2, 16 * 3}
        OBVIOUS
      <3> QED BY <3>1
    <2>4. v \in {0, 4, 8, 12}
      BY <1>3
    <2>5. w = high * 65536 + 64 * code + 16 * two + v
      <3>1. PICK x, y : x = (IF d THEN 32 ELSE 0) /\ y = (IF r THEN 16 ELSE 0)
                        /\ x \in Nat /\ y \in Nat
        OBVIOUS
      <3>2. w = high * 65536 + 64 * code + x + y + v /\ x + y = 16 * two
        BY <1>2, <2>1, <2>2, <2>3, <3>1
      <3> QED BY <2>4, <3>1, <3>2, SMT
    <2>6. w \in Nat /\ w \div 65536 = high /\ w % 16 = v
      BY <2>4, <2>5, SMT
    <2> QED BY <2>6
  <1> QED BY <1>4, <1>5

\* One whose state nibble is listed scores all that a word can.
LEMMA ListedScoresFully ==
    ASSUME NEW w \in Commands, (w \div 16) % 16 <= 7
    PROVE  ScoresFully(w)
  <1>1. w \div 65536 \in {64, 96} /\ w % 16 \in VentCommands
    BY CommandWord
  <1>2. Bonus(w) = 1000 + 100 + 20
    BY <1>1 DEF Bonus
  <1> QED BY <1>2 DEF ScoresFully, TopBonus

\* Bit 22 of a word is a one in both families: the thirteenth of the frame.
LEMMA CommandHasOneInside ==
    ASSUME NEW f \in Frames, f.low24 \in Commands
    PROVE  HasOneInside(f)
  <1>1. PICK g : g = Shifted(f.low24)
    OBVIOUS
  <1>2. PICK n \in Nat : n = f.low24 /\ n \div 65536 \in {64, 96}
    BY CommandWord
  <1>3. n >= 4194304 /\ n < 8388608
    BY <1>2, SMT
  <1>4. g[0] = n /\ \A k \in Nat : g[k] \in Nat /\ g[k + 1] = g[k] \div 2
    BY <1>1, <1>2, ShiftedFacts
  <1>5. ASSUME NEW k \in 0 .. 21, NEW m \in Nat, 2 * m <= g[k], g[k] < 4 * m
        PROVE  m <= g[k + 1] /\ g[k + 1] < 2 * m
    <2>1. PICK x \in Nat : x = g[k] /\ g[k + 1] = x \div 2
      BY <1>4
    <2> QED BY <1>5, <2>1, SMT
  <1>6. /\ 65536 <= g[6] /\ g[6] < 131072
    <2>1. 2097152 <= g[1] /\ g[1] < 4194304
      BY <1>3, <1>4, <1>5
    <2>2. 1048576 <= g[2] /\ g[2] < 2097152
      BY <1>5, <2>1
    <2>3. 524288 <= g[3] /\ g[3] < 1048576
      BY <1>5, <2>2
    <2>4. 262144 <= g[4] /\ g[4] < 524288
      BY <1>5, <2>3
    <2>5. 131072 <= g[5] /\ g[5] < 262144
      BY <1>5, <2>4
    <2> QED BY <1>5, <2>5
  <1>7. /\ 1024 <= g[12] /\ g[12] < 2048
    <2>1. 32768 <= g[7] /\ g[7] < 65536
      BY <1>5, <1>6
    <2>2. 16384 <= g[8] /\ g[8] < 32768
      BY <1>5, <2>1
    <2>3. 8192 <= g[9] /\ g[9] < 16384
      BY <1>5, <2>2
    <2>4. 4096 <= g[10] /\ g[10] < 8192
      BY <1>5, <2>3
    <2>5. 2048 <= g[11] /\ g[11] < 4096
      BY <1>5, <2>4
    <2> QED BY <1>5, <2>5
  <1>8. /\ 16 <= g[18] /\ g[18] < 32
    <2>1. 512 <= g[13] /\ g[13] < 1024
      BY <1>5, <1>7
    <2>2. 256 <= g[14] /\ g[14] < 512
      BY <1>5, <2>1
    <2>3. 128 <= g[15] /\ g[15] < 256
      BY <1>5, <2>2
    <2>4. 64 <= g[16] /\ g[16] < 128
      BY <1>5, <2>3
    <2>5. 32 <= g[17] /\ g[17] < 64
      BY <1>5, <2>4
    <2> QED BY <1>5, <2>5
  <1>9. g[22] = 1
    <2>1. 8 <= g[19] /\ g[19] < 16
      BY <1>5, <1>8
    <2>2. 4 <= g[20] /\ g[20] < 8
      BY <1>5, <2>1
    <2>3. 2 <= g[21] /\ g[21] < 4
      BY <1>5, <2>2
    <2>4. 1 <= g[22] /\ g[22] < 2 /\ g[22] \in Nat
      BY <1>4, <1>5, <2>3
    <2> QED BY <2>4
  <1>10. FrameBit(f, 13) = 1
    <2>1. ~(13 <= PrefixBits) /\ FrameBits - 13 = 22
      BY DEF PrefixBits, FrameBits
    <2>2. FrameBit(f, 13) = g[22] % 2
      BY <1>1, <2>1 DEF FrameBit
    <2> QED BY <1>9, <2>2
  <1>11. 13 \in Ones(f) /\ 1 < 13 /\ 13 < FrameBits
    BY <1>10 DEF Ones, FrameBits
  <1> QED BY <1>11 DEF HasOneInside

-----------------------------------------------------------------------------
(* Commands are reported. *)

\* A word that scores all it can, of which one repeat was recorded whole by a receiver
\* whose stretch the bands of the decoder allow, is reported as complete, and so is
\* learned from: no run of symbols that noise lengthens, and none that is shorter,
\* can be preferred to it unless it reads as a command of 35 bits or more itself.
CommandIsReported ==
    phase = "decoded" /\ HoldsCleanRepeat /\ HasLongGaps /\ InBand(reception.stretch)
        /\ ScoresFully(sending.frame.low24)
        => Complete /\ outcome.bits >= FrameBits /\ ScoresFully(outcome.low24)

LEMMA HeldIsClean ==
    ASSUME IInv, phase = "decoded", HoldsCleanRepeat
    PROVE  \E i : CleanAt(edges, i, sending.frame, reception.stretch)
  <1>1. PICK i \in 1 .. Len(edges) - DataEdges + 1 :
           /\ SubSeq(edges, i, i + DataEdges - 1) = DataArriving
           /\ i + DataEdges \in Ends(edges)
    BY DEF HoldsCleanRepeat
  <1>2. CleanAt(edges, i, sending.frame, reception.stretch)
    BY <1>1 DEF CleanAt, DataArriving, SentData
  <1> QED BY <1>2

LEMMA SentIsFrame ==
    ASSUME IInv, phase = "decoded"
    PROVE  sending.frame \in Frames
  <1>1. sending \in Transmissions
    BY DEF IInv, TypeOK
  <1>2. sending.frame \in SentFrames
    BY <1>1, TransmissionKinds
  <1> QED BY <1>2, FramesAssumption DEF Frames

\* It is so in every such state.
LEMMA CommandReported ==
    ASSUME IInv
    PROVE  CommandIsReported
  <1>1. SUFFICES ASSUME phase = "decoded", HoldsCleanRepeat, HasLongGaps,
                        InBand(reception.stretch), ScoresFully(sending.frame.low24)
                 PROVE  Complete /\ outcome.bits >= FrameBits /\ ScoresFully(outcome.low24)
    BY DEF CommandIsReported
  <1>2. edges \in Seq(Uint16) /\ outcome = Decoded(edges)
    BY <1>1 DEF IInv, TypeOK
  <1>3. PICK f \in Frames : f = sending.frame
    BY <1>1, SentIsFrame
  <1>4. PICK x : x = reception.stretch /\ InBand(x)
    BY <1>1
  <1>5. PICK i : CleanAt(edges, i, f, x)
    BY <1>1, <1>3, <1>4, HeldIsClean
  <1>6. PICK c \in Candidates(edges) : c.bits = FrameBits /\ Low24(edges, c) = f.low24
    BY <1>2, <1>4, <1>5, CleanIsRead
  <1>7. Outprizeish(edges) /\ Len(edges) >= RxMinEdges
    BY <1>1, <1>2, <1>3, <1>4, <1>5, CleanIsOutprizeish DEF HasLongGaps
  <1>8. ScoresFully(Low24(edges, c))
    BY <1>1, <1>3, <1>6
  <1> QED BY <1>2, <1>6, <1>7, <1>8, TopIsComplete DEF Complete

-----------------------------------------------------------------------------
(* Nothing else is reported. *)

\* It is the frame on the air in every state.
LEMMA ReportedSent ==
    ASSUME IInv
    PROVE  ReportedWasSent
  <1>1. SUFFICES ASSUME Complete, HasOneInside(sending.frame),
                        Quiet \/ (sending.path = "canonical" /\ OnlyChatter)
                 PROVE  IsSent
    BY DEF ReportedWasSent
  <1>2. phase = "decoded"
    BY <1>1 DEF IInv, Complete, Undecoded
  <1>3. /\ edges \in Seq(Uint16) /\ outcome = Decoded(edges)
        /\ sending \in Transmissions /\ reception \in Receptions
        /\ reception.start.interval <= Len(Wave(sending))
        /\ edges = Captured(Arriving(sending, reception))
    BY <1>2 DEF IInv, TypeOK
  <1>4. PICK c \in Candidates(edges) : /\ c.bits >= FrameBits
                                      /\ outcome.low24 = Low24(edges, c)
                                      /\ outcome.remote = Remote(edges, c)
    BY <1>1, <1>3, CompleteIsCandidate DEF Complete
  <1>5. \/ reception.noise.edges = 0
        \/ sending.path = "canonical" /\ NoFalseSymbols(reception)
    BY <1>1 DEF Quiet, OnlyChatter, NoFalseSymbols
  <1>6. /\ Low24(edges, c) = sending.frame.low24
        /\ Remote(edges, c) = sending.frame.remote
    BY <1>1, <1>3, <1>4, <1>5, CandidateIsSent, Zenon
  <1> QED BY <1>4, <1>6 DEF IsSent

\* What is reported as complete is the frame on the air, wherever the capture began
\* and whatever the demodulator does to the lengths of the levels up to 300 us, when
\* it is quiet in the pauses or, in those of the canonical wave, chatters with
\* edges too close or too far apart to be symbols: for every frame with a one inside,
\* as every command has one in its family.
THEOREM ReportedAlwaysSent == Spec => []ReportedWasSent
  <1>1. IInv => ReportedWasSent
    BY ReportedSent
  <1> QED BY <1>1, Inductive, PTL

\* A command of up to 70 % or POWER OFF, in any of its forms and families, that was
\* received whole in one of its repeats is reported as what was sent, whatever other
\* decodes of the capture compete with it by length or score, if no noise is a symbol:
\* the candidates that could win are the frame as well.
THEOREM CleanRepeatAlwaysWins ==
    Spec => [](InBand(reception.stretch) /\ OnlyChatter => CleanRepeatWins)
  <1>1. ASSUME IInv
        PROVE  InBand(reception.stretch) /\ OnlyChatter => CleanRepeatWins
    <2>1. SUFFICES ASSUME phase = "decoded", InBand(reception.stretch), OnlyChatter,
                          HoldsCleanRepeat, HasLongGaps, IsCommand, IsListed
                   PROVE  Complete /\ IsSent
      BY DEF CleanRepeatWins
    <2>2. ScoresFully(sending.frame.low24)
      BY <2>1, ListedScoresFully DEF IsCommand, IsListed
    <2>3. Complete
      BY <1>1, <2>1, <2>2, CommandReported, Zenon DEF CommandIsReported
    <2>4. HasOneInside(sending.frame)
      <3>1. sending.frame \in Frames
        BY <1>1, <2>1, SentIsFrame
      <3> QED BY <2>1, <3>1, CommandHasOneInside DEF IsCommand
    <2>5. sending.path = "canonical"
      BY <2>1, Zenon DEF HoldsCleanRepeat
    <2> QED BY <1>1, <2>1, <2>3, <2>4, <2>5, ReportedSent, Zenon DEF ReportedWasSent
  <1> QED BY <1>1, Inductive, PTL

-----------------------------------------------------------------------------
(* The window is long enough. *)

\* A repeat that is held is a clean one.
LEMMA HeldIfClean ==
    ASSUME IInv, phase = "decoded", sending.path = "canonical",
           NEW i, CleanAt(edges, i, sending.frame, reception.stretch)
    PROVE  HoldsCleanRepeat
  <1>1. DataArriving = [k \in 1 .. DataEdges |->
                           SentData(sending.frame)[k]
                              + (IF k % 2 = 0 THEN reception.stretch ELSE -reception.stretch)]
    BY Zenon DEF DataArriving, SentData
  <1>2. /\ i \in 1 .. Len(edges) - DataEdges + 1
        /\ SubSeq(edges, i, i + DataEdges - 1) = DataArriving
        /\ i + DataEdges \in Ends(edges)
    BY <1>1, Zenon DEF CleanAt
  <1> QED BY <1>2, Zenon DEF HoldsCleanRepeat

\* A reception unfolds in time.
LEMMA ReceivedInTime ==
    ASSUME NEW s \in Transmissions, NEW r \in Receptions, r.start.interval <= Len(Wave(s))
    PROVE  \E f, P, W : Received(f, Arriving(s, r), Wave(s), r, r.start.interval, P, W)
  <1>1. PICK w \in Waves : w = Wave(s)
    BY WaveType
  <1>2. w \in Seq(Nat)
    BY DEF Waves, Lasting
  <1>3. PICK a \in Seq(Nat) : a = Arriving(s, r)
    BY ArrivingType
  <1>4. PICK P : Elapsed(a, P)
    BY TimesElapse
  <1>5. PICK W : Elapsed(w, W)
    BY <1>2, TimesElapse
  <1>6. PICK f : Unfolds(f, Arriving(s, r), Wave(s), r, r.start.interval, Len(Wave(s)))
    BY ArrivingUnfolds
  <1>7. r.start.interval \in Nat /\ 1 <= r.start.interval
    BY ReceptionKinds
  <1>8. Received(f, a, w, r, r.start.interval, P, W)
    BY <1>1, <1>3, <1>4, <1>5, <1>6, <1>7, Zenon DEF Received
  <1> QED BY <1>1, <1>3, <1>8, Zenon

\* One of several repeats is recorded whole.
LEMMA SeveralHold ==
    ASSUME IInv, phase = "decoded", InBand(reception.stretch),
           Cardinality(Ones(sending.frame)) <= MostOnes,
           StartsInFirstOfSeveral, OnlyChatter, Len(edges) < MaxEdges
    PROVE  HoldsCleanRepeat
  <1>1. PICK s \in Transmissions, r \in Receptions : s = sending /\ r = reception
    BY DEF IInv, TypeOK
  <1>2. r.start.interval <= Len(Wave(s)) /\ edges = Captured(Arriving(s, r))
    BY <1>1 DEF IInv
  <1>3. PICK frame : frame = s.frame
    OBVIOUS
  <1>4. PICK repeats \in Nat : repeats = s.repeats /\ repeats >= 2
    BY <1>1, TransmissionKinds DEF StartsInFirstOfSeveral
  <1>5. PICK w : w = CanonicalWave(frame, repeats) /\ w = Wave(s)
    BY <1>1, <1>3, <1>4 DEF StartsInFirstOfSeveral, Wave
  <1>6. PICK begin \in 1 .. 78 : begin = r.start.interval
    <2>1. PICK one \in Nat : one = 1 /\ 0 < one /\ 78 * one = 78
      OBVIOUS
    <2>2. Len(CanonicalWave(frame, one)) = 78 * one
      <3>1. PICK zero \in Nat : zero = 0 /\ zero < one
        BY <2>1
      <3>2. PICK v : v = CanonicalWave(frame, one)
        OBVIOUS
      <3>3. Len(v) = 78 * one
        BY <3>1, <3>2, CanonicalRepeats
      <3> QED BY <3>2, <3>3, Zenon
    <2>3. r.start.interval <= Len(CanonicalWave(frame, 1))
      BY <1>1, <1>3, Zenon DEF StartsInFirstOfSeveral
    <2>4. PICK begin \in Nat : begin = r.start.interval /\ begin > 0
      BY ReceptionKinds
    <2>5. begin <= 78
      BY <2>1, <2>2, <2>3, <2>4
    <2>6. begin \in 1 .. 78
      <3>1. \A n \in Nat : n > 0 /\ n <= 78 => n \in 1 .. 78
        OBVIOUS
      <3> QED BY <2>4, <2>5, <3>1, Zenon
    <2> QED BY <2>4, <2>6
  <1>7. PICK f, P, W : Received(f, Arriving(s, r), w, r, begin, P, W)
    BY <1>2, <1>5, <1>6, ReceivedInTime, Zenon
  <1>8. Elapsed(w, W)
    BY <1>7, Zenon DEF Received
  <1>9. PICK b \in Nat : InTime(w, W, frame, begin, b)
    <2>1. Cardinality(Ones(frame)) <= MostOnes
      BY <1>1, <1>3, Zenon
    <2> QED BY <1>4, <1>5, <1>8, <2>1, SomeRepeatInTime
  <1>10. NoFalseSymbols(r)
    BY <1>1, Zenon DEF OnlyChatter, Quiet, NoFalseSymbols
  <1>11. PICK i : CleanAt(edges, i, frame, r.stretch)
    <2>1. InBand(r.stretch)
      BY <1>1, Zenon
    <2> QED BY <1>2, <1>7, <1>9, <1>10, <2>1, RepeatIsHeld, Zenon
  <1>12. sending.path = "canonical"
    BY DEF StartsInFirstOfSeveral
  <1> QED BY <1>1, <1>3, <1>11, <1>12, HeldIfClean

\* The capture window is long enough, wherever in the first repeat of several the
\* capture begins and whatever the receiver adds to the pauses that is no symbol, for
\* every frame of up to 22 ones, those of all commands and speeds among them, and every
\* stretch that the bands of the decoder allow: a repeat is recorded whole.
THEOREM RepeatsAlwaysSuffice ==
    Spec => [](InBand(reception.stretch) => RepeatsSuffice)
  <1>1. ASSUME IInv
        PROVE  InBand(reception.stretch) => RepeatsSuffice
    BY <1>1, SeveralHold DEF RepeatsSuffice
  <1> QED BY <1>1, Inductive, PTL
=============================================================================
