--------------------------- MODULE RecorderProofs ---------------------------
(***************************************************************************)
(* The recorder keeps what was heard, for every set of windows: the        *)
(* inductive invariant of Recorder and what follows from it.               *)
(***************************************************************************)
EXTENDS Recorder, WaveformProofs, FiniteSetTheorems

-----------------------------------------------------------------------------
(* Windows: where the bursts are in what is put out. *)

\* What WindowsAssumption says of one window.
LEMMA WindowFacts ==
    ASSUME NEW w \in DOMAIN Windows
    PROVE  /\ Windows[w].level \in BOOLEAN
           /\ Len(Windows[w].bursts) \in Nat
           /\ DOMAIN Windows[w].bursts = 1 .. Len(Windows[w].bursts)
           /\ \A k \in 1 .. Len(Windows[w].bursts) :
                 LET edges == Windows[w].bursts[k].edges
                 IN  /\ edges \in Seq(Nat) /\ Len(edges) \in Nat /\ Len(edges) >= 1
                     /\ k > 1 => edges[1] >= SplitGap
                     /\ \A i \in 2 .. Len(edges) : edges[i] < SplitGap
  <1> DEFINE bursts == Windows[w].bursts
  <1>1. bursts \in Seq(HeardBursts) /\ Windows[w].level \in BOOLEAN
    BY WindowsAssumption
  <1>2. \A b \in HeardBursts : b.edges \in Seq(Nat)
    <2> DEFINE F == {NoFrame} \cup [remote : RemoteIds, low24 : Words]
    <2> HIDE DEF F
    <2>1. HeardBursts = [frame : F, late : BOOLEAN, edges : Seq(Nat)]
      BY DEF HeardBursts, F
    <2> QED BY <2>1
  <1>3. Len(bursts) \in Nat /\ DOMAIN bursts = 1 .. Len(bursts)
    BY <1>1
  <1>4. ASSUME NEW k \in 1 .. Len(bursts)
        PROVE  LET edges == bursts[k].edges
               IN  /\ edges \in Seq(Nat) /\ Len(edges) \in Nat /\ Len(edges) >= 1
                   /\ k > 1 => edges[1] >= SplitGap
                   /\ \A i \in 2 .. Len(edges) : edges[i] < SplitGap
    <2> DEFINE edges == bursts[k].edges
    <2>1. bursts[k] \in HeardBursts
      BY <1>1, <1>3
    <2>2. edges \in Seq(Nat)
      BY <1>2, <2>1
    <2>3. /\ edges # <<>>
          /\ k > 1 => edges[1] >= SplitGap
          /\ \A i \in 2 .. Len(edges) : edges[i] < SplitGap
      BY <1>3, WindowsAssumption
    <2> HIDE DEF edges
    <2>4. Len(edges) \in Nat /\ Len(edges) >= 1
      BY <2>2, <2>3
    <2> QED BY <2>2, <2>3, <2>4 DEF edges
  <1> QED BY <1>1, <1>3, <1>4

BurstCount(w) == Len(Windows[w].bursts)
Burst(w, k) == Windows[w].bursts[k].edges
UpTo(w, k) == Joined(Windows[w])[k]

LEMMA BurstFacts ==
    ASSUME NEW w \in DOMAIN Windows
    PROVE  /\ BurstCount(w) \in Nat
           /\ \A k \in 1 .. BurstCount(w) :
                 /\ Burst(w, k) \in Seq(Nat) /\ Len(Burst(w, k)) \in Nat /\ Len(Burst(w, k)) >= 1
                 /\ k > 1 => Burst(w, k)[1] >= SplitGap
                 /\ \A i \in 2 .. Len(Burst(w, k)) : Burst(w, k)[i] < SplitGap
  BY WindowFacts DEF BurstCount, Burst

\* The body of Joined.
JoinStep(w, f, k) == IF k = 0 THEN <<>> ELSE f[k - 1] \o Burst(w, k)

\* Joined is what its definition says it is.
LEMMA JoinedDefined ==
    ASSUME NEW w \in DOMAIN Windows
    PROVE  Joined(Windows[w]) = [k \in 0 .. BurstCount(w) |-> JoinStep(w, Joined(Windows[w]), k)]
  <1> DEFINE D == 0 .. BurstCount(w)
             V == Seq(Nat)
             size == [k \in D |-> k]
             step == [x \in D \X [D -> V] |-> JoinStep(w, x[2], x[1])]
  <1>0. BurstCount(w) \in Nat
    BY BurstFacts
  <1>1. ASSUME NEW f \in [D -> V], NEW k \in D
        PROVE  JoinStep(w, f, k) \in V
    <2>1. CASE k = 0
      BY <2>1 DEF JoinStep
    <2>2. CASE k # 0
      <3>1. k - 1 \in D /\ k \in 1 .. BurstCount(w)
        BY <1>0, <2>2
      <3>2. f[k - 1] \in Seq(Nat) /\ Burst(w, k) \in Seq(Nat)
        BY <3>1, BurstFacts
      <3> QED BY <2>2, <3>2 DEF JoinStep
    <2> QED BY <2>1, <2>2
  <1>2. step \in [D \X [D -> V] -> V]
    <2>1. ASSUME NEW x \in D \X [D -> V]
          PROVE  JoinStep(w, x[2], x[1]) \in V
      <3> HIDE DEF D, V
      <3> QED BY <1>1
    <2> HIDE DEF D, V
    <2> QED BY <2>1, Zenon
  <1>3. \A f \in [D -> V] : \A k \in D : step[<<k, f>>] = JoinStep(w, f, k)
    <2> HIDE DEF D, V
    <2> QED OBVIOUS
  <1>4. size \in [D -> Nat] /\ \A k \in D : size[k] = k
    BY <1>0
  <1> HIDE DEF step, size
  <1>5. LooksBelow(D, V, size, step)
    <2>1. ASSUME NEW k \in D, NEW f \in [D -> V], NEW g \in [D -> V],
                 \A j \in D : size[j] < size[k] => f[j] = g[j]
          PROVE  step[<<k, f>>] = step[<<k, g>>]
      <3>1. k # 0 => f[k - 1] = g[k - 1]
        <4>1. k # 0 => k - 1 \in D /\ k - 1 < k
          BY <1>0
        <4> HIDE DEF D, V
        <4> QED BY <1>4, <2>1, <4>1
      <3>2. JoinStep(w, f, k) = JoinStep(w, g, k)
        BY <3>1 DEF JoinStep
      <3> HIDE DEF D, V
      <3> QED BY <1>3, <3>2
    <2> HIDE DEF D, V
    <2> QED BY <2>1 DEF LooksBelow
  <1>6. \E f : f = [k \in 0 .. BurstCount(w) |-> JoinStep(w, f, k)]
    <2>0. <<>> \in V
      OBVIOUS
    <2> HIDE DEF V
    <2>1. Recursive(D, V, step)
      <3> HIDE DEF D
      <3> QED BY <1>2, <1>4, <1>5, <2>0, Recursion
    <2> HIDE DEF D
    <2>2. PICK f \in [D -> V] : \A k \in D : f[k] = step[<<k, f>>]
      BY <2>1 DEF Recursive
    <2>3. \A k \in D : f[k] = JoinStep(w, f, k)
      BY <1>3, <2>2
    <2>4. f = [k \in D |-> JoinStep(w, f, k)]
      BY <2>3
    <2> QED BY <2>4 DEF D
  <1> QED BY <1>6, Zenon DEF Joined, JoinStep, BurstCount, Burst

\* Burst after burst.
LEMMA UpToSteps ==
    ASSUME NEW w \in DOMAIN Windows
    PROVE  /\ UpTo(w, 0) = <<>>
           /\ \A k \in 1 .. BurstCount(w) : UpTo(w, k) = UpTo(w, k - 1) \o Burst(w, k)
  <1>0. BurstCount(w) \in Nat
    BY BurstFacts
  <1>1. \A k \in 0 .. BurstCount(w) : UpTo(w, k) = JoinStep(w, Joined(Windows[w]), k)
    BY JoinedDefined, Zenon DEF UpTo
  <1>2. UpTo(w, 0) = <<>>
    BY <1>0, <1>1 DEF JoinStep
  <1>3. ASSUME NEW k \in 1 .. BurstCount(w)
        PROVE  UpTo(w, k) = UpTo(w, k - 1) \o Burst(w, k)
    <2>1. k \in 0 .. BurstCount(w) /\ k # 0
      BY <1>0
    <2> QED BY <1>1, <2>1 DEF JoinStep, UpTo
  <1> QED BY <1>2, <1>3

End(w, k) == EndOf(Windows[w], k)

\* What has been put out grows by a burst at a time.
LEMMA UpToType ==
    ASSUME NEW w \in DOMAIN Windows, NEW k \in 0 .. BurstCount(w)
    PROVE  UpTo(w, k) \in Seq(Nat)
  <1>0. BurstCount(w) \in Nat
    BY BurstFacts
  <1> DEFINE S == {n \in Nat : n <= BurstCount(w) => UpTo(w, n) \in Seq(Nat)}
  <1>a. UpTo(w, 0) = <<>> /\ \A m \in 1 .. BurstCount(w) : UpTo(w, m) = UpTo(w, m - 1) \o Burst(w, m)
    BY UpToSteps, Zenon
  <1>1. 0 \in S
    <2>0. <<>> \in Seq(Nat)
      OBVIOUS
    <2>1. UpTo(w, 0) \in Seq(Nat)
      BY <1>a, <2>0, Zenon
    <2> QED BY <2>1
  <1>2. ASSUME NEW n \in S
        PROVE  n + 1 \in S
    <2>1. n \in Nat /\ (n <= BurstCount(w) => UpTo(w, n) \in Seq(Nat))
      OBVIOUS
    <2> HIDE DEF S
    <2>2. ASSUME n + 1 <= BurstCount(w)
          PROVE  UpTo(w, n + 1) \in Seq(Nat)
      <3>1. PICK m \in 1 .. BurstCount(w) : m = n + 1 /\ m - 1 = n /\ n <= BurstCount(w)
        BY <1>0, <2>1, <2>2
      <3>2. UpTo(w, m) = UpTo(w, m - 1) \o Burst(w, m)
        BY <1>a
      <3>3. UpTo(w, m - 1) \in Seq(Nat) /\ Burst(w, m) \in Seq(Nat)
        BY <2>1, <3>1, BurstFacts
      <3>4. UpTo(w, m) \in Seq(Nat)
        BY <3>2, <3>3
      <3> QED BY <3>1, <3>4
    <2> QED BY <2>1, <2>2 DEF S
  <1>3. S = Nat
    <2>1. S \subseteq Nat
      OBVIOUS
    <2> HIDE DEF S
    <2> QED BY <1>1, <1>2, <2>1, AllNat
  <1> QED BY <1>0, <1>3

LEMMA BurstEnds ==
    ASSUME NEW w \in DOMAIN Windows
    PROVE  /\ End(w, 0) = 0
           /\ \A k \in 0 .. BurstCount(w) : End(w, k) \in Nat
           /\ \A k \in 1 .. BurstCount(w) :
                 /\ End(w, k) = End(w, k - 1) + Len(Burst(w, k))
                 /\ End(w, k - 1) + 1 <= End(w, k)
                 /\ \A x \in 1 .. End(w, k - 1) : UpTo(w, k)[x] = UpTo(w, k - 1)[x]
                 /\ \A y \in 1 .. Len(Burst(w, k)) :
                       UpTo(w, k)[End(w, k - 1) + y] = Burst(w, k)[y]
  <1>0. BurstCount(w) \in Nat
    BY BurstFacts
  <1>1. \A k : End(w, k) = Len(UpTo(w, k))
    BY DEF End, EndOf, UpTo
  <1>2. End(w, 0) = 0
    BY <1>1, UpToSteps
  <1>3. \A k \in 0 .. BurstCount(w) : End(w, k) \in Nat
    BY <1>1, UpToType
  <1>4. ASSUME NEW k \in 1 .. BurstCount(w)
        PROVE  /\ End(w, k) = End(w, k - 1) + Len(Burst(w, k))
               /\ End(w, k - 1) + 1 <= End(w, k)
               /\ \A x \in 1 .. End(w, k - 1) : UpTo(w, k)[x] = UpTo(w, k - 1)[x]
               /\ \A y \in 1 .. Len(Burst(w, k)) :
                     UpTo(w, k)[End(w, k - 1) + y] = Burst(w, k)[y]
    <2>1. k - 1 \in 0 .. BurstCount(w)
      BY <1>0
    <2>2. PICK s : s = UpTo(w, k - 1) /\ s \in Seq(Nat) /\ Len(s) = End(w, k - 1)
      BY <1>1, <2>1, UpToType
    <2>3. PICK t : t = Burst(w, k) /\ t \in Seq(Nat) /\ Len(t) >= 1
      BY BurstFacts
    <2>4. UpTo(w, k) = s \o t /\ End(w, k) = Len(s \o t)
      BY <1>1, <2>2, <2>3, UpToSteps
    <2>5. /\ Len(s \o t) = Len(s) + Len(t)
          /\ \A x \in 1 .. Len(s) : (s \o t)[x] = s[x]
          /\ \A y \in 1 .. Len(t) : (s \o t)[Len(s) + y] = t[y]
      BY <2>2, <2>3
    <2>6. End(w, k) = End(w, k - 1) + Len(t) /\ End(w, k - 1) + 1 <= End(w, k)
      <3>1. Len(s) \in Nat /\ Len(t) \in Nat
        BY <2>2, <2>3
      <3> QED BY <2>2, <2>3, <2>4, <2>5, <3>1
    <2>7. /\ \A x \in 1 .. End(w, k - 1) : UpTo(w, k)[x] = UpTo(w, k - 1)[x]
          /\ \A y \in 1 .. Len(t) : UpTo(w, k)[End(w, k - 1) + y] = t[y]
      BY <2>2, <2>4, <2>5
    <2> QED BY <2>3, <2>6, <2>7
  <1> QED BY <1>2, <1>3, <1>4

\* A later burst ends later.
LEMMA EndsGrow ==
    ASSUME NEW w \in DOMAIN Windows,
           NEW j \in 0 .. BurstCount(w), NEW k \in 0 .. BurstCount(w), j <= k
    PROVE  /\ End(w, j) <= End(w, k)
           /\ \A x \in 1 .. End(w, j) : UpTo(w, k)[x] = UpTo(w, j)[x]
  <1>0. BurstCount(w) \in Nat
    BY BurstFacts
  <1> DEFINE Grows(m) == /\ End(w, j) <= End(w, m)
                         /\ \A x \in 1 .. End(w, j) : UpTo(w, m)[x] = UpTo(w, j)[x]
             S == {n \in Nat : j + n <= BurstCount(w) => Grows(j + n)}
  <1>1. 0 \in S
    <2>1. j + 0 = j /\ End(w, j) \in Nat
      BY <1>0, BurstEnds
    <2>2. Grows(j)
      BY <2>1
    <2> HIDE DEF Grows
    <2> QED BY <2>1, <2>2
  <1>2. ASSUME NEW n \in S
        PROVE  n + 1 \in S
    <2>1. n \in Nat /\ (j + n <= BurstCount(w) => Grows(j + n))
      OBVIOUS
    <2> HIDE DEF S
    <2>2. ASSUME j + n + 1 <= BurstCount(w)
          PROVE  Grows(j + n + 1)
      <3>1. PICK m \in 1 .. BurstCount(w) : m = j + n + 1 /\ m - 1 = j + n
        BY <1>0, <2>1, <2>2
      <3>2. Grows(m - 1) /\ m - 1 \in 0 .. BurstCount(w) /\ m \in 0 .. BurstCount(w)
        BY <1>0, <2>1, <2>2, <3>1
      <3>3. End(w, j) \in Nat /\ End(w, m - 1) \in Nat /\ End(w, m) \in Nat
        BY <3>2, BurstEnds
      <3>4. End(w, m - 1) + 1 <= End(w, m) /\ \A x \in 1 .. End(w, m - 1) : UpTo(w, m)[x] = UpTo(w, m - 1)[x]
        BY BurstEnds
      <3>5. Grows(m)
        BY <3>2, <3>3, <3>4
      <3> HIDE DEF Grows
      <3> QED BY <3>1, <3>5
    <2>3. j + (n + 1) = j + n + 1
      BY <2>1
    <2> HIDE DEF Grows
    <2> QED BY <2>1, <2>2, <2>3 DEF S
  <1>3. S = Nat
    <2>1. S \subseteq Nat
      OBVIOUS
    <2> HIDE DEF S
    <2> QED BY <1>1, <1>2, <2>1, AllNat
  <1>4. k - j \in Nat /\ j + (k - j) = k /\ k <= BurstCount(w)
    BY <1>0
  <1> HIDE DEF Grows
  <1>5. Grows(k)
    BY <1>3, <1>4
  <1> QED BY <1>5 DEF Grows

\* Interval y of burst k is where the bursts before it have ended.
LEMMA BurstAt ==
    ASSUME NEW w \in DOMAIN Windows, NEW k \in 1 .. BurstCount(w), NEW y \in 1 .. Len(Burst(w, k))
    PROVE  /\ End(w, k - 1) + y \in 1 .. Len(Intervals(Windows[w]))
           /\ Intervals(Windows[w])[End(w, k - 1) + y] = Burst(w, k)[y]
  <1>1. BurstCount(w) \in Nat /\ k \in 0 .. BurstCount(w) /\ k - 1 \in 0 .. BurstCount(w)
        /\ BurstCount(w) \in 0 .. BurstCount(w) /\ k <= BurstCount(w)
    BY BurstFacts
  <1>2. Intervals(Windows[w]) = UpTo(w, BurstCount(w)) /\ Len(Intervals(Windows[w])) = End(w, BurstCount(w))
    BY DEF Intervals, UpTo, BurstCount, End, EndOf
  <1>3. /\ End(w, k - 1) \in Nat /\ End(w, k) \in Nat /\ Len(Burst(w, k)) \in Nat
        /\ End(w, BurstCount(w)) \in Nat
    BY <1>1, BurstEnds, BurstFacts
  <1>4. End(w, k) = End(w, k - 1) + Len(Burst(w, k)) /\ End(w, k) <= End(w, BurstCount(w))
    BY <1>1, BurstEnds, EndsGrow
  <1>5. End(w, k - 1) + y \in 1 .. End(w, k) /\ End(w, k - 1) + y \in 1 .. End(w, BurstCount(w))
    BY <1>3, <1>4
  <1>6. UpTo(w, BurstCount(w))[End(w, k - 1) + y] = UpTo(w, k)[End(w, k - 1) + y]
    BY <1>1, <1>5, EndsGrow
  <1>7. UpTo(w, k)[End(w, k - 1) + y] = Burst(w, k)[y]
    BY BurstEnds
  <1> QED BY <1>2, <1>5, <1>6, <1>7

\* Every interval that is put out is of some burst.
LEMMA InSomeBurst ==
    ASSUME NEW w \in DOMAIN Windows, NEW x \in 1 .. Len(Intervals(Windows[w]))
    PROVE  \E k \in 1 .. BurstCount(w) : \E y \in 1 .. Len(Burst(w, k)) : x = End(w, k - 1) + y
  <1>1. BurstCount(w) \in Nat /\ BurstCount(w) \in 0 .. BurstCount(w) /\ 0 \in 0 .. BurstCount(w)
    BY BurstFacts
  <1>2. x \in Nat /\ x >= 1 /\ x <= End(w, BurstCount(w))
    <2>1. Len(Intervals(Windows[w])) = End(w, BurstCount(w))
      BY DEF Intervals, BurstCount, End, EndOf
    <2>2. End(w, BurstCount(w)) \in Nat
      BY <1>1, BurstEnds
    <2> QED BY <2>1, <2>2
  <1> DEFINE T == {k \in 0 .. BurstCount(w) : x <= End(w, k)}
  <1>3. T \subseteq Nat /\ T # {}
    BY <1>1, <1>2
  <1>4. PICK k \in T : \A n \in T : k <= n
    BY <1>3, Least
  <1>5. k # 0
    BY <1>2, BurstEnds
  <1>6. k \in 1 .. BurstCount(w) /\ k - 1 \in 0 .. BurstCount(w) /\ k - 1 \notin T /\ x <= End(w, k)
    BY <1>1, <1>4, <1>5
  <1>7. End(w, k - 1) < x /\ End(w, k - 1) \in Nat
    BY <1>2, <1>6, BurstEnds
  <1>8. End(w, k) = End(w, k - 1) + Len(Burst(w, k)) /\ Len(Burst(w, k)) \in Nat
    BY <1>6, BurstEnds, BurstFacts
  <1>9. x - End(w, k - 1) \in 1 .. Len(Burst(w, k)) /\ x = End(w, k - 1) + (x - End(w, k - 1))
    BY <1>2, <1>6, <1>7, <1>8
  <1> QED BY <1>6, <1>9

-----------------------------------------------------------------------------
(* What is acquired of a window. *)

LEMMA DeltaRange ==
    ASSUME NEW us \in Nat
    PROVE  /\ Delta(us) \in Uint16 /\ Delta(us) \in Nat
           /\ Delta(us) <= us
           /\ us < SplitGap => Delta(us) = us
           /\ us >= SplitGap => Delta(us) >= SplitGap
  <1>0. MaxUint16 \in Nat /\ SplitGap <= MaxUint16
    BY DEF MaxUint16, SplitGap
  <1>1. Delta(us) = IF us > MaxUint16 THEN MaxUint16 ELSE us
    BY <1>0 DEF Delta, Clamped
  <1>2. Delta(us) \in Uint16
    BY <1>0, <1>1 DEF Uint16
  <1>3. SplitGap \in Nat
    BY DEF SplitGap
  <1> QED BY <1>0, <1>1, <1>2, <1>3

LEMMA KeptRange ==
    ASSUME NEW n \in Nat
    PROVE  Kept(n) \in Nat /\ Kept(n) <= n /\ Kept(n) <= SrxMaxEdges
  BY DEF Kept, Clamped, SrxMaxEdges

LEMMA CaptureTimeType ==
    ASSUME NEW d \in Nat
    PROVE  CaptureTime(d) \in Nat
  BY DEF CaptureTime, Clamped

LEMMA IntervalsType ==
    ASSUME NEW w \in DOMAIN Windows
    PROVE  Intervals(Windows[w]) \in Seq(Nat)
  <1>1. BurstCount(w) \in 0 .. BurstCount(w)
    BY BurstFacts
  <1>2. UpTo(w, BurstCount(w)) \in Seq(Nat)
    BY <1>1, UpToType
  <1> QED BY <1>2 DEF Intervals, UpTo, BurstCount

Buffers == [edges : Seq(Uint16), level : BOOLEAN, valid : BOOLEAN]

\* e is the beginning of what window w puts out, as the buffer keeps it.
IsAcquired(w, e) ==
    /\ e \in Seq(Uint16)
    /\ Len(e) <= SrxMaxEdges /\ Len(e) <= Len(Intervals(Windows[w]))
    /\ \A i \in 1 .. Len(e) : e[i] = Delta(Intervals(Windows[w])[i])

LEMMA AcquiredFacts ==
    ASSUME NEW w \in DOMAIN Windows, NEW d \in Nat
    PROVE  LET a == Acquired(Windows[w], d)
           IN  /\ a \in Buffers /\ IsAcquired(w, a.edges)
               /\ a.level = Windows[w].level /\ (a.valid <=> Len(a.edges) >= RxMinEdges)
  <1> DEFINE all == Intervals(Windows[w])
             c == EndedWithin(all, CaptureTime(d))
             n == Kept(c)
             e == [k \in 1 .. n |-> Delta(all[k])]
  <1>0. Acquired(Windows[w], d)
           = [edges |-> e, level |-> Windows[w].level, valid |-> Len(e) >= RxMinEdges]
    BY Zenon DEF Acquired
  <1>1. all \in Seq(Nat) /\ Len(all) \in Nat
    BY IntervalsType
  <1> HIDE DEF all
  <1>2. c \in Nat /\ c <= Len(all)
    <2>1. c \in 0 .. Len(all)
      BY <1>1, CaptureTimeType, EndedWithinRange, Zenon
    <2> QED BY <1>1, <2>1
  <1> HIDE DEF c
  <1>3. n \in Nat /\ n <= c /\ n <= SrxMaxEdges
    BY <1>2, KeptRange
  <1> HIDE DEF n
  <1>4. ASSUME NEW k \in 1 .. n
        PROVE  Delta(all[k]) \in Uint16
    <2>1. all[k] \in Nat
      BY <1>1, <1>2, <1>3
    <2> QED BY <2>1, DeltaRange
  <1>5. e \in Seq(Uint16) /\ Len(e) = n /\ \A k \in 1 .. n : e[k] = Delta(all[k])
    BY <1>3, <1>4
  <1> HIDE DEF e
  <1>6. Len(e) <= SrxMaxEdges /\ Len(e) <= Len(all)
    BY <1>1, <1>2, <1>3, <1>5 DEF SrxMaxEdges
  <1>7. \A k \in 1 .. Len(e) : e[k] = Delta(all[k])
    BY <1>5
  <1>8. IsAcquired(w, e)
    BY <1>5, <1>6, <1>7 DEF IsAcquired, all
  <1>9. Windows[w].level \in BOOLEAN /\ (Len(e) >= RxMinEdges) \in BOOLEAN
    BY WindowFacts
  <1> DEFINE a == [edges |-> e, level |-> Windows[w].level, valid |-> Len(e) >= RxMinEdges]
  <1>10. /\ a \in Buffers /\ a.edges = e /\ a.level = Windows[w].level
         /\ a.valid <=> Len(e) >= RxMinEdges
    BY <1>5, <1>9 DEF Buffers
  <1> HIDE DEF a
  <1>11. Acquired(Windows[w], d) = a
    BY <1>0 DEF a
  <1> QED BY <1>8, <1>10, <1>11, Zenon

\* A long interval begins a burst.
LEMMA SplitsAreFirst ==
    ASSUME NEW w \in DOMAIN Windows, NEW e, IsAcquired(w, e), NEW i \in 1 .. Len(e),
           i = 1 \/ e[i] >= SplitGap
    PROVE  \E k \in 1 .. BurstCount(w) : i = End(w, k - 1) + 1
  <1>0. /\ e \in Seq(Uint16) /\ Len(e) <= Len(Intervals(Windows[w]))
        /\ e[i] = Delta(Intervals(Windows[w])[i])
    BY DEF IsAcquired
  <1>1. i \in 1 .. Len(Intervals(Windows[w]))
    <2>1. Len(Intervals(Windows[w])) \in Nat
      BY IntervalsType
    <2>2. Len(e) \in Nat
      BY <1>0
    <2> QED BY <1>0, <2>1, <2>2
  <1>2. PICK k \in 1 .. BurstCount(w) : \E y \in 1 .. Len(Burst(w, k)) : i = End(w, k - 1) + y
    BY <1>1, InSomeBurst
  <1>3. PICK y \in 1 .. Len(Burst(w, k)) : i = End(w, k - 1) + y
    BY <1>2
  <1>4. End(w, k - 1) \in Nat /\ Len(Burst(w, k)) \in Nat
    <2>1. k - 1 \in 0 .. BurstCount(w)
      BY BurstFacts
    <2> QED BY <2>1, BurstEnds, BurstFacts
  <1>5. CASE i = 1
    BY <1>3, <1>4, <1>5
  <1>6. CASE e[i] >= SplitGap
    <2>1. Intervals(Windows[w])[i] = Burst(w, k)[y]
      BY <1>3, BurstAt
    <2>2. Burst(w, k)[y] \in Nat
      BY <1>3, BurstFacts
    <2>3. ~(Burst(w, k)[y] < SplitGap)
      <3>1. e[i] <= Burst(w, k)[y]
        BY <1>0, <2>1, <2>2, DeltaRange
      <3>2. e[i] \in Nat
        BY <1>0, <2>1, <2>2, DeltaRange
      <3> QED BY <1>6, <2>2, <3>1, <3>2 DEF SplitGap
    <2>4. y \notin 2 .. Len(Burst(w, k))
      BY <2>3, BurstFacts
    <2> QED BY <1>3, <1>4, <2>4
  <1> QED BY <1>5, <1>6

\* The next burst begins where one has ended.
LEMMA NextBegins ==
    ASSUME NEW w \in DOMAIN Windows, NEW e, IsAcquired(w, e),
           NEW k \in 1 .. BurstCount(w), End(w, k) < Len(e)
    PROVE  End(w, k) + 1 \in 1 .. Len(e) /\ e[End(w, k) + 1] >= SplitGap
  <1>0. /\ Len(e) \in Nat /\ Len(e) <= Len(Intervals(Windows[w]))
        /\ \A x \in 1 .. Len(e) : e[x] = Delta(Intervals(Windows[w])[x])
    <2>1. e \in Seq(Uint16)
      BY DEF IsAcquired
    <2> QED BY <2>1 DEF IsAcquired
  <1>1. BurstCount(w) \in Nat /\ k \in 0 .. BurstCount(w)
    BY BurstFacts
  <1>2. End(w, k) \in Nat
    BY <1>1, BurstEnds
  <1>3. k + 1 \in 1 .. BurstCount(w) /\ k + 1 > 1 /\ k + 1 - 1 = k
    <2>1. Len(Intervals(Windows[w])) = End(w, BurstCount(w)) /\ Len(Intervals(Windows[w])) \in Nat
      BY IntervalsType DEF Intervals, BurstCount, End, EndOf
    <2>2. k # BurstCount(w)
      BY <1>0, <1>2, <2>1
    <2> QED BY <1>1, <2>2
  <1>4. PICK m \in 1 .. BurstCount(w) : m = k + 1 /\ m > 1 /\ m - 1 = k
    BY <1>3
  <1>5. 1 \in 1 .. Len(Burst(w, m)) /\ Burst(w, m)[1] >= SplitGap /\ Burst(w, m)[1] \in Nat
    <2>1. Burst(w, m) \in Seq(Nat) /\ Len(Burst(w, m)) \in Nat /\ Len(Burst(w, m)) >= 1
      BY BurstFacts
    <2>2. Burst(w, m)[1] >= SplitGap
      BY <1>4, BurstFacts
    <2> QED BY <2>1, <2>2
  <1>6. Intervals(Windows[w])[End(w, k) + 1] = Burst(w, m)[1]
    BY <1>4, <1>5, BurstAt
  <1>7. End(w, k) + 1 \in 1 .. Len(e)
    BY <1>0, <1>2
  <1> QED BY <1>0, <1>5, <1>6, <1>7, DeltaRange

\* The bursts of what was acquired are the bursts of the window, the last one
\* up to where the buffer or the window ends.
LEMMA BurstsFound ==
    ASSUME NEW w \in DOMAIN Windows, NEW e, IsAcquired(w, e), Len(e) >= 1, NEW b \in Bursts(e)
    PROVE  \E k \in 1 .. BurstCount(w) :
              /\ b = [first |-> b.first, last |-> b.last]
              /\ b.first = End(w, k - 1) + 1 /\ b.first <= Len(e)
              /\ b.last = (IF End(w, k) < Len(e) THEN End(w, k) ELSE Len(e))
  <1> DEFINE starts == {1} \cup {i \in 2 .. Len(e) : e[i] >= SplitGap}
             Stops(i) == {j - 1 : j \in {n \in starts : n > i}} \cup {Len(e)}
             Last(i) == CHOOSE j \in Stops(i) : \A n \in Stops(i) : j <= n
  <1>0. Len(e) \in Nat
    <2>1. e \in Seq(Uint16)
      BY DEF IsAcquired
    <2> QED BY <2>1
  <1>1. PICK i \in starts : b = [first |-> i, last |-> Last(i)]
    BY DEF Bursts
  <1>2. /\ \A j : j \in starts <=> j = 1 \/ (j \in 2 .. Len(e) /\ e[j] >= SplitGap)
        /\ \A j \in starts : j \in 1 .. Len(e) /\ (j = 1 \/ e[j] >= SplitGap)
    BY <1>0
  <1> HIDE DEF starts
  <1>3. \A j : j \in Stops(i) <=> j = Len(e) \/ \E n \in starts : n > i /\ j = n - 1
    OBVIOUS
  <1>4. Last(i) = CHOOSE j \in Stops(i) : \A n \in Stops(i) : j <= n
    OBVIOUS
  <1> HIDE DEF Stops, Last
  <1>5. PICK k \in 1 .. BurstCount(w) : i = End(w, k - 1) + 1
    BY <1>1, <1>2, SplitsAreFirst
  <1>6. /\ BurstCount(w) \in Nat /\ k - 1 \in 0 .. BurstCount(w) /\ k \in 0 .. BurstCount(w)
        /\ End(w, k - 1) \in Nat /\ End(w, k) \in Nat /\ End(w, k - 1) + 1 <= End(w, k)
    <2>1. BurstCount(w) \in Nat /\ k - 1 \in 0 .. BurstCount(w) /\ k \in 0 .. BurstCount(w)
      BY BurstFacts
    <2> QED BY <2>1, BurstEnds
  <1>7. ASSUME NEW j \in starts, j > i
        PROVE  End(w, k) <= j - 1
    <2>1. PICK m \in 1 .. BurstCount(w) : j = End(w, m - 1) + 1
      BY <1>2, SplitsAreFirst
    <2>2. m - 1 \in 0 .. BurstCount(w) /\ End(w, m - 1) \in Nat
      <3>1. m - 1 \in 0 .. BurstCount(w)
        BY <1>6
      <3> QED BY <3>1, BurstEnds
    <2>3. CASE m - 1 <= k - 1
      <3>1. End(w, m - 1) <= End(w, k - 1)
        BY <1>6, <2>2, <2>3, EndsGrow
      <3> QED BY <1>5, <1>6, <1>7, <2>1, <2>2, <3>1
    <2>4. CASE k <= m - 1
      <3>1. End(w, k) <= End(w, m - 1)
        BY <1>6, <2>2, <2>4, EndsGrow
      <3> QED BY <1>6, <2>1, <2>2, <3>1
    <2> QED BY <1>6, <2>2, <2>3, <2>4
  <1> DEFINE l == IF End(w, k) < Len(e) THEN End(w, k) ELSE Len(e)
  <1>8. l \in Nat /\ l <= Len(e) /\ l <= End(w, k) /\ (End(w, k) < Len(e) => l = End(w, k))
        /\ (~(End(w, k) < Len(e)) => l = Len(e))
    BY <1>0, <1>6
  <1> HIDE DEF l
  <1>9. l \in Stops(i)
    <2>1. CASE End(w, k) < Len(e)
      <3>1. End(w, k) + 1 \in 1 .. Len(e) /\ e[End(w, k) + 1] >= SplitGap
        BY <2>1, NextBegins
      <3>2. End(w, k) + 1 \in 2 .. Len(e) /\ End(w, k) + 1 > i /\ End(w, k) = End(w, k) + 1 - 1
        BY <1>0, <1>5, <1>6, <3>1
      <3>3. End(w, k) + 1 \in starts
        BY <1>2, <3>1, <3>2
      <3> QED BY <1>3, <1>8, <2>1, <3>2, <3>3
    <2>2. CASE ~(End(w, k) < Len(e))
      BY <1>3, <1>8, <2>2
    <2> QED BY <2>1, <2>2
  <1>10. ASSUME NEW n \in Stops(i)
         PROVE  l <= n /\ n \in Int
    <2>1. CASE n = Len(e)
      BY <1>0, <1>8, <2>1
    <2>2. CASE \E j \in starts : j > i /\ n = j - 1
      <3>1. PICK j \in starts : j > i /\ n = j - 1
        BY <2>2
      <3>2. End(w, k) <= n /\ n \in Int
        BY <1>2, <1>7, <3>1
      <3> QED BY <1>6, <1>8, <3>2
    <2> QED BY <1>3, <2>1, <2>2
  <1>11. Last(i) \in Stops(i) /\ \A n \in Stops(i) : Last(i) <= n
    BY <1>4, <1>9, <1>10
  <1>12. Last(i) = l
    <2>1. l <= Last(i) /\ Last(i) \in Int
      BY <1>10, <1>11
    <2>2. Last(i) <= l
      BY <1>9, <1>11
    <2> QED BY <1>8, <2>1, <2>2
  <1>13. b.first = i /\ b.last = l /\ b = [first |-> b.first, last |-> b.last]
    BY <1>1, <1>12
  <1>14. i <= Len(e)
    BY <1>0, <1>2
  <1> QED BY <1>5, <1>13, <1>14 DEF l

-----------------------------------------------------------------------------
(* There is a best burst: scores are bounded, and ties go to the first. *)

LEMMA NumberRange ==
    ASSUME NEW e, NEW b, NEW times, b.first \in Int, b.last \in Int, b.first <= b.last
    PROVE  Number(e, b, times) \in Nat /\ Number(e, b, times) <= Count(b)
  <1> DEFINE S == b.first .. b.last
             T == {i \in S : e[i] \in times}
  <1>1. IsFiniteSet(S) /\ Cardinality(S) = b.last - b.first + 1
    BY FS_Interval
  <1>2. T \in SUBSET S
    OBVIOUS
  <1>3. Number(e, b, times) = Cardinality(T)
    BY DEF Number
  <1> HIDE DEF S, T
  <1>4. IsFiniteSet(T) /\ Cardinality(T) <= Cardinality(S)
    BY <1>1, <1>2, FS_Subset
  <1>5. Cardinality(T) \in Nat
    BY <1>4, FS_CardinalityType
  <1> QED BY <1>1, <1>3, <1>4, <1>5 DEF Count

TopScore == 6150

LEMMA ScoreRange ==
    ASSUME NEW e, NEW b, b.first \in Int, b.last \in Int, Count(b) \in MinBurst .. MaxBurst
    PROVE  BurstScore(e, b) \in Int /\ BurstScore(e, b) <= TopScore
  <1>1. PICK c \in Nat : c = Count(b) /\ c <= 420 /\ b.first <= b.last
    BY SMT DEF Count, MinBurst, MaxBurst
  <1>2. PICK n \in Nat : n = Number(e, b, ProtocolLike) /\ n <= c
    BY <1>1, NumberRange
  <1>3. PICK v \in Nat : v = Number(e, b, VeryShort)
    BY <1>1, NumberRange
  <1>4. PICK m \in Nat : m = Number(e, b, MidNoise)
    BY <1>1, NumberRange
  <1>5. PICK d \in Int : d = (IF OfACommand(e, b) THEN 150 ELSE 0) /\ d <= 150
    BY SMT
  <1>6. PICK l \in Int : l = (IF UsefulCount(b) THEN 120 ELSE 0) /\ l <= 120
    BY SMT
  <1>7. BurstScore(e, b) = 12 * n + 2 * c - 14 * v - 5 * m + d + l
    BY <1>1, <1>2, <1>3, <1>4, <1>5, <1>6, SMT DEF BurstScore
  <1>8. 12 * n + 2 * c - 14 * v - 5 * m + d + l \in Int
    BY SMT
  <1>9. 12 * n + 2 * c - 14 * v - 5 * m + d + l <= 6150
    BY <1>1, <1>2, <1>5, <1>6, SMT
  <1> QED BY <1>7, <1>8, <1>9, SMT DEF TopScore

LEMMA BestIsClean ==
    ASSUME NEW w \in DOMAIN Windows, NEW e, IsAcquired(w, e), Len(e) >= 1, Clean(e) # {}
    PROVE  BestBurst(e) \in Clean(e)
  <1>1. ASSUME NEW b \in Clean(e)
        PROVE  b \in Bursts(e) /\ b.first \in Nat /\ BurstScore(e, b) \in Int /\ BurstScore(e, b) <= TopScore
    <2>1. b \in Bursts(e) /\ Count(b) \in MinBurst .. MaxBurst
      BY DEF Clean
    <2>2. PICK k \in 1 .. BurstCount(w) :
              /\ b.first = End(w, k - 1) + 1
              /\ b.last = (IF End(w, k) < Len(e) THEN End(w, k) ELSE Len(e))
      BY <2>1, BurstsFound
    <2>3. End(w, k - 1) \in Nat /\ End(w, k) \in Nat /\ Len(e) \in Nat
      <3>1. BurstCount(w) \in Nat /\ k - 1 \in 0 .. BurstCount(w) /\ k \in 0 .. BurstCount(w)
        BY BurstFacts
      <3>2. Len(e) \in Nat
        <4>1. e \in Seq(Uint16)
          BY DEF IsAcquired
        <4> QED BY <4>1
      <3> QED BY <3>1, <3>2, BurstEnds
    <2>4. b.first \in Nat /\ b.last \in Nat
      BY <2>2, <2>3
    <2>5. BurstScore(e, b) \in Int /\ BurstScore(e, b) <= TopScore
      BY <2>1, <2>4, ScoreRange
    <2> QED BY <2>1, <2>4, <2>5
  <1> DEFINE scores == {BurstScore(e, b) : b \in Clean(e)}
  <1>2. PICK top \in scores : \A n \in scores : n <= top
    <2>1. scores \subseteq Int /\ scores # {} /\ \A n \in scores : n <= TopScore
      BY <1>1
    <2>2. TopScore \in Int
      BY SMT DEF TopScore
    <2> HIDE DEF scores
    <2> QED BY <2>1, <2>2, Greatest
  <1> DEFINE firsts == {b.first : b \in {c \in Clean(e) : BurstScore(e, c) = top}}
  <1>3. PICK f \in firsts : \A n \in firsts : f <= n
    <2>1. firsts \subseteq Nat /\ firsts # {}
      BY <1>1, <1>2
    <2> HIDE DEF firsts
    <2> QED BY <2>1, Least
  <1>4. PICK b \in Clean(e) : BurstScore(e, b) = top /\ b.first = f
    BY <1>3
  <1> DEFINE scored == {[b |-> c, score |-> BurstScore(e, c)] : c \in Clean(e)}
             IsBest(x) == \A y \in scored :
                             x.score > y.score \/ (x.score = y.score /\ x.b.first <= y.b.first)
             best == [b |-> b, score |-> top]
  <1>5. best \in scored
    BY <1>4
  <1>6. ASSUME NEW y \in scored
        PROVE  best.score > y.score \/ (best.score = y.score /\ best.b.first <= y.b.first)
    <2>1. PICK c \in Clean(e) : y = [b |-> c, score |-> BurstScore(e, c)]
      OBVIOUS
    <2>2. BurstScore(e, c) <= top /\ BurstScore(e, c) \in Int /\ top \in Int
      BY <1>1, <1>2
    <2>3. BurstScore(e, c) = top => f <= c.first
      BY <1>3
    <2> QED BY <1>4, <2>1, <2>2, <2>3
  <1>7. IsBest(best)
    BY <1>6
  <1>8. BestBurst(e) = (CHOOSE x \in scored : IsBest(x)).b
    BY DEF BestBurst
  <1>9. \A x \in scored : x.b \in Clean(e)
    OBVIOUS
  <1> HIDE DEF scored, IsBest, best
  <1>10. (CHOOSE x \in scored : IsBest(x)) \in scored
    BY <1>5, <1>7
  <1> QED BY <1>8, <1>9, <1>10

-----------------------------------------------------------------------------
(* What start_rf_recorder keeps. *)

LEMMA Part ==
    ASSUME NEW S, NEW e \in Seq(S), NEW i \in Nat, NEW j \in Nat, i >= 1, j <= Len(e), i <= j + 1
    PROVE  /\ SubSeq(e, i, j) \in Seq(S)
           /\ Len(SubSeq(e, i, j)) = j - i + 1
           /\ \A m \in 1 .. j - i + 1 : SubSeq(e, i, j)[m] = e[i + m - 1]
  OBVIOUS

LEMMA SameSequence ==
    ASSUME NEW S, NEW T, NEW s \in Seq(S), NEW t \in Seq(T), Len(s) = Len(t),
           \A i \in 1 .. Len(s) : s[i] = t[i]
    PROVE  s = t
  <1>1. s = [i \in 1 .. Len(s) |-> s[i]] /\ t = [i \in 1 .. Len(t) |-> t[i]]
    OBVIOUS
  <1> QED BY <1>1

\* Parts with the same intervals are the same.
LEMMA SamePart ==
    ASSUME NEW S, NEW e \in Seq(S), NEW T, NEW burst \in Seq(T),
           NEW p \in Nat, NEW n \in Nat, n >= 1, p + n <= Len(e), n <= Len(burst)
    PROVE  LET s == SubSeq(e, p + 2, p + n)
           IN  /\ s \in Seq(S) /\ Len(s) = n - 1
               /\ (\A i \in 2 .. n : e[p + i] = burst[i]) => s = SubSeq(burst, 2, n)
  <1>1. PICK l \in Nat : l = n - 1 /\ n = l + 1
    OBVIOUS
  <1>2. PICK i \in Nat, j \in Nat : i = p + 2 /\ j = p + n /\ i >= 1 /\ i <= j + 1 /\ j - i + 1 = l
    BY <1>1
  <1>3. PICK k \in Nat : k = 2 /\ k >= 1 /\ k <= n + 1 /\ n - k + 1 = l
    BY <1>1
  <1> DEFINE s == SubSeq(e, i, j)
             t == SubSeq(burst, k, n)
  <1>4. s \in Seq(S) /\ Len(s) = l /\ \A m \in 1 .. l : s[m] = e[i + m - 1]
    <2>1. j <= Len(e)
      BY <1>2
    <2>2. s \in Seq(S) /\ Len(s) = j - i + 1 /\ \A m \in 1 .. j - i + 1 : s[m] = e[i + m - 1]
      BY <1>2, <2>1, Part
    <2> HIDE DEF s
    <2> QED BY <1>2, <2>2, Zenon
  <1>5. t \in Seq(T) /\ Len(t) = l /\ \A m \in 1 .. l : t[m] = burst[k + m - 1]
    <2>1. t \in Seq(T) /\ Len(t) = n - k + 1 /\ \A m \in 1 .. n - k + 1 : t[m] = burst[k + m - 1]
      BY <1>3, Part
    <2> HIDE DEF t
    <2> QED BY <1>3, <2>1, Zenon
  <1>6. s = SubSeq(e, p + 2, p + n) /\ t = SubSeq(burst, 2, n)
    BY <1>2, <1>3
  <1> HIDE DEF s, t
  <1>7. ASSUME \A x \in 2 .. n : e[p + x] = burst[x]
        PROVE  s = t
    <2>1. ASSUME NEW m \in 1 .. l
          PROVE  s[m] = t[m]
      <3>1. m + 1 \in 2 .. n /\ i + m - 1 = p + (m + 1) /\ k + m - 1 = m + 1
        BY <1>1, <1>2, <1>3
      <3>2. s[m] = e[p + (m + 1)]
        BY <1>4, <3>1
      <3>3. t[m] = burst[m + 1]
        BY <1>5, <3>1
      <3>4. e[p + (m + 1)] = burst[m + 1]
        BY <1>7, <3>1, Zenon
      <3> QED BY <3>2, <3>3, <3>4, Zenon
    <2> QED BY <1>4, <1>5, <2>1, SameSequence
  <1> QED BY <1>1, <1>4, <1>6, <1>7

\* The conclusion of RecordingWasHeard, of buffer c, for burst k of window w of
\* which n edges were heard.
IsBurst(c, w, n, k) ==
    /\ Len(c.edges) <= Len(Burst(w, k))
    /\ Tail(c.edges) = SubSeq(Burst(w, k), 2, Len(c.edges))
    /\ Len(c.edges) < Len(Burst(w, k)) => ~(End(w, k) <= n)
    /\ c.level = LevelOf(Windows[w], k)

LEMMA CompactedIsBurst ==
    ASSUME NEW w \in DOMAIN Windows, NEW a \in Buffers, IsAcquired(w, a.edges),
           a.level = Windows[w].level, Len(a.edges) >= RxMinEdges, Clean(a.edges) # {},
           NEW c, c = Compacted(a, BestBurst(a.edges))
    PROVE  /\ c \in Buffers /\ c.valid
           /\ Len(c.edges) >= RxMinEdges /\ Len(c.edges) <= SrxMaxEdges
           /\ \E k \in 1 .. BurstCount(w) : IsBurst(c, w, Len(a.edges), k)
  <1>1. PICK e : e = a.edges /\ e \in Seq(Uint16) /\ Len(e) \in Nat /\ Len(e) >= 1
    <2>1. a.edges \in Seq(Uint16)
      BY DEF Buffers
    <2> QED BY <2>1, SMT DEF RxMinEdges
  <1>2. PICK b \in Clean(e) : b = BestBurst(e)
    BY <1>1, BestIsClean
  <1>3. b \in Bursts(e) /\ Count(b) \in MinBurst .. MaxBurst
    BY DEF Clean
  <1>4. PICK k \in 1 .. BurstCount(w) :
              /\ b.first = End(w, k - 1) + 1 /\ b.first <= Len(e)
              /\ b.last = (IF End(w, k) < Len(e) THEN End(w, k) ELSE Len(e))
    BY <1>1, <1>3, BurstsFound
  <1>5. /\ End(w, k - 1) \in Nat /\ End(w, k) \in Nat /\ Len(Burst(w, k)) \in Nat
        /\ End(w, k) = End(w, k - 1) + Len(Burst(w, k))
        /\ Burst(w, k) \in Seq(Nat)
    <2>1. BurstCount(w) \in Nat /\ k - 1 \in 0 .. BurstCount(w) /\ k \in 0 .. BurstCount(w)
      BY BurstFacts
    <2> QED BY <2>1, BurstEnds, BurstFacts
  <1>6. PICK p \in Nat : p = End(w, k - 1) /\ b.first = p + 1
    BY <1>4, <1>5
  <1>7. PICK q \in Nat : q = b.last /\ q <= Len(e) /\ q <= End(w, k)
                         /\ (q < End(w, k) => q = Len(e))
    <2>1. PICK x \in Nat, y \in Nat : x = End(w, k) /\ y = Len(e)
      BY <1>1, <1>5, Zenon
    <2>2. b.last = IF x < y THEN x ELSE y
      BY <1>4, <2>1, Zenon
    <2>3. b.last \in Nat /\ b.last <= y /\ b.last <= x /\ (b.last < x => b.last = y)
      BY <2>2
    <2> QED BY <2>1, <2>3
  <1>8. PICK n \in Nat : q = p + n /\ n >= 40 /\ n <= 420
    <2>1. PICK c0 \in Nat : c0 = Count(b) /\ c0 >= 40 /\ c0 <= 420
      <3>1. PICK lo \in Nat, hi \in Nat :
               lo = MinBurst /\ hi = MaxBurst /\ lo >= 40 /\ hi <= 420
        BY SMT DEF MinBurst, MaxBurst
      <3>2. Count(b) \in lo .. hi
        BY <1>3, <3>1, Zenon
      <3> QED BY <3>1, <3>2, SMT
    <2>2. c0 = q - (p + 1) + 1
      BY <1>6, <1>7, <2>1 DEF Count
    <2>3. q = p + c0
      BY <2>2
    <2> QED BY <2>1, <2>3, SMT
  <1>9. n <= Len(Burst(w, k)) /\ (n < Len(Burst(w, k)) => q < End(w, k))
    <2>1. PICK l \in Nat : l = Len(Burst(w, k)) /\ End(w, k) = p + l
      BY <1>5, <1>6
    <2>2. p + n <= p + l /\ (n < l => p + n < p + l)
      BY <1>7, <1>8, <2>1
    <2>3. n <= l
      BY <2>2
    <2> QED BY <1>8, <2>1, <2>2, <2>3
  <1>10. ASSUME NEW y \in 2 .. n
         PROVE  e[p + y] = Burst(w, k)[y]
    <2>1. y \in 1 .. Len(Burst(w, k)) /\ y \in 2 .. Len(Burst(w, k))
      <3>1. PICK l \in Nat : l = Len(Burst(w, k)) /\ n <= l
        BY <1>5, <1>9, Zenon
      <3>2. y \in 1 .. l /\ y \in 2 .. l
        BY <3>1
      <3> QED BY <3>1, <3>2, Zenon
    <2>2. p + y \in 1 .. Len(e)
      <3>1. p + y <= q /\ p + y \in Nat /\ p + y >= 1
        BY <1>8
      <3> QED BY <1>1, <1>7, <3>1
    <2>3. Intervals(Windows[w])[p + y] = Burst(w, k)[y]
      BY <1>6, <2>1, BurstAt
    <2>4. e[p + y] = Delta(Burst(w, k)[y])
      BY <1>1, <2>2, <2>3 DEF IsAcquired
    <2>5. Burst(w, k)[y] < SplitGap /\ Burst(w, k)[y] \in Nat
      BY <1>5, <2>1, BurstFacts
    <2> QED BY <2>4, <2>5, DeltaRange
  <1> DEFINE s == SubSeq(e, p + 2, p + n)
  <1>11. s = SubSeq(Burst(w, k), 2, n) /\ s \in Seq(Uint16) /\ Len(s) = n - 1
    <2>1. n >= 1 /\ p + n <= Len(e) /\ n <= Len(Burst(w, k))
      BY <1>7, <1>8, <1>9
    <2> QED BY <1>1, <1>5, <1>10, <2>1, SamePart
  <1>14. /\ c = [edges |-> <<250>> \o s, level |-> LevelBefore(a, b), valid |-> TRUE]
    <2>1. b.first + 1 = p + 2
      BY <1>6
    <2>2. c = Compacted(a, b)
      BY <1>1, <1>2
    <2>3. SubSeq(a.edges, b.first + 1, b.last) = s
      BY <1>1, <1>7, <1>8, <2>1
    <2> HIDE DEF s
    <2> QED BY <2>2, <2>3 DEF Compacted
  <1> HIDE DEF s
  <1>15. 250 \in Uint16
    BY SMT DEF Uint16, MaxUint16
  <1>16. PICK x \in Uint16 : x = 250
    BY <1>15
  <1>17. <<x>> \o s \in Seq(Uint16) /\ Len(<<x>> \o s) = n /\ Tail(<<x>> \o s) = s
    BY <1>8, <1>11
  <1>18. /\ c.edges \in Seq(Uint16) /\ Len(c.edges) = n /\ Tail(c.edges) = s
         /\ c.level = LevelBefore(a, b) /\ c.valid
    BY <1>14, <1>16, <1>17
  <1>19. c \in Buffers
    BY <1>14, <1>18 DEF Buffers, LevelBefore
  <1>20. LevelBefore(a, b) = LevelOf(Windows[w], k)
    <2>1. (b.first % 2 = 0) = (p % 2 = 1)
      BY <1>6
    <2>2. a.level \in BOOLEAN
      BY DEF Buffers
    <2> QED BY <1>6, <2>1, <2>2 DEF LevelBefore, LevelOf, End
  <1>21. IsBurst(c, w, Len(e), k)
    <2>1. Len(c.edges) < Len(Burst(w, k)) => ~(End(w, k) <= Len(e))
      BY <1>1, <1>5, <1>7, <1>9, <1>18
    <2>2. Tail(c.edges) = SubSeq(Burst(w, k), 2, Len(c.edges))
      BY <1>11, <1>18
    <2> QED BY <1>9, <1>18, <1>20, <2>1, <2>2 DEF IsBurst
  <1>22. n >= RxMinEdges /\ n <= SrxMaxEdges
    BY <1>8, SMT DEF RxMinEdges, SrxMaxEdges
  <1> QED BY <1>1, <1>18, <1>19, <1>21, <1>22

-----------------------------------------------------------------------------
(* The inductive invariant: without an SRX882 nothing was ever heard, so the  *)
(* search that start_rf_recorder then makes finds an empty buffer.            *)

IInv ==
    /\ TypeOK
    /\ RecordingWasHeard
    /\ "srx882" \notin wired => buffer = Cleared /\ heard = Nothing

LEMMA ClearedType ==
    Cleared \in Buffers /\ Len(Cleared.edges) = 0 /\ ~Cleared.valid
  <1>1. <<>> \in Seq(Uint16) /\ Len(<<>>) = 0
    OBVIOUS
  <1> QED BY <1>1 DEF Cleared, Buffers

\* What an SRX882 is heard to do, if the buffer can be replayed.
WasHeard(c, h) ==
    c.valid /\ h # Nothing =>
        \E k \in 1 .. BurstCount(h.window) : IsBurst(c, h.window, h.edges, k)

LEMMA WasHeardIsEnough ==
    ASSUME heard = Nothing \/ heard.window \in DOMAIN Windows
    PROVE  RecordingWasHeard <=> WasHeard(buffer, heard)
  <1>1. CASE heard = Nothing
    BY <1>1 DEF RecordingWasHeard, WasHeard
  <1>2. CASE heard # Nothing
    <2>1. DOMAIN Windows[heard.window].bursts = 1 .. BurstCount(heard.window)
      BY <1>2, WindowFacts DEF BurstCount
    <2> QED BY <1>2, <2>1 DEF RecordingWasHeard, WasHeard, IsBurst, HeardWhole, Burst, End
  <1> QED BY <1>1, <1>2

\* The invariant of the buffer, of what was heard and of the modules.
BufferInv(c, h, modules) ==
    /\ c \in Buffers
    /\ Len(c.edges) <= SrxMaxEdges
    /\ c.valid => Len(c.edges) >= RxMinEdges
    /\ h = Nothing \/ h.window \in DOMAIN Windows
    /\ WasHeard(c, h)
    /\ "srx882" \notin modules => c = Cleared /\ h = Nothing

\* ... and of the rest.
Statuses == {"Ready", "No valid burst found", "No clean burst found", "Recorded",
             "Replay blocked", "Replay OK", "Replay failed"}

RestInv ==
    /\ wired \subseteq {"stx882", "srx882"}
    /\ status \in Statuses
    /\ template \in BOOLEAN
    /\ analyzed = Nothing \/ (template /\ analyzed.low24 \in SourceLow24s)
    /\ sent = Nothing \/ sent.repeats \in 1 .. 8

LEMMA IInvParts == IInv <=> BufferInv(buffer, heard, wired) /\ RestInv
  BY WasHeardIsEnough DEF IInv, TypeOK, BufferInv, RestInv, Statuses, Buffers

\* What the search leaves of what an SRX882 put out is of a burst of the window.
LEMMA ExtractKeeps ==
    ASSUME NEW w \in DOMAIN Windows, NEW d \in Nat, "srx882" \in wired,
           NEW a, a = Acquired(Windows[w], d), Extract(a),
           heard' = [window |-> w, edges |-> Len(a.edges)]
    PROVE  BufferInv(buffer', heard', wired) /\ status' \in Statuses
  <1>1. /\ a \in Buffers /\ IsAcquired(w, a.edges)
        /\ a.level = Windows[w].level /\ (a.valid <=> Len(a.edges) >= RxMinEdges)
    BY AcquiredFacts
  <1>2. Len(a.edges) <= SrxMaxEdges
    BY <1>1 DEF IsAcquired
  <1>3. heard'.window = w /\ heard'.edges = Len(a.edges)
    OBVIOUS
  <1>4. ASSUME NEW why \in Statuses, NotRecorded(a, why)
        PROVE  BufferInv(buffer', heard', wired) /\ status' \in Statuses
    <2>1. buffer' \in Buffers /\ buffer'.edges = a.edges /\ ~buffer'.valid
      BY <1>1, <1>4 DEF NotRecorded, Buffers
    <2> QED BY <1>2, <1>3, <1>4, <2>1 DEF BufferInv, WasHeard, NotRecorded
  <1>5. CASE Len(a.edges) < RxMinEdges /\ NotRecorded(a, "No valid burst found")
    BY <1>4, <1>5 DEF Statuses
  <1>6. CASE /\ Len(a.edges) >= RxMinEdges /\ Clean(a.edges) = {}
             /\ NotRecorded(a, "No clean burst found")
    BY <1>4, <1>6 DEF Statuses
  <1>7. CASE /\ Len(a.edges) >= RxMinEdges /\ Clean(a.edges) # {}
             /\ buffer' = Compacted(a, BestBurst(a.edges))
             /\ status' = "Recorded"
    <2>1. /\ buffer' \in Buffers /\ buffer'.valid
          /\ Len(buffer'.edges) >= RxMinEdges /\ Len(buffer'.edges) <= SrxMaxEdges
          /\ \E k \in 1 .. BurstCount(w) : IsBurst(buffer', w, Len(a.edges), k)
      BY <1>1, <1>7, CompactedIsBurst
    <2> QED BY <1>3, <1>7, <2>1 DEF BufferInv, WasHeard, Statuses
  <1> QED BY <1>5, <1>6, <1>7 DEF Extract

-----------------------------------------------------------------------------
(* One step of each kind. *)

LEMMA RepeatsRange ==
    ASSUME NEW n \in Nat
    PROVE  Clamped(n, 1, 8) \in 1 .. 8
  BY DEF Clamped

LEMMA DurationType ==
    ASSUME NEW d \in Durations
    PROVE  d \in Nat /\ Clamped(d, 500, 10000) \in Nat
  <1>1. d \in Uint16
    BY CallsAssumption
  <1>2. d \in Nat
    BY <1>1 DEF Uint16
  <1> QED BY <1>2, SMT DEF Clamped

\* Calls that leave the buffer alone.
LEMMA SendKeeps ==
    ASSUME IInv, NEW r \in ReplayCounts, Send(r)
    PROVE  /\ analyzed' = Nothing
           /\ sent' = Nothing \/ sent'.repeats \in 1 .. 8
  <1>0. r \in 0 .. 255
    BY CallsAssumption
  <1>1. r \in Nat
    BY <1>0, SMT
  <1>2. Clamped(r, 1, 8) \in 1 .. 8
    BY <1>1, RepeatsRange
  <1> QED BY <1>2 DEF Send

LEMMA AnalyzeKeeps ==
    ASSUME IInv, Analyze
    PROVE  /\ template' \in BOOLEAN
           /\ analyzed' = Nothing \/ (template' /\ analyzed'.low24 \in SourceLow24s)
  <1>1. PICK low24 \in SourceLow24s :
          LET f == FrameOf(RemoteId, low24)
          IN  \/ \E a \in BestAlignment(buffer.edges, f) :
                    /\ template' = Credible(buffer.edges, f, a)
                    /\ analyzed' = IF template' THEN Timing(buffer.edges, f, a) ELSE Nothing
              \/ template' = FALSE /\ analyzed' = Nothing
    BY Zenon DEF Analyze
  <1> DEFINE f == FrameOf(RemoteId, low24)
  <1>2. f.low24 = low24
    BY DEF FrameOf
  <1> HIDE DEF f
  <1>3. \A a : Credible(buffer.edges, f, a) \in BOOLEAN
    BY DEF Credible
  <1>4. \A a : Timing(buffer.edges, f, a).low24 = low24
    BY <1>2 DEF Timing
  <1> QED BY <1>1, <1>3, <1>4 DEF f

LEMMA Initially == Init => IInv
  <1> SUFFICES ASSUME Init
               PROVE  IInv
    OBVIOUS
  <1>1. BufferInv(buffer, heard, wired)
    BY ClearedType DEF Init, BufferInv, WasHeard, SrxMaxEdges
  <1>2. RestInv
    BY DEF Init, RestInv, Statuses
  <1> QED BY <1>1, <1>2, IInvParts

LEMMA StepKeeps ==
    ASSUME IInv, [Next]_vars
    PROVE  BufferInv(buffer', heard', wired') /\ RestInv'
  <1>0. BufferInv(buffer, heard, wired) /\ RestInv
    BY IInvParts
  <1>1. CASE CaptureRaw
    <2>1. wired' = wired /\ status' = status /\ template' = template /\ sent' = Nothing /\ analyzed' = Nothing
      BY <1>1 DEF CaptureRaw
    <2>2. CASE "srx882" \in wired
      <3>1. PICK w \in RawWindows, d \in Durations : buffer' = Acquired(Windows[w], d) /\ heard' = Nothing
        BY <1>1, <2>2 DEF CaptureRaw
      <3>2. w \in DOMAIN Windows /\ d \in Nat
        BY CallsAssumption, DurationType
      <3>3. /\ buffer' \in Buffers /\ IsAcquired(w, buffer'.edges)
            /\ buffer'.valid <=> Len(buffer'.edges) >= RxMinEdges
        BY <3>1, <3>2, AcquiredFacts
      <3>4. BufferInv(buffer', heard', wired')
        BY <2>1, <2>2, <3>1, <3>3 DEF BufferInv, WasHeard, IsAcquired
      <3> QED BY <1>0, <2>1, <3>4 DEF RestInv
    <2>3. CASE "srx882" \notin wired
      <3>1. buffer' = buffer /\ heard' = heard
        BY <1>1, <2>3 DEF CaptureRaw
      <3> QED BY <1>0, <2>1, <3>1 DEF RestInv
    <2> QED BY <2>2, <2>3
  <1>2. CASE StartRecorder
    <2>1. wired' = wired /\ template' = template /\ sent' = Nothing /\ analyzed' = Nothing
      BY <1>2 DEF StartRecorder
    <2>2. CASE "srx882" \in wired
      <3>1. PICK w \in DOMAIN Windows, d \in Durations :
               LET acquired == Acquired(Windows[w], Clamped(d, 500, 10000))
               IN  /\ Extract(acquired)
                   /\ heard' = [window |-> w, edges |-> Len(acquired.edges)]
        BY <1>2, <2>2 DEF StartRecorder
      <3>2. Clamped(d, 500, 10000) \in Nat
        BY DurationType
      <3>3. PICK t \in Nat : t = Clamped(d, 500, 10000)
        BY <3>2
      <3>4. BufferInv(buffer', heard', wired) /\ status' \in Statuses
        BY <2>2, <3>1, <3>3, ExtractKeeps
      <3> QED BY <1>0, <2>1, <3>4 DEF RestInv
    <2>3. CASE "srx882" \notin wired
      <3>1. Extract(Cleared) /\ heard' = heard /\ heard = Nothing /\ buffer = Cleared
        BY <1>0, <1>2, <2>3 DEF StartRecorder, BufferInv
      <3>2. Len(Cleared.edges) < RxMinEdges
        BY ClearedType DEF RxMinEdges
      <3>3. buffer' = [Cleared EXCEPT !.valid = FALSE] /\ status' = "No valid burst found"
        <4>1. ~(Len(Cleared.edges) >= RxMinEdges)
          BY ClearedType DEF RxMinEdges
        <4> QED BY <3>1, <4>1, Zenon DEF Extract, NotRecorded
      <3>4. buffer' = Cleared
        BY <3>3 DEF Cleared
      <3> QED BY <1>0, <2>1, <3>1, <3>3, <3>4 DEF RestInv, Statuses
    <2> QED BY <2>2, <2>3
  <1>3. ASSUME NEW newStatus \in Statuses, Clear(newStatus)
        PROVE  BufferInv(buffer', heard', wired') /\ RestInv'
    <2>1. BufferInv(buffer', heard', wired')
      BY <1>3, ClearedType DEF Clear, BufferInv, WasHeard, SrxMaxEdges
    <2>2. RestInv'
      BY <1>0, <1>3 DEF Clear, RestInv
    <2> QED BY <2>1, <2>2
  <1>4. CASE ClearCapture
    BY <1>0, <1>3, <1>4 DEF ClearCapture, RestInv
  <1>5. CASE ClearRecording
    BY <1>3, <1>5 DEF ClearRecording, Statuses
  <1>6. CASE ReplayCapture
    BY <1>0, <1>6, SendKeeps DEF ReplayCapture, RestInv
  <1>7. CASE ReplayRecording
    BY <1>0, <1>7, SendKeeps DEF ReplayRecording, RestInv, Statuses
  <1>8. CASE Analyze
    <2>1. /\ sent' = Nothing /\ wired' = wired /\ buffer' = buffer /\ status' = status /\ heard' = heard
      BY <1>8 DEF Analyze
    <2> QED BY <1>0, <1>8, <2>1, AnalyzeKeeps DEF RestInv
  <1>9. CASE UNCHANGED vars
    BY <1>0, <1>9 DEF vars, RestInv
  <1> QED BY <1>1, <1>2, <1>4, <1>5, <1>6, <1>7, <1>8, <1>9 DEF Next

-----------------------------------------------------------------------------
(* Theorems. *)

\* IInv holds in every reachable state, whatever windows are heard.
THEOREM Inductive == Spec => []IInv
  <1>1. Init => IInv
    BY Initially
  <1>2. (IInvParts)'
    BY IInvParts, PTL
  <1>3. IInv /\ [Next]_vars => IInv'
    BY StepKeeps, <1>2
  <1> QED BY <1>1, <1>3, PTL DEF Spec

\* The buffer holds 16-bit deltas and never more than SRX882_MAX_EDGES of them;
\* what can be replayed has at least RX_MIN_EDGES; replays send 1 to 8 times.
THEOREM TypeCorrect == Spec => []TypeOK
  <1>1. IInv => TypeOK
    BY DEF IInv
  <1> QED BY <1>1, Inductive, PTL

\* Whatever the SRX882 puts out and wherever the buffer or the window cuts it
\* off, what start_rf_recorder keeps for replay is one of the bursts it heard.
THEOREM RecordingAlwaysHeard == Spec => []RecordingWasHeard
  <1>1. IInv => RecordingWasHeard
    BY DEF IInv
  <1> QED BY <1>1, Inductive, PTL
=============================================================================
