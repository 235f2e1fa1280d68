--------------------------- MODULE OutprizeDecoder ---------------------------
(***************************************************************************)
(* What rx_capture_window_ records of the changes of GDO0, and how         *)
(* rx_log_outprize_decode_ looks for a frame in it.  Constant definitions. *)
(***************************************************************************)
EXTENDS Waveform, FiniteSets

\* Fault: the window of one frame.
ShortWindow == 100000

CaptureWindow == 140000   \* RX_CAPTURE_WINDOW_US
MaxEdges == 360           \* RX_MAX_EDGES

\* Fault: recording goes on.
RecordedAll(n) == n

\* Later edges are only counted, in rx_overruns_.
Recorded(n) == IF n < MaxEdges THEN n ELSE MaxEdges

\* The edges of a capture that begins with the first interval.
Captured(intervals) ==
    [k \in 1 .. Recorded(EndedWithin(intervals, CaptureWindow)) |-> Delta(intervals[k])]

-----------------------------------------------------------------------------
(* rx_outprize_decode_from_index_: pulse, gap, pulse, gap until one is none. *)

Within(us, low, high) == low <= us /\ us <= high

IsPulse(us) == Within(us, 300, 850)
IsZero(us)  == Within(us, 350, 850)
IsOne(us)   == Within(us, 1150, 1800)

\* The indexes at which no symbol begins; a run of symbols ends at the first one.
Ends(e) ==
    {i \in 1 .. Len(e) + 1 :
        ~(i < Len(e) /\ IsPulse(e[i]) /\ (IsZero(e[i + 1]) \/ IsOne(e[i + 1])))}

MinBits == 24
MaxBits == 40

\* Bit j of the run of symbols that starts at index i.
BitAt(e, i, j) == IF IsOne(e[i + 2 * j - 1]) THEN 1 ELSE 0

\* Bits from .. to of the run, the first one the most significant.
BitsValue(e, i, from, to) ==
    LET value[j \in (from - 1) .. to] ==
            IF j < from THEN 0 ELSE 2 * value[j - 1] + BitAt(e, i, j)
    IN  value[to]

ScanStarts(e) == {i \in 1 .. Len(e) - 1 : IsPulse(e[i])}

Candidates(e) ==
    LET ends == Ends(e)
        RunEnd(i) == CHOOSE t \in ends :
                        /\ t >= i /\ (t - i) % 2 = 0
                        /\ \A u \in ends : u >= i /\ (u - i) % 2 = 0 => t <= u
    IN  {c \in {[start |-> i, bits |-> (RunEnd(i) - i) \div 2] : i \in ScanStarts(e)} :
            c.bits \in MinBits .. MaxBits}

\* The last 24 bits.
Low24(e, c) == BitsValue(e, c.start, c.bits - 23, c.bits)

\* The first 11 bits, when there are 35.
Remote(e, c) == BitsValue(e, c.start, 1, PrefixBits)

\* rx_score_outprize_candidate_.  Fault: the longest candidate wins.
LengthScore(e, c) == c.bits

Bonus(low24) ==
    (IF low24 \div 65536 \in {64, 96} THEN 1000 ELSE 0)
        + (IF low24 % 16 \in VentCommands THEN 100 ELSE 0)
        + (IF (low24 \div 16) % 16 <= 7 THEN 20 ELSE 0)

Score(e, c) == c.bits + Bonus(Low24(e, c))

\* The scan keeps the first of the best.
Best(e) ==
    LET scored == {[c |-> c, score |-> Score(e, c)] : c \in Candidates(e)}
    IN  (CHOOSE x \in scored : \A y \in scored :
            \/ x.score > y.score
            \/ /\ x.score = y.score
               /\ x.c.bits > y.c.bits \/ (x.c.bits = y.c.bits /\ x.c.start <= y.c.start)).c

\* Every outcome but a decoded one has no fields.
Undecoded(kind) == [kind |-> kind, bits |-> 0, remote |-> 0, low24 |-> 0]

\* rx_finish_capture_ and rx_log_outprize_decode_ before the scan.
RxMinEdges == 40
OutprizeMinEdges == 60
Outprizeish(e) ==
    /\ Len(e) >= OutprizeMinEdges
    /\ Cardinality({i \in DOMAIN e : Within(e[i], 350, 750)}) >= 18
    /\ Cardinality({i \in DOMAIN e : IsOne(e[i])}) >= 4

\* Fault: a clipped decode is reported and learned as well.
AnyDecode(c) == TRUE

\* bit_count >= OUTPRIZE_TX_BITS: reported and learned from.
IsComplete(c) == c.bits >= FrameBits

Decoded(e) ==
    CASE Len(e) < RxMinEdges -> Undecoded("discarded")
      [] Len(e) >= RxMinEdges /\ (~Outprizeish(e) \/ Candidates(e) = {}) -> Undecoded("unknown")
      [] OTHER ->
            LET best == Best(e)
            IN  [kind |-> IF IsComplete(best) THEN "complete" ELSE "clipped",
                 bits |-> best.bits, low24 |-> Low24(e, best),
                 remote |-> IF best.bits >= FrameBits THEN Remote(e, best) ELSE 0]
=============================================================================
