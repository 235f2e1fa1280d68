-------------------------- MODULE TemplateAnalyzer --------------------------
(***************************************************************************)
(* analyze_rf_recording_outprize: where in a recording the 35 bits of a    *)
(* known frame are, in which order and polarity, and how long its pulses   *)
(* and gaps are.  Constant definitions.                                    *)
(***************************************************************************)
EXTENDS Waveform, FiniteSets

\* TxFrameMode, in the order the analyzer tries them.
Modes == <<[lsb |-> FALSE, inverted |-> FALSE], [lsb |-> TRUE, inverted |-> FALSE],
           [lsb |-> FALSE, inverted |-> TRUE],  [lsb |-> TRUE, inverted |-> TRUE]>>

\* Fault: bit 0 is the first in the MSB modes.
OnesReversed(f, mode) ==
    LET ones == IF mode.lsb THEN Ones(f) ELSE {FrameBits + 1 - i : i \in Ones(f)}
    IN  IF mode.inverted THEN (1 .. FrameBits) \ ones ELSE ones

\* The bits of which outprize_template_bit_ says 1.
OnesIn(f, mode) ==
    LET ones == IF mode.lsb THEN {FrameBits + 1 - i : i \in Ones(f)} ELSE Ones(f)
    IN  IF mode.inverted THEN (1 .. FrameBits) \ ones ELSE ones

\* The pulse of bit i when the data begins after a number of edges; its gap
\* follows.
PulseAt(start, i) == start + 2 * i - 1

FittingPulses(e, start) ==
    {i \in 1 .. FrameBits : e[PulseAt(start, i)] \in 350 .. 750}

FittingGaps(e, start, ones) ==
    {i \in 1 .. FrameBits :
        e[PulseAt(start, i) + 1] \in (IF i \in ones THEN 1050 .. 1900 ELSE 300 .. 800)}

\* An edge on either side of the data counts for an alignment.
AlignmentScore(pulses, gaps, start, count) ==
    12 * pulses - 20 * (FrameBits - pulses) + 18 * gaps - 28 * (FrameBits - gaps)
        + (IF start >= 2 THEN 20 ELSE 0) + (IF start + DataEdges < count THEN 10 ELSE 0)

\* The best alignment, the first of several; the set has one member.
BestAlignment(e, f) ==
    LET modes  == {[mode |-> m, ones |-> OnesIn(f, Modes[m])] : m \in DOMAIN Modes}
        starts == {[start |-> k, pulses |-> Cardinality(FittingPulses(e, k))] :
                      k \in 0 .. (Len(e) - DataEdges)}
        Gaps(s, m) == Cardinality(FittingGaps(e, s.start, m.ones))
        scored == {[start |-> s.start, mode |-> m.mode,
                    score |-> AlignmentScore(s.pulses, Gaps(s, m), s.start, Len(e))] :
                      s \in starts, m \in modes}
        top    == CHOOSE n \in {a.score : a \in scored} : \A a \in scored : a.score <= n
        tops   == {a \in scored : a.score = top}
    IN  {a \in tops : \A b \in tops :
            a.start < b.start \/ (a.start = b.start /\ a.mode <= b.mode)}

\* Integer mean of the intervals of some bits.
MeanOf(us, bits) ==
    LET sum[i \in 0 .. FrameBits] ==
            IF i = 0 THEN 0 ELSE sum[i - 1] + (IF i \in bits THEN us[i] ELSE 0)
    IN  sum[FrameBits] \div Cardinality(bits)

\* What an alignment says of the timing.
Timing(e, f, a) ==
    LET ones == OnesIn(f, Modes[a.mode])
        fits == FittingGaps(e, a.start, ones)
        gap  == [i \in 1 .. FrameBits |-> e[PulseAt(a.start, i) + 1]]
    IN  [low24 |-> f.low24, start |-> a.start, mode |-> Modes[a.mode],
         pulse |-> MeanOf([i \in 1 .. FrameBits |-> e[PulseAt(a.start, i)]],
                          FittingPulses(e, a.start)),
         short |-> MeanOf(gap, fits \ ones), long |-> MeanOf(gap, fits \cap ones)]

Credible(e, f, a) ==
    LET ones == OnesIn(f, Modes[a.mode])
        fits == FittingGaps(e, a.start, ones)
    IN  /\ a.score >= 700 /\ Cardinality(FittingPulses(e, a.start)) >= 28
        /\ fits \ ones # {} /\ fits \cap ones # {}
=============================================================================
