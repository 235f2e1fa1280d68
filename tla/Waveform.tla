------------------------------ MODULE Waveform ------------------------------
(***************************************************************************)
(* The 35-bit Outprize frame on the air.  A wave is a sequence of          *)
(* durations in microseconds between changes of the carrier, the first one *)
(* with the carrier on; it ends in Silence.  Two writes of the same level  *)
(* are one interval, because a receiver sees only the changes.             *)
(***************************************************************************)
EXTENDS OutprizeCodec, Integers

FrameBits  == 35
PrefixBits == 11
DataEdges  == 2 * FrameBits

RemoteIds == 0 .. 2047   \* & 0x7FF

\* An 11-bit prefix and a Low24 word.
FrameOf(remote, low24) == [remote |-> remote, low24 |-> low24]

\* n shifted to the right.
Shifted(n) ==
    LET shifted[k \in Nat] == IF k = 0 THEN n ELSE shifted[k - 1] \div 2
    IN  shifted

\* outprize_template_bit_, MSB first: the prefix, then the Low24 word.
FrameBit(f, i) ==
    IF i <= PrefixBits THEN Shifted(f.remote)[PrefixBits - i] % 2
                       ELSE Shifted(f.low24)[FrameBits - i] % 2

Ones(f) == {i \in 1 .. FrameBits : FrameBit(f, i) = 1}

\* A pulse and a gap per bit; the gap tells the bit.
Data(f, pulse, short, long) ==
    [k \in 1 .. DataEdges |->
        IF k % 2 = 1 THEN pulse ELSE IF FrameBit(f, k \div 2) = 1 THEN long ELSE short]

Repeated(period, repeats) ==
    [k \in 1 .. (Len(period) * repeats) |-> period[((k - 1) % Len(period)) + 1]]

\* The last interval lasts until the next transmission.
Silence == 1000000
EndingInSilence(wave) == [wave EXCEPT ![Len(wave)] = Silence]

Clamped(n, low, high) == IF n < low THEN low ELSE IF n > high THEN high ELSE n

\* A receiver keeps intervals in 16 bits.
MaxUint16 == 65535
Uint16 == 0 .. MaxUint16
Delta(us) == Clamped(us, 0, MaxUint16)

\* The time each range <<i, j>> of intervals lasts; ranges are taken in halves,
\* which keeps TLC's evaluation shallow.
Half(i, j) == (i + j) \div 2

Sums(intervals) ==
    LET sum[r \in (DOMAIN intervals) \X (DOMAIN intervals)] ==
            LET m == Half(r[1], r[2])
            IN  IF r[1] > r[2] THEN 0
                ELSE IF r[1] = r[2] THEN intervals[r[1]]
                ELSE sum[<<r[1], m>>] + sum[<<m + 1, r[2]>>]
    IN  sum

\* The number of intervals of each range that end within each time.
Ended(intervals) ==
    LET sum == Sums(intervals)
        ended[r \in (DOMAIN intervals) \X (DOMAIN intervals) \X Nat] ==
            LET m == Half(r[1], r[2])
                first == sum[<<r[1], m>>]
            IN  IF r[1] > r[2] THEN 0
                ELSE IF r[1] = r[2] THEN IF intervals[r[1]] < r[3] THEN 1 ELSE 0
                ELSE IF first < r[3]
                     THEN m - r[1] + 1 + ended[<<m + 1, r[2], r[3] - first>>]
                     ELSE ended[<<r[1], m, r[3]>>]
    IN  ended

EndedWithin(intervals, time) ==
    IF intervals = <<>> THEN 0 ELSE Ended(intervals)[<<1, Len(intervals), time>>]

Merged(wave, pause) == [wave EXCEPT ![Len(wave)] = wave[Len(wave)] + pause]

InterFrameGap == 2460   \* OUTPRIZE_TX_INTER_FRAME_GAP_US

\* OUTPRIZE_TX_HEADER_ON_US, _OFF_US and the data of the 488 us timing.
TxHeader == <<4596, 4513>>
TxData(f) == Data(f, 488, 488, 1464)

\* transmit_raw_edge_capture_stx882_ of an even number of intervals, the first
\* one with the carrier off: it prolongs the pause before it.
StxWave(intervals, repeats) ==
    EndingInSilence(Repeated(
        Tail(intervals) \o <<InterFrameGap + Head(intervals)>>, repeats))

\* replay_manufactured_outprize_low24: the carrier is on during the gaps of the
\* data, so the last gap has an end of its own.
CanonicalHeader == <<250, 1169, 4092, 1107, 2486, 363, 9030, 4506>>
CanonicalEdges(f) == CanonicalHeader \o Data(f, 500, 500, 1500)
CanonicalWave(f, repeats) == StxWave(CanonicalEdges(f), repeats)

\* transmit_full35_mode_: one header; the carrier is off during the gaps, and
\* the last one runs into the pause before the next repeat.
Cc1101Wave(f, repeats) ==
    EndingInSilence(TxHeader \o Repeated(Merged(TxData(f), InterFrameGap), repeats))

\* send_outprize_power_off_stx882: tx_build_edge_deltas_ with the header in every
\* repeat, keyed from an initial HIGH; here too the last gap runs into the pause.
PowerOffWave(f, repeats) ==
    EndingInSilence(Repeated(TxHeader \o Merged(TxData(f), InterFrameGap), repeats))
=============================================================================
