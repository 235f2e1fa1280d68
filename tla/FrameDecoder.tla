---------------------------- MODULE FrameDecoder ----------------------------
(***************************************************************************)
(* What the receiver of one bridge makes of a transmission: another        *)
(* bridge's, or that of an OEM remote, whose recording the canonical wave  *)
(* was taken from.  rx_capture_window_ records the changes of GDO0 for a   *)
(* fixed time from wherever the RSSI was first seen high, and              *)
(* rx_log_outprize_decode_ looks for the frame in what was recorded.       *)
(*                                                                         *)
(* Between the carrier and GDO0 stands a demodulator that lengthens one    *)
(* level at the expense of the other, and chatters when there has been no  *)
(* carrier for a while.                                                    *)
(***************************************************************************)
EXTENDS OutprizeDecoder

CONSTANTS
    SentFrames,   \* frames that are transmitted
    Repeats,      \* how often a transmission repeats its frame
    Stretches,    \* us the receiver adds to intervals with carrier
    Noises,       \* what it puts into long intervals without, and in which
    Starts        \* where in a transmission a capture may begin

ASSUME FramesAssumption ==
    SentFrames \subseteq [remote : RemoteIds, low24 : Words]
ASSUME RepeatsAssumption == Repeats \subseteq 1 .. 12
ASSUME StretchAssumption == Stretches \subseteq -300 .. 300
ASSUME NoiseAssumption == Noises \subseteq [lead : Nat, width : Nat, edges : Nat, from : Nat, to : Nat]
ASSUME StartsAssumption == Starts \subseteq [interval : Nat \ {0}, left : Nat \ {0}]

VARIABLES
    sending,    \* the transmission on the air
    reception,  \* observed: where the capture began, and what the receiver added
    edges,      \* the first rx_edge_count_ of rx_edges_
    phase,      \* "idle", "listening", "captured" or "decoded"
    outcome     \* what the capture was decoded to

vars == <<sending, reception, edges, phase, outcome>>

Transmissions ==
    [path : {"canonical", "cc1101"}, frame : SentFrames, repeats : Repeats]
        \cup [path : {"power_off"}, frame : {f \in SentFrames : f.low24 = Family60},
              repeats : Repeats]

Wave(s) ==
    CASE s.path = "canonical" -> CanonicalWave(s.frame, s.repeats)
      [] s.path = "cc1101"    -> Cc1101Wave(s.frame, s.repeats)
      [] s.path = "power_off" -> PowerOffWave(s.frame, s.repeats)

Receptions == [start : Starts, stretch : Stretches, noise : Noises]

Nothing == "nothing"   \* on the air, or received

Init ==
    /\ sending = Nothing
    /\ reception = Nothing
    /\ edges = <<>>
    /\ phase = "idle"
    /\ outcome = Undecoded("none")

\* A transmission comes up, and the RSSI is found high somewhere in it.
Transmit ==
    /\ phase = "idle"
    /\ sending' \in Transmissions
    /\ reception' \in {r \in Receptions : r.start.interval <= Len(Wave(sending'))}
    /\ phase' = "listening"
    /\ UNCHANGED <<edges, outcome>>

-----------------------------------------------------------------------------
(* rx_capture_window_, and what it gets to see. *)

\* Chatter starts when the carrier has been away for the lead of the noise, and
\* splits the interval into an odd number of pieces.
LongPause == 2000
Split(us, n) ==
    <<n.lead>> \o [j \in 1 .. n.edges |-> n.width] \o <<us - n.lead - n.edges * n.width>>

\* The interval k of the wave, as it arrives.
Arrives(wave, r, k) ==
    LET us == IF k % 2 = 1 THEN wave[k] + r.stretch ELSE wave[k] - r.stretch
    IN  IF /\ k % 2 = 0 /\ us >= LongPause
           /\ r.noise.edges > 0 /\ r.noise.from <= k /\ k <= r.noise.to
           /\ us > r.noise.lead + r.noise.edges * r.noise.width
        THEN Split(us, r.noise)
        ELSE <<us>>

\* What there is to record from the start of the capture on.
Arriving(s, r) ==
    LET wave  == Wave(s)
        begin == r.start.interval
        joined[k \in begin .. Len(wave)] ==
            IF k = begin THEN <<Clamped(r.start.left, 0, wave[begin])>>
                         ELSE joined[k - 1] \o Arrives(wave, r, k)
    IN  joined[Len(wave)]

Capture ==
    /\ phase = "listening"
    /\ edges' = Captured(Arriving(sending, reception))
    /\ phase' = "captured"
    /\ UNCHANGED <<sending, reception, outcome>>

-----------------------------------------------------------------------------
(* rx_finish_capture_. *)

Decode ==
    /\ phase = "captured"
    /\ outcome' = Decoded(edges)
    /\ phase' = "decoded"
    /\ UNCHANGED <<sending, reception, edges>>

-----------------------------------------------------------------------------
(* rx_reset_packet_: a transmission of the bridge itself empties the buffer.   *)

Reset ==
    /\ phase = "decoded"
    /\ edges' = <<>>
    /\ phase' = "idle"
    /\ outcome' = Undecoded("none")
    /\ sending' = Nothing
    /\ reception' = Nothing

Next == Transmit \/ Capture \/ Decode \/ Reset

Spec == Init /\ [][Next]_vars

-----------------------------------------------------------------------------
(* Properties. *)

\* Every field keeps its type, and what is recorded fits rx_edges_.
TypeOK ==
    /\ IF phase = "idle" THEN sending = Nothing /\ reception = Nothing
                         ELSE sending \in Transmissions /\ reception \in Receptions
    /\ edges \in Seq(Uint16) /\ Len(edges) <= MaxEdges
    /\ phase \in {"idle", "listening", "captured", "decoded"}
    /\ outcome \in [kind : {"none", "discarded", "unknown", "clipped", "complete"},
                    bits : 0 .. MaxBits, remote : RemoteIds,
                    low24 : Words]

Complete == outcome.kind = "complete"

IsSent == outcome.remote = sending.frame.remote /\ outcome.low24 = sending.frame.low24

Quiet == reception.noise.edges = 0

IsSymbol(us) == IsPulse(us) \/ IsZero(us) \/ IsOne(us)

\* What the noise adds cannot be taken for a symbol.
OnlyChatter == Quiet \/ ~IsSymbol(reception.noise.width)

\* A frame of zeros cannot be told from one that begins half a bit later; every
\* command has a one in its family.
HasOneInside(f) == \E j \in Ones(f) : 1 < j /\ j < FrameBits

\* A frame that is reported, learned from and cached is the one on the air,
\* although the scan tries every edge as the start of a frame, wherever the
\* capture began and however the demodulator chatters in the pauses; in the waves
\* whose last gap runs into a pause, if that pause is quiet.
ReportedWasSent ==
    Complete /\ HasOneInside(sending.frame)
        /\ (Quiet \/ (sending.path = "canonical" /\ OnlyChatter)) => IsSent

\* The edges of one frame, as they arrive.
DataArriving ==
    [k \in 1 .. DataEdges |->
        Data(sending.frame, 500, 500, 1500)[k]
            + (IF k % 2 = 0 THEN reception.stretch ELSE -reception.stretch)]

\* Some repeat of the frame was recorded whole, and no symbol after it.
HoldsCleanRepeat ==
    /\ sending.path = "canonical"
    /\ \E i \in 1 .. Len(edges) - DataEdges + 1 :
          /\ SubSeq(edges, i, i + DataEdges - 1) = DataArriving
          /\ i + DataEdges \in Ends(edges)

\* Words that remotes and bridges send.
Commands == ProtocolWords(Family60) \cup ProtocolWords(Family40)

IsCommand == sending.frame.low24 \in Commands

\* rx_log_outprize_decode_ asks for four long intervals in the recording.
HasLongGaps == Cardinality({i \in DOMAIN edges : IsOne(edges[i])}) >= 4

\* rx_score_outprize_candidate_ lists the state nibbles of POWER OFF and of the
\* speeds up to 70 %, not those of 80, 90 and 100 %, and gives 20 less for these.
IsListed == (sending.frame.low24 \div 16) % 16 <= 7

\* The recording ends inside a repeat, and holds bits enough of it for a decode
\* but not the frame.
CutShort ==
    \E n \in 2 * MinBits .. DataEdges - 1 :
        /\ n <= Len(edges)
        /\ SubSeq(edges, Len(edges) - n + 1, Len(edges)) = SubSeq(DataArriving, 1, n)

\* "use the score to prefer the verified 0x60xxxx packet family over a
\* merely-longer but shifted decode": a command of which a clean repeat was
\* recorded is reported, whatever noise makes longer frames of the other repeats
\* and wherever those are cut, if its state nibble is listed.
CleanRepeatWins ==
    phase = "decoded" /\ HoldsCleanRepeat /\ HasLongGaps /\ IsCommand /\ IsListed
        => Complete /\ IsSent

\* So is one of 80, 90 or 100 %, although shifted and clipped decodes whose state
\* nibble is listed score 20 more, unless the recording cuts a later repeat short.
FastRepeatWins ==
    phase = "decoded" /\ HoldsCleanRepeat /\ HasLongGaps /\ IsCommand /\ ~CutShort
        => Complete /\ IsSent

StartsInFirstOfSeveral ==
    /\ sending.path = "canonical" /\ sending.repeats >= 2
    /\ reception.start.interval <= Len(CanonicalWave(sending.frame, 1))

\* The window holds the data of two frames of so many ones with the pause and the
\* header between them, and no more; a command has no more than 21.
MostOnes == 22

\* The capture window is long enough for a transmission that repeats its frame:
\* wherever in the first repeat the capture begins, and though each one makes the
\* frame longer, it records a whole frame, unless chatter has filled rx_edges_
\* before or the frame has more ones than any command.
RepeatsSuffice ==
    phase = "decoded" /\ StartsInFirstOfSeveral /\ OnlyChatter /\ Len(edges) < MaxEdges
        /\ Cardinality(Ones(sending.frame)) <= MostOnes => HoldsCleanRepeat

-----------------------------------------------------------------------------
(* What a comment says, and the code does not always do. *)

\* "only a full 35-bit decode should be trusted for learning/transmit identity"
\* (rx_outprize_decode_from_index_).
TrustedHas35Bits == Complete => outcome.bits = FrameBits

\* "Emitted for every complete valid Outprize frame" (docs/api.md): also for one of
\* 80 % or more of which the recording holds the beginning of another repeat.
FastFramesEmitted ==
    phase = "decoded" /\ HoldsCleanRepeat /\ HasLongGaps /\ IsCommand => Complete /\ IsSent
=============================================================================
