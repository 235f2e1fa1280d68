------------------------------ MODULE Recorder ------------------------------
(***************************************************************************)
(* The SRX882 buffer and the RF recorder on top of it.  start_rf_recorder  *)
(* blocks for a search window, picks the burst of what was heard that      *)
(* looks most like the protocol and keeps it for replay_rf_recording and   *)
(* the template analyzer.  capture_srx882_raw, clear_srx882_capture and    *)
(* replay_srx882_capture_stx882 work on the same buffer.                   *)
(*                                                                         *)
(* What the SRX882 puts out in a window is a choice among Windows: bursts, *)
(* each beginning with the gap before it.  What the calls do to the radios *)
(* is in RadioBridge.                                                      *)
(***************************************************************************)
EXTENDS OutprizeDecoder, TemplateAnalyzer

CONSTANTS
    Windows,        \* name -> [level : BOOLEAN, bursts : Seq of bursts]
    RawWindows,     \* the names of those that raw captures hear
    Durations,      \* duration_ms of recordings and captures
    ReplayCounts,   \* repeats of replays
    RemoteId,       \* outprize_remote_id_
    SourceLow24s,   \* what recordings are analyzed for
    Nothing,        \* heard or sent
    NoFrame         \* the frame of a burst of chatter

SplitGap == 12000   \* BURST_SPLIT_GAP_US

HeardBursts ==
    [frame : {NoFrame} \cup [remote : RemoteIds, low24 : Words],
     late : BOOLEAN, edges : Seq(Nat)]

\* Whatever intervals are heard, they are cut into bursts at the long ones.
ASSUME WindowsAssumption ==
    \A w \in DOMAIN Windows :
        /\ Windows[w].level \in BOOLEAN
        /\ Windows[w].bursts \in Seq(HeardBursts)
        /\ \A k \in DOMAIN Windows[w].bursts :
              LET edges == Windows[w].bursts[k].edges
              IN  /\ edges # <<>>
                  /\ k > 1 => edges[1] >= SplitGap
                  /\ \A i \in 2 .. Len(edges) : edges[i] < SplitGap
ASSUME CallsAssumption ==
    /\ RawWindows \subseteq DOMAIN Windows
    /\ Durations \subseteq Uint16 /\ ReplayCounts \subseteq 0 .. 255
ASSUME CommandsAssumption ==
    RemoteId \in RemoteIds /\ SourceLow24s \subseteq Words

VARIABLES
    wired,      \* the modules there are
    buffer,     \* srx882_edges_, srx882_initial_level_, srx882_capture_valid_
    status,     \* rf_recorder_status_, without rf_recording_number_
    template,   \* outprize_template_valid_: at first, the built-in one
    heard,      \* observed: the window of the recording made last
    sent,       \* observed: what a replay has just sent, and heard at that time
    analyzed    \* observed: the template an analysis has just found; nobody reads it

vars == <<wired, buffer, status, template, heard, sent, analyzed>>

Cleared == [edges |-> <<>>, level |-> FALSE, valid |-> FALSE]

Init ==
    /\ wired \in SUBSET {"stx882", "srx882"}
    /\ buffer = Cleared
    /\ status = "Ready"
    /\ template = TRUE
    /\ heard = Nothing
    /\ sent = Nothing
    /\ analyzed = Nothing

-----------------------------------------------------------------------------
(* capture_srx882_raw. *)

SrxMaxEdges == 2048   \* SRX882_MAX_EDGES

CaptureTime(duration) == 1000 * Clamped(duration, 250, 5000)

\* What is put out to the end of each burst.
Joined(window) ==
    LET joined[k \in 0 .. Len(window.bursts)] ==
            IF k = 0 THEN <<>> ELSE joined[k - 1] \o window.bursts[k].edges
    IN  joined

Intervals(window) == Joined(window)[Len(window.bursts)]

\* Fault: recording goes on.
KeptAll(n) == n

\* Edges after the first SrxMaxEdges are lost.
Kept(n) == Clamped(n, 0, SrxMaxEdges)

Acquired(window, duration) ==
    LET all   == Intervals(window)
        ended == EndedWithin(all, CaptureTime(duration))
        edges == [k \in 1 .. Kept(ended) |-> Delta(all[k])]
    IN  [edges |-> edges, level |-> window.level, valid |-> Len(edges) >= RxMinEdges]

CaptureRaw ==
    /\ IF "srx882" \in wired
       THEN /\ \E w \in RawWindows, d \in Durations : buffer' = Acquired(Windows[w], d)
            /\ heard' = Nothing
       ELSE UNCHANGED <<buffer, heard>>
    /\ sent' = Nothing /\ analyzed' = Nothing
    /\ UNCHANGED <<wired, status, template>>

-----------------------------------------------------------------------------
(* start_rf_recorder. *)

MinBurst == 40      \* MIN_BURST_EDGES
MaxBurst == 420     \* MAX_BURST_EDGES

\* The bursts of what was acquired, first and last edge.
Bursts(e) ==
    LET starts == {1} \cup {i \in 2 .. Len(e) : e[i] >= SplitGap}
        Stops(i) == {j - 1 : j \in {k \in starts : k > i}} \cup {Len(e)}
        Last(i) == CHOOSE j \in Stops(i) : \A k \in Stops(i) : j <= k
    IN  {[first |-> i, last |-> Last(i)] : i \in starts}

Count(b) == b.last - b.first + 1

ProtocolLike == 350 .. 700 \cup 1150 .. 1850 \cup 3500 .. 6500
VeryShort == 0 .. 99
MidNoise == 100 .. 349

\* The number of intervals of a burst that last one of the times.
Number(e, b, times) == Cardinality({i \in b.first .. b.last : e[i] \in times})

\* The gap before the burst does not count as its duration.
Duration(e, b) == Sums(e)[<<b.first + 1, b.last>>]

OfACommand(e, b) == Duration(e, b) \in 25000 .. 500000
UsefulCount(b) == Count(b) \in 60 .. 180

\* Fault: the densest burst wins.
DensityScore(e, b) == 2 * Count(b)

\* score_segment, of bursts that have MinBurst .. MaxBurst edges.
BurstScore(e, b) ==
    12 * Number(e, b, ProtocolLike) + 2 * Count(b)
        - 14 * Number(e, b, VeryShort) - 5 * Number(e, b, MidNoise)
        + (IF OfACommand(e, b) THEN 150 ELSE 0)
        + (IF UsefulCount(b) THEN 120 ELSE 0)

\* The best burst, the first of several; none when there is no clean one.
Clean(e) ==
    {b \in Bursts(e) : Count(b) \in MinBurst .. MaxBurst /\ BurstScore(e, b) >= 0}

BestBurst(e) ==
    LET scored == {[b |-> b, score |-> BurstScore(e, b)] : b \in Clean(e)}
    IN  (CHOOSE x \in scored : \A y \in scored :
            x.score > y.score \/ (x.score = y.score /\ x.b.first <= y.b.first)).b

\* Fault: the level the capture began with is kept.
FirstLevel(buf, b) == buf.level

\* The level before the first edge of a burst: every edge toggles it.
LevelBefore(buf, b) == buf.level # (b.first % 2 = 0)

\* Fault: best_end is taken for the index of the last edge.
CompactedShort(buf, b) ==
    [edges |-> <<250>> \o SubSeq(buf.edges, b.first + 1, b.last - 1),
     level |-> LevelBefore(buf, b), valid |-> TRUE]

\* The chosen burst, with a short deterministic gap before it.
Compacted(buf, b) ==
    [edges |-> <<250>> \o SubSeq(buf.edges, b.first + 1, b.last),
     level |-> LevelBefore(buf, b), valid |-> TRUE]

\* No burst of what was acquired can be kept; the edges stay, not valid.
NotRecorded(buf, why) ==
    /\ buffer' = [buf EXCEPT !.valid = FALSE]
    /\ status' = why

Extract(buf) ==
    \/ Len(buf.edges) < RxMinEdges /\ NotRecorded(buf, "No valid burst found")
    \/ /\ Len(buf.edges) >= RxMinEdges /\ Clean(buf.edges) = {}
       /\ NotRecorded(buf, "No clean burst found")
    \/ /\ Len(buf.edges) >= RxMinEdges /\ Clean(buf.edges) # {}
       /\ buffer' = Compacted(buf, BestBurst(buf.edges))
       /\ status' = "Recorded"

\* Without an SRX882 the capture returns, and the search finds what is there.
StartRecorder ==
    /\ IF "srx882" \in wired
       THEN \E w \in DOMAIN Windows, d \in Durations :
               LET acquired == Acquired(Windows[w], Clamped(d, 500, 10000))
               IN  /\ Extract(acquired)
                   /\ heard' = [window |-> w, edges |-> Len(acquired.edges)]
       ELSE Extract(buffer) /\ UNCHANGED heard
    /\ sent' = Nothing /\ analyzed' = Nothing
    /\ UNCHANGED <<wired, template>>

-----------------------------------------------------------------------------
(* Clearing, replaying and analyzing what is in the buffer. *)

Clear(newStatus) ==
    /\ buffer' = Cleared
    /\ status' = newStatus
    /\ heard' = Nothing
    /\ sent' = Nothing /\ analyzed' = Nothing
    /\ UNCHANGED <<wired, template>>

ClearCapture == Clear(status)
ClearRecording == Clear("Ready")

\* replay_srx882_capture_stx882.
Send(repeats) ==
    /\ sent' = IF buffer.valid /\ "stx882" \in wired
               THEN [edges |-> buffer.edges, level |-> buffer.level,
                     repeats |-> Clamped(repeats, 1, 8), heard |-> heard]
               ELSE Nothing
    /\ analyzed' = Nothing

ReplayCapture ==
    /\ \E r \in ReplayCounts : Send(r)
    /\ UNCHANGED <<wired, buffer, status, template, heard>>

ReplayRecording ==
    /\ \E r \in ReplayCounts : Send(r)
    /\ status' = IF ~buffer.valid THEN "Replay blocked"
                 ELSE IF "stx882" \in wired THEN "Replay OK" ELSE "Replay failed"
    /\ UNCHANGED <<wired, buffer, template, heard>>

\* A recording in which the command is not found unsets the template.
Analyze ==
    /\ \E low24 \in SourceLow24s :
          LET f == FrameOf(RemoteId, low24)
          IN  \/ /\ buffer.valid /\ Len(buffer.edges) >= DataEdges
                 /\ \E a \in BestAlignment(buffer.edges, f) :
                       /\ template' = Credible(buffer.edges, f, a)
                       /\ analyzed' = IF template' THEN Timing(buffer.edges, f, a) ELSE Nothing
              \/ /\ ~(buffer.valid /\ Len(buffer.edges) >= DataEdges)
                 /\ template' = FALSE
                 /\ analyzed' = Nothing
    /\ sent' = Nothing
    /\ UNCHANGED <<wired, buffer, status, heard>>

Next ==
    \/ CaptureRaw \/ StartRecorder \/ ClearCapture \/ ClearRecording
    \/ ReplayCapture \/ ReplayRecording \/ Analyze

Spec == Init /\ [][Next]_vars

-----------------------------------------------------------------------------
(* Properties. *)

\* Every field keeps its type; the buffer never exceeds SRX882_MAX_EDGES and a
\* replayable one has RX_MIN_EDGES.
TypeOK ==
    /\ wired \subseteq {"stx882", "srx882"}
    /\ buffer \in [edges : Seq(Uint16), level : BOOLEAN, valid : BOOLEAN]
    /\ Len(buffer.edges) <= SrxMaxEdges
    /\ buffer.valid => Len(buffer.edges) >= RxMinEdges
    /\ status \in {"Ready", "No valid burst found", "No clean burst found", "Recorded",
                   "Replay blocked", "Replay OK", "Replay failed"}
    /\ template \in BOOLEAN
    /\ analyzed = Nothing \/ (template /\ analyzed.low24 \in SourceLow24s)
    /\ heard = Nothing \/ heard.window \in DOMAIN Windows
    /\ sent = Nothing \/ sent.repeats \in 1 .. 8

\* The index of the last edge of burst k of a window.
EndOf(window, k) == Len(Joined(window)[k])

\* The level before burst k.
LevelOf(window, k) == window.level # (EndOf(window, k - 1) % 2 = 1)

\* Burst k was heard to its end.
HeardWhole(h, k) == EndOf(Windows[h.window], k) <= h.edges

\* Bursts with whole frames that the recorder has room for.
FrameBursts(h) ==
    {k \in DOMAIN Windows[h.window].bursts :
        LET b == Windows[h.window].bursts[k]
        IN  b.frame # NoFrame /\ HeardWhole(h, k) /\ Len(b.edges) <= MaxBurst}

\* "We then extract the best dense RF burst and retain only that burst for
\* replay": what is replayable after start_rf_recorder is one of the bursts that
\* were heard, whole or up to where the buffer or the window ended, with the
\* carrier on when it was heard on.
RecordingWasHeard ==
    buffer.valid /\ heard # Nothing =>
        LET window == Windows[heard.window]
        IN  \E k \in DOMAIN window.bursts :
               LET burst == window.bursts[k].edges
               IN  /\ Len(buffer.edges) <= Len(burst)
                   /\ Tail(buffer.edges) = SubSeq(burst, 2, Len(buffer.edges))
                   /\ Len(buffer.edges) < Len(burst) => ~HeardWhole(heard, k)
                   /\ buffer.level = LevelOf(window, k)

\* A remote that is heard to the end of its burst is recorded, however much
\* idle chatter comes before and after it in the window.
FrameIsRecorded ==
    heard # Nothing /\ FrameBursts(heard) # {} =>
        /\ buffer.valid
        /\ \E k \in FrameBursts(heard) :
              Tail(buffer.edges) = Tail(Windows[heard.window].bursts[k].edges)

\* What a bridge hears of a replay: transmit_raw_edge_capture_stx882_ at a
\* distance, through a receiver that does not chatter.
AsHeard(s) == Captured(StxWave(s.edges, s.repeats))

\* A replay of a recorded command is that command, to the receiver of a bridge.
ReplayIsTheCommand ==
    sent # Nothing /\ sent.heard # Nothing =>
        (FrameBursts(sent.heard) # {} =>
            /\ sent.level = FALSE
            /\ \E k \in FrameBursts(sent.heard) :
                  LET outcome == Decoded(AsHeard(sent))
                      f == Windows[sent.heard.window].bursts[k].frame
                  IN  outcome.kind = "complete" /\ FrameOf(outcome.remote, outcome.low24) = f)

\* The analysis of a clean recording of the command it is told finds the data
\* where the built-in waveform has it, "start=8 mode=MSB_NORMAL", as the initial
\* outprize_template_summary_ says, and its timing tells ones from zeros.
AnalysisFindsData ==
    analyzed # Nothing /\ heard # Nothing =>
        \A k \in FrameBursts(heard) :
            LET burst == Windows[heard.window].bursts[k]
                f == FrameOf(RemoteId, analyzed.low24)
            IN  burst.frame = f /\ Tail(buffer.edges) = Tail(burst.edges) /\ ~burst.late =>
                    /\ analyzed.start = 8 /\ analyzed.mode = Modes[1]
                    /\ \A i \in 1 .. FrameBits :
                          LET gap == buffer.edges[PulseAt(8, i) + 1]
                          IN  gap = (IF FrameBit(f, i) = 1 THEN analyzed.long ELSE analyzed.short)
=============================================================================
