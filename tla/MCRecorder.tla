----------------------------- MODULE MCRecorder -----------------------------
(* Small instance of Recorder.  Windows: a command in chatter; one heard late, *)
(* from the middle of its first repeat on, with the receiver stretching       *)
(* levels; one after an odd number of edges and a high level; the longest that *)
(* is kept and one repeat more; chatter that fills the buffer before a command *)
(* comes; one that comes after the first half second; chatter only; nothing.   *)
EXTENDS Recorder

MCRemoteId == 1743   \* 0x6CF
Speed70 == FrameOf(MCRemoteId, Family60 + 64 * SpeedCode(70) + 60)
PowerOff == FrameOf(MCRemoteId, Family60)

Gap == 30000

\* 60 to 300 us.
Chatter(n) ==
    [frame |-> NoFrame, late |-> FALSE,
     edges |-> <<Gap>> \o [k \in 1 .. (n - 1) |-> <<60, 150, 90, 300>>[(k % 4) + 1]]]

\* The remote, received with intervals of carrier longer by a stretch.
Press(f, repeats, stretch) ==
    LET wave == CanonicalWave(f, repeats)
    IN  [frame |-> f, late |-> FALSE,
         edges |-> <<Gap>> \o [k \in 1 .. (Len(wave) - 1) |->
                                  wave[k] + (IF k % 2 = 1 THEN stretch ELSE -stretch)]]

\* A press of which the first n intervals were missed.
Late(press, n) ==
    [press EXCEPT !.late = TRUE,
                  !.edges = <<Head(press.edges)>> \o SubSeq(press.edges, n + 2, Len(press.edges))]

Window(level, bursts) == [level |-> level, bursts |-> bursts]

MCWindows ==
    [plain    |-> Window(FALSE, <<Chatter(100), Press(Speed70, 1, 0), Chatter(40)>>),
     late     |-> Window(FALSE, <<Late(Press(Speed70, 2, 100), 40)>>),
     high     |-> Window(TRUE, <<Chatter(99), Press(PowerOff, 2, -100)>>),
     longest  |-> Window(FALSE, <<Press(PowerOff, 5, 0), Chatter(100)>>),
     longer   |-> Window(FALSE, <<Press(PowerOff, 6, 0)>>),
     overflow |-> Window(FALSE, <<Chatter(2000), Press(Speed70, 1, 0)>>),
     after    |-> Window(FALSE, <<Chatter(100), [Press(Speed70, 1, 0) EXCEPT !.edges[1] = 600000]>>),
     chatter  |-> Window(TRUE, <<Chatter(300), Chatter(1900)>>),
     silence  |-> Window(FALSE, <<Chatter(4)>>)]

MCRawWindows == {"plain", "high", "silence"}
MCDurations == {0, 3000}
MCReplayCounts == {0, 2}
MCSourceLow24s == {Speed70.low24, PowerOff.low24}
=============================================================================
