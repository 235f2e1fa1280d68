--------------------------- MODULE MCFrameDecoder ---------------------------
(* Small instance of FrameDecoder: frames with the longest run of zeros, with *)
(* the most ones and with hardly any, and of speeds that the score lists and  *)
(* does not list; captures that begin at the first edge, in a header, in the  *)
(* first and the last bit of the data and in a pause, and one that ends in the *)
(* third repeat; a receiver that is quiet, that chatters a little and so much  *)
(* that rx_edges_ overflows, and one whose noise looks like a symbol, always,  *)
(* at first or later.                                                         *)
EXTENDS FrameDecoder

MCSentFrames ==
    {FrameOf(1743, Family60),                                  \* 0x6CF, POWER OFF
     FrameOf(2047, Family60 + 64 * SpeedCode(70) + 60),        \* 21 ones
     FrameOf(1024, Family40),                                  \* two ones
     FrameOf(864, Family60 + 64 * SpeedCode(80)),              \* 0x360, 80 % OUT
     FrameOf(2047, Family60 + 64 * SpeedCode(90) + 60),
     FrameOf(96, Family40 + 64 * SpeedCode(100) + 4)}
MCRepeats == {1, 2, 3}
MCStretches == {-150, 0, 150}
MCNoises ==
    {[lead |-> 0, width |-> 0, edges |-> 0, from |-> 1, to |-> 0],
     [lead |-> 800, width |-> 100, edges |-> 9, from |-> 1, to |-> 400],
     [lead |-> 300, width |-> 60, edges |-> 61, from |-> 1, to |-> 400],
     [lead |-> 500, width |-> 600, edges |-> 1, from |-> 1, to |-> 400],
     [lead |-> 500, width |-> 600, edges |-> 1, from |-> 1, to |-> 80],
     [lead |-> 500, width |-> 600, edges |-> 1, from |-> 80, to |-> 400]}
MCStarts ==
    {[interval |-> i, left |-> 2000] : i \in {1, 8, 9, 78, 86, 87}}
        \cup {[interval |-> i, left |-> 500] : i \in {6, 7, 11, 58, 77}}
=============================================================================
