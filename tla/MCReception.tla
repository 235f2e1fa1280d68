----------------------------- MODULE MCReception -----------------------------
(* Small instance of Reception: one tick is about 150 ms, so that a capture  *)
(* takes one and a cooldown two; the sequence is full after two captures,    *)
(* and the window long enough for a third.                                   *)
EXTENDS Reception

MCFrames == {Family60 + 64 * SpeedCode(50)}
MCManualFrames == {Family40}
MCWindows == {6}
MCDelays == {2}
=============================================================================
