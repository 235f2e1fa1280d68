--------------------------- MODULE MCRadioBridge ---------------------------
(* Small instance of RadioBridge: one experimental register set and one     *)
(* trimmed frequency beside the defaults.                                   *)
EXTENDS RadioBridge

CONSTANTS tA, tB, fA, fB

MCTunes == {tA, tB}
MCFreqs == {fA, fB}
=============================================================================
