--------------------------- MODULE OutprizeCodec ---------------------------
(***************************************************************************)
(* The Low24 command word of an Outprize fan, as OutprizeCodec and its     *)
(* callers build it and read it.  A word is a natural number below 2^24;   *)
(* a mask of the code is a division and a remainder here:                  *)
(*                                                                         *)
(*    bits 23..16  command family, 0x60 or 0x40                            *)
(*    bits 10..6   speed                          word \div 64 % 32        *)
(*    bit  5       direction IN                   word \div 32 % 2         *)
(*    bit  4       rain sensor                    word \div 16 % 2         *)
(*    bits 3..2    vent action                    word \div 4 % 4          *)
(***************************************************************************)
EXTENDS Naturals, Sequences

Family60 == 96 * 65536   \* 0x600000: POWER OFF in this family
Family40 == 64 * 65536   \* 0x400000

WordCount == 256 * 65536   \* 2^24
Words == 0 .. (WordCount - 1)

SpeedSteps == {10 * i : i \in 0 .. 10}

\* OutprizeVentCommand: NONE, CLOSE, OPEN, STOP.
VentNone  == 0
VentClose == 4
VentOpen  == 8
VentStop  == 12
VentCommands == {VentNone, VentClose, VentOpen, VentStop}

\* normalize_speed: the nearest supported step of a uint8_t, at most 100.
\* Fault: rounds down.
NormalizeDown(speed) == IF speed > 100 THEN 100 ELSE (speed \div 10) * 10

NormalizeSpeed(speed) ==
    LET rounded == ((speed + 5) \div 10) * 10
    IN  IF rounded > 100 THEN 100 ELSE rounded

\* speed_base_, in units of its lowest bit, 0x40.
SpeedTable == <<1, 17, 9, 25, 5, 21, 13, 29, 3, 19, 11>>

SpeedCode(step) == SpeedTable[(step \div 10) + 1]

\* encode_low24.  The fields do not overlap, so adding them is or-ing them.
EncodeLow24(speed, directionIn, rain, vent) ==
    Family60 + 64 * SpeedCode(NormalizeSpeed(speed))
             + (IF directionIn THEN 32 ELSE 0)
             + (IF rain THEN 16 ELSE 0)
             + 4 * ((vent \div 4) % 4)

\* decode_speed; an unknown code reads as 0.
DecodeSpeed(low24) ==
    LET code == (low24 \div 64) % 32
    IN  CASE code = 1  -> 0
          [] code = 17 -> 10
          [] code = 9  -> 20
          [] code = 25 -> 30
          [] code = 5  -> 40
          [] code = 21 -> 50
          [] code = 13 -> 60
          [] code = 29 -> 70
          [] code = 3  -> 80
          [] code = 19 -> 90
          [] code = 11 -> 100
          [] OTHER     -> 0

\* What update_outprize_state_from_low24_ and the frame event read in a word.
Powered(low24)     == low24 \notin {Family60, Family40}
DirectionIn(low24) == (low24 \div 32) % 2 = 1
Rain(low24)        == (low24 \div 16) % 2 = 1
Vent(low24)        == 4 * ((low24 \div 4) % 4)

\* send_outprize_complete_state_family and set_outprize_complete_state: the word
\* of a family, whose POWER OFF carries no fields.
CompleteState(family, powered, speed, directionIn, rain, vent) ==
    IF powered
    THEN (EncodeLow24(speed, directionIn, rain, vent) % 65536) + family
    ELSE family

\* send_outprize_fan_off_family.
FanOffAwake(family, vent) == family + 64 + 4 * ((vent \div 4) % 4)

-----------------------------------------------------------------------------
(* The reference: docs/OUTPRIZE_PROTOCOL.md and the words of the remotes.   *)

\* The speed field is a counter from 16 with its bits in reverse order.
Reversed5(n) ==
    16 * (n % 2) + 8 * ((n \div 2) % 2) + 4 * ((n \div 4) % 2)
        + 2 * ((n \div 8) % 2) + ((n \div 16) % 2)

\* The 176 words of a powered fan, and the POWER OFF of a family.
ProtocolWords(family) ==
    {family} \cup
    {family + 64 * Reversed5(16 + (step \div 10))
            + (IF d THEN 32 ELSE 0) + (IF r THEN 16 ELSE 0) + v :
       step \in SpeedSteps, d \in BOOLEAN, r \in BOOLEAN, v \in VentCommands}
=============================================================================
