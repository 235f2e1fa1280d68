---------------------------- MODULE RadioBridge ----------------------------
(***************************************************************************)
(* The radio front end of RFBridgeComponent: one CC1101 transceiver whose  *)
(* GDO0 line is an input while it receives and an output while it sends,   *)
(* an STX882 transmitter keyed by one pin, and an SRX882 receiver.         *)
(*                                                                         *)
(* Everything runs on the single ESPHome main task.  An API call (from a   *)
(* lambda or an automation) blocks until it returns; while it blocks, the  *)
(* hardware, the clock and a reset can still be observed, so a call is     *)
(* split into the phases a listener on the air or on the GDO0 wire can     *)
(* tell apart.  The carrier test is the only operation that returns while  *)
(* the transmitter is still on; loop() ends it later, and in between every *)
(* other API call is allowed.                                              *)
(***************************************************************************)
EXTENDS Naturals

CONSTANTS
    Tunes,        \* register sets <PATABLE, FREND0, MDMCFG2> an RF profile can select
    DefaultTune,  \* the set the header initialises: 0xC0, 0x11, 0x30
    Freqs,        \* FREQ2..FREQ0 settings of the frequency trim helpers
    DefaultFreq,  \* 0x10B071, 433.92 MHz, the literal of the RX profile
    MaxRepeats,   \* bound for the clamps of repeats (12, 10, 8 and 4 in the code)
    MaxFrames,    \* captures one sequence replay sends (frames times repeats)
    MaxCarrier    \* ticks of the longest carrier test (5000 ms)

ASSUME TuneAssumption == DefaultTune \in Tunes
ASSUME FreqAssumption == DefaultFreq \in Freqs
ASSUME BoundAssumption ==
    /\ MaxRepeats \in Nat \ {0}
    /\ MaxFrames \in Nat \ {0}
    /\ MaxCarrier \in Nat \ {0}

VARIABLES
    hw,          \* what is wired: gdo0, stx, srx pins, and whether a CC1101 answers
    up,          \* setup() has run since the last reset
    configured,  \* cc1101_configured_
    rxEnabled,   \* rx_enabled_
    chip,        \* CC1101: state and the registers the two profiles write
    gdo0,        \* ESP side of GDO0: pin direction and output latch
    stxLine,     \* STX882 data pin
    settings,    \* tx_ook_inverted_, tx_pa/frend0/mdmcfg2_value_, tx_freq*_
    carrier,     \* tx_carrier_active_ and the ticks until its duration elapsed
    op           \* the blocking call in progress

vars == <<hw, up, configured, rxEnabled, chip, gdo0, stxLine, settings, carrier, op>>

-----------------------------------------------------------------------------
(* State. *)

Settings == [inverted : BOOLEAN, tune : Tunes, freq : Freqs]

DefaultSettings == [inverted |-> FALSE, tune |-> DefaultTune, freq |-> DefaultFreq]

\* "cal" is the calibration that had not ended when the driver stopped waiting.
Chip == [mode : {"absent", "idle", "cal", "rx", "tx"},
         profile : {"reset", "rx", "tx"},   \* PKTCTRL0
         tune : Tunes, freq : Freqs,
         fifothr : {"reset", "tx"}]         \* written by the TX profile only

CcKinds == {"frame", "raw", "burst", "carrier"}

Kinds == CcKinds \cup {"carrierEnd", "stx", "srx"}

Phases == {"setup", "calibrated", "driven", "on", "mark", "gap", "idle",
           "listen", "restored", "pause"}

\* saved: the settings the enclosing helper puts back when the call returns.
\* left: bursts of this call still to send.  rest: captures still to replay.
Calls == [kind : Kinds, phase : Phases, left : Nat, rest : Nat, saved : Settings]

NoOp == [kind |-> "none", phase |-> "done", left |-> 0, rest |-> 0,
         saved |-> DefaultSettings]

Idle == up /\ op = NoOp

\* Fault: no upper clamp.
ClampBelow(n, lo, hi) == IF n < lo THEN lo ELSE n

Clamp(n, lo, hi) == IF n < lo THEN lo ELSE IF n > hi THEN hi ELSE n

Arguments == 0 .. (MaxRepeats + 1)   \* repeats as callers pass it

CcUsable == configured /\ hw.gdo0

\* tx_write_carrier_: the level that switches the carrier on or off.
CarrierLevel(on) == IF settings.inverted THEN on ELSE ~on

CarrierOn ==
    chip.mode = "tx" /\ gdo0.dir = "out" /\ gdo0.level = CarrierLevel(TRUE)

\* Fault: the RX profile inherits the frequency, as it does FIFOTHR.
RxConfigKeepsFreq(c, s) == [c EXCEPT !.mode = "idle", !.profile = "rx", !.tune = s.tune]

\* cc1101_configure_ook_async_rx_: SIDLE, then every register the RX profile has.
RxConfig(c, s) ==
    [c EXCEPT !.mode = "idle", !.profile = "rx", !.tune = s.tune, !.freq = DefaultFreq]

\* cc1101_configure_ook_async_tx_.
TxConfig(c, s) ==
    [mode |-> "idle", profile |-> "tx", tune |-> s.tune, freq |-> s.freq, fifothr |-> "tx"]

\* Fault: the SIDLE strobe is missing.
NoIdle(c) == c

\* cc1101_enter_idle_.
EnterIdle(c) == [c EXCEPT !.mode = "idle"]

\* Fault: the receiver is not paused.
KeepPolling == UNCHANGED rxEnabled

PauseRx == rxEnabled' = FALSE

-----------------------------------------------------------------------------
(* Power-up, reset and setup(). *)

PinsFloat == gdo0' = [dir |-> "in", level |-> FALSE] /\ stxLine' = "float"

Init ==
    /\ hw \in [gdo0 : BOOLEAN, stx : BOOLEAN, srx : BOOLEAN, cc : BOOLEAN]
    /\ up = FALSE
    /\ configured = FALSE
    /\ rxEnabled = FALSE
    /\ chip = [mode |-> IF hw.cc THEN "idle" ELSE "absent", profile |-> "reset",
               tune |-> DefaultTune, freq |-> DefaultFreq, fifothr |-> "reset"]
    /\ gdo0 = [dir |-> "in", level |-> FALSE]
    /\ stxLine = "float"
    /\ settings = DefaultSettings
    /\ carrier = [active |-> FALSE, left |-> 0]
    /\ op = NoOp

\* setup(): pins, cc1101_begin_ (SRES and the identity check), the RX profile,
\* SRX, rx_setup_.  Without an answer from the chip it returns early.
Setup ==
    /\ ~up
    /\ up' = TRUE
    /\ stxLine' = IF hw.stx THEN "low" ELSE stxLine
    /\ IF hw.cc
       THEN /\ configured' = TRUE
            /\ rxEnabled' = hw.gdo0
            /\ chip' = [RxConfig(chip, settings) EXCEPT !.mode = "rx", !.fifothr = "reset"]
       ELSE UNCHANGED <<configured, rxEnabled, chip>>
    /\ UNCHANGED <<hw, gdo0, settings, carrier, op>>

\* A reset at any moment: RAM and pins are lost, the CC1101 keeps its state
\* until the SRES of the next setup().
Reboot ==
    /\ up
    /\ up' = FALSE
    /\ configured' = FALSE
    /\ rxEnabled' = FALSE
    /\ PinsFloat
    /\ settings' = DefaultSettings
    /\ carrier' = [active |-> FALSE, left |-> 0]
    /\ op' = NoOp
    /\ UNCHANGED <<hw, chip>>

-----------------------------------------------------------------------------
(* API calls that send with the CC1101.  Each checks cc1101_configured_ and *)
(* gdo0_pin_, and none looks at tx_carrier_active_ except the carrier test. *)

BeginCc(kind, bursts, rest, saved, during) ==
    /\ PauseRx
    /\ settings' = during
    /\ chip' = TxConfig(chip, during)
    /\ op' = [kind |-> kind, phase |-> "setup", left |-> bursts, rest |-> rest,
              saved |-> saved]
    /\ UNCHANGED <<hw, up, configured, gdo0, stxLine, carrier>>

\* transmit_full35_mode_ under the settings "during"; the helper that changed
\* them restores "settings" after it returned.  One burst more for the header.
SendFrame(repeats, during) ==
    /\ Idle /\ CcUsable
    /\ BeginCc("frame", Clamp(repeats, 1, MaxRepeats) + 1, 0, settings, during)

\* send_outprize, send_outprize_low24, their bit-order variants, full35 and
\* learned replays.
SendPlain == \E r \in Arguments : SendFrame(r, settings)

\* transmit_power_off_with_rf_profile_.
SendWithProfile ==
    \E r \in Arguments, i \in BOOLEAN, t \in Tunes :
        SendFrame(r, [settings EXCEPT !.inverted = i, !.tune = t])

\* transmit_power_off_with_frequency_.
SendWithFrequency ==
    \E r \in Arguments, f \in Freqs : SendFrame(r, [settings EXCEPT !.freq = f])

\* transmit_raw_edge_capture_ of a capture with enough edges, alone or as the
\* first of the captures transmit_sequence_raw_ sends.
ReplayRaw ==
    /\ Idle /\ CcUsable
    /\ \E r \in Arguments, n \in 1 .. MaxFrames :
          /\ n > 1 => r = 1
          /\ BeginCc("raw", Clamp(r, 1, MaxRepeats), n - 1, settings, settings)

\* transmit_ook_test_burst_.
SendTestBurst ==
    /\ Idle /\ CcUsable
    /\ \E r \in Arguments :
          BeginCc("burst", Clamp(r, 1, MaxRepeats), 0, settings, settings)

\* start_ook_carrier_test_; a second request is refused.
StartCarrier ==
    /\ Idle /\ CcUsable
    /\ ~carrier.active
    /\ \E d \in 1 .. MaxCarrier : BeginCc("carrier", d, 0, settings, settings)

-----------------------------------------------------------------------------
(* The phases of a CC1101 transmission. *)

At(kinds, phase) == up /\ op.kind \in kinds /\ op.phase = phase

Enter(phase) == op' = [op EXCEPT !.phase = phase]

\* cc1101_calibrate_for_tx_: a calibration that does not end is only logged.
Calibrate ==
    /\ At(CcKinds, "setup")
    /\ \E m \in {"idle", "cal"} : chip' = [chip EXCEPT !.mode = m]
    /\ Enter("calibrated")
    /\ UNCHANGED <<hw, up, configured, rxEnabled, gdo0, stxLine, settings, carrier>>

\* Fault: a frame starts from LOW whatever the polarity.
StartLevelsLow(kind) ==
    CASE kind = "carrier" -> {TRUE}
      [] kind \in {"frame", "burst"} -> {FALSE}
      [] kind = "raw" -> BOOLEAN

\* The level a call puts on the line before STX; a raw replay starts from the
\* initial_level of its capture.
StartLevels(kind) ==
    CASE kind = "frame" -> {CarrierLevel(FALSE)}
      [] kind = "carrier" -> {TRUE}
      [] kind = "burst" -> {FALSE}
      [] kind = "raw" -> BOOLEAN

\* GDO0 becomes an ESP output.
DriveLine ==
    /\ At(CcKinds, "calibrated")
    /\ \E l \in StartLevels(op.kind) : gdo0' = [dir |-> "out", level |-> l]
    /\ Enter("driven")
    /\ UNCHANGED <<hw, up, configured, rxEnabled, chip, stxLine, settings, carrier>>

\* The STX strobe; a chip still calibrating may ignore it, and nothing checks.
\* The carrier test returns here and leaves the rest to loop().
StrobeTx ==
    /\ At(CcKinds, "driven")
    /\ \E m \in {"tx", chip.mode} :
          /\ m # "tx" => chip.mode = "cal"
          /\ chip' = [chip EXCEPT !.mode = m]
    /\ IF op.kind = "carrier"
       THEN /\ carrier' = [active |-> TRUE, left |-> op.left]
            /\ settings' = op.saved
            /\ op' = NoOp
       ELSE /\ Enter("on")
            /\ UNCHANGED <<carrier, settings>>
    /\ UNCHANGED <<hw, up, configured, rxEnabled, gdo0, stxLine>>

BurstLevels(kind) ==
    CASE kind = "frame" -> {CarrierLevel(TRUE)}
      [] kind = "burst" -> {TRUE}
      [] kind = "raw" -> BOOLEAN

\* A header, frame or capture is on the line.
Mark ==
    /\ \/ At({"frame", "burst", "raw"}, "on")
       \/ At({"frame", "burst", "raw"}, "gap") /\ op.left > 0
    /\ \E l \in BurstLevels(op.kind) : gdo0' = [gdo0 EXCEPT !.level = l]
    /\ Enter("mark")
    /\ UNCHANGED <<hw, up, configured, rxEnabled, chip, stxLine, settings, carrier>>

\* The pause after it.  Frames switch the carrier off, the others write LOW.
Gap ==
    /\ At({"frame", "burst", "raw"}, "mark")
    /\ gdo0' = [gdo0 EXCEPT !.level =
                   IF op.kind = "frame" THEN CarrierLevel(FALSE) ELSE FALSE]
    /\ op' = [op EXCEPT !.phase = "gap", !.left = @ - 1]
    /\ UNCHANGED <<hw, up, configured, rxEnabled, chip, stxLine, settings, carrier>>

\* SIDLE after the last burst.
StopTx ==
    /\ At({"frame", "burst", "raw"}, "gap")
    /\ op.left = 0
    /\ chip' = EnterIdle(chip)
    /\ Enter("idle")
    /\ UNCHANGED <<hw, up, configured, rxEnabled, gdo0, stxLine, settings, carrier>>

\* Fault: GDO0 stays an output.
LineStaysOutput == UNCHANGED gdo0

LineToInput == gdo0' = [gdo0 EXCEPT !.dir = "in"]

\* GDO0 is an input again before the RX profile goes back in.
ReleaseLine ==
    /\ At(CcKinds \cup {"carrierEnd"}, "idle")
    /\ LineToInput
    /\ chip' = RxConfig(chip, settings)
    /\ Enter("restored")
    /\ UNCHANGED <<hw, up, configured, rxEnabled, stxLine, settings, carrier>>

\* Fault: the helper forgets to put the settings back.
LeaveSettings == UNCHANGED settings

RestoreSettings == settings' = op.saved

\* cc1101_enter_rx_, rx_reset_packet_, rx_enabled_ = true and the return: the
\* helper's settings come back, a sequence replay goes on to its next capture.
ResumeRx ==
    /\ At(Kinds, "restored")
    /\ chip' = [chip EXCEPT !.mode = "rx"]
    /\ rxEnabled' = TRUE
    /\ RestoreSettings
    /\ op' = IF op.rest > 0 THEN [op EXCEPT !.phase = "pause"] ELSE NoOp
    /\ UNCHANGED <<hw, up, configured, gdo0, stxLine, carrier>>

-----------------------------------------------------------------------------
(* loop() and the clock. *)

\* Fault: the carrier is finished from a timer while a call is blocking.
LoopRunsAnytime == up

\* loop() runs between calls, never during one.
LoopRuns == Idle

\* Fault: loop() returns early while the receiver is paused.
CarrierDueWhenEnabled == carrier.active /\ carrier.left = 0 /\ rxEnabled

CarrierDue == carrier.active /\ carrier.left = 0

\* tx_carrier_loop_ / finish_ook_carrier_test_, once the duration has elapsed.
FinishCarrier ==
    /\ LoopRuns
    /\ CarrierDue
    /\ carrier' = [carrier EXCEPT !.active = FALSE]
    /\ gdo0' = [gdo0 EXCEPT !.level = FALSE]
    /\ chip' = EnterIdle(chip)
    /\ op' = [kind |-> "carrierEnd", phase |-> "idle", left |-> 0, rest |-> 0,
              saved |-> settings]
    /\ UNCHANGED <<hw, up, configured, rxEnabled, stxLine, settings>>

\* millis() advances, whatever the main task is doing.
Tick ==
    /\ carrier.active /\ carrier.left > 0
    /\ carrier' = [carrier EXCEPT !.left = @ - 1]
    /\ UNCHANGED <<hw, up, configured, rxEnabled, chip, gdo0, stxLine, settings, op>>

-----------------------------------------------------------------------------
(* STX882 sends and SRX882 captures: the CC1101 is idled around them, but   *)
(* neither looks at tx_carrier_active_ nor at the direction of GDO0.        *)

\* Fault: only the flag, the chip goes on receiving.
QuietFlagOnly == UNCHANGED chip /\ rxEnabled' = (rxEnabled /\ ~configured)

QuietCc ==
    IF configured
    THEN PauseRx /\ chip' = EnterIdle(chip)
    ELSE UNCHANGED <<rxEnabled, chip>>

BeginStx(bursts, rest) ==
    /\ QuietCc
    /\ \E initial \in {"low", "high"} : stxLine' = initial
    /\ op' = [kind |-> "stx", phase |-> "on", left |-> bursts, rest |-> rest,
              saved |-> settings]
    /\ UNCHANGED <<hw, up, configured, gdo0, settings, carrier>>

\* transmit_raw_edge_capture_stx882_, alone (replay_manufactured_outprize*,
\* learned, SRX882, recording and Power Off replays) or as the first capture of
\* transmit_sequence_raw_stx882_.
SendStx ==
    /\ Idle /\ hw.stx
    /\ \E r \in Arguments, n \in 1 .. MaxFrames :
          /\ n > 1 => r = 1
          /\ BeginStx(Clamp(r, 1, MaxRepeats), n - 1)

StxMark ==
    /\ \/ At({"stx"}, "on")
       \/ At({"stx"}, "gap") /\ op.left > 0
    /\ stxLine' = "high"
    /\ Enter("mark")
    /\ UNCHANGED <<hw, up, configured, rxEnabled, chip, gdo0, settings, carrier>>

StxGap ==
    /\ At({"stx"}, "mark")
    /\ stxLine' = "low"
    /\ op' = [op EXCEPT !.phase = "gap", !.left = @ - 1]
    /\ UNCHANGED <<hw, up, configured, rxEnabled, chip, gdo0, settings, carrier>>

\* The RX profile again if there is a CC1101 to restore, and the return if not.
EndForeign ==
    \/ /\ configured
       /\ chip' = RxConfig(chip, settings)
       /\ Enter("restored")
    \/ /\ ~configured
       /\ op' = IF op.rest > 0 THEN [op EXCEPT !.phase = "pause"] ELSE NoOp
       /\ UNCHANGED chip

StopStx ==
    /\ At({"stx"}, "gap")
    /\ op.left = 0
    /\ stxLine' = "low"
    /\ EndForeign
    /\ UNCHANGED <<hw, up, configured, rxEnabled, gdo0, settings, carrier>>

\* capture_srx882_raw: record_rf_transmission calls it too.
CaptureSrx ==
    /\ Idle /\ hw.srx
    /\ QuietCc
    /\ op' = [kind |-> "srx", phase |-> "listen", left |-> 0, rest |-> 0,
              saved |-> settings]
    /\ UNCHANGED <<hw, up, configured, gdo0, stxLine, settings, carrier>>

StopSrx ==
    /\ At({"srx"}, "listen")
    /\ EndForeign
    /\ UNCHANGED <<hw, up, configured, rxEnabled, gdo0, stxLine, settings, carrier>>

\* The delay() between two captures of a sequence, then the next one.
NextInSequence ==
    \/ /\ At({"raw"}, "pause")
       /\ BeginCc("raw", 1, op.rest - 1, settings, settings)
    \/ /\ At({"stx"}, "pause")
       /\ BeginStx(1, op.rest - 1)

-----------------------------------------------------------------------------
ApiCall ==
    \/ SendPlain
    \/ SendWithProfile
    \/ SendWithFrequency
    \/ ReplayRaw
    \/ SendTestBurst
    \/ StartCarrier
    \/ SendStx
    \/ CaptureSrx

CallStep ==
    \/ Calibrate
    \/ DriveLine
    \/ StrobeTx
    \/ Mark
    \/ Gap
    \/ StopTx
    \/ ReleaseLine
    \/ ResumeRx
    \/ StxMark
    \/ StxGap
    \/ StopStx
    \/ StopSrx
    \/ NextInSequence

Next == Setup \/ Reboot \/ ApiCall \/ CallStep \/ FinishCarrier \/ Tick

\* A started call runs to its end and setup() runs after a reset; the clock
\* advances; Application::loop() calls this component in every iteration, so
\* API calls cannot keep loop() away for ever (strong fairness: a call in
\* progress disables it for a while).
Fairness ==
    /\ WF_vars(Setup)
    /\ WF_vars(CallStep)
    /\ WF_vars(Tick)
    /\ SF_vars(FinishCarrier)

Spec == Init /\ [][Next]_vars /\ Fairness

-----------------------------------------------------------------------------
(* Properties. *)

\* Every variable keeps its type, and a call sends no more bursts than its
\* clamps allow (the header counts as one).
TypeOK ==
    /\ hw \in [gdo0 : BOOLEAN, stx : BOOLEAN, srx : BOOLEAN, cc : BOOLEAN]
    /\ up \in BOOLEAN
    /\ configured \in BOOLEAN
    /\ rxEnabled \in BOOLEAN
    /\ chip \in Chip
    /\ gdo0 \in [dir : {"in", "out"}, level : BOOLEAN]
    /\ stxLine \in {"float", "low", "high"}
    /\ settings \in Settings
    /\ carrier \in [active : BOOLEAN, left : 0 .. MaxCarrier]
    /\ op \in Calls \cup {NoOp}
    /\ op.kind # "carrier" => op.left <= MaxRepeats + 1
    /\ op.rest < MaxFrames

\* Whatever sequence of calls, helpers, preempted carrier tests and resets came
\* before: when no call runs and no carrier test is on, a working CC1101 listens
\* with the RX profile on 433.92 MHz, GDO0 is an input, and the poll is enabled.
ListensBetweenCalls ==
    Idle /\ configured /\ ~carrier.active =>
        /\ chip.mode = "rx" /\ chip.profile = "rx" /\ chip.freq = DefaultFreq
        /\ gdo0.dir = "in"
        /\ hw.gdo0 => rxEnabled

\* The ESP and the receiving CC1101 drive GDO0 against each other in no other
\* situation than an STX882 or SRX882 call made during a carrier test.
ContentionOnlyDuringCarrier ==
    chip.mode = "rx" /\ gdo0.dir = "out" => carrier.active

\* The two transmitters are never keyed together, and the CC1101 neither sends
\* nor listens while the STX882 is keyed ("keep the CC1101 quiet").
OneTransmitter ==
    stxLine = "high" => chip.mode \in {"idle", "absent"}

\* Between calls rx_enabled_ tells the truth about the chip: whenever rx_poll_
\* could run, the CC1101 receives with the RX profile, even while a preempted
\* carrier test is still counting down.
EnabledMeansReceiving ==
    Idle /\ rxEnabled => chip.mode = "rx" /\ chip.profile = "rx" /\ chip.freq = DefaultFreq

\* A CC1101 that sends has a call or a carrier test that will stop it, or the
\* processor has been reset and setup() has still to run.
NoUnattendedTx ==
    chip.mode = "tx" =>
        \/ ~up
        \/ carrier.active
        \/ op.kind \in CcKinds /\ op.phase \in {"on", "mark", "gap"}

\* A frequency trim or RF profile lasts for its own call: the next one starts
\* from the default polarity, PA, modulation and frequency.
SettingsRestored == Idle => settings = DefaultSettings

\* An encoded frame enters and leaves TX with the carrier off, in the polarity
\* its profile selects: no stray burst before the header or after the frames.
FramesKeyCleanly ==
    [][op.kind = "frame" /\ up' /\ (chip.mode = "tx") # (chip.mode' = "tx")
          => gdo0 = [dir |-> "out", level |-> CarrierLevel(FALSE)]]_vars

\* The transmitter does not stay on: the CC1101 listens again.
TransmitterReleased == (chip.mode = "tx") ~> (chip.mode = "rx")

\* The promise of HalfDuplex, with the owner read off the call and the chip.
Owner ==
    CASE ~up -> "down"
      [] up /\ op.kind = "stx" /\ op.phase # "pause" -> "stx882"
      [] up /\ op.kind = "srx" -> "srx882"
      [] up /\ \/ op.kind \in CcKinds \cup {"carrierEnd"} /\ op.phase # "pause"
               \/ op = NoOp /\ carrier.active /\ chip.mode # "rx" -> "cc1101"
      [] OTHER -> "free"

Abstract == INSTANCE HalfDuplex WITH owner <- Owner, carrierOn <- carrier.active

\* Seen from outside, the bridge is a half-duplex radio.
ImplementsHalfDuplex == Abstract!Spec

-----------------------------------------------------------------------------
(* What comments of the source say, and the code does not always do. *)

\* "GDO0 normally acts as the CC1101 async data output during receive; for
\* async transmit we drive the same line": never both.
OneDriverOfGdo0 == ~(chip.mode = "rx" /\ gdo0.dir = "out")

\* "The RX decoder is restored after each transmission by
\* cc1101_configure_ook_async_rx_()": the receiver has the registers of setup().
RxProfileRestored ==
    Idle /\ rxEnabled => chip.tune = DefaultTune

\* "ESP LOW = carrier on, ESP HIGH = carrier off": no call keeps the carrier on
\* when it has sent its last burst and is about to leave TX.
QuietAtTheEnd ==
    op.kind \in CcKinds /\ op.phase = "gap" /\ op.left = 0 => ~CarrierOn
=============================================================================
