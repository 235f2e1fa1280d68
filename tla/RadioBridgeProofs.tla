------------------------- MODULE RadioBridgeProofs -------------------------
(***************************************************************************)
(* The safety of RadioBridge for every set of registers and frequencies    *)
(* and every bound.  None of its invariants is inductive as it stands: they *)
(* speak of the moments between calls, and what makes them true is what    *)
(* each phase of each call keeps.  IInv says that, part by part.           *)
(***************************************************************************)
EXTENDS RadioBridge, TLAPS

\* The two calls that own the CC1101 while they run.
CcCalls == CcKinds \cup {"carrierEnd"}

\* No call runs, or a sequence replay waits for its next capture.
Quiet == op = NoOp \/ op.phase = "pause"

\* Which phases a call has, and what it has still to send in them.
PhaseInv ==
    /\ op.kind \in {"frame", "burst", "raw"} =>
          op.phase \in {"setup", "calibrated", "driven", "on", "mark", "gap",
                        "idle", "restored", "pause"}
    /\ op.kind = "carrier" => op.phase \in {"setup", "calibrated", "driven"}
    /\ op.kind = "carrierEnd" => op.phase \in {"idle", "restored"}
    /\ op.kind = "stx" => op.phase \in {"on", "mark", "gap", "restored", "pause"}
    /\ op.kind = "srx" => op.phase \in {"listen", "restored"}
    /\ op.phase \in {"setup", "calibrated", "driven", "on", "mark"} => op.left > 0
    /\ op.kind = "carrier" => op.left <= MaxCarrier
    /\ op.kind \notin {"raw", "stx"} => op.rest = 0
    /\ op.phase = "pause" => op.rest > 0

\* What is wired and configured decides which calls exist.
WiringInv ==
    /\ configured <=> up /\ hw.cc
    /\ hw.cc <=> chip.mode # "absent"
    /\ op.kind \in CcCalls => configured /\ hw.gdo0
    /\ carrier.active => configured /\ hw.gdo0
    /\ op.phase = "restored" => configured
    /\ rxEnabled => configured
    /\ ~up => /\ op = NoOp /\ ~carrier.active /\ gdo0.dir = "in"
              /\ stxLine = "float"

\* Only an encoded frame runs under settings of its own.
SettingsInv ==
    /\ op.saved = DefaultSettings
    /\ op.kind # "frame" => settings = DefaultSettings

ListensWithRxProfile(c) == c.profile = "rx" /\ c.freq = DefaultFreq

\* The state of the CC1101 in each phase.
ChipInv ==
    /\ op.kind \in CcCalls /\ op.phase = "setup" => chip.mode = "idle"
    /\ op.phase \in {"calibrated", "driven"} => chip.mode \in {"idle", "cal"}
    /\ op.kind \in CcCalls /\ op.phase \in {"on", "mark", "gap"} =>
          chip.mode \in {"tx", "cal"}
    /\ op.phase \in {"idle", "restored"} => chip.mode = "idle"
    /\ op.phase = "restored" => ListensWithRxProfile(chip)
    /\ op.kind \in {"stx", "srx"} /\ op.phase # "pause" => chip.mode \in {"idle", "absent"}
    /\ Quiet /\ configured /\ ~carrier.active =>
          chip.mode = "rx" /\ ListensWithRxProfile(chip) /\ (hw.gdo0 => rxEnabled)
    /\ rxEnabled =>
          \/ Quiet /\ chip.mode = "rx" /\ ListensWithRxProfile(chip)
          \/ op.kind = "carrierEnd"
    /\ up /\ chip.mode = "tx" => carrier.active \/ op.kind \in CcCalls

\* Who drives the two lines.
LineInv ==
    /\ gdo0.dir = "out" =>
          \/ carrier.active
          \/ op.kind \in CcCalls /\ op.phase \in {"driven", "on", "mark", "gap", "idle"}
    /\ stxLine = "high" => op.kind = "stx" /\ op.phase \in {"on", "mark"}
    /\ op.kind = "frame" /\ op.phase \in {"driven", "on", "gap"} =>
          gdo0 = [dir |-> "out", level |-> CarrierLevel(FALSE)]
    /\ op.kind = "frame" /\ op.phase = "mark" => gdo0.dir = "out"
    /\ op.kind \in {"carrier", "carrierEnd"} => ~carrier.active

IInv ==
    TypeOK /\ PhaseInv /\ WiringInv /\ SettingsInv /\ ChipInv /\ LineInv

-----------------------------------------------------------------------------
\* The header's initial settings are settings, and no call is not a call.
LEMMA DefaultsTyped == DefaultSettings \in Settings /\ NoOp \notin Calls
  BY TuneAssumption, FreqAssumption DEF DefaultSettings, Settings, NoOp, Calls, Kinds, CcKinds

\* The clamp of a repeat count stays between its limits.
LEMMA ClampInRange ==
  ASSUME NEW n \in Nat, NEW lo \in Nat, NEW hi \in Nat, lo <= hi
  PROVE  Clamp(n, lo, hi) \in lo .. hi
  BY DEF Clamp

\* What the two register profiles leave in the chip.
LEMMA RxConfigFacts ==
  ASSUME NEW c \in Chip, NEW s \in Settings
  PROVE  /\ RxConfig(c, s) \in Chip
         /\ RxConfig(c, s).mode = "idle"
         /\ ListensWithRxProfile(RxConfig(c, s))
  BY FreqAssumption DEF RxConfig, Chip, Settings, ListensWithRxProfile

\* The TX profile leaves the chip idle and typed.
LEMMA TxConfigFacts ==
  ASSUME NEW c \in Chip, NEW s \in Settings
  PROVE  TxConfig(c, s) \in Chip /\ TxConfig(c, s).mode = "idle"
  BY DEF TxConfig, Chip, Settings

\* A strobe changes the mode and no register.
LEMMA ModeFacts ==
  ASSUME NEW c \in Chip, NEW m \in {"absent", "idle", "cal", "rx", "tx"}
  PROVE  /\ [c EXCEPT !.mode = m] \in Chip
         /\ [c EXCEPT !.mode = m].mode = m
         /\ ListensWithRxProfile(c) => ListensWithRxProfile([c EXCEPT !.mode = m])
  BY DEF Chip, ListensWithRxProfile

\* A call in progress is one of Calls.
LEMMA CallTyped == TypeOK /\ op.kind \in Kinds => op \in Calls
  BY DEF TypeOK, Calls, NoOp, Kinds, CcKinds

\* Entering a phase changes nothing else of a call.
LEMMA EnterFacts ==
  ASSUME op \in Calls, NEW p \in Phases, Enter(p)
  PROVE  /\ op' \in Calls
         /\ op'.phase = p
         /\ op'.kind = op.kind /\ op'.left = op.left
         /\ op'.rest = op.rest /\ op'.saved = op.saved
  BY DEF Enter, Calls

\* Both carrier levels are levels, in either polarity.
LEMMA CarrierLevelTyped == TypeOK => CarrierLevel(TRUE) \in BOOLEAN /\ CarrierLevel(FALSE) \in BOOLEAN
  BY DEF TypeOK, CarrierLevel, Settings

-----------------------------------------------------------------------------
\* Power-up establishes the invariant, on every wiring.
LEMMA InitInv == Init => IInv
  <1> SUFFICES ASSUME Init PROVE IInv OBVIOUS
  <1>1. TypeOK
    <2>1. chip \in Chip
      BY TuneAssumption, FreqAssumption DEF Init, Chip
    <2>2. settings \in Settings
      BY DefaultsTyped DEF Init
    <2>3. carrier \in [active : BOOLEAN, left : 0 .. MaxCarrier]
      BY BoundAssumption DEF Init
    <2>4. op.rest < MaxFrames /\ op.left <= MaxRepeats + 1
      BY BoundAssumption DEF Init, NoOp
    <2> QED BY <2>1, <2>2, <2>3, <2>4 DEF Init, TypeOK
  <1>2. PhaseInv
    BY DEF Init, PhaseInv, NoOp
  <1>3. WiringInv
    BY DEF Init, WiringInv, NoOp, CcCalls, CcKinds
  <1>4. SettingsInv
    BY DEF Init, SettingsInv, NoOp
  <1>5. ChipInv
    BY DEF Init, ChipInv, NoOp, CcCalls, CcKinds
  <1>6. LineInv
    BY DEF Init, LineInv, NoOp
  <1> QED BY <1>1, <1>2, <1>3, <1>4, <1>5, <1>6 DEF IInv

\* setup() leaves a CC1101 that answers listening, whatever state a reset left it in.
LEMMA SetupInv == IInv /\ Setup => IInv'
  <1> SUFFICES ASSUME IInv, Setup PROVE IInv' OBVIOUS
  <1> USE DEF IInv
  <1>0. /\ chip' \in Chip
        /\ chip'.mode = IF hw.cc THEN "rx" ELSE chip.mode
        /\ hw.cc => ListensWithRxProfile(chip')
    <2>1. CASE hw.cc
      <3> DEFINE c == RxConfig(chip, settings)
      <3>1. c \in Chip /\ ListensWithRxProfile(c)
        BY RxConfigFacts DEF TypeOK
      <3>2. chip' = [c EXCEPT !.mode = "rx", !.fifothr = "reset"]
        BY <2>1 DEF Setup
      <3> HIDE DEF c
      <3> QED BY <2>1, <3>1, <3>2 DEF Chip, ListensWithRxProfile
    <2>2. CASE ~hw.cc
      BY <2>2 DEF Setup, TypeOK
    <2> QED BY <2>1, <2>2
  <1>1. TypeOK'
    <2>1. UNCHANGED <<hw, gdo0, settings, carrier, op>> /\ up' = TRUE
      BY DEF Setup
    <2>2. configured' \in BOOLEAN /\ rxEnabled' \in BOOLEAN
      BY DEF Setup, TypeOK
    <2>3. stxLine' \in {"float", "low", "high"}
      BY DEF Setup, TypeOK
    <2> QED BY <1>0, <2>1, <2>2, <2>3, Zenon DEF TypeOK
  <1>2. PhaseInv'
    BY DEF Setup, PhaseInv
  <1>3. WiringInv'
    BY <1>0 DEF Setup, WiringInv, TypeOK, NoOp, CcCalls, CcKinds
  <1>4. SettingsInv'
    BY DEF Setup, SettingsInv
  <1>5. ChipInv'
    BY <1>0 DEF Setup, ChipInv, TypeOK, NoOp, CcCalls, CcKinds, WiringInv, Quiet
  <1>6. LineInv'
    BY DEF Setup, LineInv, WiringInv, NoOp, CarrierLevel
  <1> QED BY <1>1, <1>2, <1>3, <1>4, <1>5, <1>6

\* A reset in any phase: RAM and pins are lost, the chip's mode is kept.
LEMMA RebootInv == IInv /\ Reboot => IInv'
  <1> SUFFICES ASSUME IInv, Reboot PROVE IInv' OBVIOUS
  <1> USE DEF IInv
  <1>1. TypeOK'
    <2>1. settings' \in Settings
      BY DefaultsTyped DEF Reboot
    <2>2. carrier' \in [active : BOOLEAN, left : 0 .. MaxCarrier]
      BY BoundAssumption DEF Reboot
    <2>3. op' = NoOp /\ op'.rest < MaxFrames /\ op'.left <= MaxRepeats + 1
      BY BoundAssumption DEF Reboot, NoOp
    <2>4. gdo0' \in [dir : {"in", "out"}, level : BOOLEAN] /\ stxLine' = "float"
      BY DEF Reboot, PinsFloat
    <2> QED BY <2>1, <2>2, <2>3, <2>4 DEF Reboot, TypeOK
  <1>2. PhaseInv'
    BY DEF Reboot, PhaseInv, NoOp
  <1>3. WiringInv'
    BY DEF Reboot, PinsFloat, WiringInv, NoOp, CcCalls, CcKinds
  <1>4. SettingsInv'
    BY DEF Reboot, SettingsInv, NoOp
  <1>5. ChipInv'
    BY DEF Reboot, ChipInv, NoOp, CcCalls, CcKinds, Quiet
  <1>6. LineInv'
    BY DEF Reboot, PinsFloat, LineInv, NoOp
  <1> QED BY <1>1, <1>2, <1>3, <1>4, <1>5, <1>6

-----------------------------------------------------------------------------
\* The beginning of a CC1101 call, whoever makes it.
LEMMA BeginCcInv ==
  ASSUME IInv, up, Quiet, CcUsable,
         NEW kind \in CcKinds, NEW bursts \in Nat \ {0}, NEW rest \in Nat,
         NEW during \in Settings,
         kind # "frame" => during = DefaultSettings,
         kind # "raw" => rest = 0,
         rest < MaxFrames,
         kind # "carrier" => bursts <= MaxRepeats + 1,
         kind = "carrier" => bursts <= MaxCarrier /\ ~carrier.active,
         BeginCc(kind, bursts, rest, DefaultSettings, during)
  PROVE  IInv'
  <1> USE DEF IInv
  <1>1. op' \in Calls /\ op'.kind = kind /\ op'.phase = "setup" /\ op'.left = bursts
        /\ op'.rest = rest /\ op'.saved = DefaultSettings
    BY DefaultsTyped DEF BeginCc, Calls, Kinds, Phases
  <1>2. chip' \in Chip /\ chip'.mode = "idle"
    BY TxConfigFacts DEF BeginCc, TypeOK
  <1>3. gdo0.dir = "out" => carrier.active
    BY DEF LineInv, Quiet, NoOp, CcCalls, CcKinds
  <1>4. stxLine # "high"
    BY DEF LineInv, Quiet, NoOp
  <1>5. TypeOK'
    <2>1. UNCHANGED <<hw, up, configured, gdo0, stxLine, carrier>> /\ rxEnabled' = FALSE
      BY DEF BeginCc, PauseRx
    <2>2. settings' \in Settings
      BY DEF BeginCc
    <2>3. /\ op' \in Calls /\ op'.rest < MaxFrames
          /\ op'.kind # "carrier" => op'.left <= MaxRepeats + 1
      BY <1>1
    <2> QED BY <1>2, <2>1, <2>2, <2>3, Zenon DEF TypeOK
  <1>6. PhaseInv'
    BY <1>1 DEF PhaseInv, CcKinds
  <1>7. WiringInv'
    BY <1>1, <1>2 DEF BeginCc, PauseRx, WiringInv, CcUsable, CcCalls, CcKinds
  <1>8. SettingsInv'
    BY <1>1 DEF BeginCc, SettingsInv
  <1>9. ChipInv'
    BY <1>1, <1>2 DEF BeginCc, PauseRx, ChipInv, Quiet, CcCalls, CcKinds, NoOp
  <1>10. LineInv'
    BY <1>1, <1>3, <1>4 DEF BeginCc, LineInv, CcCalls, CcKinds
  <1> QED BY <1>5, <1>6, <1>7, <1>8, <1>9, <1>10

\* Frames, with the plain settings or with those of a helper.
LEMMA SendFrameInv ==
  ASSUME IInv, NEW r \in Arguments, NEW during \in Settings, SendFrame(r, during)
  PROVE  IInv'
  <1>1. Clamp(r, 1, MaxRepeats) \in 1 .. MaxRepeats
    BY ClampInRange, BoundAssumption DEF Arguments
  <1>2. op = NoOp /\ settings = DefaultSettings
    BY DEF SendFrame, Idle, IInv, SettingsInv, NoOp
  <1>3. BeginCc("frame", Clamp(r, 1, MaxRepeats) + 1, 0, DefaultSettings, during)
    BY <1>2 DEF SendFrame
  <1> QED BY <1>1, <1>2, <1>3, BeginCcInv, BoundAssumption
          DEF SendFrame, Idle, Quiet, CcKinds

\* A send under the settings that are in force.
LEMMA SendPlainInv == IInv /\ SendPlain => IInv'
  BY SendFrameInv DEF SendPlain, IInv, TypeOK

\* A send under an experimental RF profile remembers the settings to put back.
LEMMA SendWithProfileInv == IInv /\ SendWithProfile => IInv'
  <1> SUFFICES ASSUME IInv, NEW r \in Arguments, NEW i \in BOOLEAN, NEW t \in Tunes,
                      SendFrame(r, [settings EXCEPT !.inverted = i, !.tune = t])
               PROVE  IInv'
    BY DEF SendWithProfile
  <1>1. [settings EXCEPT !.inverted = i, !.tune = t] \in Settings
    BY DEF IInv, TypeOK, Settings
  <1> QED BY <1>1, SendFrameInv

\* A send on a trimmed frequency does, too.
LEMMA SendWithFrequencyInv == IInv /\ SendWithFrequency => IInv'
  <1> SUFFICES ASSUME IInv, NEW r \in Arguments, NEW f \in Freqs,
                      SendFrame(r, [settings EXCEPT !.freq = f])
               PROVE  IInv'
    BY DEF SendWithFrequency
  <1>1. [settings EXCEPT !.freq = f] \in Settings
    BY DEF IInv, TypeOK, Settings
  <1> QED BY <1>1, SendFrameInv

\* A raw replay, alone or the first of a sequence.
LEMMA ReplayRawInv == IInv /\ ReplayRaw => IInv'
  <1> SUFFICES ASSUME IInv, Idle, CcUsable, NEW r \in Arguments, NEW n \in 1 .. MaxFrames,
                      BeginCc("raw", Clamp(r, 1, MaxRepeats), n - 1, settings, settings)
               PROVE  IInv'
    BY DEF ReplayRaw
  <1>1. Clamp(r, 1, MaxRepeats) \in 1 .. MaxRepeats
    BY ClampInRange, BoundAssumption DEF Arguments
  <1>2. op = NoOp /\ settings = DefaultSettings /\ settings \in Settings
    BY DEF Idle, IInv, SettingsInv, NoOp, TypeOK
  <1> QED BY <1>1, <1>2, BeginCcInv, BoundAssumption DEF Idle, Quiet, CcKinds

\* The OOK test burst.
LEMMA SendTestBurstInv == IInv /\ SendTestBurst => IInv'
  <1> SUFFICES ASSUME IInv, Idle, CcUsable, NEW r \in Arguments,
                      BeginCc("burst", Clamp(r, 1, MaxRepeats), 0, settings, settings)
               PROVE  IInv'
    BY DEF SendTestBurst
  <1>1. Clamp(r, 1, MaxRepeats) \in 1 .. MaxRepeats
    BY ClampInRange, BoundAssumption DEF Arguments
  <1>2. op = NoOp /\ settings = DefaultSettings /\ settings \in Settings
    BY DEF Idle, IInv, SettingsInv, NoOp, TypeOK
  <1> QED BY <1>1, <1>2, BeginCcInv, BoundAssumption DEF Idle, Quiet, CcKinds

\* The carrier test, which is refused while another is on.
LEMMA StartCarrierInv == IInv /\ StartCarrier => IInv'
  <1> SUFFICES ASSUME IInv, Idle, CcUsable, ~carrier.active, NEW d \in 1 .. MaxCarrier,
                      BeginCc("carrier", d, 0, settings, settings)
               PROVE  IInv'
    BY DEF StartCarrier
  <1>2. op = NoOp /\ settings = DefaultSettings /\ settings \in Settings
    BY DEF Idle, IInv, SettingsInv, NoOp, TypeOK
  <1> QED BY <1>2, BeginCcInv, BoundAssumption DEF Idle, Quiet, CcKinds

-----------------------------------------------------------------------------
(* The phases of a CC1101 call. *)

\* A calibration that does not end leaves the chip in "cal", and the call goes on.
LEMMA CalibrateInv == IInv /\ Calibrate => IInv'
  <1> SUFFICES ASSUME IInv, Calibrate PROVE IInv' OBVIOUS
  <1> USE DEF IInv
  <1>0. op \in Calls /\ op.kind \in CcKinds /\ op.phase = "setup"
    BY CallTyped DEF Calibrate, At, Kinds
  <1>1. /\ op' \in Calls /\ op'.phase = "calibrated" /\ op'.kind = op.kind
        /\ op'.left = op.left /\ op'.rest = op.rest /\ op'.saved = op.saved
    BY <1>0, EnterFacts DEF Calibrate, Phases
  <1>2. chip' \in Chip /\ chip'.mode \in {"idle", "cal"}
    <2>1. PICK m \in {"idle", "cal"} : chip' = [chip EXCEPT !.mode = m]
      BY DEF Calibrate
    <2>2. chip \in Chip
      BY DEF TypeOK
    <2> QED BY <2>1, <2>2, ModeFacts, Zenon
  <1>3. TypeOK'
    BY <1>0, <1>1, <1>2 DEF Calibrate, TypeOK
  <1>4. PhaseInv'
    BY <1>0, <1>1 DEF PhaseInv, CcKinds
  <1>5. WiringInv'
    BY <1>0, <1>1, <1>2 DEF Calibrate, At, WiringInv, CcCalls, CcKinds
  <1>6. SettingsInv'
    BY <1>1 DEF Calibrate, SettingsInv
  <1>7. ChipInv'
    BY <1>0, <1>1, <1>2 DEF Calibrate, ChipInv, Quiet, CcCalls, CcKinds, NoOp
  <1>8. LineInv'
    BY <1>0, <1>1 DEF Calibrate, LineInv, CcCalls, CcKinds
  <1> QED BY <1>3, <1>4, <1>5, <1>6, <1>7, <1>8

\* GDO0 becomes an output while the CC1101 does not receive.
LEMMA DriveLineInv == IInv /\ DriveLine => IInv'
  <1> SUFFICES ASSUME IInv, DriveLine PROVE IInv' OBVIOUS
  <1> USE DEF IInv
  <1>0. op \in Calls /\ op.kind \in CcKinds /\ op.phase = "calibrated"
    BY CallTyped DEF DriveLine, At, Kinds
  <1>1. /\ op' \in Calls /\ op'.phase = "driven" /\ op'.kind = op.kind
        /\ op'.left = op.left /\ op'.rest = op.rest /\ op'.saved = op.saved
    BY <1>0, EnterFacts DEF DriveLine, Phases
  <1>2. /\ gdo0' \in [dir : {"in", "out"}, level : BOOLEAN]
        /\ op.kind = "frame" => gdo0' = [dir |-> "out", level |-> CarrierLevel(FALSE)]
    <2>1. StartLevels(op.kind) \subseteq BOOLEAN
      BY <1>0, CarrierLevelTyped DEF StartLevels, CcKinds
    <2>2. op.kind = "frame" => StartLevels(op.kind) = {CarrierLevel(FALSE)}
      BY DEF StartLevels
    <2>3. PICK l \in StartLevels(op.kind) : gdo0' = [dir |-> "out", level |-> l]
      BY DEF DriveLine
    <2> QED BY <2>1, <2>2, <2>3
  <1>3. TypeOK'
    BY <1>0, <1>1, <1>2 DEF DriveLine, TypeOK
  <1>4. PhaseInv'
    BY <1>0, <1>1 DEF PhaseInv, CcKinds
  <1>5. WiringInv'
    BY <1>0, <1>1 DEF DriveLine, At, WiringInv, CcCalls, CcKinds, TypeOK, Calls
  <1>6. SettingsInv'
    BY <1>1 DEF DriveLine, SettingsInv
  <1>7. ChipInv'
    BY <1>0, <1>1 DEF DriveLine, ChipInv, Quiet, CcCalls, CcKinds, NoOp
  <1>8. LineInv'
    BY <1>0, <1>1, <1>2 DEF DriveLine, LineInv, CcCalls, CcKinds, CarrierLevel
  <1> QED BY <1>3, <1>4, <1>5, <1>6, <1>7, <1>8

\* STX: a call goes on, the carrier test returns and leaves its end to loop().
LEMMA StrobeTxInv == IInv /\ StrobeTx => IInv'
  <1> SUFFICES ASSUME IInv, StrobeTx PROVE IInv' OBVIOUS
  <1> USE DEF IInv
  <1>0. op \in Calls /\ op.kind \in CcKinds /\ op.phase = "driven"
    BY CallTyped DEF StrobeTx, At, Kinds
  <1>1. chip' \in Chip /\ chip'.mode \in {"tx", "cal"}
    <2>1. PICK m \in {"tx", chip.mode} :
             (m # "tx" => chip.mode = "cal") /\ chip' = [chip EXCEPT !.mode = m]
      BY DEF StrobeTx
    <2>2. m \in {"tx", "cal"}
      BY <2>1
    <2>3. /\ chip \in Chip /\ chip' = [chip EXCEPT !.mode = m]
          /\ m \in {"absent", "idle", "cal", "rx", "tx"}
      BY <2>1, <2>2 DEF TypeOK
    <2> QED BY <2>2, <2>3, ModeFacts, Zenon
  <1>2. CASE op.kind = "carrier"
    <2>1. /\ carrier' = [active |-> TRUE, left |-> op.left]
          /\ op.left \in 0 .. MaxCarrier
          /\ settings' = DefaultSettings
          /\ op' = NoOp
      BY <1>0, <1>2, BoundAssumption DEF StrobeTx, SettingsInv, PhaseInv, Calls
    <2>2. ~rxEnabled
      BY <1>0 DEF ChipInv, Quiet, NoOp, CcKinds
    <2>3. TypeOK'
      BY <1>1, <2>1, DefaultsTyped, BoundAssumption DEF StrobeTx, TypeOK, NoOp
    <2>4. PhaseInv'
      BY <2>1 DEF PhaseInv, NoOp
    <2>5. WiringInv'
      BY <1>0, <1>1, <2>1 DEF StrobeTx, At, WiringInv, CcCalls, CcKinds, NoOp
    <2>6. SettingsInv'
      BY <2>1 DEF SettingsInv, NoOp
    <2>7. ChipInv'
      BY <1>1, <2>1, <2>2 DEF StrobeTx, ChipInv, Quiet, CcCalls, CcKinds, NoOp
    <2>8. LineInv'
      BY <1>0, <1>2, <2>1 DEF StrobeTx, LineInv, CcCalls, CcKinds, NoOp
    <2> QED BY <2>3, <2>4, <2>5, <2>6, <2>7, <2>8
  <1>3. CASE op.kind # "carrier"
    <2>1. /\ op' \in Calls /\ op'.phase = "on" /\ op'.kind = op.kind
          /\ op'.left = op.left /\ op'.rest = op.rest /\ op'.saved = op.saved
      BY <1>0, <1>3, EnterFacts DEF StrobeTx, Phases
    <2>2. UNCHANGED <<carrier, settings>>
      BY <1>3 DEF StrobeTx
    <2>3. TypeOK'
      BY <1>0, <1>1, <2>1, <2>2 DEF StrobeTx, TypeOK
    <2>4. PhaseInv'
      BY <1>0, <1>3, <2>1 DEF PhaseInv, CcKinds
    <2>5. WiringInv'
      BY <1>0, <1>1, <2>1, <2>2 DEF StrobeTx, At, WiringInv, CcCalls, CcKinds
    <2>6. SettingsInv'
      BY <2>1, <2>2 DEF SettingsInv
    <2>7. ChipInv'
      BY <1>0, <1>1, <2>1, <2>2 DEF StrobeTx, ChipInv, Quiet, CcCalls, CcKinds, NoOp
    <2>8. LineInv'
      BY <1>0, <2>1, <2>2 DEF StrobeTx, LineInv, CcCalls, CcKinds, CarrierLevel
    <2> QED BY <2>3, <2>4, <2>5, <2>6, <2>7, <2>8
  <1> QED BY <1>2, <1>3

\* A burst changes the line's level only.
LEMMA MarkInv == IInv /\ Mark => IInv'
  <1> SUFFICES ASSUME IInv, Mark PROVE IInv' OBVIOUS
  <1> USE DEF IInv
  <1>0. /\ op \in Calls /\ op.kind \in {"frame", "burst", "raw"}
        /\ op.phase \in {"on", "gap"} /\ op.left > 0 /\ up
    <2>1. op.kind \in {"frame", "burst", "raw"} /\ op.phase \in {"on", "gap"} /\ up
      BY DEF Mark, At
    <2>2. op.left > 0
      BY DEF Mark, At, PhaseInv
    <2> QED BY <2>1, <2>2, CallTyped DEF Kinds, CcKinds
  <1>1. /\ op' \in Calls /\ op'.phase = "mark" /\ op'.kind = op.kind
        /\ op'.left = op.left /\ op'.rest = op.rest /\ op'.saved = op.saved
    BY <1>0, EnterFacts DEF Mark, Phases
  <1>2. gdo0' \in [dir : {"in", "out"}, level : BOOLEAN] /\ gdo0'.dir = gdo0.dir
    <2>1. BurstLevels(op.kind) \subseteq BOOLEAN
      BY <1>0, CarrierLevelTyped DEF BurstLevels
    <2>2. PICK l \in BurstLevels(op.kind) : gdo0' = [gdo0 EXCEPT !.level = l]
      BY DEF Mark
    <2> QED BY <2>1, <2>2 DEF TypeOK
  <1>3. TypeOK'
    BY <1>0, <1>1, <1>2 DEF Mark, TypeOK
  <1>4. PhaseInv'
    BY <1>0, <1>1 DEF PhaseInv
  <1>5. WiringInv'
    BY <1>0, <1>1 DEF Mark, WiringInv, CcCalls, CcKinds
  <1>6. SettingsInv'
    BY <1>1 DEF Mark, SettingsInv
  <1>7. ChipInv'
    BY <1>0, <1>1 DEF Mark, ChipInv, Quiet, CcCalls, CcKinds, NoOp
  <1>8. LineInv'
    <2>1. op.kind = "frame" => gdo0.dir = "out"
      <3>1. op.kind = "frame" => gdo0 = [dir |-> "out", level |-> CarrierLevel(FALSE)]
        BY <1>0 DEF LineInv
      <3> QED BY <3>1
    <2> QED BY <1>0, <1>1, <1>2, <2>1 DEF Mark, LineInv, CcCalls, CcKinds
  <1> QED BY <1>3, <1>4, <1>5, <1>6, <1>7, <1>8

\* A frame's gap ends with the carrier off, in the polarity in force.
LEMMA GapInv == IInv /\ Gap => IInv'
  <1> SUFFICES ASSUME IInv, Gap PROVE IInv' OBVIOUS
  <1> USE DEF IInv
  <1>0. /\ op \in Calls /\ op.kind \in {"frame", "burst", "raw"}
        /\ op.phase = "mark" /\ op.left > 0 /\ up
    BY CallTyped DEF Gap, At, Kinds, CcKinds, PhaseInv
  <1>1. /\ op' \in Calls /\ op'.phase = "gap" /\ op'.kind = op.kind
        /\ op'.left = op.left - 1 /\ op'.rest = op.rest /\ op'.saved = op.saved
    <2>1. op' = [op EXCEPT !.phase = "gap", !.left = op.left - 1]
      BY DEF Gap
    <2>2. op.left - 1 \in Nat
      BY <1>0 DEF Calls
    <2> QED BY <1>0, <2>1, <2>2 DEF Calls, Phases
  <1>2. /\ gdo0' \in [dir : {"in", "out"}, level : BOOLEAN] /\ gdo0'.dir = gdo0.dir
        /\ op.kind = "frame" => gdo0'.level = CarrierLevel(FALSE)
    <2>1. CASE op.kind = "frame"
      <3>1. gdo0' = [gdo0 EXCEPT !.level = CarrierLevel(FALSE)]
        BY <2>1 DEF Gap
      <3> QED BY <3>1, CarrierLevelTyped DEF TypeOK
    <2>2. CASE op.kind # "frame"
      <3>1. gdo0' = [gdo0 EXCEPT !.level = FALSE]
        BY <2>2 DEF Gap
      <3> QED BY <2>2, <3>1 DEF TypeOK
    <2> QED BY <2>1, <2>2
  <1>3. TypeOK'
    BY <1>0, <1>1, <1>2, BoundAssumption DEF Gap, TypeOK, Calls
  <1>4. PhaseInv'
    BY <1>0, <1>1 DEF PhaseInv
  <1>5. WiringInv'
    BY <1>0, <1>1 DEF Gap, WiringInv, CcCalls, CcKinds
  <1>6. SettingsInv'
    BY <1>1 DEF Gap, SettingsInv
  <1>7. ChipInv'
    BY <1>0, <1>1 DEF Gap, ChipInv, Quiet, CcCalls, CcKinds, NoOp
  <1>8. LineInv'
    <2>1. op.kind = "frame" => gdo0' = [dir |-> "out", level |-> CarrierLevel(FALSE)]
      BY <1>0, <1>2 DEF TypeOK, LineInv
    <2> QED BY <1>0, <1>1, <1>2, <2>1 DEF Gap, LineInv, CcCalls, CcKinds, CarrierLevel
  <1> QED BY <1>3, <1>4, <1>5, <1>6, <1>7, <1>8

\* SIDLE after the last burst.
LEMMA StopTxInv == IInv /\ StopTx => IInv'
  <1> SUFFICES ASSUME IInv, StopTx PROVE IInv' OBVIOUS
  <1> USE DEF IInv
  <1>0. /\ op \in Calls /\ op.kind \in {"frame", "burst", "raw"} /\ op.phase = "gap" /\ up
    BY CallTyped DEF StopTx, At, Kinds, CcKinds
  <1>1. /\ op' \in Calls /\ op'.phase = "idle" /\ op'.kind = op.kind
        /\ op'.left = op.left /\ op'.rest = op.rest /\ op'.saved = op.saved
    BY <1>0, EnterFacts DEF StopTx, Phases
  <1>2. chip' \in Chip /\ chip'.mode = "idle"
    BY ModeFacts DEF StopTx, EnterIdle, TypeOK
  <1>3. TypeOK'
    BY <1>0, <1>1, <1>2 DEF StopTx, TypeOK
  <1>4. PhaseInv'
    BY <1>0, <1>1 DEF PhaseInv
  <1>5. WiringInv'
    BY <1>0, <1>1, <1>2 DEF StopTx, WiringInv, CcCalls, CcKinds
  <1>6. SettingsInv'
    BY <1>1 DEF StopTx, SettingsInv
  <1>7. ChipInv'
    BY <1>0, <1>1, <1>2 DEF StopTx, ChipInv, Quiet, CcCalls, CcKinds, NoOp
  <1>8. LineInv'
    BY <1>0, <1>1 DEF StopTx, LineInv, CcCalls, CcKinds
  <1> QED BY <1>3, <1>4, <1>5, <1>6, <1>7, <1>8

\* The line is an input before the chip has the RX profile back.
LEMMA ReleaseLineInv == IInv /\ ReleaseLine => IInv'
  <1> SUFFICES ASSUME IInv, ReleaseLine PROVE IInv' OBVIOUS
  <1> USE DEF IInv
  <1>0. /\ op \in Calls /\ op.kind \in CcCalls /\ op.phase = "idle" /\ up
    BY CallTyped DEF ReleaseLine, At, Kinds, CcCalls
  <1>1. /\ op' \in Calls /\ op'.phase = "restored" /\ op'.kind = op.kind
        /\ op'.left = op.left /\ op'.rest = op.rest /\ op'.saved = op.saved
    BY <1>0, EnterFacts DEF ReleaseLine, Phases
  <1>2. chip' \in Chip /\ chip'.mode = "idle" /\ ListensWithRxProfile(chip')
    BY RxConfigFacts DEF ReleaseLine, TypeOK
  <1>3. gdo0' \in [dir : {"in", "out"}, level : BOOLEAN] /\ gdo0'.dir = "in"
    BY DEF ReleaseLine, LineToInput, TypeOK
  <1>4. TypeOK'
    BY <1>0, <1>1, <1>2, <1>3 DEF ReleaseLine, TypeOK
  <1>5. PhaseInv'
    BY <1>0, <1>1 DEF PhaseInv, CcCalls, CcKinds
  <1>6. WiringInv'
    BY <1>0, <1>1, <1>2, <1>3 DEF ReleaseLine, WiringInv, CcCalls, CcKinds
  <1>7. SettingsInv'
    BY <1>1 DEF ReleaseLine, SettingsInv
  <1>8. ChipInv'
    <2>1. rxEnabled => op.kind = "carrierEnd"
      BY <1>0 DEF ChipInv, Quiet, NoOp
    <2>2. ~Quiet'
      BY <1>1, DefaultsTyped DEF Quiet
    <2> QED BY <1>0, <1>1, <1>2, <2>1, <2>2 DEF ReleaseLine, ChipInv, CcCalls, CcKinds
  <1>9. LineInv'
    BY <1>0, <1>1, <1>3 DEF ReleaseLine, LineInv, CcCalls, CcKinds
  <1> QED BY <1>4, <1>5, <1>6, <1>7, <1>8, <1>9

\* Back to RX, with the settings restored, and on to the next capture of a sequence.
LEMMA ResumeRxInv == IInv /\ ResumeRx => IInv'
  <1> SUFFICES ASSUME IInv, ResumeRx PROVE IInv' OBVIOUS
  <1> USE DEF IInv
  <1>0. /\ op \in Calls /\ op.phase = "restored" /\ up /\ configured
    BY CallTyped DEF ResumeRx, At, WiringInv
  <1>1. chip' \in Chip /\ chip'.mode = "rx" /\ ListensWithRxProfile(chip')
    BY <1>0, ModeFacts DEF ResumeRx, TypeOK, ChipInv
  <1>2. settings' = DefaultSettings /\ settings' \in Settings
    BY DefaultsTyped DEF ResumeRx, RestoreSettings, SettingsInv
  <1>3. /\ op' \in Calls \cup {NoOp} /\ op'.saved = DefaultSettings /\ Quiet'
        /\ op'.kind \in {op.kind, "none"} /\ op'.rest = op.rest /\ op'.left \in {op.left, 0}
        /\ op'.phase \in {"pause", "done"}
        /\ op'.phase = "pause" => op.rest > 0 /\ op'.kind = op.kind
        /\ op'.phase = "done" => op' = NoOp /\ op'.kind = "none"
    <2>1. CASE op.rest > 0
      <3>1. op' = [op EXCEPT !.phase = "pause"]
        BY <2>1 DEF ResumeRx
      <3> QED BY <1>0, <2>1, <3>1 DEF Calls, Phases, SettingsInv, Quiet
    <2>2. CASE ~(op.rest > 0)
      <3>1. op' = NoOp
        BY <2>2 DEF ResumeRx
      <3> QED BY <1>0, <2>2, <3>1 DEF NoOp, Calls, Quiet
    <2> QED BY <2>1, <2>2
  <1>4. gdo0.dir = "out" => carrier.active
    BY <1>0 DEF LineInv
  <1>5. stxLine # "high"
    BY <1>0 DEF LineInv
  <1>6. TypeOK'
    <2>1. op'.left <= MaxRepeats + 1
      BY <1>0, <1>3, BoundAssumption DEF TypeOK, PhaseInv, Calls
    <2> QED BY <1>0, <1>1, <1>2, <1>3, <2>1 DEF ResumeRx, TypeOK
  <1>7. PhaseInv'
    BY <1>0, <1>3, BoundAssumption DEF PhaseInv, NoOp
  <1>8. WiringInv'
    BY <1>0, <1>1, <1>3 DEF ResumeRx, WiringInv, CcCalls, CcKinds
  <1>9. SettingsInv'
    BY <1>2, <1>3 DEF SettingsInv
  <1>10. ChipInv'
    BY <1>0, <1>1, <1>3 DEF ResumeRx, ChipInv
  <1>11. LineInv'
    BY <1>0, <1>3, <1>4, <1>5 DEF ResumeRx, LineInv
  <1> QED BY <1>6, <1>7, <1>8, <1>9, <1>10, <1>11

-----------------------------------------------------------------------------
(* loop() and the clock. *)

\* loop() ends the carrier test, its own or one a call has preempted.
LEMMA FinishCarrierInv == IInv /\ FinishCarrier => IInv'
  <1> SUFFICES ASSUME IInv, FinishCarrier PROVE IInv' OBVIOUS
  <1> USE DEF IInv
  <1>0. up /\ op = NoOp /\ carrier.active /\ configured /\ hw.gdo0
    BY DEF FinishCarrier, LoopRuns, CarrierDue, Idle, WiringInv
  <1>1. settings = DefaultSettings /\ stxLine # "high"
    BY <1>0 DEF SettingsInv, LineInv, NoOp
  <1>2. /\ op' \in Calls /\ op'.kind = "carrierEnd" /\ op'.phase = "idle"
        /\ op'.left = 0 /\ op'.rest = 0 /\ op'.saved = DefaultSettings
    BY <1>1, DefaultsTyped DEF FinishCarrier, Calls, Kinds, Phases
  <1>3. chip' \in Chip /\ chip'.mode = "idle"
    BY ModeFacts DEF FinishCarrier, EnterIdle, TypeOK
  <1>4. /\ carrier' \in [active : BOOLEAN, left : 0 .. MaxCarrier] /\ ~carrier'.active
        /\ gdo0' \in [dir : {"in", "out"}, level : BOOLEAN]
    BY DEF FinishCarrier, TypeOK
  <1>5. TypeOK'
    BY <1>2, <1>3, <1>4, BoundAssumption DEF FinishCarrier, TypeOK
  <1>6. PhaseInv'
    BY <1>2 DEF PhaseInv
  <1>7. WiringInv'
    BY <1>0, <1>2, <1>3, <1>4 DEF FinishCarrier, WiringInv, CcCalls, CcKinds
  <1>8. SettingsInv'
    BY <1>1, <1>2 DEF FinishCarrier, SettingsInv
  <1>9. ChipInv'
    <2>1. ~Quiet'
      BY <1>2, DefaultsTyped DEF Quiet
    <2> QED BY <1>2, <1>3, <2>1 DEF ChipInv, CcCalls, CcKinds
  <1>10. LineInv'
    BY <1>1, <1>2, <1>4 DEF FinishCarrier, LineInv, CcCalls, CcKinds
  <1> QED BY <1>5, <1>6, <1>7, <1>8, <1>9, <1>10

\* The clock changes nothing but the time the carrier test has left.
LEMMA TickInv == IInv /\ Tick => IInv'
  <1> SUFFICES ASSUME IInv, Tick PROVE IInv' OBVIOUS
  <1> USE DEF IInv
  <1>1. carrier' \in [active : BOOLEAN, left : 0 .. MaxCarrier] /\ carrier'.active = carrier.active
    <2>1. carrier' = [carrier EXCEPT !.left = carrier.left - 1] /\ carrier.left > 0
      BY DEF Tick
    <2>2. carrier.left - 1 \in 0 .. MaxCarrier
      BY <2>1, BoundAssumption DEF TypeOK
    <2> QED BY <2>1, <2>2 DEF TypeOK
  <1>2. TypeOK'
    BY <1>1 DEF Tick, TypeOK
  <1>3. PhaseInv'
    BY DEF Tick, PhaseInv
  <1>4. WiringInv'
    BY <1>1 DEF Tick, WiringInv
  <1>5. SettingsInv'
    BY DEF Tick, SettingsInv
  <1>6. ChipInv'
    BY <1>1 DEF Tick, ChipInv, Quiet
  <1>7. LineInv'
    BY <1>1 DEF Tick, LineInv, CarrierLevel
  <1> QED BY <1>2, <1>3, <1>4, <1>5, <1>6, <1>7

-----------------------------------------------------------------------------
(* STX882 and SRX882 calls. *)

\* QuietCc idles the chip if there is one.
LEMMA QuietCcFacts ==
  ASSUME IInv, up, Quiet, QuietCc
  PROVE  /\ chip' \in Chip /\ chip'.mode \in {"idle", "absent"}
         /\ chip'.mode = "absent" <=> chip.mode = "absent"
         /\ rxEnabled' = FALSE
  <1> USE DEF IInv
  <1>1. CASE configured
    <2>1. chip \in Chip /\ chip' = [chip EXCEPT !.mode = "idle"] /\ rxEnabled' = FALSE
      BY <1>1 DEF QuietCc, PauseRx, EnterIdle, TypeOK
    <2>2. chip' \in Chip /\ chip'.mode = "idle"
      BY <2>1, ModeFacts, Zenon
    <2> QED BY <1>1, <2>1, <2>2 DEF WiringInv
  <1>2. CASE ~configured
    BY <1>2 DEF QuietCc, WiringInv, TypeOK
  <1> QED BY <1>1, <1>2

\* An STX882 burst starts with the CC1101 idle or absent.
LEMMA BeginStxInv ==
  ASSUME IInv, up, Quiet, NEW bursts \in Nat \ {0}, NEW rest \in Nat,
         rest < MaxFrames, bursts <= MaxRepeats + 1, settings = DefaultSettings,
         op.kind # "frame",
         BeginStx(bursts, rest)
  PROVE  IInv'
  <1> USE DEF IInv
  <1>1. /\ op' \in Calls /\ op'.kind = "stx" /\ op'.phase = "on" /\ op'.left = bursts
        /\ op'.rest = rest /\ op'.saved = DefaultSettings
    BY DefaultsTyped DEF BeginStx, Calls, Kinds, Phases
  <1>2. /\ chip' \in Chip /\ chip'.mode \in {"idle", "absent"}
        /\ chip'.mode = "absent" <=> chip.mode = "absent"
        /\ rxEnabled' = FALSE
    BY QuietCcFacts DEF BeginStx
  <1>3. gdo0.dir = "out" => carrier.active
    BY DEF LineInv, Quiet, NoOp, CcCalls, CcKinds
  <1>4. ~Quiet'
    BY <1>1, DefaultsTyped DEF Quiet
  <1>5. TypeOK'
    BY <1>1, <1>2 DEF BeginStx, TypeOK
  <1>6. PhaseInv'
    BY <1>1 DEF PhaseInv
  <1>7. WiringInv'
    BY <1>1, <1>2 DEF BeginStx, WiringInv, CcCalls, CcKinds
  <1>8. SettingsInv'
    BY <1>1 DEF BeginStx, SettingsInv
  <1>9. ChipInv'
    BY <1>1, <1>2, <1>4 DEF BeginStx, ChipInv, CcCalls, CcKinds
  <1>10. LineInv'
    BY <1>1, <1>3 DEF BeginStx, LineInv, CcCalls, CcKinds
  <1> QED BY <1>5, <1>6, <1>7, <1>8, <1>9, <1>10

\* STX882 sends, alone or the first of a sequence.
LEMMA SendStxInv == IInv /\ SendStx => IInv'
  <1> SUFFICES ASSUME IInv, Idle, NEW r \in Arguments, NEW n \in 1 .. MaxFrames,
                      BeginStx(Clamp(r, 1, MaxRepeats), n - 1)
               PROVE  IInv'
    BY DEF SendStx
  <1>1. Clamp(r, 1, MaxRepeats) \in 1 .. MaxRepeats
    BY ClampInRange, BoundAssumption DEF Arguments
  <1>2. op = NoOp /\ op.kind = "none" /\ settings = DefaultSettings
    BY DEF Idle, IInv, SettingsInv, NoOp
  <1> QED BY <1>1, <1>2, BeginStxInv, BoundAssumption DEF Idle, Quiet

\* The STX882 pin is keyed within a burst only.
LEMMA StxMarkInv == IInv /\ StxMark => IInv'
  <1> SUFFICES ASSUME IInv, StxMark PROVE IInv' OBVIOUS
  <1> USE DEF IInv
  <1>0. /\ op \in Calls /\ op.kind = "stx" /\ op.phase \in {"on", "gap"} /\ op.left > 0 /\ up
    <2>1. op.kind = "stx" /\ op.phase \in {"on", "gap"} /\ up
      BY DEF StxMark, At
    <2>2. op.left > 0
      BY DEF StxMark, At, PhaseInv
    <2> QED BY <2>1, <2>2, CallTyped DEF Kinds
  <1>1. /\ op' \in Calls /\ op'.phase = "mark" /\ op'.kind = op.kind
        /\ op'.left = op.left /\ op'.rest = op.rest /\ op'.saved = op.saved
    BY <1>0, EnterFacts DEF StxMark, Phases
  <1>2. TypeOK'
    BY <1>0, <1>1 DEF StxMark, TypeOK
  <1>3. PhaseInv'
    BY <1>0, <1>1 DEF PhaseInv
  <1>4. WiringInv'
    BY <1>0, <1>1 DEF StxMark, WiringInv, CcCalls, CcKinds
  <1>5. SettingsInv'
    BY <1>0, <1>1 DEF StxMark, SettingsInv
  <1>6. ChipInv'
    BY <1>0, <1>1 DEF StxMark, ChipInv, Quiet, CcCalls, CcKinds, NoOp
  <1>7. LineInv'
    BY <1>0, <1>1 DEF StxMark, LineInv, CcCalls, CcKinds
  <1> QED BY <1>2, <1>3, <1>4, <1>5, <1>6, <1>7

\* It is low in every gap.
LEMMA StxGapInv == IInv /\ StxGap => IInv'
  <1> SUFFICES ASSUME IInv, StxGap PROVE IInv' OBVIOUS
  <1> USE DEF IInv
  <1>0. op \in Calls /\ op.kind = "stx" /\ op.phase = "mark" /\ op.left > 0 /\ up
    BY CallTyped DEF StxGap, At, Kinds, PhaseInv
  <1>1. /\ op' \in Calls /\ op'.phase = "gap" /\ op'.kind = op.kind
        /\ op'.left = op.left - 1 /\ op'.rest = op.rest /\ op'.saved = op.saved
    <2>1. op' = [op EXCEPT !.phase = "gap", !.left = op.left - 1]
      BY DEF StxGap
    <2>2. op.left - 1 \in Nat
      BY <1>0 DEF Calls
    <2> QED BY <1>0, <2>1, <2>2 DEF Calls, Phases
  <1>2. TypeOK'
    BY <1>0, <1>1, BoundAssumption DEF StxGap, TypeOK, Calls
  <1>3. PhaseInv'
    BY <1>0, <1>1 DEF PhaseInv
  <1>4. WiringInv'
    BY <1>0, <1>1 DEF StxGap, WiringInv, CcCalls, CcKinds
  <1>5. SettingsInv'
    BY <1>0, <1>1 DEF StxGap, SettingsInv
  <1>6. ChipInv'
    BY <1>0, <1>1 DEF StxGap, ChipInv, Quiet, CcCalls, CcKinds, NoOp
  <1>7. LineInv'
    BY <1>0, <1>1 DEF StxGap, LineInv, CcCalls, CcKinds
  <1> QED BY <1>2, <1>3, <1>4, <1>5, <1>6, <1>7

\* The end of an STX882 or SRX882 call, with a CC1101 to restore or without.
LEMMA EndForeignInv ==
  ASSUME IInv, up, op \in Calls, op.kind \in {"stx", "srx"}, op.phase \in {"gap", "listen"},
         EndForeign, stxLine' \in {stxLine, "low"},
         UNCHANGED <<hw, up, configured, rxEnabled, gdo0, settings, carrier>>
  PROVE  IInv'
  <1> USE DEF IInv
  <1>0. stxLine' # "high" /\ (gdo0.dir = "out" => carrier.active)
    BY DEF LineInv, CcCalls, CcKinds
  <1>1. settings = DefaultSettings /\ op.saved = DefaultSettings
    BY DEF SettingsInv
  <1>2. ~rxEnabled
    BY DEF ChipInv, Quiet, NoOp
  <1>a. op.left <= MaxRepeats + 1
    BY DEF TypeOK
  <1>3. CASE configured
    <2>0. chip' = RxConfig(chip, settings) /\ Enter("restored")
      BY <1>3 DEF EndForeign
    <2>1. /\ op' \in Calls /\ op'.phase = "restored" /\ op'.kind = op.kind
          /\ op'.left = op.left /\ op'.rest = op.rest /\ op'.saved = op.saved
      BY <2>0, EnterFacts DEF Phases
    <2>2. chip' \in Chip /\ chip'.mode = "idle" /\ ListensWithRxProfile(chip')
      BY <2>0, RxConfigFacts DEF TypeOK
    <2>3. ~Quiet'
      BY <2>1, DefaultsTyped DEF Quiet
    <2>4. TypeOK'
      BY <1>a, <2>1, <2>2 DEF TypeOK
    <2>5. PhaseInv'
      BY <2>1 DEF PhaseInv
    <2>6. WiringInv'
      BY <1>3, <2>1, <2>2 DEF WiringInv, CcCalls, CcKinds
    <2>7. SettingsInv'
      BY <1>1, <2>1 DEF SettingsInv
    <2>8. ChipInv'
      BY <1>2, <2>1, <2>2, <2>3 DEF ChipInv, CcCalls, CcKinds
    <2>9. LineInv'
      BY <1>0, <2>1 DEF LineInv, CcCalls, CcKinds
    <2> QED BY <2>4, <2>5, <2>6, <2>7, <2>8, <2>9
  <1>4. CASE ~configured
    <2>0. /\ UNCHANGED chip
          /\ op' = IF op.rest > 0 THEN [op EXCEPT !.phase = "pause"] ELSE NoOp
      BY <1>4 DEF EndForeign
    <2>1. /\ op' \in Calls \cup {NoOp} /\ op'.saved = DefaultSettings
          /\ op'.kind \in {op.kind, "none"} /\ op'.rest = op.rest /\ op'.left \in {op.left, 0}
          /\ op'.phase \in {"pause", "done"}
          /\ op'.phase = "pause" => op.rest > 0 /\ op'.kind = op.kind
          /\ op'.phase = "done" => op' = NoOp /\ op'.kind = "none"
      <3>1. CASE op.rest > 0
        <4>1. op' = [op EXCEPT !.phase = "pause"]
          BY <2>0, <3>1
        <4> QED BY <1>1, <3>1, <4>1 DEF Calls, Phases
      <3>2. CASE ~(op.rest > 0)
        <4>1. op' = NoOp
          BY <2>0, <3>2
        <4> QED BY <3>2, <4>1 DEF NoOp, Calls
      <3> QED BY <3>1, <3>2
    <2>2. chip.mode \notin {"idle", "tx", "rx"} /\ chip.mode = "absent"
      BY <1>4 DEF WiringInv
    <2>4. TypeOK'
      <3>1. op'.left <= MaxRepeats + 1
        BY <1>a, <2>1, BoundAssumption
      <3> QED BY <2>0, <2>1, <3>1 DEF TypeOK
    <2>5. PhaseInv'
      BY <2>1 DEF PhaseInv, NoOp
    <2>6. WiringInv'
      BY <1>4, <2>0, <2>1 DEF WiringInv, CcCalls, CcKinds
    <2>7. SettingsInv'
      BY <1>1, <2>1 DEF SettingsInv
    <2>8. ChipInv'
      BY <1>2, <1>4, <2>0, <2>1, <2>2 DEF ChipInv, CcCalls, CcKinds
    <2>9. LineInv'
      BY <1>0, <2>1 DEF LineInv
    <2> QED BY <2>4, <2>5, <2>6, <2>7, <2>8, <2>9
  <1> QED BY <1>3, <1>4

\* The end of an STX882 send.
LEMMA StopStxInv == IInv /\ StopStx => IInv'
  <1> SUFFICES ASSUME IInv, StopStx PROVE IInv' OBVIOUS
  <1>1. up /\ op \in Calls /\ op.kind = "stx" /\ op.phase = "gap"
    BY CallTyped DEF IInv, StopStx, At, Kinds
  <1> QED BY <1>1, EndForeignInv DEF StopStx

\* The end of an SRX882 capture.
LEMMA StopSrxInv == IInv /\ StopSrx => IInv'
  <1> SUFFICES ASSUME IInv, StopSrx PROVE IInv' OBVIOUS
  <1>1. up /\ op \in Calls /\ op.kind = "srx" /\ op.phase = "listen"
    BY CallTyped DEF IInv, StopSrx, At, Kinds
  <1> QED BY <1>1, EndForeignInv DEF StopSrx

\* An SRX882 capture starts with the CC1101 idle or absent.
LEMMA CaptureSrxInv == IInv /\ CaptureSrx => IInv'
  <1> SUFFICES ASSUME IInv, CaptureSrx PROVE IInv' OBVIOUS
  <1> USE DEF IInv
  <1>0. up /\ op = NoOp /\ op.kind = "none" /\ settings = DefaultSettings
    BY DEF CaptureSrx, Idle, SettingsInv, NoOp
  <1>1. /\ op' \in Calls /\ op'.kind = "srx" /\ op'.phase = "listen" /\ op'.left = 0
        /\ op'.rest = 0 /\ op'.saved = DefaultSettings
    BY <1>0, DefaultsTyped DEF CaptureSrx, Calls, Kinds, Phases
  <1>2. /\ chip' \in Chip /\ chip'.mode \in {"idle", "absent"}
        /\ chip'.mode = "absent" <=> chip.mode = "absent"
        /\ rxEnabled' = FALSE
    BY <1>0, QuietCcFacts DEF CaptureSrx, Quiet
  <1>3. (gdo0.dir = "out" => carrier.active) /\ stxLine # "high"
    BY <1>0 DEF LineInv, CcCalls, CcKinds
  <1>4. ~Quiet'
    BY <1>1, DefaultsTyped DEF Quiet
  <1>a. UNCHANGED <<hw, up, configured, gdo0, stxLine, settings, carrier>>
    BY DEF CaptureSrx
  <1>5. TypeOK'
    <2>1. /\ op' \in Calls /\ op'.rest < MaxFrames
          /\ op'.kind # "carrier" => op'.left <= MaxRepeats + 1
      BY <1>1, BoundAssumption
    <2>2. chip' \in Chip /\ rxEnabled' = FALSE
      BY <1>2
    <2>3. /\ hw' = hw /\ up' = up /\ configured' = configured /\ gdo0' = gdo0
          /\ stxLine' = stxLine /\ settings' = settings /\ carrier' = carrier
      BY <1>a
    <2>4. /\ op' \in Calls \cup {NoOp}
          /\ rxEnabled' \in BOOLEAN
      BY <2>1, <2>2
    <2>5. /\ stxLine' \in {"float", "low", "high"}
          /\ settings' \in Settings
          /\ configured' \in BOOLEAN
          /\ up' \in BOOLEAN
      BY <2>3 DEF TypeOK
    <2>6. hw' \in [gdo0 : BOOLEAN, stx : BOOLEAN, srx : BOOLEAN, cc : BOOLEAN]
      BY <2>3 DEF TypeOK
    <2>7. /\ carrier' \in [active : BOOLEAN, left : 0 .. MaxCarrier]
          /\ gdo0' \in [dir : {"in", "out"}, level : BOOLEAN]
      BY <2>3 DEF TypeOK
    <2> QED BY <2>1, <2>2, <2>4, <2>5, <2>6, <2>7 DEF TypeOK
  <1>6. PhaseInv'
    BY <1>1 DEF PhaseInv
  <1>7. WiringInv'
    BY <1>0, <1>1, <1>2, <1>a DEF WiringInv, CcCalls, CcKinds
  <1>8. SettingsInv'
    BY <1>0, <1>1 DEF CaptureSrx, SettingsInv
  <1>9. ChipInv'
    BY <1>1, <1>2, <1>4 DEF CaptureSrx, ChipInv, CcCalls, CcKinds
  <1>10. LineInv'
    BY <1>1, <1>3 DEF CaptureSrx, LineInv, CcCalls, CcKinds
  <1> QED BY <1>5, <1>6, <1>7, <1>8, <1>9, <1>10

\* The next capture of a sequence begins like a call of its own.
LEMMA NextInSequenceInv == IInv /\ NextInSequence => IInv'
  <1> SUFFICES ASSUME IInv, NextInSequence PROVE IInv' OBVIOUS
  <1>1. CASE At({"raw"}, "pause") /\ BeginCc("raw", 1, op.rest - 1, settings, settings)
    <2>1. /\ up /\ op \in Calls /\ op.kind = "raw" /\ op.phase = "pause"
          /\ op.rest > 0 /\ op.rest < MaxFrames
      BY <1>1, CallTyped DEF IInv, At, Kinds, CcKinds, PhaseInv, TypeOK
    <2>2. CcUsable /\ settings = DefaultSettings /\ settings \in Settings
      BY <2>1 DEF IInv, WiringInv, CcUsable, CcCalls, CcKinds, SettingsInv, TypeOK
    <2>3. op.rest - 1 \in Nat /\ op.rest - 1 < MaxFrames
      BY <2>1, BoundAssumption DEF Calls
    <2> QED BY <1>1, <2>1, <2>2, <2>3, BeginCcInv, BoundAssumption DEF Quiet, CcKinds
  <1>2. CASE At({"stx"}, "pause") /\ BeginStx(1, op.rest - 1)
    <2>1. /\ up /\ op \in Calls /\ op.kind = "stx" /\ op.phase = "pause"
          /\ op.rest > 0 /\ op.rest < MaxFrames
      BY <1>2, CallTyped DEF IInv, At, Kinds, PhaseInv, TypeOK
    <2>2. settings = DefaultSettings
      BY <2>1 DEF IInv, SettingsInv
    <2>3. op.rest - 1 \in Nat /\ op.rest - 1 < MaxFrames
      BY <2>1, BoundAssumption DEF Calls
    <2> QED BY <1>2, <2>1, <2>2, <2>3, BeginStxInv, BoundAssumption DEF Quiet
  <1> QED BY <1>1, <1>2 DEF NextInSequence

-----------------------------------------------------------------------------
\* A step that changes no variable keeps everything.
LEMMA StutterInv == IInv /\ UNCHANGED vars => IInv'
  <1> SUFFICES ASSUME IInv, UNCHANGED vars PROVE IInv' OBVIOUS
  <1> USE DEF IInv, vars
  <1>1. TypeOK' BY DEF TypeOK
  <1>2. PhaseInv' BY DEF PhaseInv
  <1>3. WiringInv' BY DEF WiringInv
  <1>4. SettingsInv' BY DEF SettingsInv
  <1>5. ChipInv' BY DEF ChipInv, Quiet
  <1>6. LineInv' BY DEF LineInv, CarrierLevel
  <1> QED BY <1>1, <1>2, <1>3, <1>4, <1>5, <1>6

\* Every step keeps the invariant.
LEMMA NextInv == IInv /\ [Next]_vars => IInv'
  BY SetupInv, RebootInv, SendPlainInv, SendWithProfileInv, SendWithFrequencyInv,
     ReplayRawInv, SendTestBurstInv, StartCarrierInv, SendStxInv, CaptureSrxInv,
     CalibrateInv, DriveLineInv, StrobeTxInv, MarkInv, GapInv, StopTxInv,
     ReleaseLineInv, ResumeRxInv, StxMarkInv, StxGapInv, StopStxInv, StopSrxInv,
     NextInSequenceInv, FinishCarrierInv, TickInv, StutterInv
  DEF Next, ApiCall, CallStep

\* Every reachable state satisfies the inductive invariant.
THEOREM Inductive == Spec => []IInv
  BY InitInv, NextInv, PTL DEF Spec

\* Every variable keeps its type, and no call sends more than its clamps allow.
THEOREM TypeCorrect == Spec => []TypeOK
  <1>1. IInv => TypeOK
    BY DEF IInv
  <1> QED BY <1>1, Inductive, PTL

\* Whatever calls, helpers, carrier tests and resets came before, between calls
\* and outside a carrier test the CC1101 listens on 433.92 MHz, with the RX
\* profile, on a GDO0 that nobody else drives.
THEOREM AlwaysListensAgain == Spec => []ListensBetweenCalls
  <1>1. IInv => ListensBetweenCalls
    <2> SUFFICES ASSUME IInv, Idle, configured, ~carrier.active
                 PROVE  /\ chip.mode = "rx" /\ ListensWithRxProfile(chip)
                        /\ gdo0.dir = "in"
                        /\ hw.gdo0 => rxEnabled
      BY DEF ListensBetweenCalls, ListensWithRxProfile
    <2>1. op.kind = "none"
      BY DEF Idle, NoOp
    <2> QED BY <2>1 DEF IInv, ChipInv, LineInv, Idle, Quiet, TypeOK, CcCalls, CcKinds
  <1> QED BY <1>1, Inductive, PTL

\* GDO0 has two drivers at most while a carrier test is on.
THEOREM ContentionConfined == Spec => []ContentionOnlyDuringCarrier
  <1>1. IInv => ContentionOnlyDuringCarrier
    <2> SUFFICES ASSUME IInv, chip.mode = "rx", gdo0.dir = "out", ~carrier.active
                 PROVE  FALSE
      BY DEF ContentionOnlyDuringCarrier
    <2> QED BY DEF IInv, LineInv, ChipInv, CcCalls, CcKinds
  <1> QED BY <1>1, Inductive, PTL

\* The STX882 is keyed only while the CC1101 is idle or absent.
THEOREM TransmittersExclusive == Spec => []OneTransmitter
  <1>1. IInv => OneTransmitter
    BY DEF IInv, OneTransmitter, LineInv, ChipInv
  <1> QED BY <1>1, Inductive, PTL

\* rx_enabled_ is never TRUE between calls without a receiving CC1101.
THEOREM FlagTellsTheTruth == Spec => []EnabledMeansReceiving
  <1>1. IInv => EnabledMeansReceiving
    BY DEF IInv, EnabledMeansReceiving, ChipInv, Idle, NoOp, ListensWithRxProfile
  <1> QED BY <1>1, Inductive, PTL

\* While the processor runs, a CC1101 that sends belongs to a call in progress
\* or to a carrier test that loop() will end.
THEOREM TxAttended == Spec => []NoUnattendedTx
  <1>1. IInv => NoUnattendedTx
    <2> SUFFICES ASSUME IInv, chip.mode = "tx", up, ~carrier.active
                 PROVE  op.kind \in CcKinds /\ op.phase \in {"on", "mark", "gap"}
      BY DEF NoUnattendedTx
    <2>1. op.kind \in CcCalls
      BY DEF IInv, ChipInv
    <2> QED BY <2>1 DEF IInv, ChipInv, PhaseInv, WiringInv, CcCalls, CcKinds, Quiet
  <1> QED BY <1>1, Inductive, PTL

\* Polarity, PA, modulation and frequency are the defaults whenever a call starts.
THEOREM SettingsAlwaysRestored == Spec => []SettingsRestored
  <1>1. IInv => SettingsRestored
    BY DEF IInv, SettingsRestored, SettingsInv, Idle, NoOp
  <1> QED BY <1>1, Inductive, PTL

\* An encoded frame enters TX and leaves it with the carrier keyed off, under
\* every polarity.
THEOREM FramesAlwaysKeyCleanly == Spec => FramesKeyCleanly
  <1>1. IInv /\ [Next]_vars =>
          [op.kind = "frame" /\ up' /\ (chip.mode = "tx") # (chip.mode' = "tx")
             => gdo0 = [dir |-> "out", level |-> CarrierLevel(FALSE)]]_vars
    <2> SUFFICES ASSUME IInv, Next, op.kind = "frame", up',
                        (chip.mode = "tx") # (chip.mode' = "tx")
                 PROVE  gdo0 = [dir |-> "out", level |-> CarrierLevel(FALSE)]
      BY DEF vars
    <2>1. op # NoOp /\ up
      BY DEF NoOp, IInv, WiringInv
    <2>2. CASE StrobeTx \/ StopTx
      BY <2>2 DEF StrobeTx, StopTx, At, IInv, LineInv
    <2>3. CASE Calibrate \/ ReleaseLine \/ ResumeRx
      <3>1. chip.mode = "idle" /\ chip'.mode # "tx"
        <4>1. CASE Calibrate
          <5>1. PICK m \in {"idle", "cal"} : chip' = [chip EXCEPT !.mode = m]
            BY <4>1 DEF Calibrate
          <5> QED BY <4>1, <5>1 DEF Calibrate, At, IInv, ChipInv, CcCalls, TypeOK, Chip
        <4>2. CASE ReleaseLine
          BY <4>2, RxConfigFacts DEF ReleaseLine, At, IInv, ChipInv, TypeOK
        <4>3. CASE ResumeRx
          BY <4>3 DEF ResumeRx, At, IInv, ChipInv, TypeOK, Chip
        <4> QED BY <2>3, <4>1, <4>2, <4>3
      <3> QED BY <3>1
    <2>4. CASE DriveLine \/ Mark \/ Gap \/ Tick
      BY <2>4 DEF DriveLine, Mark, Gap, Tick
    <2>5. CASE ApiCall \/ FinishCarrier \/ Setup \/ Reboot
      BY <2>1, <2>5 DEF ApiCall, SendPlain, SendWithProfile, SendWithFrequency, SendFrame,
         ReplayRaw, SendTestBurst, StartCarrier, SendStx, CaptureSrx, FinishCarrier, LoopRuns,
         Idle, Setup, Reboot
    <2>6. CASE StxMark \/ StxGap \/ StopStx \/ StopSrx \/ NextInSequence
      BY <2>6 DEF StxMark, StxGap, StopStx, StopSrx, NextInSequence, At
    <2> QED BY <2>2, <2>3, <2>4, <2>5, <2>6 DEF Next, CallStep
  <1> QED BY <1>1, Inductive, PTL DEF Spec, FramesKeyCleanly
=============================================================================
