----------------------- MODULE RadioBridgeRefinement -----------------------
(***************************************************************************)
(* RadioBridge implements the safety part of HalfDuplex, step by step: a   *)
(* call that begins acquires the air or takes it from a carrier test, the  *)
(* phases inside a call are stutters, and its return releases the air.     *)
(* The mapping reads the owner off the call and the chip, so the steps     *)
(* rest on what IInv says of the phases; that the air is given back at all *)
(* is liveness, and left to TLC.                                           *)
(***************************************************************************)
EXTENDS RadioBridgeProofs

\* A processor that is being reset owns nothing.
LEMMA InitRefines == Init => Abstract!Init
  BY DEF Init, Abstract!Init, Owner

\* What the owner is while no call runs: a carrier test keeps the air until a
\* call that took it from the test has given it back to the receiver.
LEMMA QuietOwner ==
  ASSUME IInv, up, Quiet
  PROVE  \/ Owner = "free"
         \/ Owner = "cc1101" /\ carrier.active
  <1>1. op.kind \notin {"srx", "carrier", "carrierEnd"} \/ op = NoOp
    BY DEF IInv, PhaseInv, Quiet
  <1>2. CASE op = NoOp
    BY <1>2 DEF Owner, NoOp, CcKinds
  <1>3. CASE op # NoOp
    BY <1>1, <1>3 DEF Owner, Quiet
  <1> QED BY <1>2, <1>3

\* A call that begins acquires the air, or takes it from a carrier test.
LEMMA BeginRefines ==
  ASSUME IInv, up, Quiet, NEW o \in Abstract!Owners, Owner' = o,
         carrier' = carrier
  PROVE  Abstract!Next
  <1>1. CASE Owner = "free"
    BY <1>1 DEF Abstract!Next, Abstract!Acquire
  <1>2. CASE Owner = "cc1101" /\ carrier.active
    BY <1>2 DEF Abstract!Next, Abstract!Preempt
  <1> QED BY <1>1, <1>2, QuietOwner

\* A call of the CC1101, the first capture of a sequence or a later one.
LEMMA BeginCcRefines ==
  ASSUME IInv, up, Quiet, NEW kind \in CcKinds, NEW bursts, NEW rest, NEW saved, NEW during,
         BeginCc(kind, bursts, rest, saved, during)
  PROVE  Abstract!Next
  <1>1. op'.kind = kind /\ op'.phase = "setup" /\ up' /\ carrier' = carrier
    BY DEF BeginCc
  <1>2. Owner' = "cc1101"
    BY <1>1 DEF Owner, CcKinds
  <1> QED BY <1>1, <1>2, BeginRefines DEF Abstract!Owners

\* A call of the STX882.
LEMMA BeginStxRefines ==
  ASSUME IInv, up, Quiet, NEW bursts, NEW rest, BeginStx(bursts, rest)
  PROVE  Abstract!Next
  <1>1. op'.kind = "stx" /\ op'.phase = "on" /\ up' /\ carrier' = carrier
    BY DEF BeginStx
  <1>2. Owner' = "stx882"
    BY <1>1 DEF Owner, NoOp, CcKinds
  <1> QED BY <1>1, <1>2, BeginRefines DEF Abstract!Owners

\* Every API call begins.
LEMMA ApiCallRefines == IInv /\ ApiCall => Abstract!Next
  <1> SUFFICES ASSUME IInv, ApiCall
               PROVE  Abstract!Next
    OBVIOUS
  <1>1. up /\ Quiet
    BY DEF ApiCall, SendPlain, SendWithProfile, SendWithFrequency, SendFrame, ReplayRaw,
           SendTestBurst, StartCarrier, SendStx, CaptureSrx, Idle, Quiet
  <1>2. CASE SendPlain \/ SendWithProfile \/ SendWithFrequency
    <2>1. PICK during : \E r \in Arguments : SendFrame(r, during)
      BY <1>2 DEF SendPlain, SendWithProfile, SendWithFrequency
    <2> QED BY <1>1, <2>1, BeginCcRefines DEF SendFrame, CcKinds
  <1>3. CASE ReplayRaw
    BY <1>1, <1>3, BeginCcRefines DEF ReplayRaw, CcKinds
  <1>4. CASE SendTestBurst
    BY <1>1, <1>4, BeginCcRefines DEF SendTestBurst, CcKinds
  <1>5. CASE StartCarrier
    BY <1>1, <1>5, BeginCcRefines DEF StartCarrier, CcKinds
  <1>6. CASE SendStx
    BY <1>1, <1>6, BeginStxRefines DEF SendStx
  <1>7. CASE CaptureSrx
    <2>1. op'.kind = "srx" /\ up' /\ carrier' = carrier
      BY <1>1, <1>7 DEF CaptureSrx
    <2>2. Owner' = "srx882"
      BY <2>1 DEF Owner, NoOp, CcKinds
    <2> QED BY <1>1, <2>1, <2>2, BeginRefines DEF Abstract!Owners
  <1> QED BY <1>2, <1>3, <1>4, <1>5, <1>6, <1>7 DEF ApiCall

\* The pause of a sequence gives the air away; its next capture begins a call.
LEMMA NextInSequenceRefines == IInv /\ NextInSequence => Abstract!Next
  <1> SUFFICES ASSUME IInv, NextInSequence
               PROVE  Abstract!Next
    OBVIOUS
  <1>1. CASE At({"raw"}, "pause") /\ BeginCc("raw", 1, op.rest - 1, settings, settings)
    BY <1>1, BeginCcRefines DEF At, Quiet, CcKinds
  <1>2. CASE At({"stx"}, "pause") /\ BeginStx(1, op.rest - 1)
    BY <1>2, BeginStxRefines DEF At, Quiet
  <1> QED BY <1>1, <1>2 DEF NextInSequence

-----------------------------------------------------------------------------
\* A phase that leads to another one of the same call is a stutter.
LEMMA PhaseRefines ==
  ASSUME up, up' = up, op.kind \in Kinds, op.phase # "pause", op'.phase # "pause",
         op'.kind = op.kind, carrier'.active = carrier.active
  PROVE  UNCHANGED Abstract!hvars
  <1>1. Owner' = Owner
    BY DEF Owner, Kinds, CcKinds
  <1> QED BY <1>1 DEF Abstract!hvars

\* The return of a call, from the point where its last phase gives the air away.
LEMMA ReturnRefines ==
  ASSUME up, up' = up, op.kind \in Kinds, op.phase # "pause",
         op' = IF op.rest > 0 THEN [op EXCEPT !.phase = "pause"] ELSE NoOp,
         op \in Calls, op.rest > 0 => op.kind \in {"raw", "stx"},
         carrier' = carrier, carrier.active => chip'.mode = "rx"
  PROVE  Abstract!Next
  <1>1. Owner \in Abstract!Owners
    BY DEF Owner, Kinds, CcKinds, Abstract!Owners
  <1>2. Owner' = "free"
    <2>1. CASE op.rest > 0
      <3>1. op'.kind \in {"raw", "stx"} /\ op'.phase = "pause" /\ op' # NoOp
        BY <2>1 DEF Calls, NoOp
      <3> QED BY <3>1 DEF Owner, CcKinds
    <2>2. CASE ~(op.rest > 0)
      BY <2>2 DEF Owner, NoOp, CcKinds
    <2> QED BY <2>1, <2>2
  <1> QED BY <1>1, <1>2 DEF Abstract!Next, Abstract!Release

\* The phases of a call, to its return.
LEMMA CallStepRefines == IInv /\ CallStep => [Abstract!Next]_(Abstract!hvars)
  <1> SUFFICES ASSUME IInv, CallStep
               PROVE  [Abstract!Next]_(Abstract!hvars)
    OBVIOUS
  <1>1. CASE Calibrate \/ DriveLine \/ Mark \/ Gap \/ StopTx \/ ReleaseLine \/ StxMark \/ StxGap
    <2>1. up /\ up' = up /\ op.kind \in Kinds /\ op.phase # "pause" /\ carrier' = carrier
      BY <1>1 DEF Calibrate, DriveLine, Mark, Gap, StopTx, ReleaseLine, StxMark, StxGap, At,
                  Kinds, CcKinds
    <2>2. op \in Calls
      BY <2>1, CallTyped DEF IInv
    <2>3. \/ \E p \in Phases \ {"pause"} : op' = [op EXCEPT !.phase = p]
          \/ op' = [op EXCEPT !.phase = "gap", !.left = @ - 1]
      BY <1>1 DEF Calibrate, DriveLine, Mark, Gap, StopTx, ReleaseLine, StxMark, StxGap, Enter,
                  Phases
    <2>4. op'.kind = op.kind /\ op'.phase # "pause"
      BY <2>2, <2>3 DEF Calls
    <2> QED BY <2>1, <2>4, PhaseRefines
  <1>2. CASE StrobeTx
    <2>1. up /\ up' = up /\ op.kind \in CcKinds /\ op.phase = "driven" /\ op \in Calls
      BY <1>2, CallTyped DEF IInv, StrobeTx, At, Kinds
    <2>2. CASE op.kind = "carrier"
      <3>1. carrier'.active /\ op' = NoOp /\ ~carrier.active
        BY <1>2, <2>2 DEF StrobeTx, IInv, LineInv
      <3>2. chip'.mode # "rx"
        <4>1. PICK m \in {"tx", chip.mode} : chip' = [chip EXCEPT !.mode = m]
          BY <1>2 DEF StrobeTx
        <4> QED BY <2>1, <4>1 DEF IInv, ChipInv, TypeOK, Chip
      <3>3. Owner = "cc1101" /\ Owner' = "cc1101"
        BY <2>1, <2>2, <3>1, <3>2 DEF Owner, NoOp, CcKinds
      <3>4. carrier'.active = TRUE
        BY <1>2, <2>2 DEF StrobeTx
      <3> QED BY <3>1, <3>3, <3>4 DEF Abstract!Next, Abstract!Detach
    <2>3. CASE op.kind # "carrier"
      <3>1. op' = [op EXCEPT !.phase = "on"] /\ carrier' = carrier
        BY <1>2, <2>3 DEF StrobeTx, Enter
      <3>2. op'.kind = op.kind /\ op'.phase = "on"
        BY <2>1, <3>1 DEF Calls
      <3> QED BY <2>1, <3>1, <3>2, PhaseRefines DEF Kinds
    <2> QED BY <2>2, <2>3
  <1>3. CASE ResumeRx
    <2>1. /\ up /\ up' = up /\ op.kind \in Kinds /\ op.phase = "restored" /\ op \in Calls
          /\ carrier' = carrier /\ chip' = [chip EXCEPT !.mode = "rx"]
          /\ op' = IF op.rest > 0 THEN [op EXCEPT !.phase = "pause"] ELSE NoOp
      BY <1>3, CallTyped DEF IInv, ResumeRx, At
    <2>2. chip'.mode = "rx" /\ (op.rest > 0 => op.kind \in {"raw", "stx"})
      BY <2>1 DEF IInv, TypeOK, Chip, PhaseInv
    <2> QED BY <2>1, <2>2, ReturnRefines
  <1>4. CASE StopStx \/ StopSrx
    <2>1. /\ up /\ up' = up /\ op.kind \in {"stx", "srx"} /\ op.phase \in {"gap", "listen"}
          /\ op \in Calls /\ carrier' = carrier /\ EndForeign
      BY <1>4, CallTyped DEF IInv, StopStx, StopSrx, At, Kinds
    <2>2. CASE configured
      <3>1. op' = [op EXCEPT !.phase = "restored"]
        BY <2>1, <2>2 DEF EndForeign, Enter
      <3>2. op'.kind = op.kind /\ op'.phase = "restored"
        BY <2>1, <3>1 DEF Calls
      <3> QED BY <2>1, <3>2, PhaseRefines DEF Kinds
    <2>3. CASE ~configured
      <3>1. ~carrier.active /\ (op.rest > 0 => op.kind \in {"raw", "stx"})
        BY <2>3 DEF IInv, WiringInv, PhaseInv, TypeOK
      <3>2. op' = IF op.rest > 0 THEN [op EXCEPT !.phase = "pause"] ELSE NoOp
        BY <2>1, <2>3 DEF EndForeign
      <3> QED BY <2>1, <3>1, <3>2, ReturnRefines DEF Kinds
    <2> QED BY <2>2, <2>3
  <1>5. CASE NextInSequence
    BY <1>5, NextInSequenceRefines
  <1> QED BY <1>1, <1>2, <1>3, <1>4, <1>5 DEF CallStep

-----------------------------------------------------------------------------
\* loop() ends a carrier test that still has the air, or takes it once more.
LEMMA FinishCarrierRefines == IInv /\ FinishCarrier => Abstract!Next
  <1> SUFFICES ASSUME IInv, FinishCarrier
               PROVE  Abstract!Next
    OBVIOUS
  <1>1. up /\ up' = up /\ op = NoOp /\ carrier.active /\ carrier'.active = FALSE
    BY DEF FinishCarrier, LoopRuns, Idle, CarrierDue, IInv, TypeOK
  <1>2. Owner' = "cc1101"
    <2>1. op'.kind = "carrierEnd" /\ op'.phase = "idle"
      BY DEF FinishCarrier
    <2> QED BY <1>1, <2>1 DEF Owner
  <1>3. Owner = "free" \/ Owner = "cc1101"
    BY <1>1, QuietOwner DEF Quiet
  <1> QED BY <1>1, <1>2, <1>3 DEF Abstract!Next, Abstract!Stop, Abstract!Expire

\* setup() and a reset.
LEMMA SetupRefines == IInv /\ Setup => Abstract!Next
  <1> SUFFICES ASSUME IInv, Setup
               PROVE  Abstract!Next
    OBVIOUS
  <1>1. ~up /\ up' /\ op' = NoOp /\ carrier' = carrier /\ ~carrier.active
    BY DEF Setup, IInv, WiringInv
  <1>2. Owner = "down" /\ Owner' = "free"
    BY <1>1 DEF Owner, NoOp, CcKinds
  <1> QED BY <1>1, <1>2 DEF Abstract!Next, Abstract!Boot

\* A reset in any phase of any call.
LEMMA RebootRefines == Reboot => Abstract!Next
  <1> SUFFICES ASSUME Reboot
               PROVE  Abstract!Next
    OBVIOUS
  <1>1. up /\ ~up' /\ carrier'.active = FALSE
    BY DEF Reboot
  <1>2. Owner # "down" /\ Owner' = "down"
    BY <1>1 DEF Owner
  <1> QED BY <1>1, <1>2 DEF Abstract!Next, Abstract!Crash

\* The clock alone changes nothing.
LEMMA TickRefines == IInv /\ (Tick \/ UNCHANGED vars) => UNCHANGED Abstract!hvars
  <1> SUFFICES ASSUME IInv, Tick \/ UNCHANGED vars
               PROVE  UNCHANGED Abstract!hvars
    OBVIOUS
  <1>1. carrier'.active = carrier.active
    BY DEF Tick, vars, IInv, TypeOK
  <1>2. up' = up /\ op' = op /\ chip' = chip
    BY DEF Tick, vars
  <1> QED BY <1>1, <1>2 DEF Owner, Abstract!hvars

\* Every step is a step of HalfDuplex, or none.
LEMMA NextRefines == IInv /\ [Next]_vars => [Abstract!Next]_(Abstract!hvars)
  BY SetupRefines, RebootRefines, ApiCallRefines, CallStepRefines, FinishCarrierRefines,
     TickRefines
  DEF Next

\* Seen from outside, the bridge is a half-duplex radio: whatever is called, timed
\* out or reset, the air has one owner, which gives it back before another takes it,
\* except that a call made during a carrier test takes it from the test.
THEOREM ActsAsHalfDuplex == Spec => Abstract!Safety
  BY InitRefines, NextRefines, Inductive, PTL DEF Spec, Abstract!Safety
=============================================================================
