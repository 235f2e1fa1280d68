-------------------------- MODULE ReceptionProofs --------------------------
(***************************************************************************)
(* The safety of Reception for every clock, cooldown, learn window and     *)
(* number of captures.  What the sequence and the learned command hold was *)
(* heard, because a capture that is being finished is the newest and is    *)
(* not stored yet, whatever its automations do in between.                 *)
(***************************************************************************)
EXTENDS Reception, NatSets

\* The capture that is being finished is not in the sequence yet.
FinishingIsNewest ==
    phase # "idle" =>
        Captures >= 1 /\ \A i \in DOMAIN stored : stored[i].capture < Captures

IInv == TypeOK /\ StoredAreHeard /\ LearnedIsHeard /\ FinishingIsNewest

-----------------------------------------------------------------------------
(* Types. *)

\* What the assumptions say of the times.
LEMMA Times ==
    /\ CaptureTicks \in Nat /\ CaptureTicks > 0 /\ Cooldown \in Nat /\ Cooldown > 0
    /\ SuppressTime \in Nat /\ SuppressTime > 0 /\ StatusPeriod \in Nat /\ StatusPeriod > 0
    /\ ClockPeriod \in Nat /\ ClockPeriod > 0
    /\ LongestDelay \in Nat
    /\ \A d \in Windows \cup Delays : d \in Nat /\ d > 0 /\ d <= LongestDelay
  <1>1. LongestDelay \in Nat
    BY SMT DEF LongestDelay
  <1> QED BY <1>1, TimesAssumption

\* The longest of a set of delays is one that none exceeds.
LEMMA LongestBounds ==
    ASSUME NEW S, S \subseteq Windows \cup Delays
    PROVE  /\ Longest(S) \in Nat
           /\ \A d \in S : d <= Longest(S)
  <1>1. \A n \in S \cup {0} : n \in Nat /\ n <= LongestDelay
    BY Times
  <1>2. PICK m \in S \cup {0} : \A n \in S \cup {0} : n <= m
    <2> DEFINE T == S \cup {0}
    <2>1. T \subseteq Int /\ T # {} /\ LongestDelay \in Int
      BY <1>1, Times
    <2>2. \A n \in T : n <= LongestDelay
      BY <1>1
    <2> HIDE DEF T
    <2>3. \E m \in T : \A n \in T : n <= m
      BY <2>1, <2>2, Greatest
    <2> QED BY <2>3 DEF T
  <1>3. \A n \in S : m >= n
    BY <1>1, <1>2
  <1>4. Longest(S) \in S \cup {0} /\ \A n \in S : Longest(S) >= n
    BY <1>3 DEF Longest
  <1> QED BY <1>1, <1>4

\* The passing of time keeps every timer in its range.
LEMMA ElapsedTyped ==
    ASSUME NEW t \in TimerStates, NEW n \in Nat
    PROVE  /\ Elapsed(t, n) \in TimerStates
           /\ Elapsed(t, n).window = AtLeast(t.window - n, -1)
  <1> DEFINE now == (t.now + n) % ClockPeriod
             since == AtMost(t.sinceCommand + n, SuppressTime)
             window == AtLeast(t.window - n, -1)
             status == AtLeast(t.status - n, 0)
             cooling == AtMost(t.sinceCapture + n, Cooldown)
             carrier == IF t.carrier = CarrierOff THEN CarrierOff
                        ELSE AtLeast(t.carrier - n, 0)
  <1>1. Longest(Windows) \in Nat /\ Longest(Delays) \in Nat
    BY LongestBounds
  <1>2. /\ t.now \in 0 .. (ClockPeriod - 1) /\ t.suppressUntil \in 0 .. (ClockPeriod - 1)
        /\ t.sinceCommand \in 0 .. SuppressTime /\ t.window \in -1 .. Longest(Windows)
        /\ t.status \in 0 .. StatusPeriod /\ t.sinceCapture \in 0 .. Cooldown
        /\ t.carrier \in CarrierOff .. Longest(Delays)
    BY DEF TimerStates
  <1>3. now \in 0 .. (ClockPeriod - 1)
    <2>1. t.now + n \in Nat
      BY <1>2, Times
    <2> QED BY <2>1, Times
  <1>4. since \in 0 .. SuppressTime /\ cooling \in 0 .. Cooldown
    BY <1>2, Times DEF AtMost
  <1>5. window \in -1 .. Longest(Windows) /\ status \in 0 .. StatusPeriod
    BY <1>1, <1>2, Times DEF AtLeast
  <1>6. carrier \in CarrierOff .. Longest(Delays)
    BY <1>1, <1>2 DEF AtLeast, CarrierOff
  <1>7. Elapsed(t, n) = [t EXCEPT !.now = now, !.sinceCommand = since, !.window = window,
                                  !.status = status, !.sinceCapture = cooling,
                                  !.carrier = carrier]
    BY DEF Elapsed
  <1> HIDE DEF now, since, window, status, cooling, carrier
  <1>8. /\ Elapsed(t, n) \in TimerStates
        /\ Elapsed(t, n).window = window
    BY <1>3, <1>4, <1>5, <1>6, <1>7 DEF TimerStates
  <1> QED BY <1>8 DEF window

\* A heartbeat and the start of a cooldown set one timer each.
LEMMA HeartbeatTyped ==
    ASSUME NEW t \in TimerStates
    PROVE  Heartbeat(t) \in TimerStates /\ Heartbeat(t).window = t.window
  BY Times DEF Heartbeat, TimerStates

LEMMA CooldownTyped ==
    ASSUME NEW t \in TimerStates
    PROVE  /\ [t EXCEPT !.sinceCapture = 0] \in TimerStates
           /\ [t EXCEPT !.carrier = CarrierOff, !.sinceCapture = 0] \in TimerStates
           /\ [t EXCEPT !.sinceCapture = 0].window = t.window
  <1>1. Longest(Delays) \in Nat
    BY LongestBounds
  <1>2. CarrierOff \in CarrierOff .. Longest(Delays) /\ 0 \in 0 .. Cooldown
    BY <1>1, Times DEF CarrierOff
  <1> QED BY <1>2 DEF TimerStates

\* What loop() reads after the heartbeat.
LEMMA LoopTyped ==
    ASSUME TypeOK, NEW t, t = Heartbeat(Elapsed(timers, 1))
    PROVE  /\ t \in TimerStates
           /\ AfterCapture(t) \in TimerStates
           /\ t.window = AtLeast(timers.window - 1, -1)
           /\ StillOpen(t) \in BOOLEAN
  <1>1. timers \in TimerStates /\ learning \in BOOLEAN
    BY DEF TypeOK
  <1>2. t \in TimerStates /\ t.window = AtLeast(timers.window - 1, -1)
    BY <1>1, ElapsedTyped, HeartbeatTyped
  <1>3. AfterCapture(t) \in TimerStates
    BY <1>2, CooldownTyped, ElapsedTyped, Times DEF AfterCapture
  <1>4. StillOpen(t) \in BOOLEAN
    BY <1>1 DEF StillOpen
  <1> QED BY <1>2, <1>3, <1>4

\* A transmission takes time and starts a cooldown.
LEMMA TransmissionTyped ==
    ASSUME NEW t \in TimerStates, NEW u \in AfterTransmission(t)
    PROVE  u \in TimerStates
  <1>1. PICK d \in Delays : u = [Elapsed(t, d) EXCEPT !.sinceCapture = 0]
    BY DEF AfterTransmission
  <1> QED BY <1>1, Times, ElapsedTyped, CooldownTyped

\* The command that is attached to a capture is the frame heard in it.
LEMMA LearnedNowIsHeard ==
    ASSUME TypeOK, LearnedIsHeard, Captures >= 1, LearnedNow
    PROVE  learned.frame \in Frames /\ heard[Captures] = learned.frame
  BY DEF TypeOK, LearnedIsHeard, LearnedNow, Captures

\* The captures of the sequence are ones that were taken.
LEMMA StoredTyped ==
    ASSUME TypeOK
    PROVE  \A i \in DOMAIN stored :
              stored[i].capture \in 1 .. Captures /\ stored[i].frame \in Frames \cup {0}
  <1> DEFINE A == [capture : 1 .. Captures, decoded : BOOLEAN, edges : 0 .. Captures,
                   frame : Frames \cup {0}]
  <1>1. stored \in Seq(A)
    BY DEF TypeOK
  <1>2. \A a \in A : a.capture \in 1 .. Captures /\ a.frame \in Frames \cup {0}
    OBVIOUS
  <1> HIDE DEF A
  <1> QED BY <1>1, <1>2

\* The commands an empty learned state or a call leaves.
LEMMA LearnedTyped ==
    ASSUME heard \in Seq(Outcomes)
    PROVE  /\ Captures \in Nat
           /\ NothingLearned \in [valid : BOOLEAN, frame : Frames \cup ManualFrames \cup {0},
                                 capture : 0 .. Captures]
           /\ \A f \in ManualFrames :
                 [valid |-> TRUE, frame |-> f, capture |-> 0]
                    \in [valid : BOOLEAN, frame : Frames \cup ManualFrames \cup {0},
                        capture : 0 .. Captures]
  <1>1. Captures \in Nat /\ 0 \in 0 .. Captures
    BY DEF Captures
  <1>2. [valid |-> FALSE, frame |-> 0, capture |-> 0]
           \in [valid : BOOLEAN, frame : Frames \cup ManualFrames \cup {0}, capture : 0 .. Captures]
    BY <1>1
  <1>3. ASSUME NEW f \in ManualFrames
        PROVE  [valid |-> TRUE, frame |-> f, capture |-> 0]
                  \in [valid : BOOLEAN, frame : Frames \cup ManualFrames \cup {0},
                      capture : 0 .. Captures]
    BY <1>1
  <1> QED BY <1>1, <1>2, <1>3 DEF NothingLearned

-----------------------------------------------------------------------------
(* What most calls do: they touch the timers and the window. *)

\* A step that leaves what was heard, learned and stored alone.
LEMMA TimersMove ==
    ASSUME IInv, timers' \in TimerStates, learning' \in BOOLEAN, buffer' = 0 \/ buffer' = buffer,
           UNCHANGED <<heard, learned, stored, phase>>
    PROVE  IInv'
  <1>1. heard' = heard /\ learned' = learned /\ stored' = stored /\ phase' = phase
    OBVIOUS
  <1>2. TypeOK'
    <2>1. buffer' \in {0, Captures'}
      BY <1>1 DEF IInv, TypeOK, Captures
    <2> QED BY <1>1, <2>1 DEF IInv, TypeOK, Captures
  <1>3. StoredAreHeard' /\ LearnedIsHeard' /\ FinishingIsNewest'
    BY <1>1 DEF IInv, StoredAreHeard, LearnedIsHeard, FinishingIsNewest, Captures
  <1> QED BY <1>2, <1>3 DEF IInv

\* loop() when it captures nothing, or too little.
LEMMA LoopTimersInv ==
    ASSUME IInv, NEW t, t = Heartbeat(Elapsed(timers, 1)), phase = "idle",
           LoopCarrier(t) \/ LoopQuiet(t) \/ LoopDiscard(t)
    PROVE  IInv'
  <1>1. /\ t \in TimerStates /\ AfterCapture(t) \in TimerStates /\ StillOpen(t) \in BOOLEAN
        /\ [t EXCEPT !.carrier = CarrierOff, !.sinceCapture = 0] \in TimerStates
        /\ learning \in BOOLEAN /\ buffer \in {0, Captures}
    BY LoopTyped, CooldownTyped DEF IInv, TypeOK
  <1>2. CASE LoopCarrier(t)
    BY <1>1, <1>2, TimersMove DEF LoopCarrier
  <1>3. CASE LoopQuiet(t)
    BY <1>1, <1>3, TimersMove DEF LoopQuiet
  <1>4. CASE LoopDiscard(t)
    <2>1. /\ timers' = AfterCapture(t) /\ learning' = StillOpen(t) /\ buffer' = 0
          /\ UNCHANGED <<heard, learned, stored, phase>>
      BY <1>4 DEF LoopDiscard
    <2> QED BY <1>1, <2>1, TimersMove
  <1> QED BY <1>2, <1>3, <1>4

-----------------------------------------------------------------------------
(* A capture, its learning and its place in the sequence. *)

\* rx_finish_capture_ takes the next number; what was heard before keeps its own.
LEMMA HeardGrows ==
    ASSUME TypeOK, NEW o \in Outcomes, heard' = Append(heard, o)
    PROVE  /\ Captures' = Captures + 1 /\ Captures \in Nat
           /\ heard' \in Seq(Outcomes)
           /\ \A c \in 1 .. Captures : heard'[c] = heard[c]
           /\ heard'[Captures + 1] = o
  BY DEF TypeOK, Captures

\* A capture that is decoded is learned from before it is stored.
LEMMA LoopCaptureInv ==
    ASSUME IInv, NEW t, t = Heartbeat(Elapsed(timers, 1)), phase = "idle", LoopCapture(t)
    PROVE  IInv'
  <1>1. /\ t \in TimerStates /\ AfterCapture(t) \in TimerStates /\ StillOpen(t) \in BOOLEAN
    BY LoopTyped DEF IInv
  <1>2. PICK o \in Outcomes :
          /\ heard' = Append(heard, o)
          /\ learned' = IF learning' /\ Complete(o)
                        THEN [valid |-> TRUE, frame |-> o, capture |-> Captures + 1]
                        ELSE learned
          /\ phase' = IF Complete(o) /\ Reports(timers') THEN "event" ELSE "store"
    BY DEF LoopCapture
  <1>3. /\ timers' = AfterCapture(t) /\ learning' = StillOpen(t) /\ buffer' = Captures + 1
        /\ stored' = stored /\ Captures < MaxCaptures
    BY DEF LoopCapture
  <1>4. /\ Captures' = Captures + 1 /\ Captures \in Nat
        /\ heard' \in Seq(Outcomes)
        /\ \A c \in 1 .. Captures : heard'[c] = heard[c]
        /\ heard'[Captures + 1] = o
    BY <1>2, HeardGrows DEF IInv
  <1>5. \/ learned' = learned
        \/ /\ learned' = [valid |-> TRUE, frame |-> o, capture |-> Captures + 1]
           /\ o \in Frames
    BY <1>2 DEF Complete
  <1>6. TypeOK'
    <2>1. learned' \in [valid : BOOLEAN, frame : Frames \cup ManualFrames \cup {0},
                        capture : 0 .. Captures']
      <3>1. /\ learned \in [valid : BOOLEAN, frame : Frames \cup ManualFrames \cup {0},
                            capture : 0 .. Captures]
            /\ 0 .. Captures \subseteq 0 .. Captures' /\ Captures + 1 \in 0 .. Captures'
        BY <1>4 DEF IInv, TypeOK
      <3>2. CASE learned' = learned
        BY <3>1, <3>2
      <3>3. CASE /\ learned' = [valid |-> TRUE, frame |-> o, capture |-> Captures + 1]
                 /\ o \in Frames
        BY <3>1, <3>3
      <3> QED BY <1>5, <3>2, <3>3
    <2>2. stored' \in Seq([capture : 1 .. Captures', decoded : BOOLEAN,
                           edges : 0 .. Captures', frame : Frames \cup {0}])
      <3> DEFINE A == [capture : 1 .. Captures, decoded : BOOLEAN,
                       edges : 0 .. Captures, frame : Frames \cup {0}]
                 B == [capture : 1 .. Captures', decoded : BOOLEAN,
                       edges : 0 .. Captures', frame : Frames \cup {0}]
      <3>1. stored \in Seq(A)
        BY DEF IInv, TypeOK
      <3>2. A \subseteq B
        BY <1>4
      <3> HIDE DEF A, B
      <3>3. stored \in Seq(B)
        BY <3>1, <3>2
      <3> QED BY <1>3, <3>3 DEF B
    <2>3. Captures' <= MaxCaptures
      BY <1>3, <1>4, BoundsAssumption
    <2>4. phase' \in {"idle", "event", "store"} /\ Len(stored') <= MaxFrames
      BY <1>2, <1>3 DEF IInv, TypeOK
    <2> QED BY <1>1, <1>3, <1>4, <2>1, <2>2, <2>3, <2>4 DEF TypeOK
  <1>7. \A i \in DOMAIN stored : stored[i].capture \in 1 .. Captures
    BY StoredTyped DEF IInv
  <1>8. StoredAreHeard'
    BY <1>3, <1>4, <1>7 DEF IInv, StoredAreHeard
  <1>9. LearnedIsHeard'
    <2>1. CASE learned' = learned
      <3>1. learned.capture \in 0 .. Captures
        BY DEF IInv, TypeOK
      <3> QED BY <1>3, <1>4, <2>1, <3>1 DEF IInv, LearnedIsHeard
    <2>2. CASE /\ learned' = [valid |-> TRUE, frame |-> o, capture |-> Captures + 1]
               /\ o \in Frames
      BY <1>3, <1>4, <1>7, <2>2 DEF LearnedIsHeard
    <2> QED BY <1>5, <2>1, <2>2
  <1>10. FinishingIsNewest'
    BY <1>3, <1>4, <1>7 DEF FinishingIsNewest
  <1> QED BY <1>6, <1>8, <1>9, <1>10 DEF IInv

\* sequence_store_current_capture_ appends the newest capture, or nothing.
LEMMA StoreInv ==
    ASSUME IInv, Store
    PROVE  IInv'
  <1> DEFINE s == [capture |-> Captures, decoded |-> LearnedNow, edges |-> buffer,
                   frame |-> IF LearnedNow THEN learned.frame ELSE 0]
  <1>1. /\ phase # "idle" /\ phase' = "idle" /\ timers' = timers /\ heard' = heard
        /\ buffer' = buffer /\ learned' = learned /\ learning' \in BOOLEAN
        /\ Captures' = Captures
        /\ learning' => ~Full
        /\ stored' = IF learning' THEN Append(stored, s) ELSE stored
    BY DEF Store, Captures
  <1>2. /\ Captures \in Nat /\ Captures >= 1 /\ buffer \in {0, Captures}
        /\ Len(stored) <= MaxFrames /\ learned.capture \in 0 .. Captures
        /\ \A i \in DOMAIN stored : stored[i].capture < Captures
    BY <1>1 DEF IInv, TypeOK, FinishingIsNewest, Captures
  <1>3. LearnedNow \in BOOLEAN
    BY DEF LearnedNow
  <1>4. LearnedNow =>
           /\ learned.frame \in Frames /\ heard[Captures] = learned.frame
           /\ learned.capture = Captures
    BY <1>2, LearnedNowIsHeard DEF IInv, LearnedNow
  <1>5. /\ s \in [capture : 1 .. Captures, decoded : BOOLEAN, edges : 0 .. Captures,
                  frame : Frames \cup {0}]
        /\ s.capture = Captures /\ s.edges = buffer
        /\ s.decoded => heard[Captures] = s.frame /\ learned.capture = Captures
    BY <1>2, <1>3, <1>4
  <1> HIDE DEF s
  <1>6. CASE ~learning'
    <2>1. TypeOK'
      BY <1>1, <1>6 DEF IInv, TypeOK
    <2>2. StoredAreHeard' /\ LearnedIsHeard'
      BY <1>1, <1>6 DEF IInv, StoredAreHeard, LearnedIsHeard
    <2> QED BY <1>1, <2>1, <2>2 DEF IInv, FinishingIsNewest
  <1>7. CASE learning'
    <2>1. stored' = Append(stored, s) /\ Len(stored) < MaxFrames
      BY <1>1, <1>2, <1>7, BoundsAssumption DEF Full
    <2> DEFINE A == [capture : 1 .. Captures, decoded : BOOLEAN, edges : 0 .. Captures,
                     frame : Frames \cup {0}]
    <2>2. stored \in Seq(A) /\ s \in A
      BY <1>5 DEF IInv, TypeOK
    <2> HIDE DEF A
    <2>3. /\ stored' \in Seq(A) /\ Len(stored') = Len(stored) + 1
          /\ DOMAIN stored = 1 .. Len(stored) /\ DOMAIN stored' = 1 .. Len(stored) + 1
          /\ \A i \in DOMAIN stored : stored'[i] = stored[i]
          /\ stored'[Len(stored) + 1] = s /\ Len(stored) \in Nat
      BY <2>1, <2>2
    <2>4. \A i \in DOMAIN stored' : i \in DOMAIN stored \/ i = Len(stored) + 1
      BY <2>3
    <2>5. TypeOK'
      <3>1. stored' \in Seq([capture : 1 .. Captures', decoded : BOOLEAN,
                             edges : 0 .. Captures', frame : Frames \cup {0}])
        BY <1>1, <2>3 DEF A
      <3>2. Len(stored') <= MaxFrames
        BY <2>1, <2>3, BoundsAssumption
      <3> QED BY <1>1, <3>1, <3>2 DEF IInv, TypeOK
    <2>6. StoredAreHeard'
      <3>1. ASSUME NEW i \in DOMAIN stored', NEW j \in DOMAIN stored', i < j
            PROVE  stored'[i].capture < stored'[j].capture
        <4>1. i \in DOMAIN stored
          BY <2>3, <3>1
        <4>2. CASE j \in DOMAIN stored
          BY <2>3, <3>1, <4>1, <4>2 DEF IInv, StoredAreHeard
        <4>3. CASE j = Len(stored) + 1
          BY <1>2, <1>5, <2>3, <4>1, <4>3
        <4> QED BY <2>4, <4>2, <4>3
      <3>2. ASSUME NEW i \in DOMAIN stored'
            PROVE  /\ stored'[i].edges \in {0, stored'[i].capture}
                   /\ stored'[i].decoded => heard'[stored'[i].capture] = stored'[i].frame
        <4>1. CASE i \in DOMAIN stored
          BY <1>1, <2>3, <4>1 DEF IInv, StoredAreHeard
        <4>2. CASE i = Len(stored) + 1
          BY <1>1, <1>2, <1>5, <2>3, <4>2
        <4> QED BY <2>4, <4>1, <4>2
      <3> QED BY <3>1, <3>2 DEF StoredAreHeard
    <2>7. LearnedIsHeard'
      <3>1. ASSUME learned.capture # 0, NEW i \in DOMAIN stored', stored'[i].decoded
            PROVE  stored'[i].capture <= learned.capture
        <4>1. CASE i \in DOMAIN stored
          BY <2>3, <3>1, <4>1 DEF IInv, LearnedIsHeard
        <4>2. CASE i = Len(stored) + 1
          BY <1>2, <1>5, <2>3, <3>1, <4>2
        <4> QED BY <2>4, <4>1, <4>2
      <3> QED BY <1>1, <3>1 DEF IInv, LearnedIsHeard
    <2> QED BY <1>1, <2>5, <2>6, <2>7 DEF IInv, FinishingIsNewest
  <1> QED BY <1>6, <1>7

-----------------------------------------------------------------------------
(* The calls of the automations and of other components. *)

\* start_rf_sequence_capture and clear_rf_sequence empty the sequence.
LEMMA SequenceCallsInv ==
    ASSUME IInv, StartLearn \/ ClearSequence
    PROVE  IInv'
  <1>1. /\ stored' = <<>> /\ heard' = heard /\ buffer' = buffer /\ phase' = phase
        /\ learning' \in BOOLEAN /\ learned' \in {NothingLearned, learned}
        /\ Captures' = Captures
    BY DEF StartLearn, ClearSequence, Captures
  <1>2. timers' \in TimerStates
    <2>1. Longest(Windows) \in Nat /\ \A d \in Windows : d <= Longest(Windows) /\ d \in Nat
      BY LongestBounds, Times
    <2>2. PICK d \in Windows \cup {-1} : timers' = [timers EXCEPT !.window = d]
      BY DEF StartLearn, ClearSequence
    <2>3. d \in -1 .. Longest(Windows)
      BY <2>1, <2>2
    <2> QED BY <2>2, <2>3 DEF IInv, TypeOK, TimerStates
  <1>3. learned' \in [valid : BOOLEAN, frame : Frames \cup ManualFrames \cup {0},
                      capture : 0 .. Captures]
    BY <1>1, LearnedTyped DEF IInv, TypeOK
  <1>4. TypeOK'
    BY <1>1, <1>2, <1>3, BoundsAssumption DEF IInv, TypeOK
  <1>5. StoredAreHeard' /\ LearnedIsHeard' /\ FinishingIsNewest'
    BY <1>1 DEF IInv, StoredAreHeard, LearnedIsHeard, FinishingIsNewest, NothingLearned
  <1> QED BY <1>4, <1>5 DEF IInv

\* clear_outprize_learned_command and set_outprize_learned_frame: the command they
\* leave was not heard.
LEMMA LearnedCallsInv ==
    ASSUME IInv, ClearLearned \/ SetLearned
    PROVE  IInv'
  <1>1. /\ UNCHANGED <<timers, learning, heard, buffer, stored, phase>>
        /\ Captures' = Captures
    BY DEF ClearLearned, SetLearned, Captures
  <1>2. /\ learned' \in [valid : BOOLEAN, frame : Frames \cup ManualFrames \cup {0},
                         capture : 0 .. Captures]
        /\ learned'.capture = 0
    <2>1. CASE learned' = NothingLearned
      BY <2>1, LearnedTyped DEF IInv, TypeOK, NothingLearned
    <2>2. CASE \E f \in ManualFrames : learned' = [valid |-> TRUE, frame |-> f, capture |-> 0]
      BY <2>2, LearnedTyped DEF IInv, TypeOK
    <2> QED BY <2>1, <2>2 DEF ClearLearned, SetLearned
  <1>3. TypeOK'
    BY <1>1, <1>2 DEF IInv, TypeOK
  <1>4. StoredAreHeard' /\ LearnedIsHeard' /\ FinishingIsNewest'
    BY <1>1, <1>2 DEF IInv, StoredAreHeard, LearnedIsHeard, FinishingIsNewest
  <1> QED BY <1>3, <1>4 DEF IInv

\* A transmission, whether or not it withholds the frames that follow it.
LEMMA TransmissionCallsInv ==
    ASSUME IInv, Command \/ Transmit
    PROVE  IInv'
  <1>1. timers \in TimerStates
    BY DEF IInv, TypeOK
  <1>2. PICK t \in TimerStates : timers' = t \/ timers' \in AfterTransmission(t)
    <2>1. CASE Command
      <3> DEFINE until == (timers.now + SuppressTime) % ClockPeriod
                 t == [timers EXCEPT !.suppressUntil = until, !.sinceCommand = 0]
      <3>0. 0 \in 0 .. SuppressTime
        BY Times
      <3>1. until \in 0 .. (ClockPeriod - 1)
        <4>1. timers.now + SuppressTime \in Nat
          BY <1>1, Times DEF TimerStates
        <4> QED BY <4>1, Times
      <3>2. timers' = t \/ timers' \in AfterTransmission(t)
        BY <2>1 DEF Command
      <3> HIDE DEF until
      <3>3. t \in TimerStates
        BY <1>1, <3>0, <3>1 DEF TimerStates
      <3> QED BY <3>2, <3>3
    <2>2. CASE Transmit
      BY <1>1, <2>2 DEF Transmit
    <2> QED BY <2>1, <2>2
  <1>3. timers' \in TimerStates
    BY <1>2, TransmissionTyped
  <1>4. UNCHANGED <<learning, heard, learned, stored, phase>> /\ (buffer' = 0 \/ buffer' = buffer)
    BY DEF Command, Transmit
  <1>5. learning' \in BOOLEAN
    BY <1>4 DEF IInv, TypeOK
  <1> QED BY <1>3, <1>4, <1>5, TimersMove

\* start_carrier_test.
LEMMA StartCarrierInv ==
    ASSUME IInv, StartCarrier
    PROVE  IInv'
  <1>1. PICK d \in Delays : timers' = [timers EXCEPT !.carrier = d]
    BY DEF StartCarrier
  <1>2. d \in CarrierOff .. Longest(Delays)
    BY LongestBounds, Times DEF CarrierOff
  <1>3. timers' \in TimerStates
    BY <1>1, <1>2 DEF IInv, TypeOK, TimerStates
  <1>4. UNCHANGED <<learning, heard, buffer, learned, stored, phase>> /\ learning' \in BOOLEAN
    BY DEF StartCarrier, IInv, TypeOK
  <1> QED BY <1>3, <1>4, TimersMove

-----------------------------------------------------------------------------
(* The invariant is inductive. *)

\* setup() leaves nothing heard, learned or stored.
LEMMA InitInv == Init => IInv
  <1> SUFFICES ASSUME Init
               PROVE  IInv
    OBVIOUS
  <1>1. Captures = 0 /\ heard = <<>> /\ stored = <<>> /\ learned = NothingLearned
    BY DEF Init, Captures
  <1>2. timers \in TimerStates
    <2>1. Longest(Windows) \in Nat /\ Longest(Delays) \in Nat
      BY LongestBounds
    <2>2. /\ 0 \in 0 .. (ClockPeriod - 1) /\ SuppressTime \in 0 .. SuppressTime
          /\ -1 \in -1 .. Longest(Windows) /\ StatusPeriod \in 0 .. StatusPeriod
          /\ 0 \in 0 .. Cooldown /\ CarrierOff \in CarrierOff .. Longest(Delays)
      BY <2>1, Times DEF CarrierOff
    <2> QED BY <2>2 DEF Init, TimerStates
  <1>3. TypeOK
    <2>1. heard \in Seq(Outcomes) /\ stored \in Seq([capture : 1 .. Captures, decoded : BOOLEAN,
                                                    edges : 0 .. Captures, frame : Frames \cup {0}])
      BY <1>1
    <2>2. Captures <= MaxCaptures /\ Len(stored) <= MaxFrames
      BY <1>1, BoundsAssumption
    <2> QED BY <1>1, <1>2, <2>1, <2>2, LearnedTyped DEF Init, TypeOK
  <1>4. StoredAreHeard /\ LearnedIsHeard /\ FinishingIsNewest
    BY <1>1 DEF Init, StoredAreHeard, LearnedIsHeard, FinishingIsNewest, NothingLearned
  <1> QED BY <1>3, <1>4 DEF IInv

\* Every step keeps the invariant.
LEMMA NextInv == IInv /\ [Next]_vars => IInv'
  <1> SUFFICES ASSUME IInv, [Next]_vars
               PROVE  IInv'
    OBVIOUS
  <1>1. CASE Loop
    <2>1. PICK t : /\ t = Heartbeat(Elapsed(timers, 1)) /\ phase = "idle"
                   /\ LoopCarrier(t) \/ LoopQuiet(t) \/ LoopDiscard(t) \/ LoopCapture(t)
      BY <1>1 DEF Loop
    <2> QED BY <2>1, LoopTimersInv, LoopCaptureInv
  <1>2. CASE Store
    BY <1>2, StoreInv
  <1>3. CASE StartLearn \/ ClearSequence
    BY <1>3, SequenceCallsInv
  <1>4. CASE ClearLearned \/ SetLearned
    BY <1>4, LearnedCallsInv
  <1>5. CASE Command \/ Transmit
    BY <1>5, TransmissionCallsInv
  <1>6. CASE StartCarrier
    BY <1>6, StartCarrierInv
  <1>7. CASE UNCHANGED vars
    BY <1>7 DEF vars, IInv, TypeOK, StoredAreHeard, LearnedIsHeard, FinishingIsNewest, Captures
  <1> QED BY <1>1, <1>2, <1>3, <1>4, <1>5, <1>6, <1>7 DEF Next, Call

\* The inductive invariant of Reception: its types, what is stored and learned was
\* heard, and a capture that is being finished is newer than all that are stored.
THEOREM Inductive == Spec => []IInv
  <1> QED BY InitInv, NextInv, PTL DEF Spec

\* The sequence never holds more than RF_SEQUENCE_MAX_FRAMES captures, the length
\* of its arrays, and every timer stays in its range across the wraps of millis().
THEOREM TypeCorrect == Spec => []TypeOK
  <1>1. IInv => TypeOK
    BY DEF IInv
  <1> QED BY <1>1, Inductive, PTL

\* The sequence holds different captures in the order they were taken, each with its
\* own edges or none and with a command only if it was heard in that very capture,
\* whatever an automation of on_outprize_frame calls before the capture is stored.
THEOREM StoredAlwaysHeard == Spec => []StoredAreHeard
  <1>1. IInv => StoredAreHeard
    BY DEF IInv
  <1> QED BY <1>1, Inductive, PTL

\* A command that was learned from the air is a complete frame that was heard, and
\* the sequence holds no newer command.
THEOREM LearnedAlwaysHeard == Spec => []LearnedIsHeard
  <1>1. IInv => LearnedIsHeard
    BY DEF IInv
  <1> QED BY <1>1, Inductive, PTL

\* rx_poll_ learns from a capture only when the window, as loop() has just found it,
\* was still open when the capture began: RF traffic outside it never overwrites the
\* learned command.
THEOREM LearningStartsInWindow == Spec => LearnStartsInWindow
  <1>1. ASSUME IInv, [Next]_vars, learned' # learned, learned'.capture > Captures
        PROVE  learning /\ timers.window >= 1
    <2>1. Captures \in Nat /\ learned.capture \in 0 .. Captures
      BY <1>1 DEF IInv, TypeOK, Captures
    <2>2. ~(StartLearn \/ ClearSequence \/ ClearLearned \/ SetLearned)
      BY <1>1, <2>1 DEF StartLearn, ClearSequence, ClearLearned, SetLearned, NothingLearned
    <2>3. ~(Command \/ Transmit \/ StartCarrier \/ Store)
      BY <1>1 DEF Command, Transmit, StartCarrier, Store
    <2>4. Loop
      BY <1>1, <2>2, <2>3 DEF Next, Call, vars
    <2>5. PICK t : /\ t = Heartbeat(Elapsed(timers, 1))
                   /\ LoopCarrier(t) \/ LoopQuiet(t) \/ LoopDiscard(t) \/ LoopCapture(t)
      BY <2>4 DEF Loop
    <2>6. LoopCapture(t)
      BY <1>1, <2>5 DEF LoopCarrier, LoopQuiet, LoopDiscard
    <2>7. StillOpen(t)
      BY <1>1, <2>6 DEF LoopCapture
    <2>8. t.window = AtLeast(timers.window - 1, -1) /\ timers \in TimerStates
      BY <1>1, <2>5, LoopTyped DEF IInv, TypeOK
    <2>9. timers.window \in Int
      <3>1. timers.window \in -1 .. Longest(Windows) /\ Longest(Windows) \in Nat
        BY <2>8, LongestBounds DEF TimerStates
      <3> QED BY <3>1
    <2> QED BY <2>7, <2>8, <2>9 DEF StillOpen, AtLeast
  <1>2. IInv /\ [Next]_vars
          => (learned' # learned /\ learned'.capture > Captures => learning /\ timers.window >= 1)
    BY <1>1
  <1> QED BY <1>2, Inductive, PTL DEF Spec, LearnStartsInWindow
=============================================================================
