------------------------------ MODULE Reception ------------------------------
(***************************************************************************)
(* What RFBridgeComponent does with what the CC1101 hears: loop() closes   *)
(* the learn window, rx_poll_ captures a window of edges when the RSSI is  *)
(* high, and a capture is decoded, learned from while the window is open,  *)
(* reported by on_outprize_frame unless it may be the echo of a command,   *)
(* and stored in the sequence buffer.  The automations of the event run    *)
(* between decoding and storing, on the same stack, and may call any       *)
(* method of the component: phase "event".                                 *)
(*                                                                         *)
(* Times are ticks.  millis() is a uint32_t that wraps: now counts modulo  *)
(* ClockPeriod.  The deadlines the code compares by a signed or unsigned   *)
(* difference do not depend on where the clock stands and are kept as      *)
(* distances; suppress_oem_until_ms_ is compared by value, and is kept so. *)
(***************************************************************************)
EXTENDS OutprizeCodec, Integers

CONSTANTS
    Frames,         \* Low24 words of complete frames that can be heard
    ManualFrames,   \* those that set_outprize_learned_frame is called with
    ClockPeriod,    \* 2^32 ms
    CaptureTicks,   \* RX_CAPTURE_WINDOW_US
    Cooldown,       \* RX_CAPTURE_COOLDOWN_MS
    LearnCooldown,  \* the 25 ms of a learn window
    SuppressTime,   \* the 300 ms after a command
    StatusPeriod,   \* the 10 s between heartbeats
    Windows,        \* learn windows: duration_ms clamped to 300 .. 5000
    Delays,         \* how long a transmission blocks, or a carrier test lasts
    MaxFrames,      \* RF_SEQUENCE_MAX_FRAMES
    MaxCaptures     \* bound: captures taken in a behaviour

\* Deadlines are compared by the sign of an int32_t: none is farther away.
LongestDelay == 2147483647

ASSUME FramesAssumption == Frames \cup ManualFrames \subseteq Words
ASSUME TimesAssumption ==
    /\ {CaptureTicks, Cooldown, LearnCooldown, SuppressTime, StatusPeriod} \subseteq Nat \ {0}
    /\ Windows \cup Delays \subseteq 1 .. LongestDelay
    /\ ClockPeriod \in Nat /\ ClockPeriod > SuppressTime
    /\ StatusPeriod > CaptureTicks
ASSUME BoundsAssumption == MaxFrames \in Nat \ {0} /\ MaxCaptures \in Nat

VARIABLES
    timers,     \* the clock and the deadlines
    learning,   \* sequence_active_
    heard,      \* observed: what each counted capture was; rx_packets_seen_ is its length
    buffer,     \* the capture whose edges are in rx_edges_, 0 when there are too few
    learned,    \* outprize_learned_*
    stored,     \* sequence_*, the captures of the learn window
    phase       \* "idle", or where the capture being finished stands

vars == <<timers, learning, heard, buffer, learned, stored, phase>>

CarrierOff == -1

Longest(S) == CHOOSE n \in S \cup {0} : \A m \in S : n >= m

TimerStates ==
    [now : 0 .. (ClockPeriod - 1),
     suppressUntil : 0 .. (ClockPeriod - 1),     \* suppress_oem_until_ms_
     sinceCommand : 0 .. SuppressTime,           \* observed, SuppressTime or more
     window : -1 .. Longest(Windows),       \* until sequence_until_ms_, -1 when past
     status : 0 .. StatusPeriod,                 \* until next_status_ms_, 0 when due
     sinceCapture : 0 .. Cooldown,               \* rx_last_capture_ms_, Cooldown or more
     carrier : CarrierOff .. Longest(Delays)]    \* until the carrier test is due

Unknown == -1   \* a capture that does not decode
Clipped == -2   \* one that decodes to fewer than 35 bits

Outcomes == {Unknown, Clipped} \cup Frames

NothingLearned == [valid |-> FALSE, frame |-> 0, capture |-> 0]

Captures == Len(heard)

-----------------------------------------------------------------------------
(* Time. *)

AtLeast(n, m) == IF n > m THEN n ELSE m
AtMost(n, m)  == IF n < m THEN n ELSE m

Elapsed(t, n) ==
    [t EXCEPT !.now = (t.now + n) % ClockPeriod,
              !.sinceCommand = AtMost(t.sinceCommand + n, SuppressTime),
              !.window = AtLeast(t.window - n, -1),
              !.status = AtLeast(t.status - n, 0),
              !.sinceCapture = AtMost(t.sinceCapture + n, Cooldown),
              !.carrier = IF t.carrier = CarrierOff THEN CarrierOff
                          ELSE AtLeast(t.carrier - n, 0)]

\* millis() >= suppress_oem_until_ms_.
Reports(t) == t.now >= t.suppressUntil

Init ==
    /\ timers = [now |-> 0, suppressUntil |-> 0, sinceCommand |-> SuppressTime,
                 window |-> -1, status |-> StatusPeriod, sinceCapture |-> 0, carrier |-> CarrierOff]
    /\ learning = FALSE
    /\ heard = <<>>
    /\ buffer = 0
    /\ learned = NothingLearned
    /\ stored = <<>>
    /\ phase = "idle"

-----------------------------------------------------------------------------
(* loop(). *)

\* Fault: the heartbeat is behind the early return of the carrier test.
StatusAfterCarrier(t) ==
    IF t.carrier = CarrierOff /\ t.status = 0 THEN [t EXCEPT !.status = StatusPeriod] ELSE t

\* bridge_status_callback_ when it is due.  A call made by its automations is one
\* made before loop(): what follows in loop() reads the clock again.
Heartbeat(t) == IF t.status = 0 THEN [t EXCEPT !.status = StatusPeriod] ELSE t

\* The carrier test: everything else waits until it is over.
LoopCarrier(t) ==
    /\ t.carrier # CarrierOff
    /\ IF t.carrier = 0
       THEN /\ timers' = [t EXCEPT !.carrier = CarrierOff, !.sinceCapture = 0]
            /\ buffer' = 0
       ELSE timers' = t /\ UNCHANGED buffer
    /\ UNCHANGED <<learning, heard, learned, stored, phase>>

\* Fault: the window is closed only when a capture is stored.
OpenAtAnyTime(t) == learning

\* sequence_active_ after loop()'s check.
StillOpen(t) == learning /\ t.window >= 0

\* rx_poll_ returns: the RSSI is low, or the cooldown has not passed.
LoopQuiet(t) ==
    /\ t.carrier = CarrierOff
    /\ timers' = t
    /\ learning' = StillOpen(t)
    /\ UNCHANGED <<heard, buffer, learned, stored, phase>>

MayCapture(t) ==
    /\ t.carrier = CarrierOff
    /\ t.sinceCapture >= (IF StillOpen(t) THEN LearnCooldown ELSE Cooldown)

\* rx_capture_window_ blocks and sets rx_last_capture_ms_ as it starts.
AfterCapture(t) == Elapsed([t EXCEPT !.sinceCapture = 0], CaptureTicks)

\* Fewer edges than RX_MIN_EDGES: not counted, but the edges are overwritten.
LoopDiscard(t) ==
    /\ MayCapture(t)
    /\ timers' = AfterCapture(t)
    /\ learning' = StillOpen(t)
    /\ buffer' = 0
    /\ UNCHANGED <<heard, learned, stored, phase>>

\* Fault: a clipped frame is learned as well.
LearnsClipped(outcome) == outcome # Unknown

\* bit_count >= OUTPRIZE_TX_BITS.
Complete(outcome) == outcome \in Frames

LoopCapture(t) ==
    /\ MayCapture(t)
    /\ Captures < MaxCaptures
    /\ timers' = AfterCapture(t)
    /\ learning' = StillOpen(t)
    /\ buffer' = Captures + 1
    /\ \E outcome \in Outcomes :
          /\ heard' = Append(heard, outcome)
          /\ learned' = IF learning' /\ Complete(outcome)
                        THEN [valid |-> TRUE, frame |-> outcome, capture |-> Captures + 1]
                        ELSE learned
          /\ phase' = IF Complete(outcome) /\ Reports(timers') THEN "event" ELSE "store"
    /\ UNCHANGED stored

Loop ==
    /\ phase = "idle"
    /\ LET t == Heartbeat(Elapsed(timers, 1))
       IN  LoopCarrier(t) \/ LoopQuiet(t) \/ LoopDiscard(t) \/ LoopCapture(t)

\* Fault: one frame too many.
FullLate == Len(stored) > MaxFrames

Full == Len(stored) >= MaxFrames

\* Fault: whatever was last learned counts as this capture's command.
LearnedSomething == heard[Captures] # Unknown /\ learned.valid

\* sequence_decoded_: the capture decoded, and the learned command is its own.
LearnedNow == heard[Captures] # Unknown /\ learned.capture = Captures

\* sequence_store_current_capture_, after the automations have returned.
Store ==
    /\ phase \in {"event", "store"}
    /\ phase' = "idle"
    /\ learning' = (learning /\ timers.window >= 0 /\ ~Full)
    /\ stored' = IF learning'
                 THEN Append(stored, [capture |-> Captures, decoded |-> LearnedNow, edges |-> buffer,
                                      frame |-> IF LearnedNow THEN learned.frame ELSE 0])
                 ELSE stored
    /\ UNCHANGED <<timers, heard, buffer, learned>>

-----------------------------------------------------------------------------
(* Calls, between two loops or from the automations of a frame. *)

Callable == phase \in {"idle", "event"}

StartLearn ==
    /\ Callable
    /\ \E d \in Windows : timers' = [timers EXCEPT !.window = d]
    /\ learning' = TRUE
    /\ stored' = <<>>
    /\ learned' = NothingLearned
    /\ UNCHANGED <<heard, buffer, phase>>

ClearSequence ==
    /\ Callable
    /\ timers' = [timers EXCEPT !.window = -1]
    /\ learning' = FALSE
    /\ stored' = <<>>
    /\ UNCHANGED <<heard, buffer, learned, phase>>

ClearLearned ==
    /\ Callable
    /\ learned' = NothingLearned
    /\ UNCHANGED <<timers, learning, heard, buffer, stored, phase>>

SetLearned ==
    /\ Callable
    /\ \E f \in ManualFrames : learned' = [valid |-> TRUE, frame |-> f, capture |-> 0]
    /\ UNCHANGED <<timers, learning, heard, buffer, stored, phase>>

\* Any transmission leaves the receiver with an empty buffer and a new cooldown.
AfterTransmission(t) ==
    {[Elapsed(t, d) EXCEPT !.sinceCapture = 0] : d \in Delays}

\* A call that sets suppress_oem_until_ms_ as it starts; with no transmitter
\* wired nothing else happens.
Command ==
    /\ Callable
    /\ LET t == [timers EXCEPT !.suppressUntil = (timers.now + SuppressTime) % ClockPeriod,
                               !.sinceCommand = 0]
       IN  \/ timers' \in AfterTransmission(t) /\ buffer' = 0
           \/ timers' = t /\ UNCHANGED buffer
    /\ UNCHANGED <<learning, heard, learned, stored, phase>>

\* A transmission that does not: the diagnostics, raw and recorder replays.
Transmit ==
    /\ Callable
    /\ timers' \in AfterTransmission(timers)
    /\ buffer' = 0
    /\ UNCHANGED <<learning, heard, learned, stored, phase>>

StartCarrier ==
    /\ Callable
    /\ timers.carrier = CarrierOff
    /\ \E d \in Delays : timers' = [timers EXCEPT !.carrier = d]
    /\ UNCHANGED <<learning, heard, buffer, learned, stored, phase>>

Call ==
    \/ StartLearn \/ ClearSequence \/ ClearLearned \/ SetLearned
    \/ Command \/ Transmit \/ StartCarrier

Next == Loop \/ Store \/ Call

\* The scheduler calls loop() for ever, and automations return.
Spec == Init /\ [][Next]_vars /\ WF_vars(Loop) /\ WF_vars(Store)

-----------------------------------------------------------------------------
(* Properties. *)

\* Every field keeps its type and the sequence never holds more than
\* RF_SEQUENCE_MAX_FRAMES captures, the length of its arrays.
TypeOK ==
    /\ timers \in TimerStates
    /\ learning \in BOOLEAN
    /\ heard \in Seq(Outcomes) /\ Captures <= MaxCaptures
    /\ buffer \in {0, Captures}
    /\ learned \in [valid : BOOLEAN, frame : Frames \cup ManualFrames \cup {0}, capture : 0 .. Captures]
    /\ stored \in Seq([capture : 1 .. Captures, decoded : BOOLEAN,
                       edges : 0 .. Captures, frame : Frames \cup {0}])
    /\ Len(stored) <= MaxFrames
    /\ phase \in {"idle", "event", "store"}

\* The sequence holds different captures in the order they were taken, each with
\* its own edges or with none, and a command is attached only to the capture it
\* was heard in: whatever the automations of a frame did to the learned command
\* and the window between decoding and storing.
StoredAreHeard ==
    /\ \A i, j \in DOMAIN stored : i < j => stored[i].capture < stored[j].capture
    /\ \A i \in DOMAIN stored :
          LET s == stored[i]
          IN  s.edges \in {0, s.capture} /\ (s.decoded => heard[s.capture] = s.frame)

\* A command learned from the air is a complete frame that was heard, and no
\* command in the sequence is newer than it.
LearnedIsHeard ==
    learned.capture # 0 =>
        /\ learned.valid
        /\ learned.frame \in Frames /\ heard[learned.capture] = learned.frame
        /\ \A i \in DOMAIN stored : stored[i].decoded => stored[i].capture <= learned.capture

\* "normal RF traffic outside this window does not overwrite the learned command"
\* (start_rf_sequence_capture): a capture that starts after the deadline is not
\* learned from, even if no loop() ran between the deadline and the capture.
LearnStartsInWindow ==
    [][learned' # learned /\ learned'.capture > Captures
         => learning /\ timers.window >= 1]_vars

\* A learn window ends whatever is heard in it, once no new window and no
\* carrier test, which holds loop() up, is started.
WindowCloses ==
    <>[][~(StartLearn \/ StartCarrier)]_vars => <>[]~learning

\* "Integrations use heartbeat expiry to mark devices unavailable" (docs/api.md):
\* a heartbeat that is due is sent, whatever is called and heard, carrier tests
\* one after another included.
HeartbeatGoesOn == []<>(timers.status > 0)

-----------------------------------------------------------------------------
(* What the documentation says, and the code does not always do. *)

\* A frame is withheld only for the SuppressTime after a command: docs/api.md,
\* "Emitted for every complete valid Outprize frame".  suppress_oem_until_ms_ is
\* compared by value, so after millis() wraps it lies in the future.
SuppressionIsBrief == ~Reports(timers) => timers.sinceCommand < SuppressTime
=============================================================================
