------------------------------ MODULE FanState ------------------------------
(***************************************************************************)
(* The cached fan state of RFBridgeComponent, outprize_state_, and what    *)
(* goes on the air for it.  Three things write to it or go past it:        *)
(*                                                                         *)
(*   - the set_outprize_* calls, which edit the cache and transmit it;     *)
(*   - the addressed sends of the Home Assistant integration, which        *)
(*     transmit a word and leave the cache alone;                          *)
(*   - frames of an OEM remote, which reach the cache only after the       *)
(*     on_outprize_frame automations have run.  Those run on the same      *)
(*     stack and may make any of the calls above.                          *)
(*                                                                         *)
(* Frames suppressed by suppress_oem_until_ms_ never get here; Reception   *)
(* models which ones are.  Transmissions block, so a call is one step.     *)
(***************************************************************************)
EXTENDS OutprizeCodec, Integers

CONSTANTS
    Speeds,          \* values of speed_percent that callers pass (uint8_t)
    Vents,           \* vent actions that callers pass
    OemWords,        \* Low24 words decoded from OEM frames
    RevisionPeriod   \* revision is a uint32_t

ASSUME SpeedAssumption == Speeds \subseteq 0 .. 255
ASSUME VentAssumption == Vents \subseteq VentCommands
ASSUME WordAssumption == OemWords \subseteq Words
ASSUME RevisionAssumption == RevisionPeriod \in Nat /\ RevisionPeriod > 2

VARIABLES
    cache,      \* outprize_state_
    pending,    \* the frame whose on_outprize_frame automations are running
    stxWired,   \* stx882_data_pin is configured
    last        \* observed: the last transmission

vars == <<cache, pending, stxWired, last>>

Sources == {"unknown", "home_assistant", "oem_remote"}

FanStates == [valid : BOOLEAN, low24 : Words, powered : BOOLEAN, speed : SpeedSteps,
              directionIn : BOOLEAN, rain : BOOLEAN, vent : VentCommands,
              source : Sources, revision : 0 .. (RevisionPeriod - 1)]

NoFrame == [own |-> FALSE, low24 |-> 0, running |-> FALSE, overtaken |-> FALSE]

\* own: from the configured remote.  overtaken: observed, a set_outprize_* call
\* was made after the frame was received.
Frames == [own : BOOLEAN, low24 : OemWords, running : {TRUE}, overtaken : BOOLEAN]

\* What a caller asks for; family is that of the words 0x60xxxx or 0x40xxxx.
Requests == [family : {Family60, Family40}, powered : BOOLEAN, speed : 0 .. 255,
             directionIn : BOOLEAN, rain : BOOLEAN, vent : VentCommands]

Request(family, powered, speed, directionIn, rain, vent) ==
    [family |-> family, powered |-> powered, speed |-> speed,
     directionIn |-> directionIn, rain |-> rain, vent |-> vent]

NothingSent == [path |-> "none", low24 |-> 0,
                request |-> Request(Family60, FALSE, 0, FALSE, FALSE, VentNone)]

-----------------------------------------------------------------------------
(* update_outprize_state_from_low24_ and the state a call builds on. *)

NextRevision(c) == (c.revision + 1) % RevisionPeriod

\* Fault: the low nibble unmasked.
UpdatedUnmasked(c, low24, source) ==
    [valid |-> TRUE, low24 |-> low24, powered |-> Powered(low24),
     speed |-> DecodeSpeed(low24), directionIn |-> DirectionIn(low24),
     rain |-> Rain(low24), vent |-> low24 % 16, source |-> source,
     revision |-> NextRevision(c)]

Updated(c, low24, source) ==
    [valid |-> TRUE, low24 |-> low24, powered |-> Powered(low24),
     speed |-> DecodeSpeed(low24), directionIn |-> DirectionIn(low24),
     rain |-> Rain(low24), vent |-> Vent(low24), source |-> source,
     revision |-> NextRevision(c)]

\* A call that changes one field starts from fan-off awake if nothing is cached.
Base == IF cache.valid THEN cache ELSE Updated(cache, FanOffAwake(Family60, VentNone), "home_assistant")

\* Fault: the cached word is sent as it was heard.
PowerOnRaw(b) ==
    [b EXCEPT !.powered = TRUE, !.source = "home_assistant", !.revision = NextRevision(b)]

\* Fault: the revision is left alone.
PowerOnSilent(b) ==
    [b EXCEPT !.powered = TRUE,
              !.low24 = EncodeLow24(b.speed, b.directionIn, b.rain, b.vent),
              !.source = "home_assistant"]

\* set_outprize_power(true) edits the fields itself instead of decoding them.
PowerOn(b) ==
    [b EXCEPT !.powered = TRUE,
              !.low24 = EncodeLow24(b.speed, b.directionIn, b.rain, b.vent),
              !.source = "home_assistant",
              !.revision = NextRevision(b)]

\* set_outprize_complete_state.
Complete(b, r) ==
    Updated(b, CompleteState(r.family, r.powered, r.speed, r.directionIn, r.rain, r.vent),
            "home_assistant")

-----------------------------------------------------------------------------
Init ==
    /\ cache = [valid |-> FALSE, low24 |-> Family60, powered |-> FALSE, speed |-> 0,
                directionIn |-> FALSE, rain |-> FALSE, vent |-> VentNone,
                source |-> "unknown", revision |-> 0]
    /\ pending = NoFrame
    /\ stxWired \in BOOLEAN
    /\ last = NothingSent

\* replay_manufactured_outprize_low24: without an STX882 nothing is sent, and
\* the caller has already updated everything else.
Air(path, low24, request) ==
    last' = IF stxWired THEN [path |-> path, low24 |-> low24, request |-> request]
                        ELSE last

\* transmit_cached_state_ of the state c.
TransmitCached(c, request) ==
    /\ cache' = c
    /\ Air("cached", c.low24, request)
    /\ pending' = [pending EXCEPT !.overtaken = pending.running]
    /\ UNCHANGED stxWired

SetCompleteState ==
    \E p, d, r \in BOOLEAN, s \in Speeds, v \in Vents :
        LET request == Request(Family60, p, s, d, r, v)
        IN  TransmitCached(Complete(cache, request), request)

SetPower ==
    \/ LET request == Request(Family60, FALSE, 0, FALSE, FALSE, VentNone)
       IN  TransmitCached(Complete(cache, request), request)
    \/ LET b == Base
       IN  TransmitCached(PowerOn(b),
                          Request(Family60, TRUE, b.speed, b.directionIn, b.rain, b.vent))

\* set_outprize_speed, _direction, _rain and _vent: one field changes.
SetOne(request) == TransmitCached(Complete(Base, request), request)

SetSpeed ==
    \E s \in Speeds :
        LET b == Base IN SetOne(Request(Family60, TRUE, s, b.directionIn, b.rain, b.vent))

SetDirection ==
    \E d \in BOOLEAN :
        LET b == Base IN SetOne(Request(Family60, b.powered, b.speed, d, b.rain, b.vent))

SetRain ==
    \E r \in BOOLEAN :
        LET b == Base IN SetOne(Request(Family60, b.powered, b.speed, b.directionIn, r, b.vent))

SetVent ==
    \E v \in Vents :
        LET b == Base IN SetOne(Request(Family60, b.powered, b.speed, b.directionIn, b.rain, v))

\* send_outprize_complete_state(_family): addressed, the cache is not consulted.
SendCompleteState ==
    \E f \in {Family60, Family40}, p, d, r \in BOOLEAN, s \in Speeds, v \in Vents :
        /\ Air("addressed", CompleteState(f, p, s, d, r, v), Request(f, p, s, d, r, v))
        /\ UNCHANGED <<cache, pending, stxWired>>

\* send_outprize_fan_off(_family).
SendFanOff ==
    \E f \in {Family60, Family40}, v \in Vents :
        /\ Air("addressed", FanOffAwake(f, v), Request(f, TRUE, 0, FALSE, FALSE, v))
        /\ UNCHANGED <<cache, pending, stxWired>>

Call ==
    \/ SetCompleteState \/ SetPower \/ SetSpeed \/ SetDirection \/ SetRain \/ SetVent
    \/ SendCompleteState \/ SendFanOff

\* A complete frame, not suppressed: its event is emitted and the automations of
\* on_outprize_frame start.
HearFrame ==
    /\ ~pending.running
    /\ pending' \in {f \in Frames : ~f.overtaken}
    /\ UNCHANGED <<cache, stxWired, last>>

\* They have returned; a frame of the configured remote goes into the cache.
CacheFrame ==
    /\ pending.running
    /\ cache' = IF pending.own THEN Updated(cache, pending.low24, "oem_remote") ELSE cache
    /\ pending' = NoFrame
    /\ UNCHANGED <<stxWired, last>>

Next == Call \/ HearFrame \/ CacheFrame

\* The automations of a frame end.
Spec == Init /\ [][Next]_vars /\ WF_vars(CacheFrame)

-----------------------------------------------------------------------------
(* Properties. *)

\* Every field keeps its type; vent_command stays a value of its enum whatever
\* nibble a remote sent.
TypeOK ==
    /\ cache \in FanStates
    /\ pending \in Frames \cup {NoFrame}
    /\ stxWired \in BOOLEAN
    /\ last \in [path : {"none", "cached", "addressed"}, low24 : Words, request : Requests]

\* The fields an automation reads are those of the cached word, also after
\* set_outprize_power(true), which edits fields and word apart.
CacheDecodes ==
    cache.valid =>
        /\ cache.powered = Powered(cache.low24)
        /\ cache.speed = DecodeSpeed(cache.low24)
        /\ cache.directionIn = DirectionIn(cache.low24)
        /\ cache.rain = Rain(cache.low24)
        /\ cache.vent = Vent(cache.low24)

\* Whatever a remote put into the cache before, the word that goes on the air is
\* one the protocol has, in the family asked for, and a fan decodes the caller's
\* request from it, the speed to the nearest step.
SentMatchesRequest ==
    last.path # "none" =>
        LET r == last.request
        IN  /\ last.low24 \in ProtocolWords(r.family)
            /\ Powered(last.low24) = r.powered
            /\ r.powered =>
                  /\ DecodeSpeed(last.low24) - r.speed <= 5
                  /\ r.speed <= 100 => r.speed - DecodeSpeed(last.low24) <= 5
                  /\ r.speed > 100 => DecodeSpeed(last.low24) = 100
                  /\ DirectionIn(last.low24) = r.directionIn
                  /\ Rain(last.low24) = r.rain
                  /\ Vent(last.low24) = r.vent

\* An observer of the revision misses no change of the state.
RevisionTracksChange ==
    [][cache' # cache => cache'.revision # cache.revision]_cache

-----------------------------------------------------------------------------
(* What the documentation says, and the code does not always do. *)

\* "track the last valid commanded state": a state commanded while the
\* automations of a frame run is newer than the frame, and stays.
NewerCommandKept ==
    [][pending.overtaken => cache'.source = "home_assistant"]_vars
=============================================================================
