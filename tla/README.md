# RF Bridge in TLA+

A model of `esphome/components/rfbridge`, the ESPHome component that receives,
decodes, learns, replays and sends 433.92 MHz OOK frames for Outprize vent
fans. Line numbers are those of `rfbridge.cpp` unless another file is named.

## The system

One ESP32 runs one component on the single main task of ESPHome. `loop()` and
every API method run there, never preempted by each other; a method that
transmits or captures blocks until it is done. Concurrency comes from

- the hardware: the CC1101, the GDO0 wire between it and the ESP, the STX882
  and SRX882 modules, the clock, and a reset at any moment;
- the carrier test, which returns with the transmitter on and is ended by
  `loop()`, so that any call may come in between;
- automations of `on_outprize_frame`, which run on the stack of the receive
  path, between decoding a capture and storing it, and may call any method.

| Component | State | Operations | What is hard, and what makes it correct |
|---|---|---|---|
| Radio front end | `cc1101_configured_`, `rx_enabled_`, `tx_*_value_`, `tx_carrier_*`, chip registers, GDO0 direction, STX pin | `setup`, CC1101 sends, raw replays, test burst, carrier test, STX882 sends, SRX882 capture | Preempted carrier tests, failed calibration, reset during TX. One transmitter at a time, no unattended carrier, back to listening after every path |
| Outprize codec | none | encode, decode, speed table | Rounding, unknown codes. Encode and decode agree with the protocol |
| Fan state and command API | `outprize_state_`, `suppress_oem_until_ms_` | `set_outprize_*`, `send_outprize_*` | Reentrant calls, two ways of editing the cache. Cache and word agree, the word sent is the request |
| Receive, learn, sequence | `rx_*`, `outprize_learned_*`, `sequence_*` | `loop`, capture, decode, event, learn window, clear, set | Deadlines against captures in progress, calls between decode and store, clock wrap. What is learned and stored was heard in the window |
| Frame decoder | `rx_edges_`, candidates on the stack | capture window, decode from an index, score, choice | Chatter, captures begun mid-frame, last gaps that run into pauses. What is reported was sent, and a clean repeat is found |
| Waveform builders | none | `tx_build_edge_deltas_`, CC1101 keying, canonical waveform | What is sent decodes to what was meant |
| SRX882 capture and RF recorder | `srx882_*`, `rf_recorder_status_` | raw capture, burst search, replay, clear | Full buffer, failed recordings, level parity. A recording is a burst that was heard, its replay is the command |
| Template analyzer | `outprize_template_*` | search for the alignment of a known frame | Shifted alignments. It finds the data where it is |
| Status heartbeat | `next_status_ms_`, `boot_id_` | periodic callback | Blocking calls and carrier tests. It is not starved |
| Diagnostics, SPI, code generation, dead `codecs/` directory, diagnostic firmware | – | – | No state other code reads |

Interactions: sends and captures pause and restore the receiver; every
transmission empties the capture buffer and restarts the cooldown; commands
start the suppression of echoes; a complete frame reaches the automations, then
the cache (its own remote only), then the sequence. `PROJECT.json` lists every
component with its status and every hazard at its line.

## Modules

| Module | Models |
|---|---|
| `HalfDuplex` | abstract: who owns the air; an owner gives it back; only a carrier test is preempted |
| `RadioBridge` | radio front end; refines `HalfDuplex` |
| `RadioBridgeProofs` | the inductive invariant of `RadioBridge` and its theorems |
| `RadioBridgeRefinement` | that every step of `RadioBridge` is one of `HalfDuplex` or a stutter |
| `OutprizeCodec` | the Low24 words; constant definitions, no `RECURSIVE` operator |
| `FanState` | the cached state, the command API and the frames that reach the cache |
| `FanStateProofs` | that the codec reads back what it writes, the inductive invariant of `FanState` and its theorems |
| `Reception` | `loop()` with its heartbeat, capture, learning, event, sequence |
| `ReceptionProofs` | the inductive invariant of `Reception` and its theorems |
| `Waveform` | frames, and the waves the three senders make of them; constant definitions |
| `WaveformProofs` | what the sums over intervals and the counts of those that end in time compute, that the three waves are ones a receiver can hear, and what stands in them, interval by interval |
| `OutprizeDecoder` | the capture window and `rx_log_outprize_decode_` on what it recorded; constant definitions |
| `FrameDecoder` | a transmission, a demodulator between carrier and GDO0, a capture begun anywhere, its decoding |
| `FrameDecoderProofs` | how words are read from edges, where recorded edges come from in the wave, which part of it arrives in time, the inductive invariant of `FrameDecoder` and its theorems |
| `TemplateAnalyzer` | the search for a known frame in a recording; constant definitions |
| `Recorder` | the SRX882 buffer, the recorder, its replays and the analysis |
| `RecorderProofs` | where the bursts of a window are in the buffer, the inductive invariant of `Recorder` and its theorems |
| `NatSets` | induction and recursion over the naturals, as facts about sets and functions, for the proofs |
| `MC*` | the instances TLC checks |

**RadioBridge.** A call is split where a listener on the air or the GDO0 wire
sees a difference: TX profile written (`setup`), calibrated, line driven, STX
strobed (`on`), bursts (`mark`, `gap`), SIDLE (`idle`), line released and RX
profile written (`restored`), return. `op` is the blocking call; API actions
need `Idle`, phases do not interleave with calls but do with `Tick` and
`Reboot`. `chip` keeps the registers in which the two profiles differ. Frames,
raw replays and test bursts share their phases and differ in the levels they
put on the line. `FinishCarrier` and the carrier-test early return are
`loop()`'s.

**FanState.** A call is one step, transmission included: nothing of this
component's state can be observed while it blocks. `HearFrame` starts the
automations of a frame, `CacheFrame` is the update after they return; every
call may come in between. `last` observes what went on the air and for which
request.

**Reception.** `Loop` is one iteration of `loop()`: carrier test and early
return, closing of the window, cooldown, and at most one capture with its
decoding, learning and event. `Store` is
`sequence_store_current_capture_`. The phase `event` between them is where
automations run. What a capture decodes to is nondeterministic: nothing
(`Unknown`), fewer than 35 bits (`Clipped`) or a complete frame. Distances
(window, cooldown, carrier) saturate; the clock and the suppression deadline
wrap with `ClockPeriod`, because the code compares that deadline by value. The
heartbeat is the first thing `Loop` does, as in the code, before the carrier
test may return.

**Waveform, OutprizeDecoder, FrameDecoder.** A wave is a sequence of durations
between changes of the carrier. Two writes of one level are one interval, which
is why the last gap of a CC1101 frame runs into the pause after it and that of
the canonical waveform, keyed the other way round, does not. The decoder is
`Decoded(edges)`: the counts that make a capture Outprize-like, a decode from
every pulse-like edge, the score, and the first best candidate. `FrameDecoder`
puts a demodulator between the two that lengthens one level by a `stretch` and
splits long pauses by chatter (`noise`), and starts captures in the middle of
waves. As in the code, an interval is recorded in 16 bits. `outcome` carries what `Reception` chooses nondeterministically.

**Recorder, TemplateAnalyzer.** What the SRX882 puts out in a window is one of
`Windows`, a list of bursts that each begin with the gap before them.
`StartRecorder` is the whole blocking call: acquisition, search, extraction or
failure, status. `heard` observes the window of a recording, `sent` what a
replay has put on the air. `ReplayIsTheCommand` runs a replay through
`StxWave` and `Decoded`: recorder, transmitter and decoder together.

## Runs

| Run | Shows |
|---|---|
| `radio` | every wiring, up to 3 repeats and captures per call, carrier tests of up to 3 ticks, one experimental register set and one trimmed frequency: eight safety and action properties, release of the transmitter, and refinement of `HalfDuplex` |
| `fan_state` | two speeds (one rounds up, one is above 100), two vent actions, OEM words of both families including POWER OFF and an unknown code |
| `reception` | one frame heard and one set by hand, two captures fill the sequence, three captures, windows long enough for a third |
| `decoder` | six frames (POWER OFF, 21 ones, two ones, 80, 90 and 100 %) sent by each path up to three times, captures begun at eleven places, three stretches, six kinds of chatter |
| `recorder` | nine windows: a command in chatter, late, after an odd number of edges, as long as is kept and longer, past a full buffer, after the window, chatter, silence; raw captures, clears, replays and analyses in any order |
| `radio_gdo0`, `radio_rx_profile`, `radio_quiet`, `fan_state_newer`, `reception_wrap`, `decoder_trusted`, `decoder_fast` | seven statements of comments and documents that the code does not keep; each is a finding in `PROJECT.json` |

Bounds. Three repeats cover below, at and above both ends of a clamp, and a
first, middle and last burst; three captures in a sequence replay cover first,
middle and last. Two register sets and frequencies suffice because the code
only copies them. `MaxFrames` = 2 and `MaxCaptures` = 3 in `reception` reach a
full sequence, a capture after it and one that ends past the deadline. `reception`
lets the clock wrap after two ticks, so that both outcomes of the suppression
test occur at any time; `reception_wrap` uses a longer clock so that the wrap is
not an artefact of it. The revision counter wraps at 3 in `fan_state`: a
property about consecutive values needs no more. `StatusPeriod` = 2 in
`reception` is longer than a capture, so that a heartbeat may become due in a
quiet loop, after a capture and in a carrier test.

The frames of `decoder` have the longest run of zeros, the most ones a
command can have (the longest there is) and hardly any (the test for four long
intervals fails), and speeds on either side of the 20 points that the score gives.
Captures begin at the first edge, in a header, in the first and last bit of the
data and in a pause, because in between a capture differs only by how many bits
are missing, and once so that the window ends after 24 to 34 bits of the third
repeat, where the clipped decode of `decoder_fast` comes from. Stretches of 150 us keep the timing within the decoder's bands,
which a demodulator that the firmware works with must do. The noises chatter
too fast for a symbol, overflow the 360 edges, or look like one symbol, in all
pauses, the early or the late ones; `ReportedWasSent` and `CleanRepeatWins` say
for which of them they hold. In `recorder` durations are below and above the
500 ms minimum; the 2048 edges, 420 edges per burst and 40 edges are the code's.

Each property of a passing run has a mutant in `PROJECT.json`: the definition
of a plausible bug (marked `Fault` in the modules) that breaks it.

Fairness. `RadioBridge`: weak for `setup()` after a reset, for the phases of a
call (a blocking call runs to its end) and for the clock; strong for
`FinishCarrier`, because ESPHome calls `loop()` between calls for ever but each
call disables it for a while. `Reception`: weak for `Loop` and `Store`, for the
same reason and because automations return. `FanState`: weak for `CacheFrame`.
`HeartbeatGoesOn` follows from `Loop` being taken for ever. `WindowCloses` assumes that from some time on nobody starts a new window or a
carrier test: each of those keeps `loop()` from closing the window.

## Proofs

`RadioBridgeProofs` proves, for all values of the constants under the
assumptions `TuneAssumption`, `FreqAssumption` and `BoundAssumption`, the safety
invariants and the action property of run `radio`. None of the invariants is
inductive: they speak of the moments between calls. `IInv` adds what each phase
keeps: which phases a call has (`PhaseInv`), that calls exist only where they
are wired (`WiringInv`), that only an encoded frame runs under other settings
(`SettingsInv`), the chip's mode and profile in each phase (`ChipInv`), and who
drives GDO0 and the STX882 pin (`LineInv`). One lemma per action shows that it
keeps `IInv`; `Inductive` combines them, and the named theorems follow. TLC
checked `IInv` as an invariant before it was proved.

`FanStateProofs` proves every property of run `fan_state` from
`SpeedAssumption`, `VentAssumption`, `WordAssumption` and `RevisionAssumption`:
for every `uint8_t` speed, every OEM word of 24 bits and every revision period
above 2, where TLC tries two speeds, three words and a period of 3. The
argument has two halves. The codec: a word is the sum of a family and four
fields that do not overlap (`Word`), division and remainder give each field back
(`WordFields`), and each of the eleven speed codes is the reversed counter of
`docs/OUTPRIZE_PROTOCOL.md` and decodes to its step (`Codes`), so what
`encode_low24`, `send_outprize_complete_state_family` and
`send_outprize_fan_off_family` build is in `ProtocolWords` and says what was
asked for (`CompleteFulfils`, `AwakeFulfils`). The state: `CallsFulfil` brings
the eight calls down to two shapes, a state put into the cache and sent or a word
sent past it, and a lemma for each shape and for the two steps of a frame keeps
`IInv`, which is the three invariants together. `RevisionTracksChange` needs a period above
2: a one-field call on an empty cache counts twice.

`RadioBridgeRefinement` proves the safety part of `ImplementsHalfDuplex`:
`Spec => Abstract!Safety`, the initial states and, action by action, the steps.
It needs `IInv` for what a step does not say itself: that between calls and in
the pause of a sequence the air is free or belongs to a carrier test (`QuietOwner`),
that a carrier test is over when `setup()` runs, and that the last phase of a call
leaves the air to nobody else. The fairness of
`HalfDuplex!Spec` is left to run `radio`.

`ReceptionProofs` proves the safety properties of run `reception`, for every
clock period, cooldown, learn window, number of frames and number of captures
under `FramesAssumption`, `TimesAssumption` and `BoundsAssumption`. The last two
say what the code's constants say: no delay reaches 2^31 ms, where the signed
comparison of deadlines would turn over, the clock is longer than the
suppression, and heartbeats are farther apart than a capture is long.
`StoredAreHeard` and `LearnedIsHeard` are not inductive: while automations of a
frame run, `Store` is still to come, and whatever they do to the sequence in the
meantime (clear it, set it, send it), the capture that `Store` then appends must be
newer than all that is stored. `FinishingIsNewest` says so. It also is what makes
the captures of the sequence different ones.

`FrameDecoderProofs` proves `TypeOK`, `ReportedWasSent`, `CleanRepeatWins` and
`RepeatsSuffice` of `FrameDecoder` from `FramesAssumption`, `RepeatsAssumption`,
`StretchAssumption`, `NoiseAssumption` and `StartsAssumption`: for every frame, every
start of a capture, every stretch up to 300 us (150 us, the bands of the decoder, for
the last two) and every noise (every one that is no symbol, for `CleanRepeatWins`),
where TLC tries a few.
`TypeOK` is the claim that `rx_edges_`, its 16-bit entries, the 24 and 11 bits of
the fields and the 40 bits of a candidate are never outgrown. `IInv` adds that a
capture begins inside the wave, that the buffer holds what arrived of it, and that
the outcome is that of the edges still in the buffer.

Which commands are reported is `CommandIsReported`: of a word that scores all it can
a repeat that was recorded whole, in a recording with four long intervals, is reported
as a complete command of 35 bits or more, whatever noise and other repeats are in the
capture. The steps: a run of n bits is less
than the n-th power of two (`BitsRange`); halving a word n times leaves nothing of
n bits, so the bits of a word are read as the word (`WordRead`); within the band a
stretch turns no pulse or gap into another symbol, so the run that starts at a
clean repeat ends with it and is the frame (`CleanRun`, `CleanIsRead`); the test for
Outprize timing sees its 35 pulses (`CleanIsOutprizeish`); the
best candidate scores no less than that one (`BestIsOne`), and the score of a whole
command can only be reached by 35 bits or more that read as a command
(`TopOrLess`). That is the score `rx_score_outprize_candidate_` gives to a known
family, vent nibble and state nibble, which POWER OFF and every command of up to 70 %
have (`CommandWord`, `ListedScoresFully`). Those of 80, 90 and 100 % have state nibbles
the code does not list, so their words score 20 less, and a clipped run that reads a
listed nibble beats them: `decoder_fast` shows one. `FastRepeatWins` says of them what
is left, that they win unless the recording ends inside another repeat of which it
has 24 bits or more, and is checked by TLC only.

As what they are reported is `ReportedWasSent` (`ReportedAlwaysSent`). The argument
goes back from what was read to what was sent. Each interval that arrives is traced
to the one of the wave it comes from (`ArrivingIsTraced`): the next one, or the same
one again where noise broke up a pause, and then one of any two pieces in a row is
no symbol. So a run of symbols comes from as many consecutive intervals of the wave,
all of them but the first and the last as they were sent up to the stretch
(`SymbolsMatch`), and a candidate of 35 bits from at least seventy. The three waves
are laid out repeat by repeat for every frame and number of repeats
(`CanonicalIsLaidOut`, `PowerOffIsLaidOut`, `Cc1101IsLaidOut`), and seventy intervals
in a row, wherever they begin, hold a pause, which is no symbol (`NoBarrierInRun`);
or are half a bit off, so that a gap of a one stands where a pulse should be
(`NoOneIsAPulse`); or are the frame (`CanonicalWindow`, `PowerOffWindow`,
`Cc1101Window`), which is read as what was sent (`FrameIsRead`). The premises are
what this needs and what the code has: `HasOneInside`, because a frame of
zeros reads the same half a bit later, while a command has a one in its family,
behind the prefix; noise that is no symbol, as one that is may end a frame; and quiet
in the waves of the CC1101 and of POWER OFF, whose last gap runs into the pause, so
that noise there may give it any length. No frame of run `decoder` shows the need for
`HasOneInside`: each has a one inside. The proof did.

Together the two give `CleanRepeatWins` when no noise is a symbol
(`CleanRepeatAlwaysWins`): a complete command is reported, and it is the one on the
air, because bit 22, a one in both families, is inside the frame
(`CommandHasOneInside`).

That a repeat is recorded whole at all is `RepeatsSuffice` (`RepeatsAlwaysSuffice`):
for every number of repeats from two on, every start in the first of them, every
noise that is no symbol, the stretches that the bands allow and every frame of up to
22 ones, whatever it scores and whether or not it has long gaps. The
argument is about time. `Sums` gives every range of intervals its time and
`EndedWithin` counts no less than those that end before the time is up
(`EndedInTime`). A frame takes a millisecond for each bit and another one for each
one (`DataTime`), its header 22.8 ms (`HeaderTime`), so wherever the capture begins,
the rest of the first repeat or that and the whole of the second are sent within
139463 us if the frame has 22 ones or less (`SomeRepeatInTime`). What arrives is
never more than a stretch behind what was sent, because the levels alternate and
noise only cuts an interval into pieces that last as long (`TimesKeepUp`), so it
arrives before the 140000 us are over, edge by edge as it was sent but for the
stretch (`DataArrives`), and no symbol begins after it (`PauseArrives`): it is
recorded whole (`RepeatIsHeld`). The proof found the
premise `MostOnes` of the property. The property once left it out, and held in the
run, whose longest frame has 21 ones, as many as a command can have (11 in the
prefix, 2 in the family, 4 in the speed, and one each for direction and rain and two
for the vent). With 23 ones TLC shows a capture that begins in the first bit of one
repeat and is over in the last bits of the next; with 22 there is none.

`RecorderProofs` proves `TypeOK` and `RecordingWasHeard` of `Recorder` from
`WindowsAssumption`, `CallsAssumption` and `CommandsAssumption`: for every window,
that is for any number of bursts of any lengths, any durations and any order of
recordings, raw captures, clears, replays and analyses. `WindowsAssumption` loses
nothing: what is heard, whatever it is, is cut into bursts at the intervals that
`start_rf_recorder` splits at. The argument locates bursts: the k-th burst of a
window is found in the buffer where those before it end, also when the buffer is
full or the time is over before it ends (`BurstEnds`, `BurstsFound`); the search keeps
one of the clean ones (`BestIsClean`); what is extracted is its edges, whole or up to
the end, under the level it was heard with (`CompactedIsBurst`). `IInv` adds that
without an SRX882 nothing was ever heard, which the search of
`start_rf_recorder` after a failed capture relies on.

Recursion. No theorem of the library that takes an operator as a parameter can be
used, so induction is done on sets (`NatSets!AllNat`: a set of naturals with 0 and
the successor of each of its members is all of them), and recursive functions are shown
to exist from a step function (`NatRecursion`, `Recursion` for a well-founded
measure). That covers `Sums`, `Ended`, `Shifted`, `BitsValue`, `Joined` and what
arrives at the receiver.

TLC checked each `IInv`, and `CommandIsReported`, as invariants of the runs before
they were proved.

Only model-checked: the liveness properties and the fairness of the refinement
(the prover has no rule for `ENABLED`); `FastRepeatWins`; `CleanRepeatWins` for
noise that reads as symbols, which in general may lengthen a frame by bits that
score, so it is no theorem for every value of the constants; `FrameIsRecorded`, `ReplayIsTheCommand`
and `AnalysisFindsData`, which are about the windows of the run: they compare
the scores of a command and of the chatter around it, and another window may hold a
burst that scores more.

## Not modelled

SPI bit-banging, logging, pulse histograms, the Python code generation and the
diagnostic firmware. Of the waveforms: the LSB-first and inverted experimental
frames, the extra millisecond before the first header of a CC1101 burst, and
the microseconds between two writes. The demodulators are abstract: a stretch
per transmission and chatter in pauses, no lost or added edges inside a frame.
Of the decoder: the list of top candidates it keeps for its log. Of the
recorder: the recording number and the summaries, which only name things.
In `Reception`
the remote's identifier is left out: learning and storing do not look at it.
`FanState` and `Reception` both have the frame event; `FanState` takes it as
given that a frame was not suppressed.

## Plan

Done: `RadioBridge`, its proofs and the safety part of its refinement, the codec,
`FanState` and its proofs, `Reception` and its proofs, the waveforms, the decoder,
the recorder, the analyzer, and the theorems of decoder and recorder. Left:

1. Proofs: `FastRepeatWins`, by the candidates of 24 to 34 bits that a capture can
   hold (half a bit off, at the end of a repeat that began before the capture, or at
   the end of the recording); `ReplayIsTheCommand` for windows with one clean burst, from
   `CleanIsRead` and `RecordingAlwaysHeard`.
2. `Bridge`: composition of `RadioBridge`, `Reception` and `FanState` for what
   an OEM press heard right after a command does to the cached state, with
   transmission times.
