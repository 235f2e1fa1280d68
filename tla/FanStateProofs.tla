--------------------------- MODULE FanStateProofs ---------------------------
(***************************************************************************)
(* The safety of FanState for every set of speeds, vent actions and OEM    *)
(* words.  It rests on the codec: the fields of a word do not overlap, so  *)
(* each is read back as it was written.                                    *)
(***************************************************************************)
EXTENDS FanState, TLAPS

-----------------------------------------------------------------------------
(* The codec. *)

\* A word put together from its fields.
Word(family, code, d, r, vent) == family + 64 * code + 32 * d + 16 * r + vent

Bit(b) == IF b THEN 1 ELSE 0

\* The low half of a word of each family is what the fields add to it.
LEMMA LowHalf60 ==
    ASSUME NEW low \in Int, low >= 0, low < 65536,
           NEW w \in Int, w = 6291456 + low
    PROVE  w \in Words /\ w % 65536 = low
  <1>1. w % 65536 = low
    BY SMT
  <1>2. w >= 0 /\ w < WordCount /\ WordCount \in Int
    BY SMT DEF WordCount
  <1> QED BY <1>1, <1>2, SMT DEF Words

LEMMA LowHalf40 ==
    ASSUME NEW low \in Int, low >= 0, low < 65536,
           NEW w \in Int, w = 4194304 + low
    PROVE  w \in Words /\ w % 65536 = low
  <1>1. w % 65536 = low
    BY SMT
  <1>2. w >= 0 /\ w < WordCount /\ WordCount \in Int
    BY SMT DEF WordCount
  <1> QED BY <1>1, <1>2, SMT DEF Words

\* A family is a word, and a number.
LEMMA Families ==
    /\ Family60 \in Int /\ Family40 \in Int
    /\ Family60 \in Words /\ Family40 \in Words
  <1>1. Family60 \in Int /\ Family60 = 6291456 + 0
    BY SMT DEF Family60
  <1>2. Family40 \in Int /\ Family40 = 4194304 + 0
    BY SMT DEF Family40
  <1> QED BY <1>1, <1>2, LowHalf60, LowHalf40, SMT

\* Every field of a word is read back as it was written.
LEMMA WordFields ==
    ASSUME NEW family \in {Family60, Family40}, NEW code \in 0 .. 31,
           NEW d \in 0 .. 1, NEW r \in 0 .. 1, NEW vent \in VentCommands,
           NEW w, w = Word(family, code, d, r, vent)
    PROVE  /\ w \in Words
           /\ (w \div 64) % 32 = code
           /\ (w \div 32) % 2 = d
           /\ (w \div 16) % 2 = r
           /\ 4 * ((w \div 4) % 4) = vent
           /\ w % 65536 = w - family
           /\ code # 0 => w \notin {Family60, Family40}
  <1>1. PICK v \in 0 .. 3 : vent = 4 * v
    BY DEF VentCommands, VentNone, VentClose, VentOpen, VentStop
  <1>2. w = family + 64 * code + 32 * d + 16 * r + 4 * v
    BY <1>1 DEF Word
  <1>3. w \in Words /\ w % 65536 = w - family
    <2> DEFINE low == 64 * code + 32 * d + 16 * r + 4 * v
    <2>1. low \in Int /\ low >= 0 /\ low < 65536
      OBVIOUS
    <2>2. CASE family = Family60
      <3>1. w = 6291456 + low /\ w \in Int
        BY <1>2, <2>1, <2>2 DEF Family60
      <3> HIDE DEF low
      <3>2. w \in Words /\ w % 65536 = low
        BY <2>1, <3>1, LowHalf60, SMT
      <3>3. low = w - family
        BY <2>1, <2>2, <3>1 DEF Family60
      <3> QED BY <3>2, <3>3
    <2>3. CASE family = Family40
      <3>1. w = 4194304 + low /\ w \in Int
        BY <1>2, <2>1, <2>3 DEF Family40
      <3> HIDE DEF low
      <3>2. w \in Words /\ w % 65536 = low
        BY <2>1, <3>1, LowHalf40, SMT
      <3>3. low = w - family
        BY <2>1, <2>3, <3>1 DEF Family40
      <3> QED BY <3>2, <3>3
    <2> QED BY <2>2, <2>3
  <1>4. (w \div 64) % 32 = code
    BY <1>2 DEF Family60, Family40
  <1>5. (w \div 32) % 2 = d /\ (w \div 16) % 2 = r
    BY <1>2 DEF Family60, Family40
  <1>6. 4 * ((w \div 4) % 4) = vent
    BY <1>1, <1>2 DEF Family60, Family40
  <1>7. code # 0 => w \notin {Family60, Family40}
    BY <1>2 DEF Family60, Family40
  <1> QED BY <1>3, <1>4, <1>5, <1>6, <1>7

\* The speed steps are the multiples of ten.
LEMMA Steps ==
    ASSUME NEW s \in SpeedSteps
    PROVE  /\ s \in {0, 10, 20, 30, 40, 50, 60, 70, 80, 90, 100}
           /\ NormalizeSpeed(s) = s
  BY DEF SpeedSteps, NormalizeSpeed

\* Any uint8_t rounds to the nearest step, or to 100.
LEMMA Rounding ==
    ASSUME NEW s \in 0 .. 255
    PROVE  /\ NormalizeSpeed(s) \in SpeedSteps
           /\ NormalizeSpeed(s) - s <= 5
           /\ s <= 100 => s - NormalizeSpeed(s) <= 5
           /\ s > 100 => NormalizeSpeed(s) = 100
  <1> DEFINE k == (s + 5) \div 10
  <1>1. k \in 0 .. 26 /\ 10 * k <= s + 5 /\ s + 5 < 10 * k + 10
    OBVIOUS
  <1>2. NormalizeSpeed(s) = IF k * 10 > 100 THEN 100 ELSE k * 10
    BY DEF NormalizeSpeed
  <1>3. NormalizeSpeed(s) \in SpeedSteps
    <2>1. CASE k <= 10
      BY <1>1, <1>2, <2>1 DEF SpeedSteps
    <2>2. CASE k > 10
      BY <1>1, <1>2, <2>2 DEF SpeedSteps
    <2> QED BY <1>1, <2>1, <2>2
  <1> QED BY <1>1, <1>2, <1>3

\* The speed code of a step: never 0, it decodes to the step, and it is the
\* counter with its bits in reverse order that docs/OUTPRIZE_PROTOCOL.md gives.
LEMMA Codes ==
    ASSUME NEW s \in SpeedSteps
    PROVE  /\ SpeedCode(s) \in 1 .. 31
           /\ \A w \in Nat : (w \div 64) % 32 = SpeedCode(s) => DecodeSpeed(w) = s
           /\ SpeedCode(s) = Reversed5(16 + (s \div 10))
  <1>1. s \in {0, 10, 20, 30, 40, 50, 60, 70, 80, 90, 100}
    BY Steps
  <1>2. CASE s = 0
    BY <1>2 DEF SpeedCode, SpeedTable, DecodeSpeed, Reversed5
  <1>3. CASE s = 10
    BY <1>3 DEF SpeedCode, SpeedTable, DecodeSpeed, Reversed5
  <1>4. CASE s = 20
    BY <1>4 DEF SpeedCode, SpeedTable, DecodeSpeed, Reversed5
  <1>5. CASE s = 30
    BY <1>5 DEF SpeedCode, SpeedTable, DecodeSpeed, Reversed5
  <1>6. CASE s = 40
    BY <1>6 DEF SpeedCode, SpeedTable, DecodeSpeed, Reversed5
  <1>7. CASE s = 50
    BY <1>7 DEF SpeedCode, SpeedTable, DecodeSpeed, Reversed5
  <1>8. CASE s = 60
    BY <1>8 DEF SpeedCode, SpeedTable, DecodeSpeed, Reversed5
  <1>9. CASE s = 70
    BY <1>9 DEF SpeedCode, SpeedTable, DecodeSpeed, Reversed5
  <1>10. CASE s = 80
    BY <1>10 DEF SpeedCode, SpeedTable, DecodeSpeed, Reversed5
  <1>11. CASE s = 90
    BY <1>11 DEF SpeedCode, SpeedTable, DecodeSpeed, Reversed5
  <1>12. CASE s = 100
    BY <1>12 DEF SpeedCode, SpeedTable, DecodeSpeed, Reversed5
  <1> QED
    BY <1>1, <1>2, <1>3, <1>4, <1>5, <1>6, <1>7, <1>8, <1>9, <1>10, <1>11, <1>12

\* What is read in a word, whoever sent it, is of its type.
LEMMA ReadsTyped ==
    ASSUME NEW w \in Words
    PROVE  /\ Powered(w) \in BOOLEAN /\ DecodeSpeed(w) \in SpeedSteps
           /\ DirectionIn(w) \in BOOLEAN /\ Rain(w) \in BOOLEAN
           /\ Vent(w) \in VentCommands
  <1>1. w \in Nat
    BY DEF Words
  <1>2. Powered(w) \in BOOLEAN /\ DirectionIn(w) \in BOOLEAN /\ Rain(w) \in BOOLEAN
    BY DEF Powered, DirectionIn, Rain
  <1>3. \A s \in {0, 10, 20, 30, 40, 50, 60, 70, 80, 90, 100} : s \in SpeedSteps
    BY DEF SpeedSteps
  <1>4. DecodeSpeed(w) \in SpeedSteps
    BY <1>3, ZenonT(40) DEF DecodeSpeed
  <1>5. (w \div 4) % 4 \in 0 .. 3
    BY <1>1
  <1>6. Vent(w) \in VentCommands
    BY <1>5 DEF Vent, VentCommands, VentNone, VentClose, VentOpen, VentStop
  <1> QED BY <1>2, <1>4, <1>6

\* A word of the protocol is read as it was meant.
LEMMA WordReads ==
    ASSUME NEW family \in {Family60, Family40}, NEW s \in SpeedSteps,
           NEW d \in BOOLEAN, NEW r \in BOOLEAN, NEW v \in VentCommands,
           NEW w, w = Word(family, SpeedCode(s), Bit(d), Bit(r), v)
    PROVE  /\ w \in Words /\ Powered(w) /\ DecodeSpeed(w) = s
           /\ DirectionIn(w) = d /\ Rain(w) = r /\ Vent(w) = v
           /\ w % 65536 = w - family
           /\ w \in ProtocolWords(family)
  <1>1. /\ SpeedCode(s) \in 1 .. 31
        /\ \A n \in Nat : (n \div 64) % 32 = SpeedCode(s) => DecodeSpeed(n) = s
        /\ SpeedCode(s) = Reversed5(16 + (s \div 10))
    BY Codes
  <1>2. Bit(d) \in 0 .. 1 /\ Bit(r) \in 0 .. 1
    BY DEF Bit
  <1>3. SpeedCode(s) \in 0 .. 31 /\ SpeedCode(s) # 0
    BY <1>1
  <1>4. /\ w \in Words
        /\ (w \div 64) % 32 = SpeedCode(s)
        /\ (w \div 32) % 2 = Bit(d)
        /\ (w \div 16) % 2 = Bit(r)
        /\ 4 * ((w \div 4) % 4) = v
        /\ w % 65536 = w - family
        /\ w \notin {Family60, Family40}
    BY <1>2, <1>3, WordFields, SMT
  <1>5. w \in ProtocolWords(family)
    <2>1. w = family + 64 * Reversed5(16 + (s \div 10))
                + (IF d THEN 32 ELSE 0) + (IF r THEN 16 ELSE 0) + v
      <3>1. 32 * Bit(d) = (IF d THEN 32 ELSE 0) /\ 16 * Bit(r) = (IF r THEN 16 ELSE 0)
        BY DEF Bit
      <3>2. w = family + 64 * SpeedCode(s) + 32 * Bit(d) + 16 * Bit(r) + v
        BY DEF Word
      <3> QED BY <1>1, <3>1, <3>2
    <2>2. \E step \in SpeedSteps, in \in BOOLEAN, wet \in BOOLEAN, act \in VentCommands :
             w = family + 64 * Reversed5(16 + (step \div 10))
                    + (IF in THEN 32 ELSE 0) + (IF wet THEN 16 ELSE 0) + act
      BY <2>1, SMT
    <2> HIDE <2>1
    <2> QED BY <2>2 DEF ProtocolWords
  <1>6. DecodeSpeed(w) = s
    BY <1>1, <1>4 DEF Words
  <1>7. Powered(w) /\ DirectionIn(w) = d /\ Rain(w) = r /\ Vent(w) = v
    BY <1>4 DEF Powered, DirectionIn, Rain, Vent, Bit
  <1> QED BY <1>4, <1>5, <1>6, <1>7

\* encode_low24 and its callers build words of the protocol.
LEMMA Encoded ==
    ASSUME NEW s \in 0 .. 255, NEW d \in BOOLEAN, NEW r \in BOOLEAN, NEW v \in VentCommands
    PROVE  EncodeLow24(s, d, r, v)
             = Word(Family60, SpeedCode(NormalizeSpeed(s)), Bit(d), Bit(r), v)
  <1>1. SpeedCode(NormalizeSpeed(s)) \in Int
    BY Rounding, Codes
  <1>2. 4 * ((v \div 4) % 4) = v /\ v \in Int
    BY DEF VentCommands, VentNone, VentClose, VentOpen, VentStop
  <1>3. 32 * Bit(d) = (IF d THEN 32 ELSE 0) /\ 16 * Bit(r) = (IF r THEN 16 ELSE 0)
    BY DEF Bit
  <1> QED BY <1>1, <1>2, <1>3, Zenon DEF EncodeLow24, Word

\* So does send_outprize_complete_state_family, in either family.
LEMMA Completed ==
    ASSUME NEW family \in {Family60, Family40}, NEW s \in 0 .. 255,
           NEW d \in BOOLEAN, NEW r \in BOOLEAN, NEW v \in VentCommands
    PROVE  CompleteState(family, TRUE, s, d, r, v)
             = Word(family, SpeedCode(NormalizeSpeed(s)), Bit(d), Bit(r), v)
  <1> DEFINE code == SpeedCode(NormalizeSpeed(s))
             w == Word(Family60, code, Bit(d), Bit(r), v)
             low == w % 65536
  <1>1. NormalizeSpeed(s) \in SpeedSteps
    BY Rounding
  <1>2. code \in Int /\ Bit(d) \in Int /\ Bit(r) \in Int /\ v \in Int
    BY <1>1, Codes DEF Bit, VentCommands, VentNone, VentClose, VentOpen, VentStop
  <1>3. low = w - Family60
    BY <1>1, WordReads, SMT
  <1>4. CompleteState(family, TRUE, s, d, r, v) = low + family
    BY Encoded, SMT DEF CompleteState
  <1>5. family \in Int /\ Family60 \in Int
    BY Families
  <1> HIDE DEF code
  <1>6. w - Family60 + family = Word(family, code, Bit(d), Bit(r), v)
    BY <1>2, <1>5 DEF Word
  <1> HIDE DEF w, low
  <1>7. CompleteState(family, TRUE, s, d, r, v) = Word(family, code, Bit(d), Bit(r), v)
    BY <1>3, <1>4, <1>6, Zenon
  <1> QED BY <1>7 DEF code

\* And so does send_outprize_fan_off_family: the word of a powered fan at rest.
LEMMA Awake ==
    ASSUME NEW family \in {Family60, Family40}, NEW v \in VentCommands
    PROVE  FanOffAwake(family, v) = Word(family, SpeedCode(0), Bit(FALSE), Bit(FALSE), v)
  <1>1. 4 * ((v \div 4) % 4) = v /\ v \in Int
    BY DEF VentCommands, VentNone, VentClose, VentOpen, VentStop
  <1>2. SpeedCode(0) = 1 /\ Bit(FALSE) = 0
    BY DEF SpeedCode, SpeedTable, Bit
  <1>3. family \in Int
    BY Families
  <1>4. Word(family, SpeedCode(0), Bit(FALSE), Bit(FALSE), v) = family + 64 * 1 + 32 * 0 + 16 * 0 + v
    BY <1>2, Zenon DEF Word
  <1>5. FanOffAwake(family, v) = family + 64 + v
    BY <1>1, Zenon DEF FanOffAwake
  <1>6. family + 64 + v = family + 64 * 1 + 32 * 0 + 16 * 0 + v
    BY <1>1, <1>3
  <1> QED BY <1>4, <1>5, <1>6, Zenon

-----------------------------------------------------------------------------
(* The state a call leaves behind. *)

Revisions == 0 .. (RevisionPeriod - 1)

\* The fields of a state are those of its word.
Decodes(c) ==
    /\ c.powered = Powered(c.low24)
    /\ c.speed = DecodeSpeed(c.low24)
    /\ c.directionIn = DirectionIn(c.low24)
    /\ c.rain = Rain(c.low24)
    /\ c.vent = Vent(c.low24)

\* A word says what a request asks for.
Fulfils(low24, r) ==
    /\ low24 \in ProtocolWords(r.family)
    /\ Powered(low24) = r.powered
    /\ r.powered =>
          /\ DecodeSpeed(low24) - r.speed <= 5
          /\ r.speed <= 100 => r.speed - DecodeSpeed(low24) <= 5
          /\ r.speed > 100 => DecodeSpeed(low24) = 100
          /\ DirectionIn(low24) = r.directionIn
          /\ Rain(low24) = r.rain
          /\ Vent(low24) = r.vent

\* The next revision is another one, and so is the one after it.
LEMMA RevisionMoves ==
    ASSUME NEW n \in Revisions
    PROVE  /\ (n + 1) % RevisionPeriod \in Revisions
           /\ (n + 1) % RevisionPeriod # n
           /\ (((n + 1) % RevisionPeriod) + 1) % RevisionPeriod # n
  <1>1. RevisionPeriod \in Nat /\ RevisionPeriod > 2
    BY RevisionAssumption
  <1>2. \A m \in Revisions :
           (m + 1) % RevisionPeriod = IF m + 1 = RevisionPeriod THEN 0 ELSE m + 1
    BY <1>1 DEF Revisions
  <1>3. (n + 1) % RevisionPeriod \in Revisions
    BY <1>1, <1>2 DEF Revisions
  <1> QED BY <1>1, <1>2, <1>3 DEF Revisions

\* update_outprize_state_from_low24_ keeps the types and decodes the word.
LEMMA UpdatedDecodes ==
    ASSUME NEW c, c.revision \in Revisions, NEW w \in Words, NEW source \in Sources
    PROVE  /\ Updated(c, w, source) \in FanStates
           /\ Decodes(Updated(c, w, source))
           /\ Updated(c, w, source).revision = NextRevision(c)
           /\ Updated(c, w, source).source = source
           /\ Updated(c, w, source).low24 = w
  <1>1. NextRevision(c) \in Revisions
    BY RevisionMoves DEF NextRevision
  <1>2. /\ Powered(w) \in BOOLEAN /\ DecodeSpeed(w) \in SpeedSteps
        /\ DirectionIn(w) \in BOOLEAN /\ Rain(w) \in BOOLEAN
        /\ Vent(w) \in VentCommands
    BY ReadsTyped
  <1>3. Updated(c, w, source) \in FanStates
    BY <1>1, <1>2 DEF Updated, FanStates, Revisions
  <1> QED BY <1>3 DEF Updated, Decodes

\* A complete state that is asked for is what the word says.
LEMMA CompleteFulfils ==
    ASSUME NEW r \in Requests, NEW w,
           w = CompleteState(r.family, r.powered, r.speed, r.directionIn, r.rain, r.vent)
    PROVE  w \in Words /\ Fulfils(w, r)
  <1>1. /\ r.family \in {Family60, Family40} /\ r.powered \in BOOLEAN /\ r.speed \in 0 .. 255
        /\ r.directionIn \in BOOLEAN /\ r.rain \in BOOLEAN /\ r.vent \in VentCommands
    BY DEF Requests
  <1>2. CASE r.powered
    <2>1. w = Word(r.family, SpeedCode(NormalizeSpeed(r.speed)), Bit(r.directionIn),
                   Bit(r.rain), r.vent)
      <3>1. PICK f \in {Family60, Family40}, s \in 0 .. 255,
                 d \in BOOLEAN, q \in BOOLEAN, v \in VentCommands :
              /\ f = r.family /\ s = r.speed
              /\ d = r.directionIn /\ q = r.rain /\ v = r.vent
        BY <1>1, ZenonT(40)
      <3>2. CompleteState(f, TRUE, s, d, q, v)
              = Word(f, SpeedCode(NormalizeSpeed(s)), Bit(d), Bit(q), v)
        BY Completed, ZenonT(40)
      <3>3. r.powered = TRUE
        BY <1>1, <1>2
      <3>4. w = CompleteState(f, TRUE, s, d, q, v)
        BY <3>1, <3>3
      <3> QED BY <3>1, <3>2, <3>4
    <2>2. NormalizeSpeed(r.speed) \in SpeedSteps
      BY <1>1, Rounding
    <2>3. /\ w \in Words /\ Powered(w) /\ DecodeSpeed(w) = NormalizeSpeed(r.speed)
          /\ DirectionIn(w) = r.directionIn /\ Rain(w) = r.rain /\ Vent(w) = r.vent
          /\ w \in ProtocolWords(r.family)
      BY <1>1, <2>1, <2>2, WordReads, SMT
    <2>4. /\ DecodeSpeed(w) - r.speed <= 5
          /\ r.speed <= 100 => r.speed - DecodeSpeed(w) <= 5
          /\ r.speed > 100 => DecodeSpeed(w) = 100
      BY <1>1, <2>3, Rounding
    <2> QED BY <1>1, <1>2, <2>3, <2>4, Zenon DEF Fulfils
  <1>3. CASE ~r.powered
    <2>1. w = r.family
      BY <1>3, SMT DEF CompleteState
    <2>2. w \in ProtocolWords(r.family)
      BY <2>1, SMT DEF ProtocolWords
    <2>3. ~Powered(w)
      BY <1>1, <2>1, Zenon DEF Powered
    <2>4. w \in Words
      BY <1>1, <2>1, Families, Zenon
    <2>5. r.powered = FALSE /\ Powered(w) = FALSE
      BY <1>1, <1>3, <2>3, <2>4, ReadsTyped, Zenon
    <2> QED BY <1>3, <2>2, <2>4, <2>5, Zenon DEF Fulfils
  <1> QED BY <1>2, <1>3

\* send_outprize_fan_off_family sends a powered fan at speed 0.
LEMMA AwakeFulfils ==
    ASSUME NEW family \in {Family60, Family40}, NEW v \in VentCommands,
           NEW w, w = FanOffAwake(family, v)
    PROVE  w \in Words /\ Fulfils(w, Request(family, TRUE, 0, FALSE, FALSE, v))
  <1>1. PICK no \in BOOLEAN : ~no /\ w = Word(family, SpeedCode(0), Bit(no), Bit(no), v)
    BY Awake, Zenon
  <1>2. 0 \in SpeedSteps
    BY DEF SpeedSteps
  <1>3. /\ w \in Words /\ Powered(w) /\ DecodeSpeed(w) = 0
        /\ DirectionIn(w) = no /\ Rain(w) = no /\ Vent(w) = v
        /\ w \in ProtocolWords(family)
    BY <1>1, <1>2, WordReads, SMT
  <1>4. /\ Powered(w) = TRUE /\ DecodeSpeed(w) - 0 <= 5 /\ 0 - DecodeSpeed(w) <= 5
        /\ 0 <= 100
    BY <1>3
  <1> DEFINE r == Request(family, TRUE, 0, FALSE, FALSE, v)
  <1>5. /\ r.family = family /\ r.powered = TRUE /\ r.speed = 0
        /\ r.directionIn = no /\ r.rain = no /\ r.vent = v
    BY <1>1 DEF Request
  <1> HIDE DEF r
  <1>6. ~(r.speed > 100)
    BY <1>5
  <1>7. Fulfils(w, r)
    BY <1>3, <1>4, <1>5, <1>6, Zenon DEF Fulfils
  <1> QED BY <1>3, <1>7 DEF r

\* The state a one-field call builds on.
LEMMA BaseDecodes ==
    ASSUME TypeOK, CacheDecodes
    PROVE  /\ Base \in FanStates /\ Decodes(Base)
           /\ Base.revision \in {cache.revision, NextRevision(cache)}
  <1>1. cache.revision \in Revisions
    BY DEF TypeOK, FanStates, Revisions
  <1>2. CASE cache.valid
    BY <1>2, Zenon DEF Base, TypeOK, CacheDecodes, Decodes
  <1>3. CASE ~cache.valid
    <2> DEFINE w == FanOffAwake(Family60, VentNone)
    <2>1. w \in Words
      BY AwakeFulfils, Zenon DEF VentCommands
    <2> HIDE DEF w
    <2>2. "home_assistant" \in Sources
      BY DEF Sources
    <2>3. Base = Updated(cache, w, "home_assistant")
      BY <1>3 DEF Base, w
    <2> QED BY <1>1, <2>1, <2>2, <2>3, UpdatedDecodes, ZenonT(40)
  <1> QED BY <1>2, <1>3

-----------------------------------------------------------------------------
(* The inductive invariant. *)

IInv == TypeOK /\ CacheDecodes /\ SentMatchesRequest

\* The state c and the request behind it, of a call that goes through the cache.
Commands(c, r) ==
    /\ c \in FanStates /\ Decodes(c) /\ r \in Requests /\ Fulfils(c.low24, r)
    /\ c.source = "home_assistant"
    /\ c.revision \in {NextRevision(cache), NextRevision(Base)}

\* The word and the request of an addressed send.
Addresses(low24, r) == low24 \in Words /\ r \in Requests /\ Fulfils(low24, r)

\* set_outprize_complete_state on top of b.
LEMMA CompleteCommands ==
    ASSUME NEW b \in {cache, Base}, b.revision \in Revisions, NEW r \in Requests
    PROVE  Commands(Complete(b, r), r)
  <1> DEFINE w == CompleteState(r.family, r.powered, r.speed, r.directionIn, r.rain, r.vent)
  <1>1. w \in Words /\ Fulfils(w, r)
    BY CompleteFulfils
  <1>2. Complete(b, r) = Updated(b, w, "home_assistant")
    BY DEF Complete
  <1>3. "home_assistant" \in Sources
    BY DEF Sources
  <1> HIDE DEF w
  <1>4. /\ Updated(b, w, "home_assistant") \in FanStates
        /\ Decodes(Updated(b, w, "home_assistant"))
        /\ Updated(b, w, "home_assistant").revision = NextRevision(b)
        /\ Updated(b, w, "home_assistant").source = "home_assistant"
        /\ Updated(b, w, "home_assistant").low24 = w
    BY <1>1, <1>3, UpdatedDecodes
  <1>5. NextRevision(b) \in {NextRevision(cache), NextRevision(Base)}
    OBVIOUS
  <1> QED BY <1>1, <1>2, <1>4, <1>5, Zenon DEF Commands

\* set_outprize_power(true) on top of b: fields and word edited apart agree.
LEMMA PowerOnCommands ==
    ASSUME NEW b, b = Base, b \in FanStates
    PROVE  Commands(PowerOn(b), Request(Family60, TRUE, b.speed, b.directionIn, b.rain, b.vent))
  <1> DEFINE c == PowerOn(b)
             w == EncodeLow24(b.speed, b.directionIn, b.rain, b.vent)
             r == Request(Family60, TRUE, b.speed, b.directionIn, b.rain, b.vent)
  <1>1. /\ b.speed \in SpeedSteps /\ b.directionIn \in BOOLEAN /\ b.rain \in BOOLEAN
        /\ b.vent \in VentCommands /\ b.revision \in Revisions /\ b.valid \in BOOLEAN
    BY DEF FanStates, Revisions
  <1>2. b.speed \in 0 .. 255 /\ NormalizeSpeed(b.speed) = b.speed
    BY <1>1, Steps
  <1>3. w = Word(Family60, SpeedCode(b.speed), Bit(b.directionIn), Bit(b.rain), b.vent)
    <2>1. w = Word(Family60, SpeedCode(NormalizeSpeed(b.speed)), Bit(b.directionIn),
                   Bit(b.rain), b.vent)
      BY <1>1, <1>2, Encoded
    <2> QED BY <1>2, <2>1
  <1>4. /\ w \in Words /\ Powered(w) /\ DecodeSpeed(w) = b.speed
        /\ DirectionIn(w) = b.directionIn /\ Rain(w) = b.rain /\ Vent(w) = b.vent
        /\ w \in ProtocolWords(Family60)
    BY <1>1, <1>3, WordReads, SMT
  <1>5. NextRevision(b) \in Revisions
    BY <1>1, RevisionMoves DEF NextRevision
  <1> HIDE DEF w
  <1>6. /\ c = [b EXCEPT !.powered = TRUE, !.low24 = w, !.source = "home_assistant",
                         !.revision = NextRevision(b)]
    BY DEF PowerOn, w
  <1>7. /\ c \in FanStates
        /\ c.powered = TRUE /\ c.low24 = w /\ c.speed = b.speed
        /\ c.directionIn = b.directionIn /\ c.rain = b.rain /\ c.vent = b.vent
        /\ c.source = "home_assistant" /\ c.revision = NextRevision(b)
    BY <1>4, <1>5, <1>6 DEF FanStates, Sources, Revisions
  <1>8. /\ r.family = Family60 /\ r.powered = TRUE /\ r.speed = b.speed
        /\ r.directionIn = b.directionIn /\ r.rain = b.rain /\ r.vent = b.vent
    BY DEF Request
  <1>9. r \in Requests
    BY <1>1, <1>2 DEF Request, Requests
  <1> HIDE DEF c, r
  <1>10. b.speed - b.speed <= 5 /\ ~(b.speed > 100)
    BY <1>1, Steps
  <1>11. Powered(w) = TRUE
    BY <1>4, ReadsTyped, Zenon
  <1>12. Fulfils(w, r)
    BY <1>4, <1>8, <1>10, <1>11, Zenon DEF Fulfils
  <1>13. Decodes(c)
    BY <1>4, <1>7, <1>11, Zenon DEF Decodes
  <1>14. Commands(c, r)
    BY <1>7, <1>9, <1>12, <1>13, Zenon DEF Commands
  <1> QED BY <1>14 DEF c, r

\* Every call either commands through the cache or addresses a fan past it.
LEMMA CallsFulfil ==
    ASSUME TypeOK, CacheDecodes, Call
    PROVE  \/ \E c, r : Commands(c, r) /\ TransmitCached(c, r)
           \/ \E w, r : /\ Addresses(w, r) /\ Air("addressed", w, r)
                        /\ UNCHANGED <<cache, pending, stxWired>>
  <1>1. Base \in FanStates /\ Base.revision \in Revisions /\ cache.revision \in Revisions
    BY BaseDecodes DEF TypeOK, FanStates, Revisions
  <1>2. Base \in {cache, Base} /\ cache \in {cache, Base}
    OBVIOUS
  <1>3. /\ Base.powered \in BOOLEAN /\ Base.speed \in SpeedSteps
        /\ Base.directionIn \in BOOLEAN /\ Base.rain \in BOOLEAN /\ Base.vent \in VentCommands
    BY <1>1 DEF FanStates
  <1>4. /\ Base.speed \in 0 .. 255
        /\ \A s \in Speeds : s \in 0 .. 255
        /\ \A v \in Vents : v \in VentCommands
    BY <1>3, Steps, SpeedAssumption, VentAssumption
  <1>5. \A f \in {Family60, Family40}, p, d, r \in BOOLEAN, s \in 0 .. 255, v \in VentCommands :
           Request(f, p, s, d, r, v) \in Requests
    BY DEF Request, Requests
  <1>6. VentNone \in VentCommands /\ 0 \in 0 .. 255
    BY DEF VentCommands
  <1>7. ASSUME NEW r \in Requests, SetOne(r)
        PROVE  \E c, q : Commands(c, q) /\ TransmitCached(c, q)
    BY <1>1, <1>2, <1>7, CompleteCommands, Zenon DEF SetOne
  <1>8. CASE SetCompleteState
    <2>1. PICK p, d, r \in BOOLEAN, s \in Speeds, v \in Vents :
             TransmitCached(Complete(cache, Request(Family60, p, s, d, r, v)),
                            Request(Family60, p, s, d, r, v))
      BY <1>8, Zenon DEF SetCompleteState
    <2>2. Request(Family60, p, s, d, r, v) \in Requests
      BY <1>4, <1>5
    <2> QED BY <1>1, <1>2, <2>1, <2>2, CompleteCommands, Zenon
  <1>9. CASE SetPower
    <2> DEFINE off == Request(Family60, FALSE, 0, FALSE, FALSE, VentNone)
               on == Request(Family60, TRUE, Base.speed, Base.directionIn, Base.rain, Base.vent)
    <2>1. CASE TransmitCached(Complete(cache, off), off)
      <3>1. off \in Requests
        BY <1>6 DEF Request, Requests
      <3> QED BY <1>1, <1>2, <2>1, <3>1, CompleteCommands, Zenon
    <2>2. CASE TransmitCached(PowerOn(Base), on)
      BY <1>1, <2>2, PowerOnCommands, Zenon
    <2> QED BY <1>9, <2>1, <2>2, Zenon DEF SetPower
  <1>10. CASE SetSpeed
    <2>1. PICK s \in Speeds : SetOne(Request(Family60, TRUE, s, Base.directionIn, Base.rain, Base.vent))
      BY <1>10, Zenon DEF SetSpeed
    <2>2. s \in 0 .. 255
      BY <1>4
    <2>3. Request(Family60, TRUE, s, Base.directionIn, Base.rain, Base.vent) \in Requests
      BY <1>3, <2>2 DEF Request, Requests
    <2> QED BY <1>7, <2>1, <2>3, Zenon
  <1>11. CASE SetDirection
    <2>1. PICK d \in BOOLEAN : SetOne(Request(Family60, Base.powered, Base.speed, d, Base.rain, Base.vent))
      BY <1>11, Zenon DEF SetDirection
    <2>2. Request(Family60, Base.powered, Base.speed, d, Base.rain, Base.vent) \in Requests
      BY <1>3, <1>4 DEF Request, Requests
    <2> QED BY <1>7, <2>1, <2>2, Zenon
  <1>12. CASE SetRain
    <2>1. PICK r \in BOOLEAN :
             SetOne(Request(Family60, Base.powered, Base.speed, Base.directionIn, r, Base.vent))
      BY <1>12, Zenon DEF SetRain
    <2>2. Request(Family60, Base.powered, Base.speed, Base.directionIn, r, Base.vent) \in Requests
      BY <1>3, <1>4 DEF Request, Requests
    <2> QED BY <1>7, <2>1, <2>2, Zenon
  <1>13. CASE SetVent
    <2>1. PICK v \in Vents :
             SetOne(Request(Family60, Base.powered, Base.speed, Base.directionIn, Base.rain, v))
      BY <1>13, Zenon DEF SetVent
    <2>2. v \in VentCommands
      BY <1>4
    <2>3. Request(Family60, Base.powered, Base.speed, Base.directionIn, Base.rain, v) \in Requests
      BY <1>3, <1>4, <2>2 DEF Request, Requests
    <2> QED BY <1>7, <2>1, <2>3, Zenon
  <1>14. CASE SendCompleteState
    <2>1. PICK f \in {Family60, Family40}, p, d, r \in BOOLEAN, s \in Speeds, v \in Vents :
             /\ Air("addressed", CompleteState(f, p, s, d, r, v), Request(f, p, s, d, r, v))
             /\ UNCHANGED <<cache, pending, stxWired>>
      BY <1>14, Zenon DEF SendCompleteState
    <2> DEFINE q == Request(f, p, s, d, r, v)
               w == CompleteState(f, p, s, d, r, v)
    <2>2. q \in Requests
      BY <1>4, <1>5
    <2>3. w = CompleteState(q.family, q.powered, q.speed, q.directionIn, q.rain, q.vent)
      BY DEF Request
    <2>4. Addresses(w, q)
      BY <2>2, <2>3, CompleteFulfils, Zenon DEF Addresses
    <2> QED BY <2>1, <2>4, Zenon
  <1>15. CASE SendFanOff
    <2>1. PICK f \in {Family60, Family40}, v \in Vents :
             /\ Air("addressed", FanOffAwake(f, v), Request(f, TRUE, 0, FALSE, FALSE, v))
             /\ UNCHANGED <<cache, pending, stxWired>>
      BY <1>15, Zenon DEF SendFanOff
    <2>2. Request(f, TRUE, 0, FALSE, FALSE, v) \in Requests
      BY <1>4, <1>6 DEF Request, Requests
    <2>3. Addresses(FanOffAwake(f, v), Request(f, TRUE, 0, FALSE, FALSE, v))
      BY <1>4, <2>2, AwakeFulfils, Zenon DEF Addresses
    <2> QED BY <2>1, <2>3, Zenon
  <1> QED BY <1>8, <1>9, <1>10, <1>11, <1>12, <1>13, <1>14, <1>15, Zenon DEF Call

\* A call through the cache keeps the invariant.
LEMMA CommandKeeps ==
    ASSUME IInv, NEW c, NEW r, Commands(c, r), TransmitCached(c, r)
    PROVE  IInv'
  <1>1. /\ cache' = c /\ stxWired' = stxWired
        /\ pending' = [pending EXCEPT !.overtaken = pending.running]
        /\ last' = IF stxWired THEN [path |-> "cached", low24 |-> c.low24, request |-> r] ELSE last
    BY DEF TransmitCached, Air
  <1>2. c \in FanStates /\ Decodes(c) /\ r \in Requests /\ Fulfils(c.low24, r) /\ c.low24 \in Words
    BY DEF Commands, FanStates
  <1>3. TypeOK /\ SentMatchesRequest
    BY DEF IInv
  <1>4. TypeOK'
    <2>1. CASE pending \in Frames
      <3>1. pending' = [own |-> pending.own, low24 |-> pending.low24,
                        running |-> TRUE, overtaken |-> TRUE]
        BY <1>1, <2>1 DEF Frames
      <3>2. pending' \in Frames
        BY <2>1, <3>1 DEF Frames
      <3> QED BY <1>1, <1>2, <1>3, <3>2 DEF TypeOK
    <2>2. CASE pending = NoFrame
      <3>1. pending' = NoFrame
        BY <1>1, <2>2 DEF NoFrame
      <3> QED BY <1>1, <1>2, <1>3, <3>1 DEF TypeOK
    <2>3. pending \in Frames \/ pending = NoFrame
      BY <1>3 DEF TypeOK
    <2> QED BY <2>1, <2>2, <2>3
  <1>5. CacheDecodes'
    BY <1>1, <1>2, Zenon DEF CacheDecodes, Decodes
  <1>6. CASE stxWired
    <2>1. last'.path = "cached" /\ last'.low24 = c.low24 /\ last'.request = r
      BY <1>1, <1>6
    <2>2. SentMatchesRequest'
      BY <1>2, <2>1, Zenon DEF SentMatchesRequest, Fulfils
    <2> QED BY <1>4, <1>5, <2>2, Zenon DEF IInv
  <1>7. CASE ~stxWired
    <2>1. last' = last
      BY <1>1, <1>7
    <2>2. SentMatchesRequest'
      BY <1>3, <2>1, Zenon DEF SentMatchesRequest
    <2> QED BY <1>4, <1>5, <2>2, Zenon DEF IInv
  <1> QED BY <1>3, <1>6, <1>7 DEF TypeOK

\* So does one past it.
LEMMA AddressedKeeps ==
    ASSUME IInv, NEW w, NEW r, Addresses(w, r), Air("addressed", w, r),
           UNCHANGED <<cache, pending, stxWired>>
    PROVE  IInv'
  <1>1. last' = IF stxWired THEN [path |-> "addressed", low24 |-> w, request |-> r] ELSE last
    BY DEF Air
  <1>2. w \in Words /\ r \in Requests /\ Fulfils(w, r)
    BY DEF Addresses
  <1>3. TypeOK'
    BY <1>1, <1>2 DEF IInv, TypeOK
  <1>4. CacheDecodes'
    BY Zenon DEF IInv, CacheDecodes
  <1>5. CASE stxWired
    <2>1. last'.path = "addressed" /\ last'.low24 = w /\ last'.request = r
      BY <1>1, <1>5
    <2>2. SentMatchesRequest'
      BY <1>2, <2>1, Zenon DEF SentMatchesRequest, Fulfils
    <2> QED BY <1>3, <1>4, <2>2, Zenon DEF IInv
  <1>6. CASE ~stxWired
    <2>1. last' = last
      BY <1>1, <1>6
    <2>2. SentMatchesRequest'
      BY <2>1, Zenon DEF IInv, SentMatchesRequest
    <2> QED BY <1>3, <1>4, <2>2, Zenon DEF IInv
  <1> QED BY <1>5, <1>6

\* A frame that is heard waits for its automations; nothing else changes.
LEMMA HearKeeps ==
    ASSUME IInv, HearFrame
    PROVE  IInv'
  <1>1. pending' \in Frames /\ cache' = cache /\ stxWired' = stxWired /\ last' = last
    BY Zenon DEF HearFrame
  <1>2. TypeOK'
    BY <1>1, Zenon DEF IInv, TypeOK
  <1> QED
    BY <1>1, <1>2, Zenon
    DEF IInv, CacheDecodes, SentMatchesRequest

\* The state a frame of the configured remote leaves in the cache.
LEMMA CachedFrame ==
    ASSUME TypeOK, CacheFrame
    PROVE  \/ cache' = cache
           \/ /\ cache' \in FanStates /\ Decodes(cache')
              /\ cache'.revision = NextRevision(cache) /\ cache'.source = "oem_remote"
  <1>1. pending \in Frames
    BY DEF TypeOK, CacheFrame, NoFrame
  <1>2. pending.low24 \in Words
    BY <1>1, WordAssumption DEF Frames
  <1>3. cache.revision \in Revisions /\ "oem_remote" \in Sources
    BY DEF TypeOK, FanStates, Revisions, Sources
  <1>4. CASE pending.own
    <2>1. cache' = Updated(cache, pending.low24, "oem_remote")
      BY <1>4, Zenon DEF CacheFrame
    <2> QED BY <1>2, <1>3, <2>1, UpdatedDecodes
  <1>5. CASE ~pending.own
    BY <1>5, Zenon DEF CacheFrame
  <1> QED BY <1>4, <1>5

\* It decodes to its word, and nothing is sent.
LEMMA CacheFrameKeeps ==
    ASSUME IInv, CacheFrame
    PROVE  IInv'
  <1>1. TypeOK /\ CacheDecodes /\ SentMatchesRequest
    BY DEF IInv
  <1>2. pending' = NoFrame /\ stxWired' = stxWired /\ last' = last
    BY DEF CacheFrame
  <1>3. SentMatchesRequest'
    BY <1>1, <1>2, Zenon DEF SentMatchesRequest
  <1>4. CASE cache' = cache
    BY <1>1, <1>2, <1>3, <1>4, Zenon
    DEF IInv, TypeOK, CacheDecodes
  <1>5. CASE /\ cache' \in FanStates /\ Decodes(cache')
             /\ cache'.revision = NextRevision(cache) /\ cache'.source = "oem_remote"
    <2>1. TypeOK'
      BY <1>1, <1>2, <1>5, Zenon DEF TypeOK
    <2>2. CacheDecodes'
      BY <1>5, Zenon DEF CacheDecodes, Decodes
    <2> QED BY <1>3, <2>1, <2>2, Zenon DEF IInv
  <1> QED BY <1>1, <1>4, <1>5, CachedFrame

\* IInv holds at start.
LEMMA InitInductive == Init => IInv
  <1> SUFFICES ASSUME Init
               PROVE  IInv
    OBVIOUS
  <1>1. /\ cache.valid = FALSE /\ cache.source = "unknown" /\ last = NothingSent
        /\ pending = NoFrame /\ stxWired \in BOOLEAN
    BY DEF Init
  <1>2. 0 \in SpeedSteps /\ 0 \in Words
    <2>1. WordCount \in Int /\ WordCount > 0
      BY SMT DEF WordCount
    <2> QED BY <2>1, SMT DEF SpeedSteps, Words
  <1>3. 0 \in 0 .. (RevisionPeriod - 1)
    BY RevisionAssumption
  <1>4. Family60 \in Words /\ VentNone \in VentCommands
    BY Families DEF VentCommands
  <1>5. cache \in FanStates
    <2>1. cache = [valid |-> FALSE, low24 |-> Family60, powered |-> FALSE, speed |-> 0,
                   directionIn |-> FALSE, rain |-> FALSE, vent |-> VentNone,
                   source |-> "unknown", revision |-> 0]
      BY DEF Init
    <2>2. "unknown" \in Sources
      BY DEF Sources
    <2> QED BY <1>2, <1>3, <1>4, <2>1, <2>2 DEF FanStates
  <1>6. NothingSent.request \in Requests
    <2>1. 0 \in 0 .. 255
      OBVIOUS
    <2> QED BY <1>4, <2>1 DEF NothingSent, Request, Requests
  <1>7. TypeOK
    BY <1>1, <1>2, <1>5, <1>6 DEF TypeOK, NothingSent
  <1>8. last.path = "none"
    BY <1>1 DEF NothingSent
  <1> QED
    BY <1>1, <1>7, <1>8
    DEF IInv, CacheDecodes, SentMatchesRequest

\* Every step keeps IInv.
LEMMA NextInductive == IInv /\ [Next]_vars => IInv'
  <1> SUFFICES ASSUME IInv, [Next]_vars
               PROVE  IInv'
    OBVIOUS
  <1>1. CASE Call
    <2>1. TypeOK /\ CacheDecodes
      BY DEF IInv
    <2>2. CASE \E c, r : Commands(c, r) /\ TransmitCached(c, r)
      BY <2>2, CommandKeeps, Zenon
    <2>3. CASE \E w, r : /\ Addresses(w, r) /\ Air("addressed", w, r)
                         /\ UNCHANGED <<cache, pending, stxWired>>
      BY <2>3, AddressedKeeps, Zenon
    <2> QED BY <1>1, <2>1, <2>2, <2>3, CallsFulfil, Zenon
  <1>2. CASE HearFrame
    BY <1>2, HearKeeps
  <1>3. CASE CacheFrame
    BY <1>3, CacheFrameKeeps
  <1>4. CASE UNCHANGED vars
    BY <1>4, Zenon
    DEF vars, IInv, TypeOK, CacheDecodes, SentMatchesRequest
  <1> QED BY <1>1, <1>2, <1>3, <1>4 DEF Next

\* The invariant behind the theorems below: types, the agreement of the cached
\* word with the fields an automation reads, and that of what went on the air with
\* what was asked for.
THEOREM Inductive == Spec => []IInv
  <1>1. Init => IInv
    BY InitInductive
  <1>2. IInv /\ [Next]_vars => IInv'
    BY NextInductive
  <1> QED BY <1>1, <1>2, PTL DEF Spec

-----------------------------------------------------------------------------
(* The theorems. *)

\* Every field of outprize_state_ and of what is sent stays of its type,
\* vent_command a value of its enum whatever nibble a remote sent.
THEOREM TypeCorrect == Spec => []TypeOK
  <1>1. IInv => TypeOK
    BY DEF IInv
  <1> QED BY <1>1, Inductive, PTL

\* get_outprize_state never shows fields that its word does not hold, whichever
\* calls, remotes and automations wrote them, and in which order.
THEOREM CacheAlwaysDecodes == Spec => []CacheDecodes
  <1>1. IInv => CacheDecodes
    BY DEF IInv
  <1> QED BY <1>1, Inductive, PTL

\* Whatever a remote or an earlier call left in the cache, every word that a call
\* transmits is one of the protocol, in the family asked for, and a fan reads in
\* it what the caller asked for, the speed to the nearest step.
THEOREM SentAlwaysMatches == Spec => []SentMatchesRequest
  <1>1. IInv => SentMatchesRequest
    BY DEF IInv
  <1> QED BY <1>1, Inductive, PTL

\* Every write of outprize_state_ moves its revision, the two of a one-field call
\* on an empty cache included: an automation that compares revisions misses none.
THEOREM RevisionAlwaysMoves == Spec => RevisionTracksChange
  <1>1. IInv /\ [Next]_vars => [cache' # cache => cache'.revision # cache.revision]_cache
    <2> SUFFICES ASSUME IInv, [Next]_vars, cache' # cache
                 PROVE  cache'.revision # cache.revision
      OBVIOUS
    <2>1. TypeOK /\ CacheDecodes
      BY DEF IInv
    <2>2. cache.revision \in Revisions
      BY <2>1 DEF TypeOK, FanStates, Revisions
    <2>3. NextRevision(cache) # cache.revision
      BY <2>2, RevisionMoves DEF NextRevision
    <2>4. NextRevision(Base) # cache.revision
      <3>1. Base.revision \in {cache.revision, NextRevision(cache)}
        BY <2>1, BaseDecodes
      <3> QED BY <2>2, <3>1, RevisionMoves DEF NextRevision
    <2>5. CASE Call
      <3>1. CASE \E c, r : Commands(c, r) /\ TransmitCached(c, r)
        <4>1. PICK c, r : Commands(c, r) /\ TransmitCached(c, r)
          BY <3>1, Zenon
        <4>2. cache' = c /\ c.revision \in {NextRevision(cache), NextRevision(Base)}
          BY <4>1, Zenon DEF Commands, TransmitCached
        <4> QED BY <2>3, <2>4, <4>2
      <3>2. CASE \E w, r : /\ Addresses(w, r) /\ Air("addressed", w, r)
                           /\ UNCHANGED <<cache, pending, stxWired>>
        BY <3>2, Zenon
      <3> QED BY <2>1, <2>5, <3>1, <3>2, CallsFulfil, Zenon
    <2>6. CASE HearFrame
      BY <2>6, Zenon DEF HearFrame
    <2>7. CASE CacheFrame
      BY <2>1, <2>3, <2>7, CachedFrame, Zenon
    <2> QED BY <2>5, <2>6, <2>7, Zenon DEF Next, vars
  <1> QED BY <1>1, Inductive, PTL DEF Spec, RevisionTracksChange
=============================================================================
