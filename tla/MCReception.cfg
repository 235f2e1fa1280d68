SPECIFICATION Spec
CONSTANTS
    Frames <- MCFrames
    ManualFrames <- MCManualFrames
    ClockPeriod = 2
    CaptureTicks = 1
    Cooldown = 2
    LearnCooldown = 1
    SuppressTime = 1
    StatusPeriod = 2
    Windows <- MCWindows
    Delays <- MCDelays
    MaxFrames = 2
    MaxCaptures = 3
INVARIANTS
    TypeOK
    StoredAreHeard
    LearnedIsHeard
PROPERTIES
    LearnStartsInWindow
    WindowCloses
    HeartbeatGoesOn
