SPECIFICATION Spec
CONSTANTS
    SentFrames <- MCSentFrames
    Repeats <- MCRepeats
    Stretches <- MCStretches
    Noises <- MCNoises
    Starts <- MCStarts
INVARIANTS
    TrustedHas35Bits
