SPECIFICATION Spec
CONSTANTS
    SentFrames <- MCSentFrames
    Repeats <- MCRepeats
    Stretches <- MCStretches
    Noises <- MCNoises
    Starts <- MCStarts
INVARIANTS
    FastFramesEmitted
