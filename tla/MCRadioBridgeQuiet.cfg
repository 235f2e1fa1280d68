SPECIFICATION Spec
CONSTANTS
    tA = tA
    tB = tB
    fA = fA
    fB = fB
    Tunes <- MCTunes
    DefaultTune = tA
    Freqs <- MCFreqs
    DefaultFreq = fA
    MaxRepeats = 3
    MaxFrames = 3
    MaxCarrier = 3
INVARIANTS
    QuietAtTheEnd
