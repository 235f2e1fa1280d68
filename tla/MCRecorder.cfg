SPECIFICATION Spec
CONSTANTS
    Windows <- MCWindows
    RawWindows <- MCRawWindows
    Durations <- MCDurations
    ReplayCounts <- MCReplayCounts
    RemoteId <- MCRemoteId
    SourceLow24s <- MCSourceLow24s
    Nothing = Nothing
    NoFrame = NoFrame
INVARIANTS
    TypeOK
    RecordingWasHeard
    FrameIsRecorded
    ReplayIsTheCommand
    AnalysisFindsData
