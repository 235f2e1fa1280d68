SPECIFICATION Spec
CONSTANTS
    Speeds <- MCSpeeds
    Vents <- MCVents
    OemWords <- MCOemWords
    RevisionPeriod = 3
INVARIANTS
    TypeOK
    CacheDecodes
    SentMatchesRequest
PROPERTIES
    RevisionTracksChange
