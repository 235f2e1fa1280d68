SPECIFICATION Spec
CONSTANTS
    Speeds <- MCSpeeds
    Vents <- MCVents
    OemWords <- MCOemWords
    RevisionPeriod = 3
PROPERTIES
    NewerCommandKept
