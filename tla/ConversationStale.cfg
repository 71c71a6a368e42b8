SPECIFICATION MCSpec
CONSTANTS
    MaxHead = 7
    MaxEpoch = 1
    MaxWork = 8
    WireLimit = 1
    PAGE_LIMIT = 1
    CHANGES_LIMIT = 2
    Ascii <- MCAscii
CHECK_DEADLOCK FALSE
INVARIANT WindowIsCurrent
