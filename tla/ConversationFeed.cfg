SPECIFICATION MCSpec
CONSTANTS
    MaxHead = 6
    MaxEpoch = 2
    MaxWork = 8
    WireLimit = 1
    PAGE_LIMIT = 1
    CHANGES_LIMIT = 2
    Ascii <- MCAscii
CHECK_DEADLOCK FALSE
CONSTRAINT Reach
INVARIANTS
    InStep
    NothingHidden
    AnswersAgree
    ContentIsExact
