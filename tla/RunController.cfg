SPECIFICATION FairSpec
CONSTANTS
    CallIds = {"a", "b"}
    Tools = {"add"}
    Responses <- MCResponses
    ResponseIds = {1, 2}
    MaxTurns = 3
    MaxEvents = 1
CONSTRAINT NamedInOrder
CHECK_DEADLOCK FALSE
INVARIANTS
    StoreAgrees
    EffectsOnce
    ContinuesWithResults
    ReplayFaithful
    AuditExact
PROPERTIES
    CancelEnds
