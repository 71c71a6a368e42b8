SPECIFICATION MCSpec
CHECK_DEADLOCK FALSE
CONSTANTS
    Transports = {"websocket"}
    MaxOpen = 2
    MaxCalls = 2
    MaxProgress = 1
    Capacity = 1
    HistoryLimit = 6
    CallIds = {}
    ResponseIds = {"r1", "r2"}
    None = None
INVARIANTS EventOrder ToldTruly OutcomeIsFinal EventsExact
PROPERTIES CallsSettle ServiceGoesOn
