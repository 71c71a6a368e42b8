SPECIFICATION MCSpec
CONSTANTS
    Transports = {"websocket", "sse"}
    MaxOpen = 2
    MaxCalls = 3
    MaxProgress = 0
    Capacity = 1
    HistoryLimit = 5
    CallIds = {x}
    ResponseIds = {r1, r2}
    None = None
CONSTRAINT CallsOfTransport
INVARIANTS
    RequestsContinue
    FramesAreExact
    ResponseIsStreamed
CHECK_DEADLOCK FALSE
