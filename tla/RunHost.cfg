SPECIFICATION FairSpec
CONSTANTS
    Dispatches = {d1, d2}
    Requests <- MCRequests
    NoRequest = NoRequest
    Readers = {g}
    TheStore = TheStore
    NoStore = NoStore
    UsizeMax = 5
CONSTRAINT NamedInOrder
CHECK_DEADLOCK FALSE
INVARIANTS
    WorkersKeepStoreOpen
    ClosedMeansClosed
PROPERTIES
    TicketsSettle
