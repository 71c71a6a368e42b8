SPECIFICATION FairSpec
CONSTANTS
    Stores = {s1, s2}
    NoStore = NoStore
    Guards = {g1, g2, g3}
    Waiters = {w1, w2}
    UsizeMax = 2
INVARIANTS
    EndedMeansFree
PROPERTIES
    QuarantineKeepsLease
    OwnershipSpec
    CloseReturns
