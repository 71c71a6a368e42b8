SPECIFICATION MCSpec
CONSTANTS
    Callers = {c1, c2}
    NoCaller = NoCaller
    Operations = {"o1", "o2"}
    Runs = {"r1", "r2"}
    NoRun = "-"
    Inputs = {"i1", "i2"}
    NoInput = "-"
    Requests <- MCRequests
    MaxInstances = 2
    MaxHead = 4
SYMMETRY MCSymmetry
CHECK_DEADLOCK FALSE
INVARIANTS
    RunsInTurn
    ReportIsTrue
    LocksAreServed
PROPERTIES
    LedgerSpec
