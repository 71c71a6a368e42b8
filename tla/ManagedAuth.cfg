SPECIFICATION MCSpec
CONSTANTS
    Agents = {a1, a2}
    Names = {n1}
    MaxTokens = 3
    MaxCrashes = 1
    MaxLosses = 1
    None = None
SYMMETRY AgentSymmetry
INVARIANTS
    UsableIsLive
    RefreshOnce
    LoginsAreTrue
PROPERTIES
    ProfilesAreKept
CHECK_DEADLOCK FALSE
