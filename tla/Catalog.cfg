SPECIFICATION Spec
CONSTANTS
  Callers = {c1, c2}
  Operations = {o1, o2}
  Payloads = {p1, p2}
  Buckets = {b1, b2}
  Legacy = {1, 2}
  MaxSessions = 2
  MaxHead = 2
  MaxRepairs = 2
  MaxFaults = 3
  MaxCrashes = 1
  Prefix <- MCPrefixApart
  c1 = c1
  c2 = c2
  o1 = o1
  o2 = o2
  p1 = p1
  p2 = p2
  b1 = b1
  b2 = b2
SYMMETRY MCSymmetry
CONSTRAINT Reach
INVARIANTS
  CreationsAreKept
PROPERTIES
  NeverGoesBack
  RepairRebuilds
