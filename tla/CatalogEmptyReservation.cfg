SPECIFICATION Spec
CONSTANTS
  Callers = {c1}
  Operations = {o1}
  Payloads = {p1}
  Buckets = {b1}
  Legacy = {}
  MaxSessions = 1
  MaxHead = 3
  MaxRepairs = 1
  MaxFaults = 0
  MaxCrashes = 1
  Prefix <- MCPrefixTogether
  c1 = c1
  c2 = c2
  o1 = o1
  o2 = o2
  p1 = p1
  p2 = p2
  b1 = b1
  b2 = b2
INVARIANTS
  ReservationsSurvive
