SPECIFICATION FairSpec
CONSTANTS
  Starters = {s1, s2}
  Probes = {p1, p2}
  IPs = {a, b}
  Null = Null
  MaxAttempts = 5
  TTL = 1
  MaxTime = 2
  MaxTokens = 3
  MaxMoves = 1
  MaxRejects = 1
PROPERTIES InvalidatedNeverPairs AddressRepaired
CHECK_DEADLOCK FALSE
