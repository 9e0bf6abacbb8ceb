SPECIFICATION FairSpec
CONSTANTS
  Users = {ann, bob}
  Tokens = {t1, t2}
  Sends = {s1, s2}
  Null = Null
  Ready = TRUE
  MaxRetries = 2
  MaxChanges = 1
INVARIANTS ReportedOnce
PROPERTIES SendEnds
CHECK_DEADLOCK FALSE
