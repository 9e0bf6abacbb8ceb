SPECIFICATION MCSpec
CONSTANTS
  Callers = {c1, c2}
  Jobs = {j1}
  Durations = {2}
  Extras = {1}
  DailyLimit = 3
  MaxSessions = 1
  MaxExtension = 1
  LastAction = 2
  MaxTime = 5
  MaxFaults = 1
  First = c1
 
PROPERTIES NoEarlyExpiry ActiveSessionsEnd GamingBlockedAfterExpiry
CHECK_DEADLOCK FALSE
