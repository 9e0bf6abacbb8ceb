SPECIFICATION FairSpec
CONSTANTS
  Cmds = {r1, r2, a1}
  Polls = {gateway, phone}
  Android = {a1, phone}
  MaxAttempts = 3
  MaxLost = 2
INVARIANTS GivenOnce DeliveredIsAccounted
PROPERTIES SettledIsFinal EveryCommandSettles
CHECK_DEADLOCK FALSE
