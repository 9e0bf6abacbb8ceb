SPECIFICATION MCSpec
CONSTANTS
  Rotators = {r1, r2}
  MaxTokens = 4
  MaxLost = 1
  Null = Null
  Children = {c1, c2}
  Devices = {d1}
  Gateways = {g1, g2}
  Here = g1
  Categories = {"GAMING"}
  MaxChanges = 3
  MaxTotal = 4
INVARIANTS NeverLockedOut OrphansAreLate
PROPERTIES AgentUpToDate
