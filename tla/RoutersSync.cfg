SPECIFICATION RoutersFairSpec
CONSTANTS
  Gateways = {g1}
  Calls = {c1, c2}
  Null = Null
  Methods = {}
  Types = {"XBOX"}
  Reports = {{}, {"fritzbox"}, {"tplink_consumer", "tplink_omada"}, {"zyxel_consumer", "zyxel_nebula"}}
  SetupPlugins = {"null", "tplink_omada"}
  Firmware = {TRUE}
  MaxCommands = 1
  MaxChanges = 2
INVARIANTS RouterFollowsStatus StrayRowsAreLate RatingHonest
PROPERTIES PolicyConverges
CHECK_DEADLOCK FALSE
