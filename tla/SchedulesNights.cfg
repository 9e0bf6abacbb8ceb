SPECIFICATION FairSpec
CONSTANTS
  Day = 4
  Week = 2
  BedTimes = {1, 3}
  RuleStart = 3
  RuleEnd = 1
  RuleDays = {1}
  Limit = 1
  MaxChanges = 2
  MaxFaults = 1
PROPERTIES BedtimeFollowed ManualLockKept LimitFollowed NightBlocked BedtimeLockEnds
