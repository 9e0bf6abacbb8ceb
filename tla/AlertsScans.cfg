SPECIFICATION AlertsFairSpec
CONSTANTS
  Never = Never
  Runs = {r1, r2}
  Throttle = 1
  Minute = 2
  Excellent = 1
  Stale = 2
  Fresh = 4
  Poor = 5
  Day = 6
  Threshold = 3
  MaxFailures = 1
INVARIANTS AlertsEarned ScreensAgree
PROPERTIES SilentLockEscalates
