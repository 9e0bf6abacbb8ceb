SPECIFICATION MCSpec
CONSTANTS
  Null = Null
  Children = {c1, c2}
  Asked = {c1, Null}
  Requests = {q1, q2}
  Usual = 2
  DayLength <- MCDayLength
  Week = 3
  PerMinute = 2
  MaxChanges = 3
  BusyChanges = 1
  BusyTime = 2
INVARIANTS ReportsAddUp
PROPERTIES ReportsCatchUp
CHECK_DEADLOCK FALSE
