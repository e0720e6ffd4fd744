SPECIFICATION ClockSpec
CONSTANTS
  Day = 48
  WeeklyOffset = 15
  Span = 672
INVARIANTS
  TargetsAreFirst
CHECK_DEADLOCK FALSE
