SPECIFICATION Spec
CONSTANTS
  Day = 2
  WeeklyOffset = 1
  Minutes = 2
  Start = 7
  MaxTime = 12
INVARIANTS
  NoBoundaryMissed
  ResetSticks
PROPERTIES
  ResetsAreDue
  DueResetHappens
