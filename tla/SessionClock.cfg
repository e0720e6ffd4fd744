SPECIFICATION Spec
CONSTANTS
  Second = 2
  MaxTime = 6
  MaxLoads = 2
  NoDocument = NoDocument
INVARIANTS
  ClockIsTimeLoaded
  ClockOfItsTotals
