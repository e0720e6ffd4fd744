SPECIFICATION Spec
CONSTANTS
  Item = {i1}
  Thread = {t1, t2}
  MaxBatch = 1
  Trouble = 2
  Nothing = Nothing
INVARIANTS
  RefetchedOnce
PROPERTIES
  KnownIsKept
  SaveKeepsNames
  FetchedAgain
  OutageIsShown
