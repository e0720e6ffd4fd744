SPECIFICATION Spec
CONSTANTS
  Url = {u1}
  Thread = {t1, t2}
  None = None
INVARIANTS
  ConfirmedIsWhole
