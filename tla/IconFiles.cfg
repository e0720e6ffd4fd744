SPECIFICATION Spec
CONSTANTS
  Url = {u1, u2, u3}
  Thread = {t1, t2}
  None = None
INVARIANTS
  OneDownloadPerUrl
  ShortWhenCut
PROPERTIES
  RefinesAttempts
  MissingKeepsWorkerBusy
