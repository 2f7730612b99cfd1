SPECIFICATION Spec
CONSTANTS
  p = p  q = q  t = t
  Tests = {t}
  Paths = {p}
  Payloads = {"none"}
  NumSites = 2
  Place <- Apart
  MaxLevel = 1
  MaxPrint = 0
  UsedMetrics = {"message-count"}
  Scopes <- WideOrNarrow
  Reasons = {"why"}
  Events = {"crash", "hand", "land", "main", "sync"}
  MaxLog = 2
  MaxLanded = 1
CHECK_DEADLOCK FALSE
INVARIANT TypeOK HandEditsCaught HonestAccounted
PROPERTY FloorsRecorded SyncAddsNoDebt
