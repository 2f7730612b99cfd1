SPECIFICATION Spec
CONSTANTS
  p = p  q = q  t = t
  Tests = {t}
  Paths = {p, q}
  Payloads = {"none", "why"}
  NumSites = 3
  Place <- TwoShare
  MaxLevel = 2
  MaxPrint = 1
  UsedMetrics = {"message-count", "effective-line-count"}
  Scopes <- BothOrOne
  MergeDocs <- Docs
  Reasons = {"why"}
CHECK_DEADLOCK FALSE
INVARIANT ImprovementsLocked MergeCommutes MergedFloorsMeet QuietMergeExact FlatMergeSound GatesAgree UpdateAccounted
