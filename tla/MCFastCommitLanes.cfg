SPECIFICATION Spec
CONSTANTS
  w1 = w1  w2 = w2  p1 = p1  p2 = p2  q1 = q1  c1 = c1  c2 = c2  c3 = c3
  Worktrees = {w1,w2}
  Committers = {p1,p2}
  Pushers = {q1}
  Wt <- LaneWt
  Commits = {c1,c2}
  Root = Root
  Nobody = Nobody
  Events = {"io", "kill", "unrecorded", "latepush", "toggle"}
SYMMETRY Symmetry
CHECK_DEADLOCK FALSE
INVARIANT DebtTracked
PROPERTY ClearedUnderEvidence
