SPECIFICATION Spec
CONSTANTS
  None = None
  Sessions = {s1}
  Clients = {k1}
  Pids <- MCPids
  Kinds = {"graph", "symbol", "refs"}
  Files = {f, g}
  Inputs = {f}
  MaxEdits = 1
  MaxTools = 1
  Protocol <- One
  Events = {"crash"}
INVARIANT AnswersCurrent
