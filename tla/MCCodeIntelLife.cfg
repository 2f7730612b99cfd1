SPECIFICATION Spec
CONSTANTS
  None = None
  Sessions = {s1}
  Clients = {k1}
  Pids <- MCPids
  Kinds = {"refs"}
  Files = {f}
  Inputs = {f}
  MaxEdits = 0
  MaxTools = 3
  Protocol <- ThereAndBack
  Events = {"crash", "outside", "reuse", "upgrade"}
INVARIANT TypeOK NoOrphan
PROPERTY SignalsDaemonsOnly ShutdownKeepsOthers StartedServes RefsScannedOnce
