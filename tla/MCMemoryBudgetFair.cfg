SPECIFICATION FairSpec
CONSTANTS
  gate = gate  tool = tool  serial = serial  a = a  b = b  t = t  u = u
  Owners = {gate, tool}
  Parallel = {gate}
  Attaching = {gate, tool}
  Slots = {a, b, t}
  Owner <- GateTool
  Peak <- GateToolPeak
  Total = 3
  Safety = 1
  Overshoot = 1
  Events = {"kill", "reuse", "nospace", "shrink"}
  NoOwner = NoOwner
  NoSlot = NoSlot
PROPERTY EventuallyDecided
