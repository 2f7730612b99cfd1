SPECIFICATION Spec
CONSTANTS
  gate = gate  tool = tool  serial = serial  a = a  b = b  t = t  u = u
  Owners = {gate, serial}
  Parallel = {gate}
  Attaching = {gate}
  Slots = {a, b, t, u}
  Owner <- GateSerial
  Peak <- GateSerialPeak
  Total = 4
  Safety = 1
  Overshoot = 1
  Events = {"kill", "reuse", "unreadable", "io", "timeout", "overshoot", "solo"}
  NoOwner = NoOwner
  NoSlot = NoSlot
INVARIANT TypeOK Covered
PROPERTY PoolSpec AdmittedFits
