SPECIFICATION Spec
CONSTANTS
  da = da
  db = db
  lauto = lauto
  root = root
  block = block
  j1 = j1
  j2 = j2
  none = none
  Dests = {da}
  Remote = {}
  LabelOf <- MCLabelOf
  AutoLabel = lauto
  Covers <- MCCovers
  Parts <- MCParts
  Keep = 2
  AutoKeep = 1
  Jobs = {j1, j2}
  None = none
  Faults = {}
  UserOps = {}
  MaxSnaps = 3
  MaxFaults = 0
  MaxUser = 0
CHECK_DEADLOCK FALSE
INVARIANT ChainKept
