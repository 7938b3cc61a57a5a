SPECIFICATION Spec
CONSTANTS
  da = da
  db = db
  lauto = lauto
  root = root
  block = block
  j1 = j1
  j2 = j2
  none = none
  Dests = {da, db}
  Remote = {db}
  LabelOf <- MCLabelOf
  AutoLabel = lauto
  Covers <- MCCovers
  Parts <- MCParts
  Keep = 2
  AutoKeep = 1
  Jobs = {j1}
  None = none
  Faults = {"step", "stream", "peer", "crash"}
  UserOps = {"auto", "cancel", "delsnap", "delpoint", "delbackup", "instant", "drop"}
  MaxSnaps = 4
  MaxFaults = 1
  MaxUser = 2
CHECK_DEADLOCK FALSE
INVARIANT TypeOK
INVARIANT ChainKept
INVARIANT DoneStored
INVARIANT HealthySucceeds
