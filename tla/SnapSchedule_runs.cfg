SPECIFICATION Spec
CONSTANTS
  p1 = p1
  p2 = p2
  auto = auto
  db = db
  near = near
  far = far
  other = other
  nodest = nodest
  Policy = {p1, p2}
  First <- MCFirst
  Forms <- MCForms
  Covers <- MCCovers
  Dest = {near, far, other}
  NoDest = nodest
  Faults = {"snapshot", "list", "destroy", "send", "clean", "save", "crash"}
  AdminOps = {"now", "create", "update", "delete", "wipe"}
  MaxSnaps = 4
  MaxFaults = 1
  MaxAdmin = 2
INVARIANT TypeOK
INVARIANT BaseUsable
INVARIANT RemoteRecovers
PROPERTY RetentionFloor
CHECK_DEADLOCK FALSE
