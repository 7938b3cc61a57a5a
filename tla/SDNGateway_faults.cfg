SPECIFICATION Spec
CONSTANTS
  ppp = ppp
  wan = wan
  None = None
  GW = {ppp, wan}
  Kind <- MCKind
  FixedTarget = {wan}
  Configs <- MCSpare
  Width = 2
  Window = 3
  LossPct = 60
  DownSecs = 2
  HoldSecs = 2
  ProbeEvery = 2
  FirstPause = 1
  MaxPause = 2
  Steps = {1}
  Faults = {"link", "dial", "write", "steal", "restart", "config", "disable"}
  Interruptions = {"probe"}
  MaxEvents = 2
INVARIANT TypeOK
PROPERTY DefaultFollows
PROPERTY TablesFollow
PROPERTY HoldServed
PROPERTY HangsUpOnlyDead
