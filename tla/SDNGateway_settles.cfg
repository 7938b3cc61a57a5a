SPECIFICATION FairSpec
CONSTANTS
  ppp = ppp
  wan = wan
  None = None
  GW = {ppp, wan}
  Kind <- MCKind
  FixedTarget = {ppp, wan}
  Configs <- MCBoth
  Width = 2
  Window = 3
  LossPct = 60
  DownSecs = 1
  HoldSecs = 2
  ProbeEvery = 1
  FirstPause = 1
  MaxPause = 2
  Steps = {1}
  Faults = {"link", "steal"}
  Interruptions = {"probe"}
  MaxEvents = 1
PROPERTY TrafficSettles
