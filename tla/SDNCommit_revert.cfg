SPECIFICATION FairSpec
CONSTANTS
  c0 = c0
  c1 = c1
  c2 = c2
  c3 = c3
  s1 = s1
  s2 = s2
  Config <- MCConfig
  Default = c0
  Stanza <- MCStanza
  Owned <- MCOwned
  NoFile = NoFile
  PreSDN = PreSDN
  Off = Off
  Safe = Safe
  NoMark = NoMark
  Ops = {"apply", "restore", "revertnow", "instance"}
  AutoChoices = {TRUE}
  Faults = {"write", "arm", "portal", "reboot"}
  MaxApplies = 3
  MaxCrashes = 2
 
PROPERTY TrialEnds
