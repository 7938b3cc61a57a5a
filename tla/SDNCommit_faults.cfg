SPECIFICATION Spec
CONSTANTS
  c0 = c0
  c1 = c1
  c2 = c2
  c3 = c3
  s1 = s1
  s2 = s2
  Config <- MCConfig
  Default = c0
  Stanza <- MCStanza
  Owned <- MCOwned
  NoFile = NoFile
  PreSDN = PreSDN
  Off = Off
  Safe = Safe
  NoMark = NoMark
  Ops = {"apply", "confirm", "revertnow", "restore", "enable", "disable", "refresh"}
  AutoChoices = {TRUE, FALSE}
  Faults = {"nft", "safe", "save", "write", "arm", "undo", "portal", "reboot", "powercut"}
  MaxApplies = 2
  MaxCrashes = 1
INVARIANT TypeOK
PROPERTY NeverReconfirmed
