SPECIFICATION Spec
CONSTANTS
  c0 = c0
  c1 = c1
  c2 = c2
  c3 = c3
  s1 = s1
  s2 = s2
  Config <- MCRuleConfig
  Default = c0
  Stanza <- MCStanza
  Owned <- MCRuleOwned
  NoFile = NoFile
  PreSDN = PreSDN
  Off = Off
  Safe = Safe
  NoMark = NoMark
  Ops = {"apply", "confirm", "revertnow", "restore", "disable", "instance"}
  AutoChoices = {TRUE, FALSE}
  Faults = {"link", "nft", "write", "arm", "undo", "portal", "reboot"}
  MaxApplies = 2
  MaxCrashes = 2
INVARIANT IInv
INVARIANT BootsAccepted
INVARIANT RulesGuarded
