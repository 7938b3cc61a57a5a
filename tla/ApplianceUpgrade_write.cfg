SPECIFICATION FairSpec
CONSTANTS
  Worker = {1, 2}
  MaxVersion = 3
  MaxApplies = 2
  MaxCancels = 1
  Faults = {"stage", "net", "bad", "files", "systemd", "script", "dd", "kill", "portal", "ups"}
  MaxFaults = 2
INVARIANT TypeOK
INVARIANT WriteGuarded
INVARIANT DoneIsWritten
INVARIANT OnlyVerified
PROPERTY RebootSparesWrite
PROPERTY CancelEnds
CHECK_DEADLOCK FALSE
