SPECIFICATION FairSpec
CONSTANTS
  Healthy = {v1, v2}
  Crashing = {c1}
  Hanging = {k1}
  Garbage = Garbage
  None = None
  MaxChunks = 2
  SlowStartup = FALSE
INVARIANTS NeverBricked
PROPERTIES FirmwareSpec TrialEnds
CHECK_DEADLOCK FALSE
