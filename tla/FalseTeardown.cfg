SPECIFICATION Spec
CONSTANTS
  RetryAttempts = 1
  ConnectedAttemptLimit = 1
  ProbeIds = {i1, i2}
  NoProbe = NoProbe
  Pods = {p1}
  NoPod = NoPod
  SilentBlueZ = TRUE
  MaxSignals = 1
  MaxShots = 1
  MaxWakes = 1
INVARIANTS
  FinalizedMeansGone
