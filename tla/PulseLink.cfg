SPECIFICATION PulseSpec
CONSTANT MaxQueued = 3
INVARIANTS
  InitializedIsAlive
  ReconnectIsDriven
  NoWakeupLost
PROPERTIES
  PulseRecovers
