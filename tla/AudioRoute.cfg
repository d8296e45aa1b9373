SPECIFICATION Spec
CONSTANTS
  Codecs = {"AAC"}
  MaxAttempts = 2
  MaxUnanswered = 2
  MaxStale = 1
INVARIANTS
  OneLadder
  ReleaseStands
PROPERTIES
  UserMoveStands
  LadderEnds
