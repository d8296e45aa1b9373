SPECIFICATION Spec
CONSTANTS
  Players = {p1}
  Refusing = {}
  Behaviors = {"one", "off"}
  MaxTraffic = 2
  MaxStale = 1
INVARIANTS
  OutWindowServed
  InterruptedByAHolder
  PodsAreNotFoughtOver
PROPERTIES
  OnlyTheUserMovesThePods
  ReleaseEndsInterruption
