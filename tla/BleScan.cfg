SPECIFICATION Spec
CONSTANTS
  MaxDoublings = 6
  MaxSignals = 3
  MaxModes = 2
INVARIANTS
  CycleIsDriven
PROPERTIES
  GapIsKept
  ScanResumes
