SPECIFICATION VolumeSpec
CONSTANTS
  UserPercents = {40, 42, 45}
  MaxQueue = 3
INVARIANTS
  DuckIsBounded
  NeverLouder
