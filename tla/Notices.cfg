SPECIFICATION Spec
CONSTANTS
  Buds = {left}
  Levels = {0, 12, 80}
  NoText = NoText
INVARIANTS
  LowIsWarned
PROPERTIES
  NoNagging
  BannerIsEarned
