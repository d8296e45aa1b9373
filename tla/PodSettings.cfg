SPECIFICATION Spec
CONSTANTS
  Settings = {allowoff, hold, eardetect}
  Sticky = {allowoff}
  Hold = hold
  Buds = {left, right}
  EarDetection = eardetect
  Echoed = {allowoff, hold}
  MaxFrames = 2
INVARIANTS
  WishHolds
  EchoIsTruth
  MaskFollowsWish
  OtherBudKept
SYMMETRY Symmetry
CONSTRAINTS
  OneWish
  FewFrames
