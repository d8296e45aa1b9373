SPECIFICATION FairSpec
CONSTANTS
  Fields = {noise, ca}
  Values = {v1, v2}
  Reported = {noise}
  NoValue = NoValue
  NoItem = NoItem
  NoFile = NoFile
  MaxClicks = 3
  MaxDisturbances = 1
INVARIANTS
  LastClickGoesOut
  HoldIsDriven
PROPERTIES
  PanelConverges
CHECK_DEADLOCK FALSE
