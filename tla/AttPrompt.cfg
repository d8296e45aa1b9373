SPECIFICATION AttSpec
CONSTANTS
  Faults = {"silent", "refuse", "drop"}
  MaxQueue = 3
  MaxLate = 2
INVARIANTS
  AnswersItsOwn
  ReadBackTells
PROPERTIES
  RequestsAnswered
