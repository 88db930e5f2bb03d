SPECIFICATION Spec
CONSTANTS
  MaxSteps = 3
  MaxItems = 3
INVARIANT
  TurnsFailClosed
PROPERTIES
  
  AskEnds
CHECK_DEADLOCK FALSE
