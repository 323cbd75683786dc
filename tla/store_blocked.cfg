SPECIFICATION Spec
CONSTANTS
  Echelle = 500
  Commands <- MCCommands
  MaxCommands = 1
  MaxEdges = 6
INVARIANTS BlockedMeansInPosition
CHECK_DEADLOCK FALSE
