SPECIFICATION FairSpec
CONSTANTS
  Echelle = 500
  Commands <- MCCommands
  MaxCommands = 2
  MaxEdges = 8
INVARIANTS TypeOK Supervised OneDirection Powered
PROPERTIES MotorStops
CHECK_DEADLOCK FALSE
