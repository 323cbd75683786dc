SPECIFICATION Spec
CONSTANTS
  NB_MAX_CALLBACK_TIME = 3
  us = 400
  Levels <- MCLevels
INVARIANTS TableMatchesFlag CountersRun PhaseAngle BoundedGap
