SPECIFICATION FairSpec
CONSTANTS
  NB_MAX_CALLBACK_TIME = 2
  us = 105
  NB_PWM = 1
  PWM_SCALL = 25
  Levels <- MCLevels
INVARIANTS CountersRun Steady DutyMonotone
PROPERTIES Pulses
