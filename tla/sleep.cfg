SPECIFICATION FairSleepSpec
CONSTANTS
  KeepAlive = 8
  SendTimeout = 1
  ReconnectTimeout = 2
  Greeting = 1
  QueueMax = 3
  MaxPublish = 0
  MaxFaults = 1
  Faults <- MCFaults
  Inbound = TRUE
  FastNetwork = FALSE
  Grace = 1
  TryConnect = 2
  Measure = 3
  Idle = 4
  TopicIdle = 5
  Second = 6
  Console = 7
  Timeout = 15
  Measures = 2
  MaxKeys = 2

INVARIANTS SleepTypeOK NeverCutsSession AwakeBounded MeasuresArrive
PROPERTIES EveryWakeSleeps
CHECK_DEADLOCK FALSE
