SPECIFICATION Spec
CONSTANTS
  KeepAlive = 4
  SendTimeout = 2
  ReconnectTimeout = 2
  Greeting = 2
  QueueMax = 2
  MaxPublish = 3
  MaxFaults = 2
  Faults <- AllFaults
  Inbound = FALSE
  FastNetwork = FALSE
INVARIANTS
  TypeOK
  DataMeansSession
  NoLostWakeup
  
  RetryAtRest
