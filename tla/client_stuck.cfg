SPECIFICATION FairSpec
CONSTANTS
  KeepAlive = 4
  SendTimeout = 2
  ReconnectTimeout = 2
  Greeting = 2
  QueueMax = 2
  MaxPublish = 0
  MaxFaults = 2
  Faults <- ResetAndWifi
  Inbound = FALSE
  FastNetwork = TRUE
PROPERTIES
  Reconnects
