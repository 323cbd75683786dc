SPECIFICATION FairSpec
CONSTANTS
  KeepAlive = 4
  SendTimeout = 2
  ReconnectTimeout = 2
  Greeting = 2
  QueueMax = 2
  MaxPublish = 2
  MaxFaults = 2
  Faults <- NoWifiFault
  Inbound = TRUE
  FastNetwork = TRUE
PROPERTIES
  Reconnects
  QueueDrains
