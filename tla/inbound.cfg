SPECIFICATION FairInboundSpec
CONSTANTS
  Base = 4
  BufSize = 16
  QueueMax = 2
  MaxSegment = 3
  MaxInbound = 2
  MaxPublish = 1
  Ids <- MCIds
  Payloads <- MCPayloads
  Topic <- MCTopic
INVARIANTS InboundTypeOK AnswersAreAwaited
PROPERTIES ImplementsStream RecvReturns
CHECK_DEADLOCK FALSE
