SPECIFICATION FairSpec
CONSTANTS
  Size = 6
  BufSize = 5
  Messages <- MCMessages
INVARIANTS
  TypeOK
  RingInv
  WellFramed
  ReaderFindsFrame
PROPERTIES
  ImplementsFifo
  CallsReturn
