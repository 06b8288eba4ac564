CONSTANTS
  None = None
  Exchanges <- MCExchanges
  ReadAhead = 2
  TailLimit = 2
  DumpLimit = 2
SPECIFICATION Spec
INVARIANTS  CollectorsAgree UsageIsExact MeteredCoversDelivered EncodingIsTold
PROPERTY EverythingIsReleased
CHECK_DEADLOCK FALSE
