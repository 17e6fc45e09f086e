SPECIFICATION FairSpec
CONSTANTS
  Callers = {c1, c2}
  QueueSize = 2
  MaxDatagrams = 3
  MaxPackets = 1
  NoResult = NoResult
INVARIANTS
  TypeOK
  NothingRunsAfterwards
  ResultHoldsAllMedia
  DatagramsAccountedFor
PROPERTIES
  ImplementsSessionHandle
  EveryCallReturns
