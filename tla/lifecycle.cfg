SPECIFICATION FairSpec
CONSTANTS
  g1 = g1
  g2 = g2
  h1 = h1
  h2 = h2
  GrpcCalls <- MCGrpcCalls
  HttpCalls <- MCHttpCalls
INVARIANTS
  TypeOK
  NobodyWaitsOnErrCh
  ClientsOutliveUsers
  NothingLeftOpen
  ExitZeroMeansDrained
  DrainIsAnnounced
PROPERTIES
  ShutdownEnds
  FailureStopsProcess
