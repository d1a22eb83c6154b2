SPECIFICATION TimeoutSpec
CONSTANTS
  g1 = g1
  g2 = g2
  h1 = h1
  h2 = h2
  GrpcCalls <- MCOneGrpc
  HttpCalls <- MCOneHttp
PROPERTY
  ShutdownIsBounded
