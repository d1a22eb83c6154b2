SPECIFICATION Spec
CONSTANTS
  seeded = seeded
  fresh = fresh
  other = other
  name = name
  active = active
  skuA = skuA
  skuB = skuB
  r1 = r1
  r2 = r2
  r3 = r3
  Original = Original
  NoRow = NoRow
  MaxStock = 2
  Products <- MCProducts
  Requests <- ThreeRequests
  Attrs <- MCAttrs
  Skus <- MCSkus
  Seed <- MCSeed
  Skew <- Skewed
  Commands <- MCCommands
SYMMETRY Symmetric
INVARIANTS
  TypeOK
  UniqueSku
  EventPerChange
  SerialHistory
  OccurredInOrder
  HonestReplies
PROPERTY
  ImplementsStore
