SPECIFICATION FairSpec
CONSTANTS
  seeded = seeded
  name = name
  skuA = skuA
  r1 = r1
  r2 = r2
  r3 = r3
  p1 = p1
  p2 = p2
  Original = Original
  NoRow = NoRow
  NoEvent = NoEvent
  MaxStock = 4
  Products <- MCProducts
  Requests <- TwoRequests
  Attrs <- MCAttrs
  Skus <- MCSkus
  Seed <- MCSeed
  Skew <- InStep
  Commands <- RestockOnly
  Publishers <- TwoPublishers
  BatchSize = 2
  Poison <- NoPoison
  MaxOutages = 1
INVARIANT
  TopicConverges
PROPERTIES
  ImplementsContract
  EventuallyAnnounced
