SPECIFICATION FairServiceSpec
CONSTANTS
  prod1 = prod1
  prod2 = prod2
  prod3 = prod3
  name = name
  skuA = skuA
  skuB = skuB
  r1 = r1
  r2 = r2
  Original = Original
  NoRow = NoRow
  NoInput = NoInput
  NoId = NoId
  BlankId = BlankId
  Products <- MCProducts
  Requests <- MCRequests
  Attrs <- MCAttrs
  Skus <- MCSkus
  MaxStock = 1
  Commands <- MCCommands
  Seed <- MCSeed
  Inputs <- MCInputs
  Skew <- InStep
INVARIANTS
  TypeOK
  WireIsHonest
  LabelMatchesStatus
PROPERTIES
  ImplementsLayers
  EveryRequestAnswered
