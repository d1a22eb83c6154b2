SPECIFICATION Spec
CONSTANTS
  prod1 = prod1
  prod2 = prod2
  prod3 = prod3
  name = name
  skuA = skuA
  skuB = skuB
  skuC = skuC
  r1 = r1
  r2 = r2
  r3 = r3
  r4 = r4
  Original = Original
  NoRow = NoRow
  Products <- MCProducts
  Requests <- MCRequests
  Attrs <- MCAttrs
  Skus <- MCSkus
  MaxStock = 2
  Commands <- MCCommands
  Seed <- MCSeed
  Ids <- MCIds
  SeedLen = 1
  PageSizes <- MCPageSizes
SYMMETRY Symmetric
INVARIANTS
  TypeOK
  SliceIsMap
  WalkIsExact
PROPERTY
  ImplementsStore
