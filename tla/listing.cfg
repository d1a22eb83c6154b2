SPECIFICATION Spec
CONSTANTS
  p1 = p1
  p2 = p2
  p3 = p3
  p4 = p4
  p5 = p5
  Products <- MCProducts
  Existing <- MCExisting
  Limits <- MCLimits
  DefaultLimit = 1
  MaxLimit = 2
  HandlerLimit = 3
SYMMETRY Symmetric
INVARIANTS
  TypeOK
  NothingMissed
  RepeatsAreCreations
