SPECIFICATION FairSpec
CONSTANTS
  reader1 = reader1
  writer1 = writer1
  writer2 = writer2
  Absent = Absent
  Products <- MCProducts
  Seeded <- MCSeeded
  Pages <- TwoPages
  Readers <- OneReader
  Writers <- TwoWriters
  MaxVersion = 2
INVARIANTS
  TypeOK
  StaleOnlyIfTainted
PROPERTY
  FreshInTheEnd
