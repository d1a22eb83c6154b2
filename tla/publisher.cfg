SPECIFICATION FairSpec
CONSTANTS
  e1 = e1
  e2 = e2
  e3 = e3
  p1 = p1
  NoEvent = NoEvent
  Events <- MCEvents
  Publishers <- OnePublisher
  BatchSize = 2
  Poison <- OnePoison
  Times <- TwoTimes
  MaxOutages = 2
INVARIANTS
  TypeOK
  SentWasDelivered
  SentIsNotRepublished
PROPERTY
  EventuallySent
