SPECIFICATION FairSpec
CONSTANTS
  Workers = {w1, w2}
  Publishers = {p1}
  Count = 2
  MaxCaptures = 3
  MaxFaults = 2
INVARIANTS
  TypeOK
  DistinctShares
  CountedOnce
  EntriesAccountedFor
PROPERTIES
  ImplementsJobQueue
  WaitingIsHandedOut
