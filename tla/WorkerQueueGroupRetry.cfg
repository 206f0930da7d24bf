SPECIFICATION FairSpec
CONSTANTS
  Workers = {w1}
  Publishers = {p1}
  Count = 2
  MaxCaptures = 1
  MaxFaults = 1
PROPERTY GroupCreationIsRetried
