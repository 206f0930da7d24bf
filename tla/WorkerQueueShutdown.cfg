SPECIFICATION Spec
CONSTANTS
  Workers = {w1}
  Publishers = {p1}
  Count = 2
  MaxCaptures = 2
  MaxFaults = 1
PROPERTY InFlightWorkFinishes
