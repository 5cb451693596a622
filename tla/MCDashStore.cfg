SPECIFICATION OdoFairSpec
CONSTANTS
  Far = 2
  Interval = 1
  MaxBoots = 3
INVARIANTS OdoTypeOK OdometerKept
PROPERTIES SavesWhenParked
