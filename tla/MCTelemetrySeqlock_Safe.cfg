SPECIFICATION Spec
CONSTANTS
  Fields = {rpm, faults}
  MaxTries = 8
  MaxWrites = 2
INVARIANT SnapshotIsSafe
