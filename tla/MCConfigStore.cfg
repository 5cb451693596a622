SPECIFICATION Spec
CONSTANTS
  MaxSaves = 4
  MaxFailures = 3
INVARIANT AckedIsDurable
PROPERTY StoreIsAtomic
