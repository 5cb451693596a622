SPECIFICATION Spec
CONSTANTS
  MaxCycle = 3
  PoolSize = 3
INVARIANT ChargeHasAnEnd
