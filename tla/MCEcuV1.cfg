SPECIFICATION FairSpec
CONSTANT MaxCycle = 3
INVARIANT ChargeHasAnEnd
PROPERTIES KeepsContract ChargesEnd
