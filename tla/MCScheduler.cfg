SPECIFICATION FairSpec
CONSTANTS
  MaxCycle = 3
  PoolSize = 3
INVARIANTS AtMostOneSparkPerReference CutHolds
PROPERTIES KeepsContract QuietCommit InhibitKillsCoil
