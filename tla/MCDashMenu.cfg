SPECIFICATION FairSpec
CONSTANTS
  Hands <- MCHands
  Debounce = 1
  Long = 2
  Stall = 1
  Chunks = 2
  Top = 1
  Entries = 1
INVARIANT CleanWasSent
PROPERTIES CommitAsShown PressOpensOne TxEnds
