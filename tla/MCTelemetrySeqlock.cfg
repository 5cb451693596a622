SPECIFICATION FairSpec
CONSTANTS
  Fields = {rpm, faults, sparks}
  MaxTries = 3
  MaxWrites = 3
INVARIANT CleanReadIsOnePublication
PROPERTY ReadsEnd
