SPECIFICATION HSpec
CONSTANTS
  Teeth = 3
  SyncTooth = 0
  ToothMin = 3
  ToothMax = 5
  Debounce = 2
  EdgesToLock = 3
  Mtr10 = 18
  RangeLimit = 2
  NoiseLimit = 3
  SyncTimeout = 9
  Lockout = 12
  TickPeriod = 2
  TickLag = 1
PROPERTY TimeoutIsSilence
