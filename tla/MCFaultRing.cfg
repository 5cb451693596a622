SPECIFICATION RingSpec
CONSTANTS
  TickFaults = {timeout, noise}
  IsrFaults = {unschedulable}
  RingLen = 4
  MaxPushes = 5
SYMMETRY FaultSymmetry
INVARIANT RingTypeOK
PROPERTIES DrainedInOrder KeepsLog BitsAreLatched
