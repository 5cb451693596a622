SPECIFICATION RingSpec
CONSTANTS
  TickFaults = {timeout, noise}
  IsrFaults = {unschedulable}
  RingLen = 4
  MaxPushes = 4
PROPERTY SingleProducer
