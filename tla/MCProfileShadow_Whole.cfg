SPECIFICATION Spec
CONSTANTS
  Fields = {teeth, dwell}
  MaxCalls = 2
INVARIANT LiveProfileWhole
CHECK_DEADLOCK FALSE
