SPECIFICATION Spec
CONSTANTS
  Base = 4
  Lens = {1, 2}
  MaxFrames = 3
INVARIANT NothingSkipped
CHECK_DEADLOCK FALSE
