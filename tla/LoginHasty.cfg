SPECIFICATION HastySpec
CONSTANTS
  Events = {e1, e2, e3, e4}
  None = None
INVARIANTS
  StageOutlivesUse
