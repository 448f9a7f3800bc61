SPECIFICATION Spec
CONSTANTS
  Events = {e1, e2, e3}
  None = None
INVARIANTS
  StageOutlivesUse
  OneMove
PROPERTIES
  LoginEnds
