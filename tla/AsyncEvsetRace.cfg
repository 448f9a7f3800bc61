\* A submitting thread beside the completing one: one event is enough.
CONSTANTS
  Events = {e1, e2}
  Sets = {s1}
  Nothing = Nothing
SPECIFICATION AnyThreadSpec
INVARIANT FinishedRunsCommands
CHECK_DEADLOCK FALSE
