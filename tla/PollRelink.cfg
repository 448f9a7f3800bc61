CONSTANTS
  Polls = {p1, p2}
  Relinks = {x1, x2}
  None = None
SPECIFICATION Spec
INVARIANT RelinkFirst
