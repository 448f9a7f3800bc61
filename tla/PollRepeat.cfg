\* An application that closes the list while a relink is pending, or polls again
\* before the cancelled request is gone.
CONSTANTS
  Polls = {p1, p2, p3}
  Relinks = {x1, x2}
  None = None
SPECIFICATION CarelessSpec
INVARIANT NoRepeatPoll
