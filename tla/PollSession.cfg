\* Two request objects that take turns, and up to two relinks pending at once.
CONSTANTS
  Polls = {p1, p2}
  Relinks = {x1, x2}
  None = None
SPECIFICATION Spec
INVARIANTS
  OnePoll
  MessagesAnnounced
PROPERTIES
  EndsOnlyByLogout
