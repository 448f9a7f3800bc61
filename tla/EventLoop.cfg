\* Two dispatched commands.  A quit whose notification is missed waits for ever, so
\* the system may stop: QuitReturns says when.
CONSTANTS
  Timers = {t1, t2}
SPECIFICATION LoopSpec
INVARIANTS
  LoopIsThere
PROPERTIES
  WatchRuns
  QuitReturns
CHECK_DEADLOCK FALSE
