\* Three events, one set: joins, failures, a chain and a re-chain, finished by
\* any number of threads at once.
CONSTANTS
  Events = {e1, e2, e3}
  Sets = {s1}
  Nothing = Nothing
SPECIFICATION Spec
INVARIANTS
  SetOutlivesUse
  ChainFinishesCalled
PROPERTIES
  SetEventuallyFires
  EventEventuallyFreed
  ImplementsJoint
CHECK_DEADLOCK FALSE
