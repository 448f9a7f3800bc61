\* A friend and a group of one name, two values, a cache of one statement.
CONSTANTS
  Buddies = {b1}
  Groups = {g1}
  Nicks = {n1}
  Marks = {}
  Data = {d1, d2}
  CacheLen = 1
  Nothing = Nothing
SPECIFICATION Spec
SYMMETRY Symmetry
INVARIANTS
  OpenIsComplete
  StatementsKept
PROPERTY ImplementsMap
