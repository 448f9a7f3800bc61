\* What lwdb.c says of a number that is found by name.
CONSTANTS
  Buddies = {b1, b2}
  Groups = {}
  Nicks = {n1}
  Marks = {m1}
  Data = {d1}
  CacheLen = 1
  Nothing = Nothing
SPECIFICATION Spec
INVARIANT NumberIsOwn
