\* By hand: what lwdb.h says of a update without a row.
CONSTANTS
  Buddies = {b1, b2}
  Groups = {}
  Nicks = {n1}
  Marks = {m1}
  Data = {d1}
  CacheLen = 1
  Nothing = Nothing
SPECIFICATION Spec
PROPERTY UpdateReports
