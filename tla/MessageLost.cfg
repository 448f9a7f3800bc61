\* By hand, with -continue: what comments say of duplicates, which neither the number
\* of a message nor its order among those that are read can tell.
CONSTANTS
  m1 = m1
  m2 = m2
  m3 = m3
  f1 = f1
  group = group
  friend = friend
  Messages = {m1, m2, m3, f1}
  Notice = Notice
  Senders = {group, friend}
  Groups = {group}
  From <- MCFrom
  GroupSeq <- MCGroupSeq
  Numberings <- MCNumberings
  MaxArrivals = 4
SPECIFICATION OrderlySpec
INVARIANT OnlyCopiesDie
PROPERTY DuplicateWasRead
CHECK_DEADLOCK FALSE
