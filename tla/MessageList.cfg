\* Three messages of a group and one of a friend, and room for a repeat or a notice.
CONSTANTS
  m1 = m1
  m2 = m2
  m3 = m3
  f1 = f1
  group = group
  friend = friend
  Messages = {m1, m2, m3, f1}
  Notice = Notice
  Senders = {group, friend}
  Groups = {group}
  From <- MCFrom
  GroupSeq <- MCGroupSeq
  Numberings <- MCNumberings
  MaxArrivals = 5
SPECIFICATION ListSpec
INVARIANTS
  Sorted
  OnePlace
  OnlyDuplicatesDie
  GapsReported
PROPERTIES
  EveryMessageRead
CHECK_DEADLOCK FALSE
