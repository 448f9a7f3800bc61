SPECIFICATION Spec
CONSTANTS
    Buddies = {}
    Quns = {g1, g2}
    Discus = {d1}
    People = {p1}
    Myself = me
    b1 = b1
    g1 = g1
    g2 = g2
    d1 = d1
    p1 = p1
    me = me
    MaxCalls = 3
    MaxOthers = 0
    Slots = {1, 2}
CHECK_DEADLOCK FALSE
PROPERTY OtherMasksKept
