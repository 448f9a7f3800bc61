SPECIFICATION Spec
CONSTANTS
    Buddies = {b1}
    Quns = {g1}
    Discus = {d1}
    People = {p1}
    Myself = me
    b1 = b1
    g1 = g1
    d1 = d1
    p1 = p1
    me = me
    MaxCalls = 2
    MaxOthers = 1
    Slots = {1, 2}
CHECK_DEADLOCK FALSE
INVARIANTS
    InStep
PROPERTY
    DiscuCatchesUp
