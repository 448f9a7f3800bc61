SPECIFICATION Spec
CONSTANTS
    Buddies = {b1}
    Quns = {g1}
    Discus = {}
    b1 = b1
    g1 = g1
    MaxMessages = 2
    MaxLoads = 1
    MaxQuits = 1
CHECK_DEADLOCK FALSE
INVARIANT SenderIsLive
