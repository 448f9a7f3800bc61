SPECIFICATION Spec
CONSTANTS
    Calls = {c1, c2}
    Pictures = {p1}
    c1 = c1
    c2 = c2
    p1 = p1
    RetryValue = 1
    MaxWritten = 1
CHECK_DEADLOCK FALSE
INVARIANT MemberPlaced
