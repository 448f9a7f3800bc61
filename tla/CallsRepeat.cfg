SPECIFICATION Spec
CONSTANTS
    Calls = {c1}
    Pictures = {p1}
    c1 = c1
    p1 = p1
    RetryValue = 1
    MaxWritten = 2
CHECK_DEADLOCK FALSE
PROPERTY NewIsNew
