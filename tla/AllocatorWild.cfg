CONSTANTS
    Size = 16
    MaxSize = 3
    Pointers = {p, q}
    Large = {}
    None = None
SPECIFICATION Spec
INVARIANT
    NeverWild
CHECK_DEADLOCK FALSE
