CONSTANTS
    Routine = {r1, r2}
    Value = {v1, v2}
    MaxDepth = 2
    Null = Null
SPECIFICATION Spec
PROPERTY
    OthersMemoryIsKept
CHECK_DEADLOCK FALSE
