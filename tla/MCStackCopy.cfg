CONSTANTS
    Routine = {r1, r2}
    Value = {v1, v2}
    MaxDepth = 3
    Null = Null
SPECIFICATION Spec
INVARIANTS
    TypeOK
    BufferHoldsStack
PROPERTY
    StacksArePrivate
CHECK_DEADLOCK FALSE
