CONSTANTS
    Byte = {b1, b2}
    Capacity = 3
    MaxRequest = 4
SPECIFICATION Spec
INVARIANTS
    TypeOK
    OffsetsAgree
PROPERTY
    UnreadIsKept
