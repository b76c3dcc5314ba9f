CONSTANTS
    Key = {1, 2, 3}
    Value = {v1, v2}
    MAXHEIGHT = 3
    HEAD = HEAD
    TAIL = TAIL
    Null = Null
SPECIFICATION Spec
INVARIANTS
    TypeOK
    LayersAgree
    NothingLeaks
PROPERTY
    IsOrderedMap
CHECK_DEADLOCK FALSE
