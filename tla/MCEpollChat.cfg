CONSTANTS
    Fd = {f1, f2, f3}
    Server = Server
    Messages <- MCMessages
    Byte = {b1, b2}
    Nul = Nul
    b1 = b1
    b2 = b2
    MaxConnections = 3
    MaxSends = 2
    None = None
    Moved = Moved
SYMMETRY Symmetry
SPECIFICATION Spec
INVARIANTS
    TypeOK
    ArmedIffQueued
    EventsAreCurrent
    RegisteredAreClients
    EachGetsItsStream
CHECK_DEADLOCK FALSE
