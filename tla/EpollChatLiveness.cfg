CONSTANTS
    Fd = {f1, f2}
    Server = Server
    Messages <- MCMessages
    Byte = {b1, b2}
    Nul = Nul
    b1 = b1
    b2 = b2
    MaxConnections = 3
    MaxSends = 2
    None = None
    Moved = Moved
SPECIFICATION Spec
PROPERTIES
    QueueDrains
    InboxIsRead
CHECK_DEADLOCK FALSE
