CONSTANTS
    Byte = {b1, b2}
    Capacity = 3
    MaxRequest = 3
SPECIFICATION Spec
PROPERTY
    Fifo
