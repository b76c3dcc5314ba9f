CONSTANTS
    Size = 16
    MaxSize = 2
    Pointers = {p, q, r}
    Large = {q}
    None = None
SYMMETRY Symmetry
SPECIFICATION Spec
INVARIANTS
    TypeOK
    BlocksTile
    ClientsHaveBlocks
    FreeBlocksAreListed
PROPERTIES
    KeepsBlocks
    DefragCompacts
    SearchAdvances
    OnlyAbsorbedTangle
CHECK_DEADLOCK FALSE
