CONSTANTS
    INT = {1, 2}
    S = 6
    B = 2
    OPEN_FILES_LIMIT = 3
    MaxRuns = 4
SPECIFICATION Spec
INVARIANTS
    TypeOK
    BlocksFit
    NothingIsLost
    FilesAreSorted
PROPERTY
    SortEnds
CHECK_DEADLOCK FALSE
