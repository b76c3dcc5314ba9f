CONSTANTS
    Routine = {r1, r2, r3}
    MaxChanels = 1
    Capacities = {2}
    Sizes = {0, 1, 2, 3}
    Budget = 6
    Null = Null
SPECIFICATION TerminationSpec
INVARIANTS
    TypeOK
    NoLostWakeup
    EntriesMatchCalls
    DeadlockIsReal
    CallerIsAlive
    NothingIsLeft
PROPERTIES
    KeepsPromise
    SectionEnds
    WokenGoesOn
