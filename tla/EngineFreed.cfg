CONSTANTS
    Routine = {r1, r2, r3}
    MaxChanels = 1
    Capacities = {2}
    Sizes = {0, 1, 2, 3}
    Null = Null
SPECIFICATION Spec
INVARIANT
    FreedIsNeverResumed
