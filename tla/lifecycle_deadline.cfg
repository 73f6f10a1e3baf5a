SPECIFICATION Spec
CONSTANTS
    Handlers = {h1}
    Goroutines = {g1}
    PoolSize = 1
    Budget = 12
    CallTimeout = 6
    Pause = 1
    Drain = 3
    MaxTime = 24
INVARIANTS GivesUpAtDeadline
