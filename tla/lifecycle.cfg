SPECIFICATION FairSpec
CONSTANTS
    Handlers = {h1, h2}
    Goroutines = {g1}
    PoolSize = 2
    Budget = 12
    CallTimeout = 6
    Pause = 1
    Drain = 3
    MaxTime = 24
INVARIANTS TypeOK GivesUpInTime NoConnectionLost
PROPERTIES StatementsServed Stops
