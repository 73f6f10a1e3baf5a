SPECIFICATION FairSpec
CONSTANTS
    None = None
    Browsers = {b1, b2}
    Tokens = {t1, t2, t3, t4}
    TTL = 2
    Delay = 1
    MaxEnds = 2
    MaxFailures = 1
INVARIANTS TypeOK HandedOnInTime
PROPERTIES PageRecovers
