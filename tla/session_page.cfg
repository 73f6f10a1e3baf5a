SPECIFICATION Spec
CONSTANTS
    None = None
    Browsers = {b1}
    Tokens = {t1, t2, t3}
    TTL = 4
    Delay = 0
    MaxEnds = 1
    MaxFailures = 0
PROPERTIES FreshOnPageLoad
