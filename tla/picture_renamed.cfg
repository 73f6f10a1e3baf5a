SPECIFICATION FairSpec
CONSTANTS
    s1 = s1
    r1 = r1
    r2 = r2
    None = None
    NoPic = NoPic
    Subs = {s1}
    Logins = {r1, r2}
    SubOf <- BothOfOne
    Ids = {i1, i2, i3}
    Pics = {u1, u2}
    Claims = {u1, u2}
    Disturbances = {"rename"}
    MaxDisturbances = 1
INVARIANTS TableTellsImage
