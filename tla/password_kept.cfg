SPECIFICATION Spec
CONSTANTS
    s1 = s1
    s2 = s2
    r1 = r1
    r2 = r2
    n1 = n1
    n2 = n2
    n3 = n3
    i1 = i1
    i2 = i2
    i3 = i3
    i4 = i4
    i5 = i5
    None = None
    Blank = Blank
    Foreign = Foreign
    Subs = {s1}
    Reqs = {r1}
    Names = {n1}
    Ids = {i1, i2, i3}
    Passwords = {p1, p2, p3, p4, p5, p6}
    Tokens = {t1, t2, t3, t4}
    InitialNames <- N1Taken
    TemplateDisabled = TRUE
    SubOf <- OneBrowser
    PrefNames <- OneName
    Disturbances = {"refuse"}
    MaxDisturbances = 1
    Draw <- DrawOne
PROPERTIES StoredPasswordKept
