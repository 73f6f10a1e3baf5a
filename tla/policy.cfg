SPECIFICATION FairSpec
CONSTANTS
    a1 = a1
    None = None
    Logins = {r1, r2}
    Settings = {a1, a2}
    TemplateDisabled = TRUE
    OmittedKept = {TRUE, FALSE}
    InitialPolicies <- AnyBefore
    InitiallyLinked = {TRUE, FALSE}
    Disturbances = {"refuse", "fail", "lose", "late", "crash", "configure", "disable"}
    MaxDisturbances = 3
INVARIANTS TypeOK SettingsNotStale ServedWithTemplate
PROPERTIES PolicySettles
