SPECIFICATION Spec
CONSTANTS
    a1 = a1
    None = None
    Logins = {r1, r2}
    Settings = {a1}
    TemplateDisabled = TRUE
    OmittedKept = {TRUE}
    InitialPolicies <- SetUp
    InitiallyLinked = {TRUE}
    Disturbances = {"disable"}
    MaxDisturbances = 1
INVARIANTS AdminSettingsKept
