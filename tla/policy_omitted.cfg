SPECIFICATION Spec
CONSTANTS
    a1 = a1
    None = None
    Logins = {r1, r2}
    Settings = {a1}
    TemplateDisabled = TRUE
    OmittedKept = {FALSE}
    InitialPolicies <- SetUp
    InitiallyLinked = {TRUE}
    Disturbances = {"configure"}
    MaxDisturbances = 1
INVARIANTS AdminSettingsKept
