SPECIFICATION Spec
CONSTANTS
    a1 = a1
    None = None
    Logins = {r1}
    Settings = {a1}
    TemplateDisabled = FALSE
    OmittedKept = {TRUE}
    InitialPolicies <- AnyBefore
    InitiallyLinked = {FALSE}
    Disturbances = {"fail"}
    MaxDisturbances = 1
INVARIANTS ServedWithTemplate
