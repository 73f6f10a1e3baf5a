SPECIFICATION Spec
CONSTANTS
    None = None
    Subs = {s1, s2}
    Values = {v1, v2}
    Faults = {"tableInfo"}
    MaxFaults = 1
INVARIANTS OpensUpgraded
