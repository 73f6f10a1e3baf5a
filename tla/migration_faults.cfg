SPECIFICATION FairSpec
CONSTANTS
    None = None
    Subs = {s1, s2}
    Values = {v1, v2}
    Faults = {"statement", "tableInfo", "crash"}
    MaxFaults = 3
INVARIANTS TypeOK
PROPERTIES RowsKept ImplementsStore GetsOpen
