SPECIFICATION Spec
CONSTANTS
    v1 = v1
    v2 = v2
    None = None
    NotAString = NotAString
    Garbled = Garbled
    V4Bits = 1
    V6Bits = 3
    MapPrefix <- Prefix
    MaxEntries = 2
    Values = {v1, v2}
    Tokens <- SomeTokens
    Cases <- SomeCases
INVARIANTS AnyAcceptedIffListed
