SPECIFICATION Spec
CONSTANTS
    Values = {v0, v1, v2}
    First = v0
    Torn = torn
    MaxSaves = 4
PROPERTY
    ReplacesAtomically
