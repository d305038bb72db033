CONSTANTS
    Items = {f, d}
    IsDir = {d}
    f = f
    d = d
    MaxMeddling = 0
SPECIFICATION Spec
PROPERTIES
    SameNameIsRefused
CHECK_DEADLOCK FALSE
