CONSTANTS
    Items = {f, g, d}
    IsDir = {d}
    f = f
    g = g
    d = d
    MaxMeddling = 2
SPECIFICATION Spec
INVARIANTS
    UntouchedUntilExtracted
    ReturnIsClean
PROPERTIES
    TheirsIsKept
    PublishesAsPromised
CHECK_DEADLOCK FALSE
