\* group_iterator() of two bags runs to its end and yields each key once.
CONSTANTS
    Names = {"a", "b"}
    Keys = {1, 2}
    Values = {0, 2}
    Bounds = {None, 1, 2}
    Items <- MCItems
    Pairs <- MCPairs
    Factors = {0, 2}
    InvCap = 2
    Fuel = 8
    None = None
    SetNames = {"s", "t"}
    Addrs = {1, 2}
    Gens = {FALSE}
    NoSuch = NoSuch
    Scopes = {"bag"}
SPECIFICATION MCSpec
CONSTRAINT BagBound
INVARIANT GroupIterComplete
