\* IPSet methods called with generators as well as lists.
CONSTANTS
    Names = {"a", "b"}
    Keys = {1, 2}
    Values = {0, 2}
    Bounds = {None, 1, 2}
    Items <- MCItems
    Pairs <- MCPairs
    Factors = {0, 2}
    InvCap = 2
    Fuel = 8
    None = None
    SetNames = {"s", "t"}
    Addrs = {1, 2}
    Gens = {FALSE, TRUE}
    NoSuch = NoSuch
    Scopes = {"ipset"}
SPECIFICATION MCSpec
PROPERTY IPSetRefinement
