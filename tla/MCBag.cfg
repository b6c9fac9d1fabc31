\* The Python layer of PySiLK: Bag and IPSet against BagSpec and IPSetSpec,
\* silk.site over a small site, and FGlob against an rwfglob that may fail.
CONSTANTS
    Names = {"a", "b"}
    Keys = {1, 2}
    Values = {0, 2}
    Bounds = {None, 1, 2}
    Items <- MCItems
    Pairs <- MCPairs
    Factors = {0, 2}
    InvCap = 2
    Fuel = 8
    None = None
    SetNames = {"s", "t"}
    Addrs = {1, 2}
    Gens = {FALSE}
    NoSuch = NoSuch
    Scopes = {"bag", "ipset", "site", "fglob"}
SPECIFICATION MCSpec
CONSTRAINT BagBound
INVARIANT TypeOK
INVARIANT IPTypeOK
INVARIANT EqIsEquality
INVARIANT GroupIterValues
INVARIANT SiteTypeOK
INVARIANT QueriesAgreeWithSite
INVARIANT IterSelection
INVARIANT FGTypeOK
PROPERTY BagRefinement
PROPERTY IPSetRefinement
CHECK_DEADLOCK FALSE
