\* Aggregators, enum and int fields of plugin.py under Python 2.
CONSTANTS
    B = 2
    PY3 = FALSE
    Kinds = {"sum", "max", "min"}
    MaxVals = {3, 5, 300}
    MaxRecs = 2
    Ordering <- MCOrdering
    Keys = {1, 21, 22, 23}
    Ranges <- MCRanges
SPECIFICATION Spec
INVARIANT TypeOK
INVARIANT AggFaithful
INVARIANT EnumFaithful
INVARIANT IntRoundTrip
INVARIANT IntFieldOrder
CHECK_DEADLOCK FALSE
