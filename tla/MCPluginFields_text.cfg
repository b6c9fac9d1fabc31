\* bin_to_text of register_int_field against rec_to_text.
CONSTANTS
    B = 2
    PY3 = FALSE
    Kinds = {"sum"}
    MaxVals = {3}
    MaxRecs = 1
    Ordering <- MCOrdering
    Keys = {1}
    Ranges <- MCTextRanges
SPECIFICATION Spec
INVARIANT IntFieldText
CHECK_DEADLOCK FALSE
