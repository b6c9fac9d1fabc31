\* One daemon under the test suite's discipline, and one whose lines may be
\* split and whose handle is called in any order (see MCHarnessModes).
CONSTANTS
    None = None
    d1 = d1
    a = a
    b = b

SPECIFICATION MCSpec

INVARIANT TypeOK
INVARIANT LogComplete
PROPERTY NoMissedMatch
PROPERTY CallsReturn
