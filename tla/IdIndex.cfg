SPECIFICATION Spec
CONSTANTS
    Keys = {blank, k1, k2, k3}
    Blank = blank
    RecordBytes = 2
    Rest = 0
INVARIANTS
    IInv
    RoundTrip
PROPERTY
    HandsOutLowestUnused
