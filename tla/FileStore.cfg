SPECIFICATION Spec
CONSTANTS
    States = {s1, s2, s3}
    Absent = Absent
    Torn = Torn
INVARIANTS
    IInv
    NeverTorn
    WriteContract
PROPERTY
    NothingIsEverLost
