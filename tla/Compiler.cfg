SPECIFICATION Spec
CONSTANT Projects <- MCProjects
INVARIANTS
    ParsesAsWritten
    UndefinedAreReported
    LoadsWhatWasStored
CHECK_DEADLOCK FALSE
