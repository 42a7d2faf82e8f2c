SPECIFICATION Spec
CONSTANTS
    Spellings <- MCSpellings
    Objects <- MCObjects
    Openings <- MCOpenings
    Sayings <- MCSayings
    MaxMessages = 4
INVARIANT
    PresentNamesakeIsChosen
CHECK_DEADLOCK FALSE
