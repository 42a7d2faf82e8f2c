SPECIFICATION Spec
CONSTANTS
    Spellings <- MCSpellings
    Objects <- MCObjects
    Openings <- MCOpenings
    Sayings <- MCSayings
    MaxMessages = 4
INVARIANTS
    AlwaysListening
    EveryWordIsHeard
    LongestPhraseWins
    NearestNamesakeIsChosen
CHECK_DEADLOCK FALSE
