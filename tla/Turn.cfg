SPECIFICATION Spec
CONSTANTS
    Answers = {yes}
    Declined = Declined
    Eof = Eof
    NoSeed = NoSeed
    Period = 4
    MaxAnswers = 3
    MaxEvents = 3
    MaxOps = 4
INVARIANTS
    TypeOK
    SeedIsCarried
    ReplaysAgree
    DeclineEndsTheTurn
PROPERTY
    TurnsHappenWhole
