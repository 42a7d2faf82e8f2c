SPECIFICATION Spec
CONSTANTS
    MessageText <- MCMessageText
    LiteralText <- MCLiteralText
    Names <- MCNames
    Worlds <- MCWorlds
    Commands <- MCCommands
    Lines <- MCLines
    MaxObjects = 7
    MaxDepth = 6
    MaxRounds = 3
    MaxCommands = 5
INVARIANTS
    ContextRestored
    WritesGoToSelf
    ComparisonsAgree
PROPERTY
    TypesKeepTheirAttributes
CHECK_DEADLOCK FALSE
