SPECIFICATION Spec
CONSTANTS
    Builds = {loud, quiet}
    Quiet = {quiet}
    MaxTurn = 2
    KeptAt = {0}
    Absent = Absent
    Torn = Torn
    Half = Half
    NoWorld = NoWorld
    NoIds = NoIds
INVARIANTS
    TypeOK
    CompletedTurnIsOnDisk
    CleanExitIsSaved
    FailureIsReportedOnce
    AcknowledgedStateSurvives
    BackupIsOneCheckpointBehind
PROPERTY
    NoQuietFailure
