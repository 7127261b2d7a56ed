SPECIFICATION Spec
SYMMETRY ThreadSymmetry
CONSTANTS
    Thread = {t1, t2}
    Config <- MCConfig
    Seed <- MCSeed
    InitialText <- MCInitialText
    Absent = Absent
    Empty = Empty
    Torn = Torn
    MayFail = TRUE
    MaxSaves = 2
INVARIANTS
    FileIsConfig
    AnswerIsTrue
    AccessKept
    IInv
PROPERTIES
    BackupIsPrevious
    InstallKeepsSettings
