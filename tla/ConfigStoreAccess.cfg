SPECIFICATION Spec
SYMMETRY ThreadSymmetry
CONSTANTS
    Thread = {t1, t2}
    Config <- MCConfig
    Seed <- MCSeed
    InitialText <- MCInstalled
    Absent = Absent
    Empty = Empty
    Torn = Torn
    MayFail = FALSE
    MaxSaves = 2
INVARIANTS
    AccessPreserved
