SPECIFICATION Spec
SYMMETRY ThreadSymmetry
CONSTANTS
    Thread = {t1}
    Config <- MCDefaultDisabled
    Seed <- MCSeed
    InitialText <- MCInstalled
    Absent = Absent
    Empty = Empty
    Torn = Torn
    MayFail = FALSE
    MaxSaves = 2
INVARIANTS
    AcceptedStarts
