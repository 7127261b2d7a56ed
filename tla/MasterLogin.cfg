SPECIFICATION FairSpec
CONSTANTS
    s1 = s1
    s2 = s2
    Salt = {s1, s2}
    IdTail = IdTail
    Backend <- MCAnyBackend
    Attempts = 2
    MaxInFlight = 2
INVARIANTS
    AcceptedLogin
    IInv
PROPERTIES
    Recovers
