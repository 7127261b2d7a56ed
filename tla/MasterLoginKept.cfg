SPECIFICATION FairSpec
CONSTANTS
    s1 = s1
    s2 = s2
    Salt = {s1, s2}
    IdTail = IdTail
    Backend <- MCHybrid
    Attempts = 2
    MaxInFlight = 1
PROPERTIES
    SessionKept
