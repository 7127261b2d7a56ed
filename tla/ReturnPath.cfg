SPECIFICATION FairSpec
CONSTANTS
    Packet <- MCPacket
    Behavior <- MCBehavior
    StreamGap = 1
    MaxTimeout = 2
    MaxAge = 2
    MaxPending = 2
INVARIANTS
    HeaderBeforeVoice
    NoOversleep
    IInv
PROPERTIES
    Paced
    DrainsWhenQuiet
