SPECIFICATION FairSpec
CONSTANTS
    Talkgroup <- MCTalkgroup
    StreamId <- MCStreamId
    SequenceSpan = 16
    Interval = 1
    PingAfter = 2
    MaxTimeout = 2
    MaxAge = 2
    MaxBacklog = 3
INVARIANTS
    NoOversleep
    IInv
PROPERTIES
    WholeCalls
    InStep
    DmrPaced
    QueueMoves
    KeepsAlive
