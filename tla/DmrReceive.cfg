SPECIFICATION Spec
CONSTANTS
    StreamId <- MCStreamId
    None <- MCNone
    SequenceSpan = 16
    MaxInbox = 2
INVARIANTS
    OneVoice
    NoFrameLeftBehind
    IInv
PROPERTIES
    FormsStreams
    SilenceEndsStream
