SPECIFICATION Spec
CONSTANTS
    tg = tg
    Talkgroup = {tg}
    Color = {1, 7}
INVARIANTS
    TypeOK
    VoiceUnharmed
    VoiceReturned
    LcRecovered
    LcReadable
    IInv
