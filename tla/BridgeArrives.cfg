SPECIFICATION Spec
CONSTANTS
    tg = tg
    Talkgroup = {tg}
    Color = {1}
INVARIANTS
    VoiceArrives
