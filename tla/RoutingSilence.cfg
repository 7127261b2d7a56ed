SPECIFICATION Spec
CONSTANTS
    DgId <- MCDgId
    Talkgroup <- MCTalkgroup
    Config <- MCConfig
    SelectorGap = 1
    MaxAge = 5
PROPERTIES
    RouteChangeNeedsSilence
