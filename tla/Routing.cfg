SPECIFICATION FairSpec
CONSTANTS
    DgId <- MCDgId
    Talkgroup <- MCTalkgroup
    Config <- MCConfig
    SelectorGap = 1
    MaxAge = 5
INVARIANTS
    TransportFollowsRoute
    SuppressionMatchesRoute
    IInv
PROPERTIES
    WholeTransmission
    SelectorDroppedOnce
    RouteChangeNeedsSilenceForwarding
    SilentRadioReturns
