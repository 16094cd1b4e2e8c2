SPECIFICATION FairSpec
CONSTANTS
    Handlers = {h1, h2}
    Silent = {h2}
    None = None
CHECK_DEADLOCK FALSE
INVARIANTS SingleFlight LiveIsOwned OneConnection
PROPERTIES ChannelsSurvive RetryIsFresh LostIsForgotten ImplementsShared
