SPECIFICATION FairSpec
CONSTANTS
    Pods = {1, 2, 3}
    PodStates <- MCPodStates
    Services <- MCServices
    Requested = {0, 1, 3, 4, 9}
    MaxPort = 3
    Int32Size = 8
    None = None
CHECK_DEADLOCK FALSE
INVARIANTS EndpointIsMeant ReadyIsReal
PROPERTIES ForwarderStops CancelEnds
