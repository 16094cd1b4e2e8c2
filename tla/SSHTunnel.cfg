SPECIFICATION FairSpec
CONSTANTS
    Conns = {c1, c2}
    Auth = Auth
    Probe = Probe
    Deaf = {c2}
    Silent = {Auth, c1}
    None = None
CONSTRAINT FewConnections
CHECK_DEADLOCK FALSE
PROPERTIES ImplementsTunnel RelaysSurvive InterruptEnds
