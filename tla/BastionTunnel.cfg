SPECIFICATION FairSpec
CONSTANTS
    Configs <- MCConfigs
    Infos <- MCInfos
    FreePort = 1024
    Conns = {c1, c2}
    Main = Main
    Nodes = {n1}
    MaxExpiries = 1
    Deaf = {c2}
    None = None
CHECK_DEADLOCK FALSE
INVARIANTS SessionIsDeleted
PROPERTIES ImplementsTunnel InterruptEnds
