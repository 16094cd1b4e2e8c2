SPECIFICATION FairRelaySpec
CONSTANT MaxData = 1
CHECK_DEADLOCK FALSE
PROPERTIES ServerCloseEnds
