SPECIFICATION FairRelaySpec
CONSTANT MaxData = 2
CHECK_DEADLOCK FALSE
INVARIANTS RelayTypeOK GracefulDelivery EofIsHonest
PROPERTIES BreakEnds DrainBounded
