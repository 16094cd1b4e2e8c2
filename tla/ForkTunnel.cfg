SPECIFICATION FairForkSpec
CONSTANTS
    Tunnels = {t1, t2}
    Observed = {t2}
    Other = Other
    Nobody = Nobody
CHECK_DEADLOCK FALSE
INVARIANTS ReadyMeansServing FailedLeavesNothing
PROPERTIES ForkReturns TunnelsFollowTerraform
