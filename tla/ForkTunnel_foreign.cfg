SPECIFICATION ForkSpec
CONSTANTS
    Tunnels = {t1}
    Observed = {t1}
    Other = Other
    Nobody = Nobody
CHECK_DEADLOCK FALSE
INVARIANT ObservedMeansServing
