SPECIFICATION Spec
CONSTANTS
    Calls = {c1, c2, c3}
    Ephemeral = {c1, c2}
    SSM = {c2, c3}
    Pids = {p1, p2}
    Other = Other
    None = None
CHECK_DEADLOCK FALSE
INVARIANTS OnlyOwnTunnelsHit NoOrphanSession
