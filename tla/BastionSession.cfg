SPECIFICATION Spec
CONSTANTS
    Handlers = {h1, h2, h3}
    Closers = {k1, k2}
    Nodes = {n1, n2}
    None = None
    MaxExpiries = 1
SYMMETRY Symmetry
CHECK_DEADLOCK FALSE
INVARIANTS TokensAreChained NodesMatch SessionsAreAnswered DeletedOnce CredentialIsShared
