SPECIFICATION FairDialSpec
CONSTANTS
    Keys = {k1, k2}
    Secret = Secret
    Bad = Bad
    None = None
CHECK_DEADLOCK FALSE
INVARIANTS OutcomeIsClean OnlyConfiguredShown EveryCredentialShown
PROPERTIES DialEnds
