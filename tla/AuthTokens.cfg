SPECIFICATION Spec
CONSTANTS
    Calls = {c1, c2, c3}
    MaxFailedAttempts = 2
    Lockout = 1
    MaxTime = 3
    MaxTokens = 3
    MaxFailures = 3
SYMMETRY CallSymmetry
INVARIANTS RedeemedOnce FullCountLocks
PROPERTIES ImplementsSingleUse
