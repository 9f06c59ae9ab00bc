SPECIFICATION OnboardSpec
CONSTANTS
    Visitors = {v1, v2}
    MaxAttempts = 2
    MaxCodes = 1
    MaxMisses = 2
    MaxWizardOps = 0
    MaxSuppliers = 0
    MaxFirst = 0
INVARIANT AttemptsCapped
CHECK_DEADLOCK FALSE
