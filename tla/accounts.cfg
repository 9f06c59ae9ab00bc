SPECIFICATION AccountsSpec
CONSTANTS
    Processes = {p1, p2}
    Clients = {c1, c2}
    LoginIps = {"home"}
    MaxFails = 2
    Window = 1
    LockFor = 2
    MaxGuesses = 4
    MaxLockClock = 3
    MaxLockFaults = 1
    Visitors = {v1, v2}
    MaxAttempts = 2
    MaxCodes = 2
    MaxMisses = 1
    MaxWizardOps = 4
    MaxSuppliers = 1
    MaxFirst = 1
    Passwords <- MCPasswords
    CharClass <- MCCharClass
    LowerOf <- MCLowerOf
    CommonPasswords <- MCCommonPasswords
    CommonInside <- MCCommonInside
    Identities <- MCIdentities
    MinLength = 3
    MaxLength = 4
    MinCategories = 2
    RunLength = 3
    SeqLength = 3
    MinIdentity = 2
    Tenants = {"t1", "t2"}
    SupplierIds = {1, 2, 3}
    RecordIds = {4, 5, 6, 7}
    FirstSuppliers <- MCFirstSuppliers
    FirstRecord <- MCFirstRecord
    Inputs <- MCInputs
    MaxRequests = 3
SYMMETRY Interchangeable
INVARIANT LockoutSound
INVARIANT OnboardingSound
INVARIANT PolicyExact
INVARIANT RecordsSound
PROPERTY OnboardingSteps
CHECK_DEADLOCK FALSE
