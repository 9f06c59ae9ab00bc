SPECIFICATION Spec
CONSTANTS
    None = None
    Submissions = {s1}
    Workers = {w1, w2}
    Clients = {c1, c2}
    MAX_ATTEMPTS = 2
    MAX_RETRIES = 1
    EntryPoints <- AllEntries
    EarlyErrors <- AllErrors
    LateErrors <- OnlyTransient
    Faults <- ServerFaults
    MaxFaults = 1
    MaxManual = 2
SYMMETRY WorkerSymmetry
INVARIANTS TypeOK
PROPERTIES LifecycleSpec
CHECK_DEADLOCK FALSE
