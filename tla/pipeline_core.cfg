SPECIFICATION FairSpec
CONSTANTS
    None = None
    Submissions = {s1}
    Workers = {w1, w2}
    Clients = {c1, c2}
    MAX_ATTEMPTS = 2
    MAX_RETRIES = 0
    EntryPoints <- AllEntries
    EarlyErrors <- OnlyPermanent
    LateErrors <- OnlyTransient
    Faults <- AllFaults
    MaxFaults = 1
    MaxManual = 2
INVARIANTS ExclusiveRun UniqueReceipt ReceiptBacked DraftsNeverFile
PROPERTIES TasksEnd
CHECK_DEADLOCK FALSE
