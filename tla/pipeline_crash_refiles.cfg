SPECIFICATION Spec
CONSTANTS
    None = None
    Submissions = {s1}
    Workers = {w1}
    Clients = {c1}
    MAX_ATTEMPTS = 2
    MAX_RETRIES = 1
    EntryPoints <- ApiOnly
    EarlyErrors <- NoErrors
    LateErrors <- NoErrors
    Faults <- OnlyCrashes
    MaxFaults = 1
    MaxManual = 0
INVARIANTS CrashNeverFilesTwice
CHECK_DEADLOCK FALSE
