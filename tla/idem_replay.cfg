SPECIFICATION Spec
CONSTANTS
    Attempts = {a1, a2, a3}
    Tenants = {x}
    Keys = {k1}
    Bodies = {b1, b2}
    Processes = {p1, p2}
    Redis = Redis
    Anon = Anon
    NoKey = NoKey
    BadKey = BadKey
    None = None
    Conflict = Conflict
    Rejected = Rejected
    Failed = Failed
    KeyRequired = {TRUE, FALSE}
    RedisPings = {TRUE, FALSE}
    Faults = TRUE
    MaxUpsets = 1
SYMMETRY Symmetric
CHECK_DEADLOCK FALSE
INVARIANT ReplayMatches
INVARIANT RetriesRunOnce
