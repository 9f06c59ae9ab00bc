SPECIFICATION FairSpec
CONSTANTS
    Tenants = {t1, t2}
    Writers = {w1, w2, w3}
    Events = {e1, e2, e3, e4}
    None = None
    Altered = Altered
    Asked <- AskedPositions
    Faults <- AllFaults
    MaxCorruptions = 1
INVARIANT NoFalseAlarm
INVARIANT TamperEvident
PROPERTY AppendsEnd
CHECK_DEADLOCK FALSE
