SPECIFICATION FairSpec
CONSTANTS
    Requests = {r1, r2, r3}
    Tokens = {t1, t2, t3}
    None = None
    Fresh = Fresh
INVARIANT ExchangedOnce
INVARIANT OneLiveTokenPerLogin
PROPERTY LogoutIsFinal
PROPERTY RequestsEnd
