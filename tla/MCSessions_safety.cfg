SPECIFICATION Spec
CONSTANTS
    MaxReconnects = 1
    YellowAt = 2
    RequireProxy = TRUE
    Hosts = {h1}
    MaxFlips = 3
    MaxHooks = 2
    MaxDbErrors = 1
    NoHost = NoHost
    Phones = {p1}
    Requests = {r1, r2}
    MaxAccounts = 2
    MaxTxns = 3
    Floor = 1
    Delays = {1, 2}
    l1 = l1
    l2 = l2
    l3 = l3
    l4 = l4
    LinkRequests = {q1, q2}
    WarmupRequests = {t1, t2}
    Line = l1
    Lines = {l1, l2, l3, l4}
    WorkerId = 1
    ProxyFiles <- MCProxyFiles
    AllowNoProxyFallback = FALSE
    MaxEdits = 1
    Broken = Broken
    NoProxy = NoProxy
    Nobody = Nobody
INVARIANTS
    SessionsTypeOK
    
    DisconnectHolds
    
PROPERTIES
    
    
    LinkSessionsEnd
CHECK_DEADLOCK FALSE
