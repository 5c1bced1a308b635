SPECIFICATION Spec
CONSTANTS
    c1 = c1
    c2 = c2
    i1 = i1
    i2 = i2
    t1 = t1
    Workers = {w1, w2}
    Items = {i1, i2}
    Tests = {t1}
    Campaigns = {c1, c2}
    Channels = {"whatsapp", "telegram"}
    Requests = {r1}
    Decisions = {d1, d2}
    Channel <- MCChannel
    MaxRetries = 3
INVARIANTS
    OptOutHolds
    WorkersRehearse
    DispatchRehearses
    
    
CHECK_DEADLOCK FALSE
