SPECIFICATION Spec
CONSTANTS
    s1 = s1  s2 = s2  a1 = a1  a2 = a2  m1 = m1  m2 = m2  c1 = c1  c2 = c2
    NoMessage = NoMessage
    Shards = {s1, s2}
    Accounts = {a1, a2}
    Messages = {m1, m2}
    AccountOf <- MCAccountOf
    JobId <- MCOwnId
    Assigned <- MCAssigned
    Consumers = {c1, c2}
    MaxBatch = 1
    MaxStalls = 1
    MaxFaults = 2
SYMMETRY Symmetry
INVARIANTS
    OneCopy
    SentPerRun
    AnswersAreTrue
    OneSendAfterKill
    SocketsAreOwned
    LogIsAccounted
    
CHECK_DEADLOCK FALSE
