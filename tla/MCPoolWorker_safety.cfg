SPECIFICATION Spec
CONSTANTS
    w1 = w1  w2 = w2  c1 = c1  c2 = c2  Kill = Kill  None = None
    Workers = {w1, w2}
    Accounts = {1}
    Msgs = {2, 3}
    Campaigns = {c1}
    CampaignOf <- MCOneCampaign
    PoolSize = 1
    PoolIndex <- MCSameIndex
    Configured = {1}
    MaxAttempts = 2
    MaxFaults = 1
    Operated = {1, c1, Kill}
SYMMETRY WorkerSymmetry
INVARIANT
    OnePlace
PROPERTIES
    MessagesLive
    
    OneLateSend
CHECK_DEADLOCK FALSE
