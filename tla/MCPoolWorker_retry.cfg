SPECIFICATION Spec
CONSTANTS
    w1 = w1  w2 = w2  c1 = c1  c2 = c2  Kill = Kill  None = None
    Workers = {w1}
    Accounts = {1, 2}
    Msgs = {2, 3}
    Campaigns = {c1, c2}
    CampaignOf <- MCCampaigns
    PoolSize = 1
    PoolIndex <- MCSameIndex
    Configured = {1, 2}
    MaxAttempts = 3
    MaxFaults = 0
    Operated = {1, 2, c1, c2, Kill}
PROPERTIES
    OutcomePersisted
CHECK_DEADLOCK FALSE
