SPECIFICATION Spec
CONSTANTS
    c1 = c1  c2 = c2  beat1 = beat1  beat2 = beat2  op1 = op1  op2 = op2
    api1 = api1  api2 = api2  s1 = s1  s2 = s2
    whatsapp = whatsapp  bale = bale  None = None
    Items = {1}
    Campaigns = {c1}
    Accounts = {2}
    Platforms = {bale, whatsapp}
    Beats = {}
    Operators = {op1, op2}
    Servers = {api1, api2, s1, s2}
    ServerOf <- MCOneServer
    CampaignOf <- MCCampaignOf
    ChannelOf <- MCSameChannel
    PlatformOf <- MCPlatformOf
    BatchSize = 1
    MaxFaults = 0
INVARIANTS
    PausedHasKey
CHECK_DEADLOCK FALSE
