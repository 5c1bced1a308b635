SPECIFICATION Spec
CONSTANTS
    c1 = c1  c2 = c2  beat1 = beat1  beat2 = beat2  op1 = op1  op2 = op2
    api1 = api1  api2 = api2  s1 = s1  s2 = s2
    whatsapp = whatsapp  bale = bale  None = None
    Items = {1, 2}
    Campaigns = {c1, c2}
    Accounts = {1, 2}
    Platforms = {bale, whatsapp}
    Beats = {beat1}
    Operators = {op1}
    Servers = {api1, api2, s1, s2}
    ServerOf <- MCOneServer
    CampaignOf <- MCCampaignOf
    ChannelOf <- MCChannelOf
    PlatformOf <- MCPlatformOf
    BatchSize = 2
    MaxFaults = 1
INVARIANTS
    ClaimsDisjoint
    StatusTellsDelivery
    PushingIsOwned
PROPERTIES
    ClaimsArePermitted
    ItemsLive
CHECK_DEADLOCK FALSE
