SPECIFICATION Spec
CONSTANTS
    Refreshes = {r1, r2}
    Creators = {c1, c2}
    Boards <- MCBoards
    NoSku = "none"
    TTL = 2
    MinItems = 1
    MaxPages = 3
    MaxTime = 4
    Browsing = {r1}
    Quoting = {q1}
    MaxBoardEdits = 1
    Imports = {t1, t2}
    Files <- MCFiles
    JsonImports = {j1}
    Lists <- MCLists
    BadPhone = BadPhone
    NoPhone = NoPhone
    NoImport = NoImport
    NoCampaign = 0
    DebugCampaign = 1
    p1 = p1
    p2 = p2
    p3 = p3
    Prepares = {q1, q2, q3}
    MaxContacts = 2
    MaxPushes = 1
INVARIANTS
    PreparationTypeOK
    ScrapeIsExact
    ImportsAreWhole
    
    PricesAreRecent
CHECK_DEADLOCK FALSE
