SPECIFICATION Spec
CONSTANTS
    Requests = {1,2,3}
    ChatOf <- MCChatOf
    Groups = {"c"}
    Count <- MCCount
    Per <- MCPer
    BurstOf <- MCBurst
    MaxDelay = 3
    MaxInstant = 4
    MaxNow = 2
    RuleSets <- MCRuleSets
    Username = {}
    Updates <- MCUpdates
    TextCap = 4
    KnownTypes = {"message", "callback_query", "inline_query"}
    Workers = {1,2}
    MaxRoutes = 3
    Bodies <- MCBodies
    LocalPrefix <- MCPrefix
    MaxDepth = 3
    MaxParameters = 6
    MaxHeaders = 8
    Boundary <- MCBoundary
    FrameSizes = {1,3}
    Posts = {1,2}
    Stray = {2}
    Handlers = {1,2}
    Heads <- MCHeads
    Proxies = {"p"}
    AllowList <- MCAllowList
    HookSecret = {"k"}
    HookRoom = 1
    ValidNames = {"a","b","c","d","p","q","r","s","t","l"}
    ValidTokens = {"1:a","2:b","u"}
    HeaderSafe = {"k","s","t"}
    OddSegments = {":id"}
    TokenSegments = {"bot1:"}
    RelativePaths = {"relative"}
    MaxIds = 3
    Files <- MCFiles
    Changes <- Narrow
    Environments <- MCEnvironments
    LoadFile <- Load
    MaxReloads = 3
INVARIANTS
    LimitsHold
    RoutedAsWritten
    GuardExact
    AcknowledgedDelivered
    LoadedExact
    ReloadComplete
PROPERTY CalendarIsSchedule
CHECK_DEADLOCK FALSE
