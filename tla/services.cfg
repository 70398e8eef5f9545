CONSTANTS
    Sessions = {"s1", "s2"}
    Tasks = {1}
    BufferLimit = 1
    MaxPrints = 2
    MaxSignals = 2
    MaxTyped = 2
    MaxEdits = 2
    Accounts = {"a", "b"}
    NoBearer = "none"
    Refreshers = {"r"}
    MaxChanges = 3
    MaxMcpCalls = 2
    Models = {"a", "b"}
    Downloaded = {}
    CacheOrder <- MCCacheOrder
    PlatformModel = "a"
    Cloud = "cloud"
    NoModel = "none"
    MaxLoads = 3
    MaxChats = 2
    MaxSwitches = 1
    Replies <- MCReplies
    MaxReplies = 2
    LoopLength = 3
    Processes = {1, 2}
    Saved = {1, 2}
    Dirs = {"d"}
    NoDir = "none"
    PageSize = 1
    MaxSaves = 2
    Flows = {1, 2}
    SignedOut = 0
    Budget = 8
    PinCap = 2
    KeepLast = 3
    LongTurns = {}
    LongWeight = 12
    ResultWeight = 2
    LoopKinds = {"chat", "headless", "subagent"}
    MaxPrompts = 2
    LoopCap = 1
    CallsPerReply = 2
    MaxCommands = 1
    PreHooks = 1
    PostHooks = 1
    MaxToolCalls = 1
    MaxGitSteps = 2
    Words <- MCWords
    ConfigFiles <- MCConfigFiles
    ClientLists <- MCClientLists
    ToolLists <- MCToolLists
    McpSessions = {"s1", "s2"}
    MaxRelists = 1
SPECIFICATION ServicesSpec
\* Every part ends by itself when its bounds are used up.
CHECK_DEADLOCK FALSE
INVARIANTS
    
    SignalsMatchTurns
    
    SavesAreWhole
    PagesMissNothing
    TerminalsAreReleased
    TypedTextSurvives
    PagesTellTheTruth
    McpCallsAreSound
    
    ShownIsLoaded
    ConversationKept
PROPERTIES
    CancelledCallsEnd
    TerminalCallsEnd
    CommandsEnd
    
    LoopRequestsAnswerEveryCall
    ToolCallsEnd
    
