CONSTANTS
    Budget = 12
    PinCap = 2
    KeepLast = 3
    LongTurns = {2}
    LongWeight = 12
    ResultWeight = 2
    ReadOnlyTools = {"command_output"}
    Tools <- MCTools
    Families <- MCFamilies
    DenyRules <- MCDenyRules
    AllowRules <- MCAllowRules
    Explicit <- MCExplicit
    DefaultMode = "ask"
    AnyFamily = AnyFamily
    CallLists <- MCCallLists
    PollingTools = {"command_output"}
    IdsRepeat = FALSE
    MaxTurns = 2
    MaxToolRounds = 2
    MaxEvents = 2
SPECIFICATION FairSpec
CHECK_DEADLOCK FALSE
INVARIANTS
    TypeOK
    RequestsAnswerEveryCall
PROPERTIES
    
    
    RepetitionEndsTheTurn
    
