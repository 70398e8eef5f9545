CONSTANTS
    Sessions = {s1, s2}
    Dirs = {d1, d2}
    Requests = {r1}
    Backends = {b1, b2, b3, b4, b5}
    LocalModels = {onDevice}
    CloudModels = {tier}
    DefaultLocal = onDevice
    DefaultTier = tier
    Provider = TRUE
    AutoLoad = FALSE
    CommandsSent = {"clear"}
    KindsSent = {"prompt", "new"}
    LoadMayFail = FALSE
    MayRepeatClose = FALSE
    MaxTurns = 1
    MaxOthers = 2
    MaxToolRounds = 1
    MaxDirChanges = 2
    MaxRestarts = 0
    Local = Local
    NoSession = NoSession
    NoState = NoState
    NoRemote = NoRemote
    NoHistory = NoHistory
    NoCopy = NoCopy
SPECIFICATION Spec
INVARIANTS
    ToolsRunInTheirSession
