CONSTANTS
    Sessions = {s1, s2}
    Dirs = {d1, d2}
    Requests = {r1}
    Backends = {b1, b2, b3, b4, b5}
    LocalModels = {onDevice}
    CloudModels = {tier}
    DefaultLocal = onDevice
    DefaultTier = tier
    Provider = FALSE
    AutoLoad = TRUE
    CommandsSent = {"load", "models", "reload"}
    KindsSent = {"prompt", "load", "new"}
    LoadMayFail = FALSE
    MayRepeatClose = FALSE
    MaxTurns = 3
    MaxOthers = 4
    MaxToolRounds = 1
    MaxDirChanges = 0
    MaxRestarts = 1
    Local = Local
    NoSession = NoSession
    NoState = NoState
    NoRemote = NoRemote
    NoHistory = NoHistory
    NoCopy = NoCopy
SPECIFICATION Spec
PROPERTIES
    KeepsThreads
