CONSTANTS
    Sessions = {s1, s2}
    Dirs = {d1}
    Requests = {r1}
    Backends = {b1, b2, b3, b4, b5}
    LocalModels = {onDevice}
    CloudModels = {tier}
    DefaultLocal = onDevice
    DefaultTier = tier
    Provider = FALSE
    AutoLoad = FALSE
    CommandsSent = {"load", "clear"}
    KindsSent = {"prompt", "load", "close", "fork", "new", "config", "logout"}
    LoadMayFail = TRUE
    MayRepeatClose = FALSE
    MaxTurns = 3
    MaxOthers = 5
    MaxToolRounds = 1
    MaxDirChanges = 0
    MaxRestarts = 1
    Local = Local
    NoSession = NoSession
    NoState = NoState
    NoRemote = NoRemote
    NoHistory = NoHistory
    NoCopy = NoCopy
SYMMETRY SessionSymmetry
VIEW View
SPECIFICATION Spec
PROPERTIES
    KeepsThreads
