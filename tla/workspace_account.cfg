CONSTANTS
    Sessions = {s1, s2}
    Dirs = {d1, d2}
    Requests = {r1, r2, r3}
    Backends = {b1, b2, b3, b4, b5, b6, b7}
    LocalModels = {onDevice}
    CloudModels = {tier}
    DefaultLocal = onDevice
    DefaultTier = tier
    Provider = FALSE
    AutoLoad = TRUE
    CommandsSent = {"clear"}
    KindsSent = {"prompt", "load", "close", "fork", "new", "config"}
    LoadMayFail = FALSE
    MayRepeatClose = FALSE
    MaxTurns = 2
    MaxOthers = 4
    MaxToolRounds = 1
    MaxDirChanges = 0
    MaxRestarts = 0
    Local = Local
    NoSession = NoSession
    NoState = NoState
    NoRemote = NoRemote
    NoHistory = NoHistory
    NoCopy = NoCopy
SYMMETRY Symmetry
VIEW View
SPECIFICATION Spec
INVARIANTS
    TypeOK
PROPERTIES
    KeepsThreads
