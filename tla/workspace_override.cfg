CONSTANTS
    Sessions = {s1, s2}
    Dirs = {d1, d2}
    Requests = {r1}
    Backends = {b1, b2, b3, b4, b5}
    LocalModels = {onDevice}
    CloudModels = {tier}
    DefaultLocal = onDevice
    DefaultTier = tier
    Provider = TRUE
    AutoLoad = FALSE
    CommandsSent = {"reload"}
    KindsSent = {"prompt", "new"}
    LoadMayFail = FALSE
    MayRepeatClose = FALSE
    MaxTurns = 2
    MaxOthers = 1
    MaxToolRounds = 1
    MaxDirChanges = 0
    MaxRestarts = 0
    Local = Local
    NoSession = NoSession
    NoState = NoState
    NoRemote = NoRemote
    NoHistory = NoHistory
    NoCopy = NoCopy
SPECIFICATION Spec
INVARIANTS
    OverrideServesEverySession
