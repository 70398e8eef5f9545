CONSTANTS
    Sessions = {s1, s2}
    Dirs = {d1, d2}
    Requests = {r1, r2, r3}
    Backends = {b1, b2, b3, b4, b5, b6, b7}
    LocalModels = {onDevice}
    CloudModels = {tier}
    DefaultLocal = onDevice
    DefaultTier = tier
    Provider = FALSE
    AutoLoad = FALSE
    CommandsSent = {"clear"}
    KindsSent = {"prompt", "new", "config"}
    LoadMayFail = TRUE
    MayRepeatClose = FALSE
    MaxTurns = 2
    MaxOthers = 4
    MaxToolRounds = 1
    MaxDirChanges = 0
    MaxRestarts = 0
    Local = Local
    NoSession = NoSession
    NoState = NoState
    NoRemote = NoRemote
    NoHistory = NoHistory
    NoCopy = NoCopy
SPECIFICATION Spec
INVARIANTS
    TurnKeepsItsBackend
