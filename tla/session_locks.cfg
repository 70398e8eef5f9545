CONSTANTS
    Requests = {r1, r2, r3}
    Sessions = {s1, s2}
    Locks = {l1, l2, l3, l4}
    NoLock = NoLock
    NoSession = NoSession
SPECIFICATION FairSpec
INVARIANTS
    MutualExclusion
    NoStaleEntry
PROPERTIES
    KeepsArrivalOrder
    EveryRequestServed
