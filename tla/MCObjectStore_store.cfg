CONSTANTS
    Obj <- Objects
    Links <- ObjLinks
    Start <- StartPacks
    None = None
    Maint = {m1, m2}
    Jobs <- AllJobs
    Writer = {w1}
    Works <- AllWorks
    Rewrites = {}
    Reader = {q1}
    Workloads = {"adding", "packing", "reading", "growing", "keeping"}
SPECIFICATION MCSpec
INVARIANTS TypeOK RootsAvailable StoredStays PairsWhole ReadsFind
PROPERTIES OnlyExpiredLost
CHECK_DEADLOCK FALSE
