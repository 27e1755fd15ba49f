CONSTANTS
    Obj <- Objects
    Links <- ObjLinks
    Start <- NoPacks
    None = None
    Maint = {m1}
    Jobs <- AllJobs
    Writer = {w1}
    Works <- AllWorks
    Rewrites = {}
    Reader = {}
    Workloads = {"receiving"}
SPECIFICATION MCSpec
PROPERTY OnlyExpiredLost
CHECK_DEADLOCK FALSE
