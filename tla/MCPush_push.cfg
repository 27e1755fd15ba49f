CONSTANTS
    Object <- Objects
    Commit <- Commits
    Links <- ObjLinks
    Shallow = {3}
    Ref = {"main", "dev"}
    None = None
    Session = {c1, c2}
    DenyCurrent = TRUE
    Meddling = 1
    Second = c2
    Local <- Objects
    Pushes <- Calls
    Branch = {"main", "dev"}
SPECIFICATION MCSpec
INVARIANTS TipsConnected ReportTruthful AllOrNothing
PROPERTIES FastForwardOnly NothingMissing
CHECK_DEADLOCK FALSE
