CONSTANTS
    Id = {a, b}
    Null = Null
    None = None
    Symbolic = Symbolic
    Blank = Blank
    AnyOld = AnyOld
    Proc = {p1, p2, p3}
    Workloads <- AllWorkloads
    MaxLog = 2
SPECIFICATION MCSpec
SYMMETRY Symmetric
INVARIANTS LocksHeld NoUpdateLost NoEntryLost LogCoversRef
\* Every call returns; the bound on the log ends the behaviours.
CHECK_DEADLOCK FALSE
