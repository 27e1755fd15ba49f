CONSTANTS
    Commit = {1, 2, 3, 4, 5}
    Date = {1, 2}
    Ref = {1, 2}
    Slop = 0
    Branch = {main}
    None = None
SPECIFICATION MCSpec
INVARIANTS AncestryTrue NamesTrue
PROPERTY SessionTrue
CHECK_DEADLOCK FALSE
