SPECIFICATION MCSpec
CONSTANTS
    None = None
    Names = {"main", "side", "v"}
    Spaces = {"heads", "tags", "remotes"}
    Content <- Universe
    Calls <- AllCalls
    Loads = {"whole", "depth"}
    MaxCalls <- CallBounds
    MaxMoves <- MoveBounds
INVARIANTS
    ClientWhole
    DepthMet
CHECK_DEADLOCK FALSE
