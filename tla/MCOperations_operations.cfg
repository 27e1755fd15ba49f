SPECIFICATION MCSpec
CONSTANTS
    Path <- TwoPaths
    Blob = {1, 2, 3, 4, 5, 7, 8}
    Empty = 8
    Mixed = 7
    Ignored <- NoneIgnored
    Branch = {"main", "topic"}
    MaxDepth = 4
    MaxStashes = 2
    MaxStops = 1
    Touches <- TouchBounds
    Loads = {"merge", "pick", "rebase", "am", "stash"}
PROPERTIES
    AbortRestores
    SeriesComplete
    NothingForgotten
    StashKeeps
CHECK_DEADLOCK FALSE
