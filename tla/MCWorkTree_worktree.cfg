SPECIFICATION Spec
CONSTANTS
  Path <- AllPaths
  Blob = {1, 2}
  Empty = 1
  Ignored <- IgnoredPaths
  Name = {1, 2}
  Place <- AllPlaces
  Branch = {1, 2, 3}
  Change = {1, 2}
  MaxCalls = 3
  Loads = {"plain", "merge", "sparse", "links", "branches"}
INVARIANT Mendable
PROPERTIES NothingLost ChecksSuffice SwitchCarries SparseQuiet TreesKept BranchesFollow
CHECK_DEADLOCK FALSE
