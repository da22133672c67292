SPECIFICATION MCSpec
CONSTANTS
  MaxStack = 2
  DeepLen = 6
  WideLen = 3
  Docs <- MCDocs
  FlagSets <- MCFlagSets
  Results = {r1, r2}
  NodePages = {p1, p2, p3}
  StringPages = {s1, s2}
  NodesPerPage = 2
  PageSize = 3
  Slack = 1
  Lengths = {1, 2, 4}
  None = None
SYMMETRY Symmetry
CHECK_DEADLOCK FALSE
INVARIANTS
  DomIsForest
  AttrsStay
  NodesOnce
  FreeIsZeroed
  ViewsKept
PROPERTIES
  BuildsTheTree
