SPECIFICATION Spec
CONSTANTS
  Names = {"a", "b"}
  Attrs = {"p", "q", "r"}
  Chars = {"x"}
  MaxDepth = 1
  MaxEntities = 1
  MaxAttrs = 2
  BufSize = 1
  Mixed = 3
  Nested = 4
  Lookback = 6
  ChunkSizes = {4, 6, 7}
  MaxCalls = 2
  Inputs <- MCInputs
  LaterInputs <- MCLaterInputs
INVARIANTS
  FedInOrder
  EventsAreTheDocuments
  LimitsOverAllChunks
PROPERTIES
  ParseReturns
