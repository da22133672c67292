SPECIFICATION Spec
CONSTANTS
  Names = {"a", "b", "p", "q", "lt", "gt"}
  Chars = {"x"}
  Cpus <- MCCpus
  BlockSize <- MCBlockSize
  Mixed = 3
  Nested = 4
  Inputs <- MCInputs
  LaterInputs <- MCLaterInputs
  MaxCalls = 2
  MaxDepth = 2
  MaxEntities = 1
  MaxAttrs = 2
INVARIANT TagsAreIndexed
INVARIANT EventsAreTheDocuments
INVARIANT LimitsHold
