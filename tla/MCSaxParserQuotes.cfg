SPECIFICATION Spec
CONSTANTS
  Names = {"a", "b", "p", "q", "lt", "gt"}
  Chars = {"x"}
  Cpus <- MCCpus
  BlockSize <- MCBlockSize
  Mixed = 2
  Nested = 2
  Inputs <- MCInputs
  LaterInputs <- MCLaterInputs
  MaxCalls = 1
  MaxDepth = 2
  MaxEntities = 1
  MaxAttrs = 2
INVARIANT UnquotedAreIndexed
