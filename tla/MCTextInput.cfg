SPECIFICATION Spec
CONSTANTS
  Readers = {r1, r2}
  Files = {f}
  Contents <- MCContents
  Buffers <- MCBuffers
  Regions = {a1, a2, a3}
  None = None
  Threshold = 3
  MaxChanges = 1
  Block = 2
  Chars <- Bytes
  LF <- MCLF
  CR <- MCCR
  Calls = {}
  Texts <- MCTexts
  LineLen = 4
  CallLengths = {2, 3, 4}
  ContextSize = 2
  MaxErrors = 1
SYMMETRY Symmetry
INVARIANTS
  MemoryOwnedOnce
  SpanIsLoaded
  TextIsTheSources
  ValidationIsExact
  PlaceIsTheReference
  ErrorsShowTheirSite
