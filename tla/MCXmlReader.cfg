SPECIFICATION FairSpec
CONSTANTS
  Docs <- MCDocs
  InlineAttrs = 1
  Strict = TRUE
  LongLen = 5
  ShortLen = 3
INVARIANTS
  DepthIsOpenElements
  PayloadIsCurrent
  AttrsFromOneTag
  HelperStaysInside
PROPERTIES
  ImplementsCursor
  Drained
