SPECIFICATION CheckSpec
CONSTANTS
  MaxElements = 5
  MaxTokens = 5
  Docs <- MCDocs
  Dtds <- MCDtds
  Schemas <- MCSchemas
  Queries <- MCQueries
  Xmlns <- MCXmlns
  NsPrefixes <- MCPrefixes
  Locals = {}
  Uris <- MCUris
  NoPrefix <- NoWord
  Xml <- MCXml
  XmlUri <- Forty
  Unbound <- NoWord
  ByteBits = 3
  ShortBits = 4
  IntBits = 5
  LongBits = 6
  MaxStack = 16
  MaxLen = 9
INVARIANTS
  IssuesAreMismatches
  InnermostBinding
  DtdErrorsExact
  SchemaErrorsExact
  SelectsTheNodes
CHECK_DEADLOCK FALSE
