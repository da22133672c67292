SPECIFICATION MCSpec
CONSTANTS
  MaxStack = 3
  MaxLen = 2
  MinLen = 5
  DeepLen = 5
  WideLen = 3
  PlainPieces = 5
  MisledPieces = 4
  DividedPieces = 5
  Docs <- MCDocs
  FlagSets <- MCFlagSets
  Inputs <- MCInputs
  Options <- MCOptions
  Threads = {1, 2, 3, 4}
INVARIANTS
  RootIsFirst
  DomIsTree
  ValuesAreTheInputs
  MergedIsTree
  MergedIsSerial
PROPERTIES
  BuildsTheTree
