SPECIFICATION MCSpec
CONSTANTS
  MaxStack = 3
  MaxLen = 2
  MinLen = 5
  DeepLen = 0
  WideLen = 0
  PlainPieces = 0
  MisledPieces = 0
  DividedPieces = 3
  Docs <- MCDocs
  FlagSets <- MCFlagSets
  Inputs <- MCComments
  Options <- MCOptions
  Threads = {1, 2, 3, 4}
INVARIANT
  SplitsAreSafe
