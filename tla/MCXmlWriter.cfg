SPECIFICATION Spec
CONSTANTS
  DeepCalls = 4
  WideCalls = 3
  Scripts <- MCScripts
  Options <- MCOptions
  MaxLen = 4
  MaxStack = 8
  MaxRemovals = 2
INVARIANT TreeIsAsCalled
INVARIANT ContentKept
INVARIANT RoundTrip
PROPERTY RemovesExactly
CHECK_DEADLOCK FALSE
