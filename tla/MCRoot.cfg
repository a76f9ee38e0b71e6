SPECIFICATION ResourcesSpec
CONSTANTS
  FileNames = {"a", "b"}
  Spellings = {"plain", "slashed", "empty", "slash", "slashes"}
INVARIANT RootIsKept
CHECK_DEADLOCK FALSE
