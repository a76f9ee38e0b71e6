CONSTANTS
  Clients = {"settings"}
  Fields = {"verbose", "globalServices"}
  Editors = {"a"}
  MaxEdits = 1
  MaxTimeouts = 0
SPECIFICATION DocumentsSpec
INVARIANT FalseCanBeSet
CHECK_DEADLOCK FALSE
