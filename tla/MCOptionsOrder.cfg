CONSTANTS
  Builders = {"a"}
  MaxOptions = 2
SPECIFICATION OptionsSpec
INVARIANT LaterOptionWins
CHECK_DEADLOCK FALSE
