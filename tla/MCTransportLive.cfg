CONSTANTS
  Calls = {c1, c2}
  Statuses = {200, 404}
  Redirects = {307}
  MaxHops = 1
  MaxConns = 1
  MaxBody = 0
  JSONCap = 1
  XMLCap = 1
  HasTimeout = TRUE
SPECIFICATION FairSpec
PROPERTIES
  EveryCallReturns
  ConnectionsComeBack
CHECK_DEADLOCK FALSE
