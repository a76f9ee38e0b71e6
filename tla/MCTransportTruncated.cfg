CONSTANTS
  Calls = {c1}
  Statuses = {200, 404}
  Redirects = {}
  MaxHops = 0
  MaxConns = 1
  MaxBody = 2
  JSONCap = 1
  XMLCap = 2
  HasTimeout = TRUE
SPECIFICATION Spec
INVARIANT SuccessDecodes
CHECK_DEADLOCK FALSE
