CONSTANTS
  Calls = {c1, c2}
  Statuses = {200, 404, 504}
  Redirects = {302, 307}
  MaxHops = 1
  MaxConns = 1
  MaxBody = 2
  JSONCap = 1
  XMLCap = 2
  HasTimeout = TRUE
SYMMETRY CallSymmetry
SPECIFICATION Spec
INVARIANTS
  TypeOK
  NoConnectionLeak
  NilErrorMeansPerformed
PROPERTY KeepsContract
CHECK_DEADLOCK FALSE
