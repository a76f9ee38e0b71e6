SPECIFICATION AdministrationSpec
CONSTANTS
  Admins = {a1, a2}
  MaxPasswords = 3
  MaxFaults = 1
  Mismatch = "unprocessable"
  Size = 3
  MaxCalls = 3
  MaxAttempts = 3
  Kinds = {"layers", "services", "rest"}
  MaxWrites = 3
  Administrators = {a1, a2}
  Subjects <- MCSubjects
  RoleLists <- MCRoleLists
  Foreign <- MCForeign
  Types = {"versions", "keywords", "filters", "published", "styles", "list", "layerStyles",
           "crs", "optional", "envelope", "provider", "filter", "providers", "namespace",
           "text", "task", "quota", "entry"}
  Texts = {"1", "a"}
  MaxLength = 3
INVARIANTS
  TypeOK
  OneWinner
  StaleUpdateIsDead
  RefusedForGood
  NotLockedOut
  StoredIsWhole
  RulesTypeOK
  RulesMeanWhatWasSaid
  ListIsWhole
  DocumentTypeOK
  ReadsAreTrue
  WritesAreMeant
CHECK_DEADLOCK FALSE
