SPECIFICATION Spec
CONSTANTS
  Names = {"roads", ""}
  Clients = {"coverages", "granules"}
INVARIANT DeleteIsSingle
