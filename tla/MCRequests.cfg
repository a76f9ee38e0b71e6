SPECIFICATION RequestsSpec
CONSTANTS
  Names = {"roads", "osm", ""}
  Clients = {"workspaces", "namespaces", "styles", "datastores", "coverageStores",
    "featureTypes", "coverages", "granules", "layers", "layerGroups", "wmsStores",
    "wmtsStores", "wmsLayers", "wmtsLayers", "wmsStoreLayers", "wmtsStoreLayers",
    "urlChecks", "templates", "workspaceTemplates", "datastoreTemplates",
    "featureTypeTemplates", "coverageStoreTemplates", "coverageTemplates",
    "wfsTransforms", "services", "workspaceServices", "users", "groups", "roles",
    "roleAssignments", "authProviders", "filterChains", "authFilters", "gwcLayers",
    "seed", "gridsets", "masterPassword", "selfPassword", "aclLayers", "aclServices",
    "aclCatalog", "settings", "logging", "imports", "importTasks", "diskQuota",
    "gwcGlobal", "massTruncate", "about", "fonts", "system", "monitor", "wms", "wfs",
    "wcs"}
  FileNames = {"a", "b"}
  Builders = {"a", "b"}
  MaxOptions = 3
  Spellings = {"plain", "slashed", "empty", "slash", "slashes"}
INVARIANTS
  Unambiguous
  EmptyArgumentIsRefused
  TypeOK
  IsTree
  CallsDoWhatTheySay
  AnswersAreTrue
  OwnCredentials
PROPERTY ImmutableAfterNew
