------------------------------ MODULE SubClients -------------------------------
(***************************************************************************)
(* What each method of the configuration sub-clients sends: the guards on  *)
(* its arguments and the method, path and query of its one request.  A     *)
(* sub-client builds a list of segments and internal/transport.BuildURL    *)
(* turns it into a path, dropping the empty ones: a missing guard silently *)
(* addresses another resource.                                             *)
(* A call is a record of sub-client, method, scope arguments, name and     *)
(* Recurse flag; a path is the sequence of segments after the base URL.    *)
(* Bodies are non-nil and well formed: those guards concern no path.       *)
(***************************************************************************)
EXTENDS Naturals, Sequences, SequencesExt

-----------------------------------------------------------------------------
\* path.Join over the base and the escaped segments.  PathEscape keeps a slash
\* inside its segment, so a non-empty name is exactly one segment.
PathJoin(path, segment) ==
  IF segment \in {"", "."} THEN path
  ELSE IF segment = ".." THEN (IF path = <<>> THEN path ELSE Front(path))
  ELSE Append(path, segment)

BuildURL(parts) ==
  LET joined[i \in 0..Len(parts)] ==
        IF i = 0 THEN <<>> ELSE PathJoin(joined[i - 1], parts[i])
  IN joined[Len(parts)]

\* body names the kind of document sent, or asked for when it is not JSON, and
\* what inside it identifies the resource.
Request(method, parts, body, query) ==
  [method |-> method, path |-> BuildURL(parts), body |-> body, query |-> query]

\* An error before anything is sent.
Refused == [method |-> "none", path |-> <<>>, body |-> <<>>, query |-> {}]

Method ==
  [List |-> "GET", Get |-> "GET", Create |-> "POST", Update |-> "PUT", Delete |-> "DELETE"]

\* The shape nearly every sub-client repeats: List and Create address the
\* collection, Get, Update and Delete the item, and an empty name is refused.
Crud(o, collection, query) ==
  IF o.verb = "List" THEN Request("GET", collection, <<>>, {})
  ELSE IF o.name = "" THEN Refused
  ELSE IF o.verb = "Create" THEN Request("POST", collection, <<"json", o.name>>, {})
  ELSE Request(Method[o.verb], Append(collection, o.name),
               IF o.verb = "Update" THEN <<"json">> ELSE <<>>,
               IF o.verb = "Delete" THEN query ELSE {})

\* Faulty variant: the option is not sent.
RecurseForgotten(o) == {}

\* The deletes that take DeleteOptions{Recurse}.
Recurse(o) == IF o.recurse THEN {"recurse=true"} ELSE {"recurse=false"}

\* Those that leave the parameter out when it is false.
RecurseIfSet(o) == IF o.recurse THEN {"recurse=true"} ELSE {}

\* Faulty variant: only the workspace is checked.
checkWorkspaceOnly(o) == o.scope # <<>> /\ o.scope[1] = ""

\* The per-method check of a workspace- or store-scoped client (checkScope).
Unscoped(o) == \E i \in DOMAIN o.scope : o.scope[i] = ""

InWorkspace(o, kind) == <<"rest", "workspaces", o.scope[1], kind>>

-----------------------------------------------------------------------------
\* The catalog.

Workspaces(o) == Crud(o, <<"rest", "workspaces">>, Recurse(o))

Namespaces(o) == Crud(o, <<"rest", "namespaces">>, {})

\* An empty workspace is the global scope.
Styles(o) ==
  LET collection ==
        <<"rest">> \o (IF o.scope[1] = "" THEN <<>> ELSE <<"workspaces", o.scope[1]>>)
          \o <<"styles">>
  IN IF o.verb = "UploadSLD"
     THEN IF o.name = "" THEN Refused
          ELSE Request("PUT", Append(collection, o.name), <<"sld">>, {})
     ELSE Crud(o, collection, IF o.recurse THEN {"purge=true"} ELSE {"purge=false"})

Datastores(o) ==
  LET collection == InWorkspace(o, "datastores")
  IN IF Unscoped(o) THEN Refused
     ELSE IF o.verb = "UploadFile"
     THEN IF o.name = "" THEN Refused
          ELSE Request("PUT", collection \o <<o.name, "file">>, <<"file">>, {})
     ELSE Crud(o, collection, Recurse(o))

CoverageStores(o) ==
  LET collection == InWorkspace(o, "coveragestores")
  IN IF Unscoped(o) THEN Refused
     ELSE IF o.verb \in {"UploadFile", "HarvestGranule"}
     THEN IF o.name = "" THEN Refused
          ELSE Request(IF o.verb = "UploadFile" THEN "PUT" ELSE "POST",
                       collection \o <<o.name, "file">>, <<"file">>, {})
     ELSE Crud(o, collection, Recurse(o))

FeatureTypes(o) ==
  LET collection == InWorkspace(o, "datastores") \o <<o.scope[2], "featuretypes">>
  IN IF Unscoped(o) THEN Refused
     ELSE IF o.verb = "Discover" THEN Request("GET", collection, <<>>, {"list"})
     ELSE Crud(o, collection, Recurse(o))

Coverages(o) ==
  LET collection == InWorkspace(o, "coveragestores") \o <<o.scope[2], "coverages">>
  IN IF Unscoped(o) THEN Refused
     ELSE IF o.verb = "Discover" THEN Request("GET", collection, <<>>, {"list"})
     ELSE Crud(o, collection, Recurse(o))

\* Neither the scope nor the granule ID is checked; only an empty filter is.
Granules(o) ==
  LET index == InWorkspace(o, "coveragestores") \o
                 <<o.scope[2], "coverages", o.scope[3], "index">>
      granules == Append(index, "granules")
  IN CASE o.verb = "Schema" -> Request("GET", index, <<>>, {})
       [] o.verb = "List" -> Request("GET", granules, <<>>, {})
       [] o.verb \in {"Get", "Delete"} ->
            Request(Method[o.verb], Append(granules, o.name), <<>>, {})
       [] o.verb = "DeleteByFilter" ->
            IF o.name = "" THEN Refused
            ELSE Request("DELETE", granules, <<>>, {"filter=" \o o.name})

\* A style is attached under the global endpoint, to <workspace>:<layer>.
Layers(o) ==
  LET ofLayer == <<"rest", "layers", o.scope[1] \o ":" \o o.name, "styles">>
  IN IF Unscoped(o) THEN Refused
     ELSE IF o.verb \in {"ListStyles", "AddStyle"}
     THEN IF o.name = "" THEN Refused
          ELSE IF o.verb = "ListStyles" THEN Request("GET", ofLayer, <<>>, {})
          ELSE Request("POST", ofLayer, <<"json", "style">>, {})
     ELSE Crud(o, InWorkspace(o, "layers"), Recurse(o))

LayerGroups(o) ==
  IF Unscoped(o) THEN Refused ELSE Crud(o, InWorkspace(o, "layergroups"), {})

\* Cascaded stores and layers: the workspace and the store are not checked.
WMSStores(o) == Crud(o, InWorkspace(o, "wmsstores"), RecurseIfSet(o))

WMTSStores(o) == Crud(o, InWorkspace(o, "wmtsstores"), RecurseIfSet(o))

WMSLayers(o) == Crud(o, InWorkspace(o, "wmslayers"), RecurseIfSet(o))

\* Faulty variant: the package was copied and one literal forgotten.
WMTSLayersCopied(o) == Crud(o, InWorkspace(o, "wmslayers"), RecurseIfSet(o))

WMTSLayers(o) == Crud(o, InWorkspace(o, "wmtslayers"), RecurseIfSet(o))

WMSStoreLayers(o) ==
  Crud(o, InWorkspace(o, "wmsstores") \o <<o.scope[2], "wmslayers">>, RecurseIfSet(o))

WMTSStoreLayers(o) ==
  Crud(o, InWorkspace(o, "wmtsstores") \o <<o.scope[2], "wmtslayers">>, RecurseIfSet(o))

URLChecks(o) == Crud(o, <<"rest", "urlchecks">>, {})

-----------------------------------------------------------------------------
\* Templates: the scope is a chain of segments, none of them checked.

ensureFTL(name) ==
  IF name = "" \/ (Len(name) >= 4 /\ SubSeq(name, Len(name) - 3, Len(name)) = ".ftl")
  THEN name ELSE name \o ".ftl"

ScopeKinds ==
  [templates |-> <<>>, workspaceTemplates |-> <<"workspaces">>,
   datastoreTemplates |-> <<"workspaces", "datastores">>,
   featureTypeTemplates |-> <<"workspaces", "datastores", "featuretypes">>,
   coverageStoreTemplates |-> <<"workspaces", "coveragestores">>,
   coverageTemplates |-> <<"workspaces", "coveragestores", "coverages">>]

scopePath(o) ==
  FlattenSeq([i \in DOMAIN o.scope |-> <<ScopeKinds[o.client][i], o.scope[i]>>])

Templates(o) ==
  LET prefix == <<"rest">> \o scopePath(o)
      item == prefix \o <<"templates", ensureFTL(o.name)>>
  IN IF o.verb = "List" THEN Request("GET", Append(prefix, "templates.json"), <<>>, {})
     ELSE IF o.name = "" THEN Refused
     ELSE CASE o.verb = "Get" -> Request("GET", item, <<>>, {})
            [] o.verb = "Put" -> Request("PUT", item, <<"text">>, {})
            [] o.verb = "Delete" -> Request("DELETE", item, <<>>, {})

WFSTransforms(o) ==
  LET transforms == <<"rest", "services", "wfs", "transforms">>
  IN IF o.verb = "CreateWithXSLT"
     THEN IF o.name = "" THEN Refused
          ELSE Request("POST", transforms, <<"xslt">>, {"name=" \o o.name})
     ELSE IF o.verb \in {"GetXSLT", "PutXSLT"}
     THEN IF o.name = "" THEN Refused
          ELSE Request(IF o.verb = "GetXSLT" THEN "GET" ELSE "PUT",
                       Append(transforms, o.name), <<"xslt">>, {})
     ELSE Crud(o, transforms, {})

\* Settings of one OGC service, global or of a workspace.  Only the workspace
\* client can delete, and it refuses an empty workspace: urlParts would fall
\* back to the global document.
Services(o) ==
  LET slug == o.name
      urlParts == <<"rest", "services", slug>> \o
        (IF o.scope = <<>> \/ o.scope[1] = "" THEN <<>> ELSE <<"workspaces", o.scope[1]>>)
          \o <<"settings">>
  IN IF Unscoped(o) THEN Refused
     ELSE Request(Method[o.verb], urlParts,
                  IF o.verb = "Update" THEN <<"json">> ELSE <<>>, {})

-----------------------------------------------------------------------------
\* Security.

resolveService(name) == IF name = "" THEN "default" ELSE name

Users(o) ==
  LET service == <<"rest", "security", "usergroup", "service", resolveService(o.scope[1])>>
  IN IF o.verb = "List" THEN Request("GET", Append(service, "users"), <<>>, {})
     ELSE IF o.name = "" THEN Refused
     ELSE IF o.verb = "Create"
     THEN Request("POST", Append(service, "users"), <<"json", o.name>>, {})
     ELSE Request("DELETE", service \o <<"user", o.name>>, <<>>, {})

Groups(o) ==
  LET service == <<"rest", "security", "usergroup", "service", resolveService(o.scope[1])>>
  IN IF o.verb = "List" THEN Request("GET", Append(service, "groups"), <<>>, {})
     ELSE IF o.name = "" THEN Refused
     ELSE Request(Method[o.verb], service \o <<"group", o.name>>, <<>>, {})

\* Role assignments have the role as scope and the user as name.
Roles(o) ==
  LET roles == <<"rest", "security", "roles">>
  IN IF o.verb = "List" THEN Request("GET", roles, <<>>, {})
     ELSE IF o.name = "" \/ Unscoped(o) THEN Refused
     ELSE IF o.verb = "ForUser" THEN Request("GET", roles \o <<"user", o.name>>, <<>>, {})
     ELSE IF o.scope = <<>>
     THEN Request(Method[o.verb], roles \o <<"role", o.name>>, <<>>, {})
     ELSE Request(IF o.verb = "AssignToUser" THEN "POST" ELSE "DELETE",
                  roles \o <<"role", o.scope[1], "user", o.name>>, <<>>, {})

\* SetOrder writes the item "order" of the collection.
AuthProviders(o) ==
  IF o.verb = "SetOrder"
  THEN Request("PUT", <<"rest", "security", "authproviders", "order">>, <<"order">>, {})
  ELSE Crud(o, <<"rest", "security", "authproviders">>, {})

\* List and Get append .json to the URL they built.
FilterChains(o) ==
  LET chains == <<"rest", "security", "filterchain">>
  IN CASE o.verb = "SetOrder" -> Request("PUT", Append(chains, "order"), <<"order">>, {})
       [] o.verb = "List" ->
            Request("GET", <<"rest", "security", "filterchain.json">>, <<>>, {})
       [] o.verb = "Get" /\ o.name # "" ->
            Request("GET", Append(chains, o.name \o ".json"), <<>>, {})
       [] OTHER -> Crud(o, chains, {})

AuthFilters(o) == Crud(o, <<"rest", "security", "authfilters">>, {})

MasterPassword(o) ==
  IF o.verb = "Update" /\ o.name = "" THEN Refused
  ELSE Request(Method[o.verb], <<"rest", "security", "masterpw">>,
               IF o.verb = "Update" THEN <<"json", o.name>> ELSE <<>>, {})

SelfPassword(o) ==
  IF o.name = "" THEN Refused
  ELSE Request("PUT", <<"rest", "security", "self", "password">>, <<"json", o.name>>, {})

OrAny(name) == IF name = "" THEN "*" ELSE name

\* Access rules: workspace and layer, or service, are the scope, the operation is
\* the name.  Whatever is empty is a wildcard, except the operation on a layer.
Rule(o) == OrAny(o.scope[1]) \o "." \o OrAny(o.scope[2]) \o "." \o o.name

ServiceRule(o) == OrAny(o.scope[1]) \o "." \o OrAny(o.name)

\* Add and Update carry the rule in the body, Delete in the path.
RuleRequest(o, rules, rule) ==
  IF o.verb = "Delete" THEN Request("DELETE", Append(rules, rule), <<>>, {})
  ELSE Request(IF o.verb = "Add" THEN "POST" ELSE "PUT", rules, <<"json", rule>>, {})

ACLLayers(o) ==
  LET rules == <<"rest", "security", "acl", "layers">>
  IN IF o.verb = "List" THEN Request("GET", rules, <<>>, {})
     ELSE IF o.name = "" THEN Refused
     ELSE RuleRequest(o, rules, Rule(o))

ACLServices(o) ==
  LET rules == <<"rest", "security", "acl", "services">>
  IN IF o.verb = "List" THEN Request("GET", rules, <<>>, {})
     ELSE IF o.name = "" /\ Unscoped(o) THEN Refused
     ELSE RuleRequest(o, rules, ServiceRule(o))

ACLCatalog(o) ==
  LET catalog == <<"rest", "security", "acl", "catalog">>
  IN IF o.verb = "Reload" THEN Request("POST", Append(catalog, "reload"), <<>>, {})
     ELSE Request(Method[o.verb], catalog, IF o.verb = "Update" THEN <<"json">> ELSE <<>>, {})

-----------------------------------------------------------------------------
\* Singleton documents of the server.

Singleton(o, parts) ==
  Request(Method[o.verb], parts, IF o.verb = "Update" THEN <<"json">> ELSE <<>>, {})

Settings(o) == Singleton(o, <<"rest", "settings">>)

Logging(o) == Singleton(o, <<"rest", "logging">>)

-----------------------------------------------------------------------------
\* The server itself.  Ping sends what Version sends and drops the answer.

About(o) ==
  Request("GET", <<"rest", "about",
                   CASE o.verb = "Version" -> "version" [] o.verb = "Manifests" -> "manifest.json"
                     [] o.verb = "SystemStatus" -> "system-status">>, <<>>, {})

Fonts(o) == Request("GET", <<"rest", "fonts">>, <<>>, {})

System(o) ==
  Request("POST", <<"rest", IF o.verb = "Reload" THEN "reload" ELSE "reset">>, <<>>, {})

\* The audit log; an entry is read by its number, which is positive.
Monitor(o) ==
  IF o.verb = "List" THEN Request("GET", <<"rest", "monitor", "requests.csv">>, <<>>, {})
  ELSE IF o.name = "0" THEN Refused
  ELSE Request("GET", <<"rest", "monitor", "requests", o.name \o ".csv">>, <<>>, {})

\* The capabilities of a service, and what it says of its types or coverages: of
\* all types when none is named.  An empty workspace is the global service.
OWS(o) ==
  LET endpoint == (IF o.scope[1] = "" THEN <<>> ELSE <<o.scope[1]>>) \o <<o.client>>
      version == [wms |-> "1.1.1", wfs |-> "2.0.0", wcs |-> "2.0.1"]
      service == [wms |-> "wms", wfs |-> "wfs", wcs |-> "WCS"]
      query == {"service=" \o service[o.client], "version=" \o version[o.client],
                "request=" \o o.verb}
  IN CASE o.verb = "GetCapabilities" -> Request("GET", endpoint, <<>>, query)
       [] o.verb = "DescribeFeatureType" ->
            Request("GET", endpoint, <<>>,
                    query \cup IF o.name = "" THEN {}
                               ELSE {"typeNames=" \o o.name, "typeName=" \o o.name})
       [] o.verb = "DescribeCoverage" ->
            IF o.name = "" THEN Refused
            ELSE Request("GET", endpoint, <<>>, query \cup {"coverageId=" \o o.name})

-----------------------------------------------------------------------------
\* Import sessions and their tasks.  The identifiers are numbers, never empty.

Imports(o) ==
  LET sessions == <<"rest", "imports">>
      session == Append(sessions, o.name)
  IN CASE o.verb = "Create" -> Request("POST", sessions, <<"json">>, {})
       [] o.verb = "List" -> Request("GET", sessions, <<>>, {})
       [] o.verb \in {"Get", "Delete"} -> Request(Method[o.verb], session, <<>>, {})
       [] o.verb = "Execute" -> Request("POST", session, <<>>, {})

ImportTasks(o) ==
  LET tasks == <<"rest", "imports", o.scope[1], "tasks">>
      task == Append(tasks, o.name)
  IN CASE o.verb = "ListTasks" -> Request("GET", tasks, <<>>, {})
       [] o.verb = "AddTask" -> Request("POST", tasks, <<"json">>, {})
       [] o.verb \in {"Get", "Delete"} -> Request(Method[o.verb], task, <<>>, {})
       [] o.verb = "Update" -> Request("PUT", task, <<"json">>, {})

-----------------------------------------------------------------------------
\* GeoWebCache: the format is an extension of the last segment.

GWCLayers(o) ==
  LET layers == <<"gwc", "rest", "layers">>
      item == Append(layers, o.name \o ".xml")
  IN IF o.verb = "List" THEN Request("GET", <<"gwc", "rest", "layers.json">>, <<>>, {})
     ELSE IF o.name = "" THEN Refused
     ELSE CASE o.verb = "Get" -> Request("GET", item, <<>>, {})
            [] o.verb = "Put" -> Request("PUT", item, <<"xml">>, {})
            [] o.verb = "Delete" -> Request("DELETE", item, <<>>, {})

Seed(o) ==
  LET ofLayer == <<"gwc", "rest", "seed", o.name \o ".json">>
  IN CASE o.verb = "StatusAll" -> Request("GET", <<"gwc", "rest", "seed.json">>, <<>>, {})
       [] o.verb = "KillAll" -> Request("POST", <<"gwc", "rest", "seed">>, <<"form">>, {})
       [] OTHER ->
            IF o.name = "" THEN Refused
            ELSE IF o.verb = "Status" THEN Request("GET", ofLayer, <<>>, {})
            ELSE Request("POST", ofLayer, <<"json">>, {})

Gridsets(o) ==
  LET gridsets == <<"gwc", "rest", "gridsets">>
  IN IF o.verb = "List" THEN Request("GET", <<"gwc", "rest", "gridsets.json">>, <<>>, {})
     ELSE IF o.name = "" THEN Refused
     ELSE IF o.verb = "Get"
     THEN Request("GET", Append(gridsets, o.name \o ".json"), <<>>, {})
     ELSE Request("DELETE", Append(gridsets, o.name \o ".xml"), <<>>, {})

\* The disk quota is read as JSON and written as XML.
DiskQuota(o) ==
  IF o.verb = "Get" THEN Request("GET", <<"gwc", "rest", "diskquota.json">>, <<>>, {})
  ELSE Request("PUT", <<"gwc", "rest", "diskquota.xml">>, <<"xml">>, {})

GWCGlobal(o) == Singleton(o, <<"gwc", "rest", "global.json">>)

\* Every truncation posts to one URL; the body tells them apart.
MassTruncate(o) ==
  CASE o.verb = "Capabilities" ->
         Request("GET", <<"gwc", "rest", "masstruncate.xml">>, <<>>, {})
    [] o.verb = "TruncateOrphans" ->
         Request("POST", <<"gwc", "rest", "masstruncate">>, <<o.verb>>, {})
    [] OTHER ->
         IF o.name = "" THEN Refused
         ELSE Request("POST", <<"gwc", "rest", "masstruncate">>, <<o.verb, o.name>>, {})

-----------------------------------------------------------------------------
RequestOf(o) ==
  CASE o.client = "workspaces" -> Workspaces(o)
    [] o.client = "namespaces" -> Namespaces(o)
    [] o.client = "styles" -> Styles(o)
    [] o.client = "datastores" -> Datastores(o)
    [] o.client = "coverageStores" -> CoverageStores(o)
    [] o.client = "featureTypes" -> FeatureTypes(o)
    [] o.client = "coverages" -> Coverages(o)
    [] o.client = "granules" -> Granules(o)
    [] o.client = "layers" -> Layers(o)
    [] o.client = "layerGroups" -> LayerGroups(o)
    [] o.client = "wmsStores" -> WMSStores(o)
    [] o.client = "wmtsStores" -> WMTSStores(o)
    [] o.client = "wmsLayers" -> WMSLayers(o)
    [] o.client = "wmtsLayers" -> WMTSLayers(o)
    [] o.client = "wmsStoreLayers" -> WMSStoreLayers(o)
    [] o.client = "wmtsStoreLayers" -> WMTSStoreLayers(o)
    [] o.client = "urlChecks" -> URLChecks(o)
    [] o.client \in DOMAIN ScopeKinds -> Templates(o)
    [] o.client = "wfsTransforms" -> WFSTransforms(o)
    [] o.client \in {"services", "workspaceServices"} -> Services(o)
    [] o.client = "users" -> Users(o)
    [] o.client = "groups" -> Groups(o)
    [] o.client \in {"roles", "roleAssignments"} -> Roles(o)
    [] o.client = "authProviders" -> AuthProviders(o)
    [] o.client = "filterChains" -> FilterChains(o)
    [] o.client = "authFilters" -> AuthFilters(o)
    [] o.client = "masterPassword" -> MasterPassword(o)
    [] o.client = "selfPassword" -> SelfPassword(o)
    [] o.client = "aclLayers" -> ACLLayers(o)
    [] o.client = "aclServices" -> ACLServices(o)
    [] o.client = "aclCatalog" -> ACLCatalog(o)
    [] o.client = "settings" -> Settings(o)
    [] o.client = "logging" -> Logging(o)
    [] o.client = "imports" -> Imports(o)
    [] o.client = "importTasks" -> ImportTasks(o)
    [] o.client = "gwcLayers" -> GWCLayers(o)
    [] o.client = "seed" -> Seed(o)
    [] o.client = "gridsets" -> Gridsets(o)
    [] o.client = "diskQuota" -> DiskQuota(o)
    [] o.client = "gwcGlobal" -> GWCGlobal(o)
    [] o.client = "massTruncate" -> MassTruncate(o)
    [] o.client = "about" -> About(o)
    [] o.client = "fonts" -> Fonts(o)
    [] o.client = "system" -> System(o)
    [] o.client = "monitor" -> Monitor(o)
    [] o.client \in {"wms", "wfs", "wcs"} -> OWS(o)
=============================================================================
