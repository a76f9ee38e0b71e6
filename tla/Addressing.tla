------------------------------ MODULE Addressing -------------------------------
(***************************************************************************)
(* Every call a program can make on the sub-clients, one at a time, and    *)
(* the request it sends.  Two calls must never address the same resource   *)
(* by accident, and an argument left empty must never widen a call.        *)
(***************************************************************************)
EXTENDS SubClients

CONSTANTS
  Names,    \* strings callers pass for a name; "" is an argument left empty
  Clients   \* the sub-clients in use

VARIABLES
  op,       \* the call in progress
  sent      \* the request it sent, or Refused

vars == <<op, sent>>

-----------------------------------------------------------------------------
\* The methods of each sub-client, and how many scope arguments it takes.
CrudVerbs == {"List", "Get", "Create", "Update", "Delete"}
TemplateVerbs == {"List", "Get", "Put", "Delete"}

Verbs ==
  [workspaces |-> CrudVerbs, namespaces |-> CrudVerbs,
   styles |-> CrudVerbs \cup {"UploadSLD"},
   datastores |-> CrudVerbs \cup {"UploadFile"},
   coverageStores |-> CrudVerbs \cup {"UploadFile", "HarvestGranule"},
   featureTypes |-> CrudVerbs \cup {"Discover"}, coverages |-> CrudVerbs \cup {"Discover"},
   granules |-> {"Schema", "List", "Get", "Delete", "DeleteByFilter"},
   layers |-> {"List", "Get", "Update", "Delete", "ListStyles", "AddStyle"},
   layerGroups |-> CrudVerbs,
   wmsStores |-> CrudVerbs, wmtsStores |-> CrudVerbs,
   wmsLayers |-> {"List", "Get", "Delete"}, wmtsLayers |-> {"List", "Get", "Delete"},
   wmsStoreLayers |-> CrudVerbs, wmtsStoreLayers |-> CrudVerbs,
   urlChecks |-> CrudVerbs,
   wfsTransforms |-> CrudVerbs \cup {"CreateWithXSLT", "GetXSLT", "PutXSLT"},
   services |-> {"Get", "Update"}, workspaceServices |-> {"Get", "Update", "Delete"},
   users |-> {"List", "Create", "Delete"}, groups |-> {"List", "Create", "Delete"},
   roles |-> {"List", "Create", "Delete", "ForUser"},
   roleAssignments |-> {"AssignToUser", "UnassignFromUser"},
   authProviders |-> CrudVerbs \cup {"SetOrder"},
   filterChains |-> CrudVerbs \cup {"SetOrder"}, authFilters |-> CrudVerbs,
   masterPassword |-> {"Get", "Update"}, selfPassword |-> {"Update"},
   aclLayers |-> {"List", "Add", "Update", "Delete"},
   aclServices |-> {"List", "Add", "Update", "Delete"},
   aclCatalog |-> {"Get", "Update", "Reload"},
   settings |-> {"Get", "Update"}, logging |-> {"Get", "Update"},
   imports |-> {"Create", "List", "Get", "Execute", "Delete"},
   importTasks |-> {"ListTasks", "AddTask", "Get", "Update", "Delete"},
   gwcLayers |-> {"List", "Get", "Put", "Delete"},
   seed |-> {"Submit", "Status", "StatusAll", "KillAll"},
   gridsets |-> {"List", "Get", "Delete"},
   diskQuota |-> {"Get", "Update"}, gwcGlobal |-> {"Get", "Update"},
   massTruncate |-> {"Capabilities", "TruncateLayer", "TruncateParameters",
                     "TruncateOrphans", "TruncateExtent"},
   about |-> {"Version", "Manifests", "SystemStatus"}, fonts |-> {"List"},
   system |-> {"Reload", "ResetCache"}, monitor |-> {"List", "Get"},
   wms |-> {"GetCapabilities"}, wfs |-> {"GetCapabilities", "DescribeFeatureType"},
   wcs |-> {"GetCapabilities", "DescribeCoverage"},
   templates |-> TemplateVerbs, workspaceTemplates |-> TemplateVerbs,
   datastoreTemplates |-> TemplateVerbs, featureTypeTemplates |-> TemplateVerbs,
   coverageStoreTemplates |-> TemplateVerbs, coverageTemplates |-> TemplateVerbs]

ASSUME ClientsAssumption == Clients \subseteq DOMAIN Verbs

Arity(c, v) ==
  IF c \in {"aclLayers", "aclServices"} /\ v = "List" THEN 0
  ELSE IF c \in DOMAIN ScopeKinds THEN Len(ScopeKinds[c])
  ELSE IF c = "granules" THEN 3
  ELSE IF c \in {"featureTypes", "coverages", "wmsStoreLayers", "wmtsStoreLayers",
                    "aclLayers"} THEN 2
  ELSE IF c \in {"styles", "datastores", "coverageStores", "layers", "layerGroups",
                 "wmsStores", "wmtsStores", "wmsLayers", "wmtsLayers",
                 "workspaceServices", "users", "groups", "roleAssignments",
                 "aclServices", "importTasks", "wms", "wfs", "wcs"} THEN 1
  ELSE 0

Singletons ==
  {"aclCatalog", "settings", "logging", "diskQuota", "gwcGlobal", "about", "fonts", "system"}

\* Calls that take no name.
Nameless(c, v) ==
  \/ v \in {"List", "Discover", "Schema", "SetOrder", "StatusAll", "KillAll", "ListTasks",
             "AddTask", "Capabilities", "TruncateOrphans", "GetCapabilities"}
  \/ c \in Singletons
  \/ c = "imports" /\ v = "Create"
  \/ c = "masterPassword" /\ v = "Get"

\* What a call may pass for the name, and for the scope.
NamesFor(c) ==
  CASE c \in {"services", "workspaceServices"} -> {"wms", "wfs", "wcs", "wmts"}
    [] c \in {"imports", "importTasks", "monitor"} -> {"0", "1"}
    [] c = "aclLayers" -> {"r", "w", ""}
    [] OTHER -> Names

ScopesFor(c) == IF c = "importTasks" THEN {"0", "1"} ELSE Names

WithRecurse ==
  {"workspaces", "styles", "datastores", "coverageStores", "featureTypes", "coverages",
   "layers", "wmsStores", "wmtsStores", "wmsLayers", "wmtsLayers", "wmsStoreLayers",
   "wmtsStoreLayers"}

CallsOf(c, v) ==
  [client : {c}, verb : {v}, scope : [1..Arity(c, v) -> ScopesFor(c)],
   name : IF Nameless(c, v) THEN {""} ELSE NamesFor(c),
   recurse : IF v = "Delete" /\ c \in WithRecurse THEN BOOLEAN ELSE {FALSE}]

Ops == UNION {UNION {CallsOf(c, v) : v \in Verbs[c]} : c \in Clients}

Requests == {[of |-> o, request |-> RequestOf(o)] : o \in Ops}

NoOp == [client |-> "none", verb |-> "none", scope |-> <<>>, name |-> "", recurse |-> FALSE]

Init == op = NoOp /\ sent = Refused

Call(o) ==
  /\ op = NoOp
  /\ op' = o
  /\ sent' = RequestOf(o)

\* A sub-client is immutable: a call leaves nothing behind.
Return ==
  /\ op # NoOp
  /\ op' = NoOp
  /\ sent' = Refused

Next == Return \/ \E o \in Ops : Call(o)

Spec == Init /\ [][Next]_vars

-----------------------------------------------------------------------------
\* The documentation gives an empty argument a meaning: the global styles and
\* services, the default user/group service, any workspace, layer, service or
\* operation, every feature type.
EmptyScopeMeans == {"styles", "users", "groups", "aclLayers", "aclServices", "wms", "wfs", "wcs"}

EmptyNameMeans(o) ==
  o.verb = "DescribeFeatureType" \/ (o.client = "aclServices" /\ "" \notin Range(o.scope))

\* Every argument of the call names something, an import session 0 too.
Complete(o) ==
  /\ "" \in Range(o.scope) => o.client \in EmptyScopeMeans
  /\ o.name = "" => Nameless(o.client, o.verb) \/ EmptyNameMeans(o)
  /\ o.client = "monitor" => o.name # "0"

\* Sub-clients that leave an empty scope to the server.
Unchecked ==
  {"granules", "wmsStores", "wmtsStores", "wmsLayers", "wmtsLayers", "wmsStoreLayers",
   "wmtsStoreLayers"} \cup DOMAIN ScopeKinds

\* Two different calls never send the same request, across all sub-clients:
\* no scope or name is lost on the way into the URL, and no two of the copied
\* sub-client packages address each other's resources.
Unambiguous ==
  Complete(op) =>
    \A r \in Requests : r.request = sent /\ Complete(r.of) => r.of = op

\* A call with an argument left empty sends nothing: BuildURL would drop the
\* segment and the request would act on a wider or a different resource, such
\* as the global service settings in place of those of a workspace.
EmptyArgumentIsRefused ==
  op # NoOp /\ ~Complete(op) /\ op.client \notin Unchecked => sent = Refused

\* granules.go:233: "Delete removes a single granule by ID."  DeleteByFilter
\* alone may delete at the URL that lists them all.
DeleteIsSingle ==
  \A r \in Requests :
    r.of.verb = "List" /\ sent.method = "DELETE" /\ sent.path = r.request.path =>
      op.verb = "DeleteByFilter"
=============================================================================
