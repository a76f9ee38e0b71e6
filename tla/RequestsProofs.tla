---------------------------- MODULE RequestsProofs ----------------------------
(***************************************************************************)
(* What requests address, and what becomes of those of the Resource API.   *)
(*                                                                         *)
(* For the sub-clients: a call that leaves an argument empty sends         *)
(* nothing, client by client, for any names.                               *)
(*                                                                         *)
(* For the Resource API: what a path argument means to a method and to the *)
(* server, what the operations of the server make of a tree, and that      *)
(* every call does and answers what it says, for any names of files.  The  *)
(* one spelling left out is "//", which passes the guards and still means  *)
(* the root.                                                               *)
(***************************************************************************)
EXTENDS Addressing, Resources, FiniteSetTheorems, SequenceTheorems, TLAPS

-----------------------------------------------------------------------------
(* Addressing: what an empty argument makes of a call.                     *)

\* The clients of templates.
LEMMA TemplatesAre ==
  DOMAIN ScopeKinds = {"templates", "workspaceTemplates", "datastoreTemplates",
                       "featureTypeTemplates", "coverageStoreTemplates", "coverageTemplates"}
BY DEF ScopeKinds

\* The sub-clients that check their arguments.
Checked ==
  {"workspaces", "namespaces", "urlChecks", "wfsTransforms", "authProviders",
   "filterChains", "authFilters", "masterPassword", "selfPassword", "gwcLayers", "seed",
   "gridsets", "massTruncate", "roles", "datastores", "coverageStores", "featureTypes",
   "coverages", "layers", "layerGroups", "roleAssignments", "styles", "users", "groups",
   "aclLayers", "wms", "wfs", "wcs", "aclServices", "aclCatalog", "settings", "logging",
   "diskQuota", "gwcGlobal", "about", "fonts", "system", "services", "workspaceServices",
   "imports", "importTasks", "monitor"}

\* The sub-clients there are.
LEMMA ClientsAre ==
  DOMAIN Verbs = Checked \cup Unchecked
BY TemplatesAre DEF Verbs, Checked, Unchecked

\* What the others can do.
LEMMA VerbsAre ==
  /\ Verbs["masterPassword"] = {"Get", "Update"}
  /\ Verbs["roleAssignments"] = {"AssignToUser", "UnassignFromUser"}
  /\ Verbs["wms"] = {"GetCapabilities"}
  /\ Verbs["wfs"] = {"GetCapabilities", "DescribeFeatureType"}
  /\ Verbs["wcs"] = {"GetCapabilities", "DescribeCoverage"}
BY DEF Verbs

\* A call of a client.
LEMMA OpIs ==
  ASSUME NEW o \in Ops
  PROVE  /\ o.client \in Clients /\ o.verb \in Verbs[o.client]
         /\ o.scope \in [1..Arity(o.client, o.verb) -> ScopesFor(o.client)]
         /\ o.name \in IF Nameless(o.client, o.verb) THEN {""} ELSE NamesFor(o.client)
<1>1. PICK c \in Clients : o \in UNION {CallsOf(c, v) : v \in Verbs[c]}
  BY DEF Ops
<1>2. PICK v \in Verbs[c] : o \in CallsOf(c, v)
  BY <1>1
<1> QED
  BY <1>2 DEF CallsOf

\* An empty scope argument is one of the scope.
LEMMA ScopeIs ==
  ASSUME NEW o \in Ops
  PROVE  /\ "" \in Range(o.scope) => Unscoped(o)
         /\ Unscoped(o) => Arity(o.client, o.verb) # 0 /\ "" \in ScopesFor(o.client)
<1>1. o.scope \in [1..Arity(o.client, o.verb) -> ScopesFor(o.client)]
  BY OpIs
<1>2. Arity(o.client, o.verb) = 0 => 1..Arity(o.client, o.verb) = {}
  OBVIOUS
<1> QED
  BY <1>1, <1>2 DEF Range, Unscoped

\* An argument is left empty.
EmptyScope(o) == Unscoped(o) /\ o.client \notin EmptyScopeMeans
EmptyName(o) == o.name = "" /\ ~Nameless(o.client, o.verb) /\ ~EmptyNameMeans(o)

\* A call that is not complete has one of these.
LEMMA IncompleteIs ==
  ASSUME NEW o \in Ops, ~Complete(o)
  PROVE  EmptyScope(o) \/ EmptyName(o) \/ (o.client = "monitor" /\ o.name = "0")
BY ScopeIs DEF Complete, EmptyScope, EmptyName

\* Calls that take a name are none of these.
LEMMA NamedIs ==
  ASSUME NEW o \in Ops, EmptyName(o)
  PROVE  /\ o.verb \notin {"List", "Discover", "Schema", "SetOrder", "StatusAll", "KillAll",
                           "ListTasks", "AddTask", "Capabilities", "TruncateOrphans",
                           "GetCapabilities"}
         /\ o.client \notin Singletons
         /\ o.client = "imports" => o.verb # "Create"
         /\ o.client = "masterPassword" => o.verb # "Get"
         /\ o.name = "" /\ "" \in NamesFor(o.client)
BY OpIs DEF EmptyName, Nameless

\* The common shape refuses an empty name.
LEMMA CrudRefuses ==
  ASSUME NEW o, o.name = "", o.verb # "List"
  PROVE  \A c, q : Crud(o, c, q) = Refused
BY DEF Crud

\* A workspace is named.
LEMMA WorkspacesRefuse ==
  ASSUME NEW o \in Ops, o.client = "workspaces", ~Complete(o)
  PROVE  RequestOf(o) = Refused
<1>1. RequestOf(o) = Workspaces(o)
  BY TemplatesAre DEF RequestOf
<1>2. ~Unscoped(o)
  BY ScopeIs, TemplatesAre DEF Arity
<1>3. EmptyName(o)
  BY <1>2, IncompleteIs DEF EmptyScope
<1>4. o.name = "" /\ o.verb \notin {"List", "SetOrder"}
  BY <1>3, NamedIs
<1>5. \A k, q : Crud(o, k, q) = Refused
  BY <1>4, CrudRefuses
<1> QED
  BY ONLY <1>1, <1>4, <1>5 DEF Workspaces

\* A namespace is named.
LEMMA NamespacesRefuse ==
  ASSUME NEW o \in Ops, o.client = "namespaces", ~Complete(o)
  PROVE  RequestOf(o) = Refused
<1>1. RequestOf(o) = Namespaces(o)
  BY TemplatesAre DEF RequestOf
<1>2. ~Unscoped(o)
  BY ScopeIs, TemplatesAre DEF Arity
<1>3. EmptyName(o)
  BY <1>2, IncompleteIs DEF EmptyScope
<1>4. o.name = "" /\ o.verb \notin {"List", "SetOrder"}
  BY <1>3, NamedIs
<1>5. \A k, q : Crud(o, k, q) = Refused
  BY <1>4, CrudRefuses
<1> QED
  BY ONLY <1>1, <1>4, <1>5 DEF Namespaces

\* A URL check is named.
LEMMA UrlChecksRefuse ==
  ASSUME NEW o \in Ops, o.client = "urlChecks", ~Complete(o)
  PROVE  RequestOf(o) = Refused
<1>1. RequestOf(o) = URLChecks(o)
  BY TemplatesAre DEF RequestOf
<1>2. ~Unscoped(o)
  BY ScopeIs, TemplatesAre DEF Arity
<1>3. EmptyName(o)
  BY <1>2, IncompleteIs DEF EmptyScope
<1>4. o.name = "" /\ o.verb \notin {"List", "SetOrder"}
  BY <1>3, NamedIs
<1>5. \A k, q : Crud(o, k, q) = Refused
  BY <1>4, CrudRefuses
<1> QED
  BY ONLY <1>1, <1>4, <1>5 DEF URLChecks

\* A transformation is named, with or without its XSLT.
LEMMA WfsTransformsRefuse ==
  ASSUME NEW o \in Ops, o.client = "wfsTransforms", ~Complete(o)
  PROVE  RequestOf(o) = Refused
<1>1. RequestOf(o) = WFSTransforms(o)
  BY TemplatesAre DEF RequestOf
<1>2. ~Unscoped(o)
  BY ScopeIs, TemplatesAre DEF Arity
<1>3. EmptyName(o)
  BY <1>2, IncompleteIs DEF EmptyScope
<1>4. o.name = "" /\ o.verb \notin {"List", "SetOrder"}
  BY <1>3, NamedIs
<1>5. \A k, q : Crud(o, k, q) = Refused
  BY <1>4, CrudRefuses
<1> QED
  BY ONLY <1>1, <1>4, <1>5 DEF WFSTransforms

\* A provider is named; their order has none.
LEMMA AuthProvidersRefuse ==
  ASSUME NEW o \in Ops, o.client = "authProviders", ~Complete(o)
  PROVE  RequestOf(o) = Refused
<1>1. RequestOf(o) = AuthProviders(o)
  BY TemplatesAre DEF RequestOf
<1>2. ~Unscoped(o)
  BY ScopeIs, TemplatesAre DEF Arity
<1>3. EmptyName(o)
  BY <1>2, IncompleteIs DEF EmptyScope
<1>4. o.name = "" /\ o.verb \notin {"List", "SetOrder"}
  BY <1>3, NamedIs
<1>5. \A k, q : Crud(o, k, q) = Refused
  BY <1>4, CrudRefuses
<1> QED
  BY ONLY <1>1, <1>4, <1>5 DEF AuthProviders

\* Get adds .json only to a name.
LEMMA FilterChainsRefuse ==
  ASSUME NEW o \in Ops, o.client = "filterChains", ~Complete(o)
  PROVE  RequestOf(o) = Refused
<1>1. RequestOf(o) = FilterChains(o)
  BY TemplatesAre DEF RequestOf
<1>2. ~Unscoped(o)
  BY ScopeIs, TemplatesAre DEF Arity
<1>3. EmptyName(o)
  BY <1>2, IncompleteIs DEF EmptyScope
<1>4. o.name = "" /\ o.verb \notin {"List", "SetOrder"}
  BY <1>3, NamedIs
<1>5. \A k, q : Crud(o, k, q) = Refused
  BY <1>4, CrudRefuses
<1> QED
  BY ONLY <1>1, <1>4, <1>5 DEF FilterChains

\* An authentication filter is named.
LEMMA AuthFiltersRefuse ==
  ASSUME NEW o \in Ops, o.client = "authFilters", ~Complete(o)
  PROVE  RequestOf(o) = Refused
<1>1. RequestOf(o) = AuthFilters(o)
  BY TemplatesAre DEF RequestOf
<1>2. ~Unscoped(o)
  BY ScopeIs, TemplatesAre DEF Arity
<1>3. EmptyName(o)
  BY <1>2, IncompleteIs DEF EmptyScope
<1>4. o.name = "" /\ o.verb \notin {"List", "SetOrder"}
  BY <1>3, NamedIs
<1>5. \A k, q : Crud(o, k, q) = Refused
  BY <1>4, CrudRefuses
<1> QED
  BY ONLY <1>1, <1>4, <1>5 DEF AuthFilters

\* The master password is not empty.
LEMMA MasterPasswordRefuse ==
  ASSUME NEW o \in Ops, o.client = "masterPassword", ~Complete(o)
  PROVE  RequestOf(o) = Refused
<1>1. RequestOf(o) = MasterPassword(o)
  BY TemplatesAre DEF RequestOf
<1>2. ~Unscoped(o)
  BY ScopeIs, TemplatesAre DEF Arity
<1>3. EmptyName(o)
  BY <1>2, IncompleteIs DEF EmptyScope
<1> QED
  BY <1>1, <1>3, OpIs, VerbsAre, NamedIs DEF MasterPassword

\* Nor is one's own.
LEMMA SelfPasswordRefuse ==
  ASSUME NEW o \in Ops, o.client = "selfPassword", ~Complete(o)
  PROVE  RequestOf(o) = Refused
<1>1. RequestOf(o) = SelfPassword(o)
  BY TemplatesAre DEF RequestOf
<1>2. ~Unscoped(o)
  BY ScopeIs, TemplatesAre DEF Arity
<1>3. EmptyName(o)
  BY <1>2, IncompleteIs DEF EmptyScope
<1> QED
  BY <1>1, <1>3, OpIs, VerbsAre, NamedIs DEF SelfPassword

\* A cached layer is named.
LEMMA GwcLayersRefuse ==
  ASSUME NEW o \in Ops, o.client = "gwcLayers", ~Complete(o)
  PROVE  RequestOf(o) = Refused
<1>1. RequestOf(o) = GWCLayers(o)
  BY TemplatesAre DEF RequestOf
<1>2. ~Unscoped(o)
  BY ScopeIs, TemplatesAre DEF Arity
<1>3. EmptyName(o)
  BY <1>2, IncompleteIs DEF EmptyScope
<1> QED
  BY <1>1, <1>3, OpIs, VerbsAre, NamedIs DEF GWCLayers

\* A layer to seed is named; all may be asked for or killed.
LEMMA SeedRefuse ==
  ASSUME NEW o \in Ops, o.client = "seed", ~Complete(o)
  PROVE  RequestOf(o) = Refused
<1>1. RequestOf(o) = Seed(o)
  BY TemplatesAre DEF RequestOf
<1>2. ~Unscoped(o)
  BY ScopeIs, TemplatesAre DEF Arity
<1>3. EmptyName(o)
  BY <1>2, IncompleteIs DEF EmptyScope
<1> QED
  BY <1>1, <1>3, OpIs, VerbsAre, NamedIs DEF Seed

\* A grid set is named.
LEMMA GridsetsRefuse ==
  ASSUME NEW o \in Ops, o.client = "gridsets", ~Complete(o)
  PROVE  RequestOf(o) = Refused
<1>1. RequestOf(o) = Gridsets(o)
  BY TemplatesAre DEF RequestOf
<1>2. ~Unscoped(o)
  BY ScopeIs, TemplatesAre DEF Arity
<1>3. EmptyName(o)
  BY <1>2, IncompleteIs DEF EmptyScope
<1> QED
  BY <1>1, <1>3, OpIs, VerbsAre, NamedIs DEF Gridsets

\* What is truncated is named.
LEMMA MassTruncateRefuse ==
  ASSUME NEW o \in Ops, o.client = "massTruncate", ~Complete(o)
  PROVE  RequestOf(o) = Refused
<1>1. RequestOf(o) = MassTruncate(o)
  BY TemplatesAre DEF RequestOf
<1>2. ~Unscoped(o)
  BY ScopeIs, TemplatesAre DEF Arity
<1>3. EmptyName(o)
  BY <1>2, IncompleteIs DEF EmptyScope
<1> QED
  BY <1>1, <1>3, OpIs, VerbsAre, NamedIs DEF MassTruncate

\* A role, and the user whose roles are asked for, is named.
LEMMA RolesRefuse ==
  ASSUME NEW o \in Ops, o.client = "roles", ~Complete(o)
  PROVE  RequestOf(o) = Refused
<1>1. RequestOf(o) = Roles(o)
  BY TemplatesAre DEF RequestOf
<1>2. ~Unscoped(o)
  BY ScopeIs, TemplatesAre DEF Arity
<1>3. EmptyName(o)
  BY <1>2, IncompleteIs DEF EmptyScope
<1> QED
  BY <1>1, <1>3, OpIs, VerbsAre, NamedIs DEF Roles

\* A data store and its workspace are named.
LEMMA DatastoresRefuse ==
  ASSUME NEW o \in Ops, o.client = "datastores", ~Complete(o)
  PROVE  RequestOf(o) = Refused
<1>1. RequestOf(o) = Datastores(o)
  BY TemplatesAre DEF RequestOf
<1>2. Unscoped(o) \/ EmptyName(o)
  BY IncompleteIs DEF EmptyScope
<1>3. CASE Unscoped(o)
  BY <1>1, <1>3 DEF Datastores
<1>4. CASE EmptyName(o)
  BY <1>1, <1>4, NamedIs, CrudRefuses DEF Datastores
<1> QED
  BY <1>2, <1>3, <1>4

\* A coverage store and its workspace are named.
LEMMA CoverageStoresRefuse ==
  ASSUME NEW o \in Ops, o.client = "coverageStores", ~Complete(o)
  PROVE  RequestOf(o) = Refused
<1>1. RequestOf(o) = CoverageStores(o)
  BY TemplatesAre DEF RequestOf
<1>2. Unscoped(o) \/ EmptyName(o)
  BY IncompleteIs DEF EmptyScope
<1>3. CASE Unscoped(o)
  BY <1>1, <1>3 DEF CoverageStores
<1>4. CASE EmptyName(o)
  BY <1>1, <1>4, NamedIs, CrudRefuses DEF CoverageStores
<1> QED
  BY <1>2, <1>3, <1>4

\* A feature type, its store and its workspace are named.
LEMMA FeatureTypesRefuse ==
  ASSUME NEW o \in Ops, o.client = "featureTypes", ~Complete(o)
  PROVE  RequestOf(o) = Refused
<1>1. RequestOf(o) = FeatureTypes(o)
  BY TemplatesAre DEF RequestOf
<1>2. Unscoped(o) \/ EmptyName(o)
  BY IncompleteIs DEF EmptyScope
<1>3. CASE Unscoped(o)
  BY <1>1, <1>3 DEF FeatureTypes
<1>4. CASE EmptyName(o)
  BY <1>1, <1>4, NamedIs, CrudRefuses DEF FeatureTypes
<1> QED
  BY <1>2, <1>3, <1>4

\* A coverage, its store and its workspace are named.
LEMMA CoveragesRefuse ==
  ASSUME NEW o \in Ops, o.client = "coverages", ~Complete(o)
  PROVE  RequestOf(o) = Refused
<1>1. RequestOf(o) = Coverages(o)
  BY TemplatesAre DEF RequestOf
<1>2. Unscoped(o) \/ EmptyName(o)
  BY IncompleteIs DEF EmptyScope
<1>3. CASE Unscoped(o)
  BY <1>1, <1>3 DEF Coverages
<1>4. CASE EmptyName(o)
  BY <1>1, <1>4, NamedIs, CrudRefuses DEF Coverages
<1> QED
  BY <1>2, <1>3, <1>4

\* A layer and its workspace are named.
LEMMA LayersRefuse ==
  ASSUME NEW o \in Ops, o.client = "layers", ~Complete(o)
  PROVE  RequestOf(o) = Refused
<1>1. RequestOf(o) = Layers(o)
  BY TemplatesAre DEF RequestOf
<1>2. Unscoped(o) \/ EmptyName(o)
  BY IncompleteIs DEF EmptyScope
<1>3. CASE Unscoped(o)
  BY <1>1, <1>3 DEF Layers
<1>4. CASE EmptyName(o)
  BY <1>1, <1>4, NamedIs, CrudRefuses DEF Layers
<1> QED
  BY <1>2, <1>3, <1>4

\* A layer group and its workspace are named.
LEMMA LayerGroupsRefuse ==
  ASSUME NEW o \in Ops, o.client = "layerGroups", ~Complete(o)
  PROVE  RequestOf(o) = Refused
<1>1. RequestOf(o) = LayerGroups(o)
  BY TemplatesAre DEF RequestOf
<1>2. Unscoped(o) \/ EmptyName(o)
  BY IncompleteIs DEF EmptyScope
<1>3. CASE Unscoped(o)
  BY <1>1, <1>3 DEF LayerGroups
<1>4. CASE EmptyName(o)
  BY <1>1, <1>4, NamedIs, CrudRefuses DEF LayerGroups
<1> QED
  BY <1>2, <1>3, <1>4

\* An assignment names the role and the user.
LEMMA RoleAssignmentsRefuse ==
  ASSUME NEW o \in Ops, o.client = "roleAssignments", ~Complete(o)
  PROVE  RequestOf(o) = Refused
<1>1. RequestOf(o) = Roles(o)
  BY TemplatesAre DEF RequestOf
<1>2. Unscoped(o) \/ EmptyName(o)
  BY IncompleteIs DEF EmptyScope
<1>3. CASE Unscoped(o)
  BY <1>1, <1>3, OpIs, VerbsAre DEF Roles
<1>4. CASE EmptyName(o)
  BY <1>1, <1>4, NamedIs, CrudRefuses DEF Roles
<1> QED
  BY <1>2, <1>3, <1>4

\* A style has a name; without a workspace it is global.
LEMMA StylesRefuse ==
  ASSUME NEW o \in Ops, o.client = "styles", ~Complete(o)
  PROVE  RequestOf(o) = Refused
<1>1. RequestOf(o) = Styles(o)
  BY TemplatesAre DEF RequestOf
<1>2. EmptyName(o)
  BY IncompleteIs DEF EmptyScope, EmptyScopeMeans
<1>3. o.name = "" /\ o.verb # "List"
  BY <1>2, NamedIs
<1>4. \A k, q : Crud(o, k, q) = Refused
  BY <1>3, CrudRefuses
<1> QED
  BY ONLY <1>1, <1>3, <1>4 DEF Styles

\* Users have a name; their service has a default.
LEMMA UsersRefuse ==
  ASSUME NEW o \in Ops, o.client = "users", ~Complete(o)
  PROVE  RequestOf(o) = Refused
<1>1. RequestOf(o) = Users(o)
  BY TemplatesAre DEF RequestOf
<1>2. EmptyName(o)
  BY IncompleteIs DEF EmptyScope, EmptyScopeMeans
<1> QED
  BY <1>1, <1>2, NamedIs DEF Users

\* Groups have a name; their service has a default.
LEMMA GroupsRefuse ==
  ASSUME NEW o \in Ops, o.client = "groups", ~Complete(o)
  PROVE  RequestOf(o) = Refused
<1>1. RequestOf(o) = Groups(o)
  BY TemplatesAre DEF RequestOf
<1>2. EmptyName(o)
  BY IncompleteIs DEF EmptyScope, EmptyScopeMeans
<1> QED
  BY <1>1, <1>2, NamedIs DEF Groups

\* The operation on a layer is checked; its workspace and layer may be any.
LEMMA AclLayersRefuse ==
  ASSUME NEW o \in Ops, o.client = "aclLayers", ~Complete(o)
  PROVE  RequestOf(o) = Refused
<1>1. RequestOf(o) = ACLLayers(o)
  BY TemplatesAre DEF RequestOf
<1>2. EmptyName(o)
  BY IncompleteIs DEF EmptyScope, EmptyScopeMeans
<1> QED
  BY <1>1, <1>2, NamedIs DEF ACLLayers

\* Capabilities take no name.
LEMMA WmsRefuse ==
  ASSUME NEW o \in Ops, o.client = "wms", ~Complete(o)
  PROVE  RequestOf(o) = Refused
<1>1. RequestOf(o) = OWS(o)
  BY TemplatesAre DEF RequestOf
<1>2. EmptyName(o)
  BY IncompleteIs DEF EmptyScope, EmptyScopeMeans
<1> QED
  BY <1>2, OpIs, VerbsAre, NamedIs

\* Nor does a description of all feature types.
LEMMA WfsRefuse ==
  ASSUME NEW o \in Ops, o.client = "wfs", ~Complete(o)
  PROVE  RequestOf(o) = Refused
<1>1. RequestOf(o) = OWS(o)
  BY TemplatesAre DEF RequestOf
<1>2. EmptyName(o)
  BY IncompleteIs DEF EmptyScope, EmptyScopeMeans
<1> QED
  BY <1>2, OpIs, VerbsAre, NamedIs DEF EmptyName, EmptyNameMeans

\* A coverage is named.
LEMMA WcsRefuse ==
  ASSUME NEW o \in Ops, o.client = "wcs", ~Complete(o)
  PROVE  RequestOf(o) = Refused
<1>1. RequestOf(o) = OWS(o)
  BY TemplatesAre DEF RequestOf
<1>2. EmptyName(o)
  BY IncompleteIs DEF EmptyScope, EmptyScopeMeans
<1>3. o.name = "" /\ o.verb = "DescribeCoverage"
  BY <1>2, OpIs, VerbsAre, NamedIs
<1> QED
  BY ONLY <1>1, <1>3 DEF OWS

\* Of a service rule, one of the two is needed.
LEMMA AclServicesRefuse ==
  ASSUME NEW o \in Ops, o.client = "aclServices", ~Complete(o)
  PROVE  RequestOf(o) = Refused
<1>1. RequestOf(o) = ACLServices(o)
  BY TemplatesAre DEF RequestOf
<1>2. EmptyName(o)
  BY IncompleteIs DEF EmptyScope, EmptyScopeMeans
<1>3. o.name = "" /\ o.verb # "List"
  BY <1>2, NamedIs
<1>4. Unscoped(o)
  BY <1>2, ScopeIs DEF EmptyName, EmptyNameMeans
<1> QED
  BY ONLY <1>1, <1>3, <1>4 DEF ACLServices

\* A service is one of four; its workspace is checked.
LEMMA ServicesRefuse ==
  ASSUME NEW o \in Ops, o.client \in {"services", "workspaceServices"}, ~Complete(o)
  PROVE  RequestOf(o) = Refused
<1>1. RequestOf(o) = Services(o)
  BY TemplatesAre DEF RequestOf
<1>2. ~EmptyName(o)
  BY NamedIs DEF NamesFor
<1>3. Unscoped(o)
  BY <1>2, IncompleteIs DEF EmptyScope
<1> QED
  BY <1>1, <1>3 DEF Services

\* The sessions and tasks of the importer are numbers, which are never empty.
LEMMA ImportsComplete ==
  ASSUME NEW o \in Ops, o.client \in {"imports", "importTasks"}
  PROVE  Complete(o)
<1>1. ~EmptyName(o)
  BY NamedIs DEF NamesFor
<1>2. ~Unscoped(o)
  BY ScopeIs, TemplatesAre DEF Arity, ScopesFor
<1> QED
  BY <1>1, <1>2, IncompleteIs DEF EmptyScope

\* No entry of the audit log has the number 0.
LEMMA MonitorRefuse ==
  ASSUME NEW o \in Ops, o.client = "monitor", ~Complete(o)
  PROVE  RequestOf(o) = Refused
<1>1. RequestOf(o) = Monitor(o)
  BY TemplatesAre DEF RequestOf
<1>2. ~EmptyName(o)
  BY NamedIs DEF NamesFor
<1>3. ~Unscoped(o)
  BY ScopeIs, TemplatesAre DEF Arity
<1>4. o.name = "0"
  BY <1>2, <1>3, IncompleteIs DEF EmptyScope
<1>5. o.verb # "List"
  BY <1>4, OpIs DEF Nameless
<1> QED
  BY <1>1, <1>4, <1>5 DEF Monitor

\* A document there is one of takes no arguments.
LEMMA SingletonsComplete ==
  ASSUME NEW o \in Ops, o.client \in Singletons
  PROVE  Complete(o)
<1>1. ~EmptyName(o)
  BY NamedIs
<1>2. ~Unscoped(o)
  BY ScopeIs, TemplatesAre DEF Arity, Singletons
<1> QED
  BY <1>1, <1>2, IncompleteIs DEF EmptyScope, Singletons

\* What is left empty is refused, whatever the client.
LEMMA AllRefuse ==
  ASSUME NEW o \in Ops, ~Complete(o), o.client \notin Unchecked
  PROVE  RequestOf(o) = Refused
<1>1. o.client \in Checked
  BY OpIs, ClientsAre, ClientsAssumption
<1> QED
  BY <1>1, WorkspacesRefuse, NamespacesRefuse, UrlChecksRefuse, WfsTransformsRefuse,
     AuthProvidersRefuse, FilterChainsRefuse, AuthFiltersRefuse, MasterPasswordRefuse,
     SelfPasswordRefuse, GwcLayersRefuse, SeedRefuse, GridsetsRefuse, MassTruncateRefuse,
     RolesRefuse, DatastoresRefuse, CoverageStoresRefuse, FeatureTypesRefuse,
     CoveragesRefuse, LayersRefuse, LayerGroupsRefuse, RoleAssignmentsRefuse, StylesRefuse,
     UsersRefuse, GroupsRefuse, AclLayersRefuse, WmsRefuse, WfsRefuse, WcsRefuse,
     AclServicesRefuse, ServicesRefuse, ImportsComplete, MonitorRefuse, SingletonsComplete
     DEF Checked, Singletons

\* What was sent is the request of the call in progress.
AddressingInv == (op = NoOp /\ sent = Refused) \/ (op \in Ops /\ sent = RequestOf(op))

\* Nothing but the request of the call is ever sent.
LEMMA AddressingInductive == Spec => []AddressingInv
<1>1. Init => AddressingInv
  BY DEF Init, AddressingInv
<1>2. AddressingInv /\ [Next]_vars => AddressingInv'
  BY DEF AddressingInv, Next, Call, Return, vars
<1> QED
  BY <1>1, <1>2, PTL DEF Spec

\* A call with an argument left empty, of a client that checks its arguments, sends nothing:
\* BuildURL would drop the segment, and the request act on more than was meant.
THEOREM EmptyArgumentsRefused == Spec => []EmptyArgumentIsRefused
<1>1. AddressingInv => EmptyArgumentIsRefused
  BY AllRefuse DEF AddressingInv, EmptyArgumentIsRefused
<1> QED
  BY <1>1, AddressingInductive, PTL

-----------------------------------------------------------------------------
(* Prefixes: the order of paths in a tree. *)

\* A prefix, element by element.
LEMMA PrefixIs ==
  ASSUME NEW S, NEW s \in Seq(S), NEW t \in Seq(S)
  PROVE  IsPrefix(s, t) <=> Len(s) <= Len(t) /\ \A i \in 1..Len(s) : s[i] = t[i]
<1>1. Len(s) \in Nat /\ Len(t) \in Nat
  BY LenProperties
<1>2. SubSeq(s, 1, Len(s)) = s
  BY SubSeqFull
<1> SUFFICES ASSUME Len(s) <= Len(t)
             PROVE  s = SubSeq(t, 1, Len(s)) <=> \A i \in 1..Len(s) : s[i] = t[i]
  BY <1>2 DEF IsPrefix
<1>3. PICK u : u = SubSeq(t, 1, Len(s))
  OBVIOUS
<1>4. u \in Seq(S) /\ Len(u) = Len(s) /\ \A i \in 1..Len(s) : u[i] = t[i]
  <2>1. \A i \in 1..Len(s) : t[i] \in S
    BY <1>1
  <2>2. 1 \in Int /\ Len(s) \in Int
    BY <1>1
  <2>3. /\ u \in Seq(S) /\ Len(u) = IF 1 <= Len(s) THEN Len(s) - 1 + 1 ELSE 0
        /\ \A i \in 1..Len(s) - 1 + 1 : u[i] = t[1 + i - 1]
    BY <1>3, <2>1, <2>2, SubSeqProperties
  <2>4. Len(s) - 1 + 1 = Len(s) /\ (1 <= Len(s) \/ Len(s) = 0)
    BY <1>1
  <2>5. \A i \in 1..Len(s) : 1 + i - 1 = i
    BY <1>1
  <2> QED
    BY <2>3, <2>4, <2>5
<1>5. (\A i \in 1..Len(s) : s[i] = t[i]) => s = u
  <2>1. (\A i \in 1..Len(s) : s[i] = u[i]) => s = u
    BY <1>4, SeqEqual
  <2> QED
    BY <1>4, <2>1
<1> QED
  BY <1>3, <1>4, <1>5

\* Prefixes order the paths, and those of one path are a chain.
LEMMA PrefixOrder ==
  ASSUME NEW S, NEW r \in Seq(S), NEW s \in Seq(S), NEW t \in Seq(S)
  PROVE  /\ IsPrefix(s, s)
         /\ IsPrefix(r, s) /\ IsPrefix(s, t) => IsPrefix(r, t)
         /\ IsPrefix(s, t) /\ IsPrefix(t, s) => s = t
         /\ IsPrefix(r, t) /\ IsPrefix(s, t) => IsPrefix(r, s) \/ IsPrefix(s, r)
         /\ IsPrefix(<<>>, s)
         /\ IsPrefix(s, <<>>) => s = <<>>
<1>0. <<>> \in Seq(S) /\ Len(<<>>) = 0
  BY EmptySeq
<1>1. Len(r) \in Nat /\ Len(s) \in Nat /\ Len(t) \in Nat
  BY LenProperties
<1>2. IsPrefix(s, s)
  BY <1>1, PrefixIs
<1>3. ASSUME IsPrefix(r, s), IsPrefix(s, t)
      PROVE  IsPrefix(r, t)
  <2>1. Len(r) <= Len(s) /\ \A i \in 1..Len(r) : r[i] = s[i]
    BY <1>3, PrefixIs
  <2>2. Len(s) <= Len(t) /\ \A i \in 1..Len(s) : s[i] = t[i]
    BY <1>3, PrefixIs
  <2>3. Len(r) <= Len(t) /\ \A i \in 1..Len(r) : r[i] = t[i]
    BY <1>1, <2>1, <2>2
  <2> QED
    BY <2>3, PrefixIs
<1>4. ASSUME IsPrefix(s, t), IsPrefix(t, s)
      PROVE  s = t
  <2>1. Len(t) <= Len(s)
    BY <1>4, PrefixIs
  <2>2. Len(s) <= Len(t) /\ \A i \in 1..Len(s) : s[i] = t[i]
    BY <1>4, PrefixIs
  <2>3. Len(s) = Len(t)
    BY <1>1, <2>1, <2>2
  <2> QED
    BY <2>2, <2>3, SeqEqual
<1>5. ASSUME IsPrefix(r, t), IsPrefix(s, t)
      PROVE  IsPrefix(r, s) \/ IsPrefix(s, r)
  <2>1. \A i \in 1..Len(r) : r[i] = t[i]
    BY <1>5, PrefixIs
  <2>2. \A i \in 1..Len(s) : s[i] = t[i]
    BY <1>5, PrefixIs
  <2>3. CASE Len(r) <= Len(s)
    <3>1. \A i \in 1..Len(r) : r[i] = s[i]
      BY <1>1, <2>1, <2>2, <2>3
    <3> QED
      BY <2>3, <3>1, PrefixIs
  <2>4. CASE Len(s) <= Len(r)
    <3>1. \A i \in 1..Len(s) : s[i] = r[i]
      BY <1>1, <2>1, <2>2, <2>4
    <3> QED
      BY <2>4, <3>1, PrefixIs
  <2> QED
    BY <1>1, <2>3, <2>4
<1>6. IsPrefix(<<>>, s)
  <2>1. Len(<<>>) <= Len(s) /\ \A i \in 1..Len(<<>>) : <<>>[i] = s[i]
    BY <1>0, <1>1
  <2> QED
    BY <1>0, <2>1, PrefixIs
<1>7. ASSUME IsPrefix(s, <<>>)
      PROVE  s = <<>>
  <2>1. Len(s) <= Len(<<>>)
    BY <1>0, <1>7, PrefixIs
  <2>2. Len(s) = Len(<<>>)
    BY <1>0, <1>1, <2>1
  <2>3. \A i \in 1..Len(s) : s[i] = <<>>[i]
    BY <1>0, <2>2
  <2> QED
    BY <1>0, <2>2, <2>3, SeqEqual
<1> QED
  BY <1>2, <1>3, <1>4, <1>5, <1>6, <1>7

\* The ancestors of a path are its prefixes.
LEMMA AncestorsAre ==
  ASSUME NEW S, NEW p \in Seq(S), NEW q
  PROVE  q \in Ancestors(p) <=> q \in Seq(S) /\ IsPrefix(q, p) /\ q # p
<1>1. Len(p) \in Nat
  BY LenProperties
<1>2. ASSUME q \in Ancestors(p)
      PROVE  q \in Seq(S) /\ IsPrefix(q, p) /\ q # p
  <2>1. PICK n \in 0..Len(p) - 1 : q = SubSeq(p, 1, n)
    BY <1>2 DEF Ancestors
  <2>2. q \in Seq(S) /\ Len(q) = n /\ \A i \in 1..n : q[i] = p[i]
    <3>1. \A i \in 1..n : p[i] \in S
      BY <1>1
    <3>2. n \in Int /\ 1 \in Int /\ n - 1 + 1 = n /\ (1 <= n \/ n = 0)
      BY <1>1
    <3>3. \A i \in 1..n : 1 + i - 1 = i
      BY <1>1
    <3>4. /\ q \in Seq(S) /\ Len(q) = IF 1 <= n THEN n - 1 + 1 ELSE 0
          /\ \A i \in 1..n - 1 + 1 : q[i] = p[1 + i - 1]
      BY <2>1, <3>1, <3>2, SubSeqProperties
    <3> QED
      BY <3>2, <3>3, <3>4
  <2>3. Len(q) <= Len(p) /\ Len(q) # Len(p)
    BY <1>1, <2>2
  <2> QED
    BY <2>2, <2>3, PrefixIs
<1>3. ASSUME q \in Seq(S), IsPrefix(q, p), q # p
      PROVE  q \in Ancestors(p)
  <2>1. Len(q) \in Nat /\ SubSeq(q, 1, Len(q)) = q
    BY <1>3, LenProperties, SubSeqFull
  <2>2. Len(q) <= Len(p) /\ q = SubSeq(p, 1, Len(q))
    BY <1>3, <2>1 DEF IsPrefix
  <2>3. Len(q) # Len(p)
    BY <1>3, <2>2, SubSeqFull
  <2>4. Len(q) \in 0..Len(p) - 1
    BY <1>1, <2>1, <2>2, <2>3
  <2> QED
    BY <2>2, <2>4 DEF Ancestors
<1> QED
  BY <1>2, <1>3

-----------------------------------------------------------------------------
(* What the loops over the parts of a path compute. *)

Joining == INSTANCE Recursion WITH Start <- <<>>, Step <- PathJoin
Naming == INSTANCE Recursion WITH Start <- <<>>, Step <- NextName

\* No part, no name.
LEMMA NamesOfNone == NamesIn(<<>>) = <<>>
<1>1. NamesIn(<<>>) = Naming!Fold(<<>>)
  BY DEF NamesIn, Naming!Fold
<1> QED
  BY <1>1, Naming!FoldEmpty

\* One more part: its name, if it is not empty.
LEMMA NamesOfMore ==
  ASSUME NEW S, NEW s \in Seq(S), NEW x \in S
  PROVE  NamesIn(Append(s, x)) = NextName(NamesIn(s), x)
<1>1. NamesIn(Append(s, x)) = Naming!Fold(Append(s, x)) /\ NamesIn(s) = Naming!Fold(s)
  BY DEF NamesIn, Naming!Fold
<1> QED
  BY <1>1, Naming!FoldAppend

\* path.Join of nothing.
LEMMA BuildNone == BuildURL(<<>>) = <<>>
<1>1. BuildURL(<<>>) = Joining!Fold(<<>>)
  BY DEF BuildURL, Joining!Fold
<1> QED
  BY <1>1, Joining!FoldEmpty

\* path.Join with one segment more.
LEMMA BuildMore ==
  ASSUME NEW S, NEW s \in Seq(S), NEW x \in S
  PROVE  BuildURL(Append(s, x)) = PathJoin(BuildURL(s), x)
<1>1. BuildURL(Append(s, x)) = Joining!Fold(Append(s, x)) /\ BuildURL(s) = Joining!Fold(s)
  BY DEF BuildURL, Joining!Fold
<1> QED
  BY <1>1, Joining!FoldAppend

\* BuildURL keeps every segment that is not empty, no dot and no two dots: the path
\* has exactly the segments the sub-client listed.
THEOREM BuildIsExact ==
  ASSUME NEW S, "" \notin S, "." \notin S, ".." \notin S, NEW s \in Seq(S)
  PROVE  BuildURL(s) = s
<1> DEFINE T == {r \in Seq(S) : BuildURL(r) = r}
<1>1. <<>> \in T
  BY BuildNone, EmptySeq
<1>2. ASSUME NEW r \in Seq(S), NEW x \in S, r \in T
      PROVE  Append(r, x) \in T
  <2>1. Append(r, x) \in Seq(S) /\ BuildURL(Append(r, x)) = PathJoin(r, x)
    BY <1>2, BuildMore, AppendProperties
  <2>2. x # "" /\ x # "." /\ x # ".."
    OBVIOUS
  <2>3. PathJoin(r, x) = Append(r, x)
    BY <2>2 DEF PathJoin
  <2> QED
    BY <2>1, <2>3
<1> HIDE DEF T
<1>3. Seq(S) \subseteq T
  BY <1>1, <1>2, Joining!SeqInduction
<1> QED
  BY <1>3 DEF T

\* Splitting drops the empty parts and adds nothing.
LEMMA NamesType ==
  ASSUME NEW S, NEW s \in Seq(S)
  PROVE  NamesIn(s) \in Seq(S \ {""}) /\ NamesIn(s) \in Seq(S)
<1> DEFINE A == Seq(S \ {""})
<1>1. <<>> \in A
  OBVIOUS
<1>2. ASSUME NEW a \in A, NEW x \in S
      PROVE  NextName(a, x) \in A
  <2>1. CASE x = ""
    BY <2>1 DEF NextName
  <2>2. CASE x # ""
    <3>1. x \in S \ {""}
      BY <2>2
    <3>2. Append(a, x) \in Seq(S \ {""})
      BY <3>1, AppendProperties
    <3> QED
      BY <2>2, <3>2 DEF NextName
  <2> QED
    BY <2>1, <2>2
<1>3. NamesIn(s) = Naming!Fold(s)
  BY DEF NamesIn, Naming!Fold
<1> HIDE DEF A
<1>4. Naming!Fold(s) \in A
  BY <1>1, <1>2, Naming!FoldType
<1>5. NamesIn(s) \in Seq(S \ {""})
  BY <1>3, <1>4 DEF A
<1>6. NamesIn(s) \in Seq(S)
  BY <1>5, SeqMonotonic
<1> QED
  BY <1>5, <1>6

\* A path without empty parts is its own list of names.
LEMMA NamesOfNames ==
  ASSUME NEW S, "" \notin S, NEW s \in Seq(S)
  PROVE  NamesIn(s) = s
<1> DEFINE T == {r \in Seq(S) : NamesIn(r) = r}
<1>1. <<>> \in T
  BY NamesOfNone, EmptySeq
<1>2. ASSUME NEW r \in Seq(S), NEW x \in S, r \in T
      PROVE  Append(r, x) \in T
  <2>1. Append(r, x) \in Seq(S) /\ NamesIn(Append(r, x)) = NextName(r, x)
    BY <1>2, NamesOfMore, AppendProperties
  <2>2. x # ""
    OBVIOUS
  <2> QED
    BY <2>1, <2>2 DEF NextName
<1> HIDE DEF T
<1>3. Seq(S) \subseteq T
  BY <1>1, <1>2, Naming!SeqInduction
<1> QED
  BY <1>3 DEF T

\* Growing the second of two sequences grows their concatenation.
LEMMA AppendToBoth ==
  ASSUME NEW S, NEW s \in Seq(S), NEW t \in Seq(S), NEW x \in S
  PROVE  Append(s \o t, x) = s \o Append(t, x)
<1>1. PICK one : one = <<x>>
  OBVIOUS
<1>2. one \in Seq(S) /\ s \o t \in Seq(S)
  BY <1>1, ConcatProperties
<1>3. Append(t, x) = t \o one /\ Append(s \o t, x) = (s \o t) \o one
  BY <1>1, <1>2, AppendIsConcat
<1>4. (s \o t) \o one = s \o (t \o one)
  BY <1>2, ConcatAssociative
<1> QED
  BY <1>3, <1>4

\* Splitting goes through a concatenation.
LEMMA NamesOfBoth ==
  ASSUME NEW S, NEW s \in Seq(S), NEW t \in Seq(S)
  PROVE  NamesIn(s \o t) = NamesIn(s) \o NamesIn(t)
<1> DEFINE T == {r \in Seq(S) : NamesIn(s \o r) = NamesIn(s) \o NamesIn(r)}
<1>0. PICK n : n = NamesIn(s)
  OBVIOUS
<1>00. n \in Seq(S)
  BY <1>0, NamesType
<1>1. <<>> \in T
  <2>1. s \o <<>> = s
    BY ConcatEmptySeq
  <2>2. n \o <<>> = n
    BY <1>00, ConcatEmptySeq
  <2>3. NamesIn(s \o <<>>) = NamesIn(s) \o NamesIn(<<>>)
    BY <1>0, <2>1, <2>2, NamesOfNone
  <2> QED
    BY <2>3, EmptySeq
<1>2. ASSUME NEW r \in Seq(S), NEW x \in S, r \in T
      PROVE  Append(r, x) \in T
  <2>1. PICK m : m = NamesIn(r)
    OBVIOUS
  <2>2. m \in Seq(S)
    BY <2>1, NamesType
  <2>3. s \o Append(r, x) = Append(s \o r, x) /\ s \o r \in Seq(S)
    BY AppendToBoth, ConcatProperties
  <2>4. NamesIn(Append(s \o r, x)) = NextName(n \o m, x)
    BY <1>0, <1>2, <2>1, <2>3, NamesOfMore
  <2>5. NamesIn(Append(r, x)) = NextName(m, x)
    BY <2>1, NamesOfMore
  <2>6. NextName(n \o m, x) = n \o NextName(m, x)
    <3>1. CASE x = ""
      BY <3>1 DEF NextName
    <3>2. CASE x # ""
      <4>2. n \o Append(m, x) = Append(n \o m, x)
        BY <1>00, <2>2, AppendToBoth, ConcatProperties
      <4> QED
        BY <3>2, <4>2 DEF NextName
    <3> QED
      BY <3>1, <3>2
  <2>7. Append(r, x) \in Seq(S)
    BY AppendProperties
  <2> QED
    BY <1>0, <2>3, <2>4, <2>5, <2>6, <2>7
<1> HIDE DEF T
<1>3. Seq(S) \subseteq T
  BY <1>1, <1>2, Naming!SeqInduction
<1> QED
  BY <1>3 DEF T

-----------------------------------------------------------------------------
(* The arguments of the methods. *)

\* A sequence of one.
LEMMA TupleOfOne ==
  ASSUME NEW S, NEW x \in S
  PROVE  /\ <<x>> \in Seq(S) /\ Len(<<x>>) = 1 /\ <<x>>[1] = x /\ <<x>> # <<>>
         /\ Append(<<>>, x) = <<x>>
         /\ Head(<<x>>) = x /\ Tail(<<x>>) = <<>>
<1>1. <<x>> \in Seq(S) /\ Len(<<x>>) = 1 /\ <<x>>[1] = x /\ <<x>> # <<>>
  OBVIOUS
<1>2. <<x>> = Append(<<>>, x)
  OBVIOUS
<1>3. Head(<<x>>) = x
  OBVIOUS
<1>4. Tail(<<x>>) = <<>>
  OBVIOUS
<1> QED
  BY <1>1, <1>2, <1>3, <1>4

\* A sequence of two.
LEMMA TupleOfTwo ==
  ASSUME NEW S, NEW x \in S, NEW y \in S
  PROVE  /\ <<x, y>> \in Seq(S) /\ Len(<<x, y>>) = 2 /\ <<x, y>>[1] = x /\ <<x, y>>[2] = y
         /\ <<x>> \o <<y>> = <<x, y>>
         /\ Head(<<x, y>>) = x /\ Tail(<<x, y>>) = <<y>>
<1>1. <<x, y>> \in Seq(S) /\ Len(<<x, y>>) = 2 /\ <<x, y>>[1] = x /\ <<x, y>>[2] = y
  OBVIOUS
<1>2. <<x, y>> = Append(<<x>>, y)
  OBVIOUS
<1>5. <<x>> \o <<y>> = <<x, y>>
  BY <1>2, TupleOfOne, AppendIsConcat
<1>3. Head(<<x, y>>) = x
  OBVIOUS
<1>4. Tail(<<x, y>>) = <<y>>
  OBVIOUS
<1> QED
  BY <1>1, <1>3, <1>4, <1>5

\* A sequence of three.
LEMMA TupleOfThree ==
  ASSUME NEW S, NEW x \in S, NEW y \in S, NEW z \in S
  PROVE  /\ <<x, y, z>> = <<x, y>> \o <<z>>
<1>2. <<x, y, z>> = Append(<<x, y>>, z)
  OBVIOUS
<1> QED
  BY <1>2, TupleOfTwo, AppendIsConcat
\* A sequence is its head and its tail.
LEMMA HeadAndTail ==
  ASSUME NEW S, NEW s \in Seq(S), s # <<>>
  PROVE  s = <<Head(s)>> \o Tail(s)
<1>1. Len(s) \in Nat /\ Len(s) # 0 /\ 1 \in 1..Len(s) /\ Len(s) \in 1..Len(s)
  BY EmptySeq, LenProperties
<1>2. SubSeq(s, 1, Len(s)) = <<s[1]>> \o SubSeq(s, 1 + 1, Len(s))
  BY <1>1, SubSeqRecursiveFirst
<1>3. SubSeq(s, 1, Len(s)) = s
  BY SubSeqFull
<1>4. Tail(s) = SubSeq(s, 2, Len(s))
  BY TailIsSubSeq
<1>5. Head(s) = s[1] /\ 1 + 1 = 2
  OBVIOUS
<1> QED
  BY <1>2, <1>3, <1>4, <1>5

\* What follows the first two elements.
LEMMA WithoutTwo ==
  ASSUME NEW S, NEW x \in S, NEW y \in S, NEW n \in Seq(S), NEW s, s = <<x, y>> \o n
  PROVE  s \in Seq(S) /\ n = SubSeq(s, 3, Len(s))
<1>1. PICK two : two = <<x, y>>
  OBVIOUS
<1>2. two \in Seq(S) /\ Len(two) = 2
  BY <1>1, TupleOfTwo
<1>3. s = two \o n
  BY <1>1
<1>4. s \in Seq(S) /\ Len(s) = Len(two) + Len(n)
  BY <1>2, <1>3, ConcatProperties
<1>5. Len(n) \in Nat
  BY LenProperties
<1>6. Len(s) = 2 + Len(n) /\ Len(s) \in Nat
  BY ONLY <1>2, <1>4, <1>5
<1>7. CASE Len(n) = 0
  <2>1. n = <<>>
    BY <1>7, EmptySeq
  <2>2. Len(s) < 3 /\ 3 \in Int /\ Len(s) \in Int
    BY ONLY <1>6, <1>7
  <2>3. SubSeq(s, 3, Len(s)) = <<>>
    BY <2>2, SubSeqEmpty
  <2> QED
    BY <1>4, <2>1, <2>3
<1>8. CASE Len(n) # 0
  <2>0. PICK l : l = Len(s)
    OBVIOUS
  <2>1. /\ 3 \in Len(two) + 1..Len(two) + Len(n) /\ l \in Len(two) + 1..Len(two) + Len(n)
        /\ 3 - Len(two) = 1 /\ l - Len(two) = Len(n)
    BY ONLY <1>2, <1>5, <1>6, <1>8, <2>0
  <2>2. SubSeq(two \o n, 3, l) = SubSeq(n, 3 - Len(two), l - Len(two))
    BY <1>2, <2>1, SubSeqOfConcat2
  <2>3. SubSeq(n, 1, Len(n)) = n
    BY SubSeqFull
  <2> QED
    BY <1>3, <1>4, <2>0, <2>1, <2>2, <2>3
<1> QED
  BY <1>7, <1>8

\* No file is named by the empty string, a dot or two dots.
LEMMA NamesAreNoDots ==
  "" \notin FileNames /\ "." \notin FileNames /\ ".." \notin FileNames
BY ResourcesAssumption

\* The text before a slash, when there is none.
LEMMA NamesOfSlash ==
  ASSUME NEW S, "" \in S
  PROVE  <<"">> \in Seq(S) /\ NamesIn(<<"">>) = <<>>
<1>1. <<>> \in Seq(S) /\ <<"">> \in Seq(S)
  BY EmptySeq, TupleOfOne
<1>2. Append(<<>>, "") = <<"">>
  BY TupleOfOne
<1>3. NamesIn(Append(<<>>, "")) = NextName(NamesIn(<<>>), "")
  BY <1>1, NamesOfMore
<1> QED
  BY <1>1, <1>2, <1>3, NamesOfNone DEF NextName

\* Slashes at the ends of a path mean nothing.
LEMMA LeadingSlash ==
  ASSUME NEW S, "" \in S, NEW t \in Seq(S)
  PROVE  /\ <<"">> \o t \in Seq(S) /\ NamesIn(<<"">> \o t) = NamesIn(t)
         /\ t \o <<"">> \in Seq(S) /\ NamesIn(t \o <<"">>) = NamesIn(t)
<1>0. PICK one : one = <<"">>
  OBVIOUS
<1>1. one \in Seq(S) /\ NamesIn(one) = <<>>
  BY <1>0, NamesOfSlash
<1>2. NamesIn(t) \in Seq(S)
  BY NamesType
<1>3. one \o t \in Seq(S) /\ t \o one \in Seq(S)
  BY <1>1, ConcatProperties
<1>4. /\ NamesIn(one \o t) = NamesIn(one) \o NamesIn(t)
      /\ NamesIn(t \o one) = NamesIn(t) \o NamesIn(one)
  BY <1>1, NamesOfBoth
<1>5. <<>> \o NamesIn(t) = NamesIn(t) /\ NamesIn(t) \o <<>> = NamesIn(t)
  BY <1>2, ConcatEmptySeq
<1> QED
  BY <1>0, <1>1, <1>3, <1>4, <1>5

\* strings.TrimPrefix takes away a slash and no name: the body of a Move or Copy means
\* what its argument means.
LEMMA TrimKeepsMeaning ==
  ASSUME NEW S, "" \in S, NEW a \in Seq(S)
  PROVE  TrimPrefix(a) \in Seq(S) /\ NamesIn(TrimPrefix(a)) = NamesIn(a)
<1>1. CASE Len(a) > 1 /\ Head(a) = ""
  <2>1. Len(a) > 1 /\ Len(a) \in Nat
    BY <1>1, LenProperties
  <2>2. a # <<>>
    <3>1. Len(a) # 0
      BY ONLY <2>1
    <3> QED
      BY <3>1, EmptySeq
  <2>3. a = <<"">> \o Tail(a) /\ Tail(a) \in Seq(S)
    BY <1>1, <2>2, HeadAndTail, HeadTailProperties
  <2>4. NamesIn(<<"">> \o Tail(a)) = NamesIn(Tail(a))
    BY <2>3, LeadingSlash
  <2> QED
    BY <1>1, <2>3, <2>4 DEF TrimPrefix
<1>2. CASE ~(Len(a) > 1 /\ Head(a) = "")
  BY <1>2 DEF TrimPrefix
<1> QED
  BY <1>1, <1>2

\* What an argument means is a path of files.
LEMMA MeaningIsPath ==
  ASSUME NEW a \in Seq(FileNames \cup {""})
  PROVE  NamesIn(a) \in Seq(FileNames)
<1>1. NamesIn(a) \in Seq((FileNames \cup {""}) \ {""})
  BY NamesType
<1>2. (FileNames \cup {""}) \ {""} = FileNames
  BY NamesAreNoDots
<1> QED
  BY <1>1, <1>2

\* The path of a resource follows rest/resource.
LEMMA AfterRestResource ==
  ASSUME NEW S, "rest" \in S, "resource" \in S,
         NEW n \in Seq(S), NEW s, s = <<"rest", "resource">> \o n
  PROVE  s \in Seq(S) /\ n = SubSeq(s, 3, Len(s))
BY WithoutTwo

\* The server locates what the argument means: splitPath, PathEscape, BuildURL and the
\* server's own splitting lose nothing.
LEMMA RequestIsLocated ==
  ASSUME NEW a \in Seq(FileNames \cup {""}), NEW m, NEW b, NEW q
  PROVE  Located(Request(m, pathSegments(a), b, q)) = NamesIn(a)
<1>1. PICK n : n = NamesIn(a)
  OBVIOUS
<1>2. PICK s : s = <<"rest", "resource">> \o n
  OBVIOUS
<1>3. PICK S : S = FileNames \cup {"rest", "resource"}
  OBVIOUS
<1>4. "" \notin S /\ "." \notin S /\ ".." \notin S /\ FileNames \subseteq S
  BY <1>3, NamesAreNoDots
<1>5. n \in Seq(FileNames) /\ n \in Seq(S)
  BY <1>1, <1>4, MeaningIsPath, SeqMonotonic
<1>6. s \in Seq(S) /\ n = SubSeq(s, 3, Len(s))
  <2>1. "rest" \in S /\ "resource" \in S
    BY <1>3
  <2> QED
    BY <1>2, <1>5, <2>1, AfterRestResource
<1>7. BuildURL(s) = s
  BY <1>4, <1>6, BuildIsExact
<1>8. Located(Request(m, pathSegments(a), b, q)) = SubSeq(s, 3, Len(s))
  BY <1>1, <1>2, <1>7 DEF Located, Request, pathSegments, splitPath
<1> QED
  BY <1>1, <1>6, <1>8

\* The spellings of a place mean that place.
LEMMA NamesOfPlace ==
  ASSUME NEW p \in Places
  PROVE  /\ p \in Seq(FileNames) /\ p # <<>> /\ NamesIn(p) = p
         /\ \A s \in {"plain", "slashed"} :
              /\ SpellingOf(p)[s] \in Seq(FileNames \cup {""})
              /\ NamesIn(SpellingOf(p)[s]) = p
<1>0. p \in Seq(FileNames) /\ p # <<>>
  <2>1. CASE \E k \in FileNames : p = <<k>>
    BY <2>1, TupleOfOne
  <2>2. CASE \E k, l \in FileNames : p = <<k, l>>
    BY <2>2, TupleOfTwo
  <2> QED
    BY <2>1, <2>2 DEF Places
<1>1. NamesIn(p) = p
  BY <1>0, NamesAreNoDots, NamesOfNames
<1>2. p \in Seq(FileNames \cup {""})
  BY <1>0, SeqMonotonic
<1>3. ASSUME NEW u, u = <<"", Head(p), "">> \o Tail(p) \o <<"">>
      PROVE  u \in Seq(FileNames \cup {""}) /\ NamesIn(u) = p
  <2>1. PICK S : S = FileNames \cup {""}
    OBVIOUS
  <2>2. PICK m, t : m = Head(p) /\ t = Tail(p)
    OBVIOUS
  <2>3. m \in FileNames /\ t \in Seq(FileNames) /\ p = <<m>> \o t
    BY <1>0, <2>2, HeadAndTail, HeadTailProperties
  <2>4. "" \in S /\ m \in S /\ m # "" /\ t \in Seq(S)
    BY <2>1, <2>3, NamesAreNoDots, SeqMonotonic
  <2>5. PICK one : one = <<m>>
    OBVIOUS
  <2>6. one \in Seq(S) /\ one \in Seq(FileNames) /\ NamesIn(one) = one
    <3>1. one \in Seq(FileNames) /\ one \in Seq(S)
      BY <2>3, <2>4, <2>5, TupleOfOne
    <3> QED
      BY <3>1, NamesOfNames, NamesAreNoDots
  <2>7. NamesIn(t) = t
    BY <2>3, NamesOfNames, NamesAreNoDots
  <2>8. PICK o : o = <<"">>
    OBVIOUS
  <2>9. <<"", m, "">> = (o \o one) \o o
    <3>1. o \o one = <<"", m>>
      BY <2>4, <2>5, <2>8, TupleOfTwo
    <3>2. <<"", m, "">> = <<"", m>> \o <<"">>
      BY <2>4, TupleOfThree
    <3> QED
      BY <2>8, <3>1, <3>2
  <2>10. o \o one \in Seq(S) /\ NamesIn(o \o one) = one
    BY <2>4, <2>6, <2>8, LeadingSlash
  <2>11. (o \o one) \o o \in Seq(S) /\ NamesIn((o \o one) \o o) = one
    BY <2>4, <2>8, <2>10, LeadingSlash
  <2>12. PICK v : v = (o \o one) \o o
    OBVIOUS
  <2>13. v \o t \in Seq(S) /\ NamesIn(v \o t) = one \o t
    BY <2>4, <2>7, <2>11, <2>12, ConcatProperties, NamesOfBoth
  <2>14. (v \o t) \o o \in Seq(S) /\ NamesIn((v \o t) \o o) = one \o t
    BY <2>4, <2>8, <2>13, LeadingSlash
  <2>15. u = (v \o t) \o o
    BY <1>3, <2>2, <2>8, <2>9, <2>12
  <2> QED
    BY <2>1, <2>3, <2>5, <2>14, <2>15
<1>4. SpellingOf(p)["plain"] = p
  BY DEF SpellingOf
<1>5. SpellingOf(p)["slashed"] = <<"", Head(p), "">> \o Tail(p) \o <<"">>
  BY DEF SpellingOf
<1> QED
  BY <1>0, <1>1, <1>2, <1>3, <1>4, <1>5

\* The spellings of the root mean the root, and the guards know all but "//".
LEMMA NamesOfRoot ==
  ASSUME NEW s \in {"empty", "slash", "slashes"}
  PROVE  /\ RootSpellings[s] \in Seq(FileNames \cup {""})
         /\ NamesIn(RootSpellings[s]) = <<>>
         /\ s # "slashes" => IsRoot(RootSpellings[s])
<1>1. PICK S : S = FileNames \cup {""}
  OBVIOUS
<1>2. "" \in S
  BY <1>1
<1>3. PICK one : one = <<"">>
  OBVIOUS
<1>4. one \in Seq(S) /\ NamesIn(one) = <<>>
  BY <1>2, <1>3, NamesOfSlash
<1>5. one \o one \in Seq(S) /\ NamesIn(one \o one) = <<>>
  BY <1>2, <1>3, <1>4, LeadingSlash
<1>6. one \o (one \o one) \in Seq(S) /\ NamesIn(one \o (one \o one)) = <<>>
  BY <1>2, <1>3, <1>5, LeadingSlash
<1>7. one \o one = <<"", "">> /\ one \o (one \o one) = <<"", "", "">>
  <2>1. one \o one = <<"", "">>
    BY <1>2, <1>3, TupleOfTwo
  <2>2. <<"", "", "">> = <<"", "">> \o <<"">>
    BY <1>2, TupleOfThree
  <2>3. (one \o one) \o one = one \o (one \o one)
    BY <1>4, ConcatAssociative
  <2> QED
    BY <1>3, <2>1, <2>2, <2>3
<1>8. /\ RootSpellings["empty"] = one
      /\ RootSpellings["slash"] = one \o one
      /\ RootSpellings["slashes"] = one \o (one \o one)
  BY <1>3, <1>7 DEF RootSpellings
<1>9. IsRoot(one) /\ IsRoot(one \o one)
  BY <1>3, <1>7 DEF IsRoot
<1> QED
  BY <1>1, <1>4, <1>5, <1>6, <1>8, <1>9

\* What a path argument means.
THEOREM ArgumentsMean ==
  ASSUME NEW a \in Arguments
  PROVE  /\ a \in Seq(FileNames \cup {""})
         /\ NamesIn(a) \in {Root} \cup Places
         /\ IsRoot(a) => NamesIn(a) = Root
<1>0. IsRoot(a) => NamesIn(a) = <<>>
  <2>1. RootSpellings["empty"] = <<"">> /\ RootSpellings["slash"] = <<"", "">>
    BY DEF RootSpellings
  <2> QED
    BY <2>1, NamesOfRoot DEF IsRoot
<1>1. DOMAIN RootSpellings = {"empty", "slash", "slashes"}
  BY DEF RootSpellings
<1>2. Spellings \subseteq {"plain", "slashed", "empty", "slash", "slashes"}
  BY ResourcesAssumption
<1>3. CASE \E p \in Places, s \in Spellings \ DOMAIN RootSpellings : a = SpellingOf(p)[s]
  <2>1. PICK p \in Places, s \in Spellings \ DOMAIN RootSpellings : a = SpellingOf(p)[s]
    BY <1>3
  <2>2. s \in {"plain", "slashed"}
    BY <1>1, <1>2
  <2>3. a \in Seq(FileNames \cup {""}) /\ NamesIn(a) = p /\ p # <<>>
    BY <2>1, <2>2, NamesOfPlace
  <2> QED
    BY <1>0, <2>1, <2>3 DEF Root
<1>4. CASE \E s \in Spellings \cap DOMAIN RootSpellings : a = RootSpellings[s]
  <2>1. PICK s \in Spellings \cap DOMAIN RootSpellings : a = RootSpellings[s]
    BY <1>4
  <2>2. s \in {"empty", "slash", "slashes"}
    BY <1>1
  <2> QED
    BY <1>0, <2>1, <2>2, NamesOfRoot DEF Root
<1> QED
  <2>1. \/ \E p \in Places, s \in Spellings \ DOMAIN RootSpellings : a = SpellingOf(p)[s]
        \/ \E s \in Spellings \cap DOMAIN RootSpellings : a = RootSpellings[s]
    BY DEF Arguments
  <2> QED
    BY <1>3, <1>4, <2>1

-----------------------------------------------------------------------------
(* Trees, and what the server makes of one. *)

Paths == Seq(FileNames)

\* A data directory.
TreeOK(t) ==
  /\ t = [x \in DOMAIN t |-> t[x]]
  /\ DOMAIN t \subseteq Paths
  /\ \A x \in DOMAIN t : t[x] \in {"directory"} \cup Contents
  /\ \A x \in DOMAIN t : \A y \in Ancestors(x) : y \in DOMAIN t /\ t[y] = "directory"

\* p can be written in t: it is no directory, and what is above it are directories.
Writable(t, p) ==
  /\ p \in DOMAIN t => t[p] # "directory"
  /\ \A y \in Ancestors(p) : y \in DOMAIN t => t[y] = "directory"

\* The same of the paths of files; an ancestor's ancestor is an ancestor.
LEMMA AncestorsOf ==
  ASSUME NEW p \in Paths
  PROVE  /\ \A y : y \in Ancestors(p) <=> y \in Paths /\ IsPrefix(y, p) /\ y # p
         /\ \A y \in Ancestors(p) : \A x \in Ancestors(y) : x \in Ancestors(p)
<1>1. \A x \in Paths : \A y : y \in Ancestors(x) <=> y \in Paths /\ IsPrefix(y, x) /\ y # x
  BY AncestorsAre DEF Paths
<1>2. ASSUME NEW y \in Ancestors(p), NEW x \in Ancestors(y)
      PROVE  x \in Ancestors(p)
  <2>1. y \in Paths /\ IsPrefix(y, p) /\ y # p
    BY <1>1
  <2>2. x \in Paths /\ IsPrefix(x, y) /\ x # y
    BY <1>1, <2>1
  <2>3. IsPrefix(x, p)
    BY <2>1, <2>2, PrefixOrder DEF Paths
  <2>4. x # p
    BY <2>1, <2>2, PrefixOrder DEF Paths
  <2> QED
    BY <1>1, <2>2, <2>3, <2>4
<1> QED
  BY <1>1, <1>2

\* u is t with content put at p and its parents created.
IsPlaced(t, p, content, u) ==
  /\ DOMAIN u = DOMAIN t \cup Ancestors(p) \cup {p}
  /\ u = [x \in DOMAIN u |-> u[x]]
  /\ u[p] = content
  /\ \A x \in DOMAIN t : x # p => u[x] = t[x]
  /\ \A x \in Ancestors(p) : x # p /\ x \notin DOMAIN t => u[x] = "directory"

\* Placed, point by point.
LEMMA PlacedIs ==
  ASSUME NEW t, NEW p, NEW content
  PROVE  IsPlaced(t, p, content, Placed(t, p, content))
BY DEF Placed, IsPlaced

\* Content put where it can be written leaves a tree.
LEMMA PlacedOK ==
  ASSUME NEW t, TreeOK(t), NEW p \in Paths, Writable(t, p),
         NEW content \in {"directory"} \cup Contents
  PROVE  TreeOK(Placed(t, p, content))
<1>1. PICK u : u = Placed(t, p, content)
  OBVIOUS
<1>2. /\ DOMAIN u = DOMAIN t \cup Ancestors(p) \cup {p}
      /\ u = [x \in DOMAIN u |-> u[x]]
      /\ u[p] = content
      /\ \A x \in DOMAIN t : x # p => u[x] = t[x]
      /\ \A x \in Ancestors(p) : x # p /\ x \notin DOMAIN t => u[x] = "directory"
  <2>1. IsPlaced(t, p, content, u)
    BY <1>1, PlacedIs
  <2> QED
    BY <2>1 DEF IsPlaced
<1>3. \A y \in Ancestors(p) : y \in Paths /\ y # p /\ u[y] = "directory"
  <2> TAKE y \in Ancestors(p)
  <2>1. y \in Paths /\ y # p
    BY AncestorsOf
  <2>2. y \in DOMAIN t => t[y] = "directory"
    BY DEF Writable
  <2> QED
    BY <1>2, <2>1, <2>2
<1>4. \A x \in DOMAIN t : u[x] = t[x] \/ (x = p /\ u[x] = content)
  BY <1>2
<1>5. \A x \in DOMAIN t : t[x] = "directory" => x # p /\ u[x] = "directory"
  BY <1>2 DEF Writable
<1>6. DOMAIN u \subseteq Paths
  BY <1>2, <1>3 DEF TreeOK
<1>7. \A x \in DOMAIN u : u[x] \in {"directory"} \cup Contents
  BY <1>2, <1>3, <1>4 DEF TreeOK
<1>8. ASSUME NEW x \in DOMAIN u, NEW y \in Ancestors(x)
      PROVE  y \in DOMAIN u /\ u[y] = "directory"
  <2>1. CASE x \in DOMAIN t
    BY <1>2, <1>5, <2>1 DEF TreeOK
  <2>2. CASE x \in Ancestors(p)
    <3>1. y \in Ancestors(p)
      BY <2>2, AncestorsOf
    <3> QED
      BY <1>2, <1>3, <3>1
  <2>3. CASE x = p
    BY <1>2, <1>3, <2>3
  <2> QED
    BY <1>2, <2>1, <2>2, <2>3
<1>9. TreeOK(u)
  BY <1>2, <1>6, <1>7, <1>8 DEF TreeOK
<1> QED
  BY <1>1, <1>9

\* Removed, point by point.
LEMMA RemovedIs ==
  ASSUME NEW t, NEW p
  PROVE  /\ Removed(t, p) = [x \in DOMAIN Removed(t, p) |-> Removed(t, p)[x]]
         /\ \A x : x \in DOMAIN Removed(t, p) <=> x \in DOMAIN t /\ ~IsPrefix(p, x)
         /\ \A x \in DOMAIN Removed(t, p) : Removed(t, p)[x] = t[x]
BY DEF Removed

\* A tree without one of its subtrees is a tree.
LEMMA RemovedOK ==
  ASSUME NEW t, TreeOK(t), NEW p \in Paths
  PROVE  TreeOK(Removed(t, p))
<1>1. PICK u : u = Removed(t, p)
  OBVIOUS
<1>2. /\ u = [x \in DOMAIN u |-> u[x]]
      /\ \A x : x \in DOMAIN u <=> x \in DOMAIN t /\ ~IsPrefix(p, x)
      /\ \A x \in DOMAIN u : u[x] = t[x]
  BY <1>1, RemovedIs
<1>3. DOMAIN u \subseteq Paths /\ \A x \in DOMAIN u : u[x] \in {"directory"} \cup Contents
  BY <1>2 DEF TreeOK
<1>4. ASSUME NEW x \in DOMAIN u, NEW y \in Ancestors(x)
      PROVE  y \in DOMAIN u /\ u[y] = "directory"
  <2>1. x \in Paths /\ x \in DOMAIN t /\ ~IsPrefix(p, x)
    BY <1>2, <1>3
  <2>2. y \in Paths /\ IsPrefix(y, x)
    BY <2>1, AncestorsOf
  <2>3. ~IsPrefix(p, y)
    BY <2>1, <2>2, PrefixOrder DEF Paths
  <2>4. y \in DOMAIN t /\ t[y] = "directory"
    BY <2>1 DEF TreeOK
  <2> QED
    BY <1>2, <2>3, <2>4
<1>5. TreeOK(u)
  BY <1>2, <1>3, <1>4 DEF TreeOK
<1> QED
  BY <1>1, <1>5

\* The path r, which lies at or below p, with q in the place of p.
Rebased(p, q, r) == q \o SubSeq(r, Len(p) + 1, Len(r))

\* What of r lies below p.
LEMMA RestOfPath ==
  ASSUME NEW S, NEW p \in Seq(S), NEW r \in Seq(S), IsPrefix(p, r),
         NEW u, u = SubSeq(r, Len(p) + 1, Len(r))
  PROVE  /\ u \in Seq(S) /\ Len(u) \in Nat /\ Len(p) \in Nat /\ Len(r) = Len(p) + Len(u)
         /\ \A i \in 1..Len(u) : u[i] = r[Len(p) + i]
<1>1. Len(p) \in Nat /\ Len(r) \in Nat /\ Len(p) <= Len(r)
  BY LenProperties, PrefixIs
<1>2. PICK m, n : m = Len(p) + 1 /\ n = Len(r)
  OBVIOUS
<1>3. m \in Int /\ n \in Int /\ m \in Nat /\ 1 <= m
  BY ONLY <1>1, <1>2
<1>4. \A i \in m..n : r[i] \in S
  <2>1. \A i \in m..n : i \in 1..Len(r)
    BY ONLY <1>1, <1>2, <1>3
  <2> QED
    BY <2>1, ElementOfSeq
<1>5. /\ u \in Seq(S) /\ Len(u) = IF m <= n THEN n - m + 1 ELSE 0
      /\ \A i \in 1..n - m + 1 : u[i] = r[m + i - 1]
  BY <1>2, <1>3, <1>4, SubSeqProperties
<1>6. Len(u) = n - m + 1 /\ n - m + 1 = Len(r) - Len(p)
  <2>1. Len(u) = IF m <= n THEN n - m + 1 ELSE 0
    BY <1>5
  <2> QED
    BY ONLY <1>1, <1>2, <2>1
<1>7. Len(u) \in Nat /\ Len(r) = Len(p) + Len(u)
  BY ONLY <1>1, <1>6
<1>8. ASSUME NEW i \in 1..Len(u)
      PROVE  u[i] = r[Len(p) + i]
  <2>1. i \in 1..n - m + 1
    BY <1>6
  <2>2. m + i - 1 = Len(p) + i
    BY ONLY <1>1, <1>2, <1>7, i \in 1..Len(u)
  <2> QED
    BY <1>5, <2>1, <2>2
<1> QED
  BY <1>1, <1>5, <1>7, <1>8

\* v goes on from q as r goes on from p.
Continues(p, q, r, v) ==
  /\ Len(v) - Len(q) = Len(r) - Len(p) /\ IsPrefix(q, v)
  /\ Len(v) >= Len(q) /\ Len(r) >= Len(p)
  /\ Len(v) \in Nat /\ Len(q) \in Nat /\ Len(r) \in Nat /\ Len(p) \in Nat
  /\ \A i \in 1..Len(q) : v[i] = q[i]
  /\ \A i \in 1..Len(r) - Len(p) : v[Len(q) + i] = r[Len(p) + i]

\* A path moved from p to q lies at or below q.
LEMMA RebasedIs ==
  ASSUME NEW S, NEW p \in Seq(S), NEW q \in Seq(S), NEW r \in Seq(S), IsPrefix(p, r)
  PROVE  Rebased(p, q, r) \in Seq(S) /\ Continues(p, q, r, Rebased(p, q, r))
<1>0. PICK v : v = Rebased(p, q, r)
  OBVIOUS
<1>1. PICK u : u = SubSeq(r, Len(p) + 1, Len(r))
  OBVIOUS
<1>2. /\ u \in Seq(S) /\ Len(u) \in Nat /\ Len(p) \in Nat /\ Len(r) = Len(p) + Len(u)
      /\ \A i \in 1..Len(u) : u[i] = r[Len(p) + i]
  BY <1>1, RestOfPath
<1>3. /\ v \in Seq(S) /\ Len(v) = Len(q) + Len(u)
      /\ \A i \in 1..Len(q) + Len(u) : v[i] = IF i <= Len(q) THEN q[i] ELSE u[i - Len(q)]
  BY <1>0, <1>1, <1>2, ConcatProperties DEF Rebased
<1>4. Len(q) \in Nat
  BY LenProperties
<1>5. Len(u) \in Nat /\ Len(p) \in Nat /\ Len(r) = Len(p) + Len(u) /\ Len(v) = Len(q) + Len(u)
  BY <1>2, <1>3
<1>6. /\ Len(v) - Len(q) = Len(r) - Len(p) /\ Len(u) = Len(r) - Len(p)
      /\ Len(v) >= Len(q) /\ Len(r) >= Len(p) /\ Len(v) \in Nat /\ Len(r) \in Nat
      /\ Len(q) <= Len(v)
  BY ONLY <1>4, <1>5
<1>7. ASSUME NEW i \in 1..Len(q)
      PROVE  v[i] = q[i]
  <2>1. i \in 1..Len(q) + Len(u) /\ i <= Len(q)
    BY ONLY <1>4, <1>5, i \in 1..Len(q)
  <2> QED
    BY <1>3, <2>1
<1>8. ASSUME NEW i \in 1..Len(r) - Len(p)
      PROVE  v[Len(q) + i] = r[Len(p) + i]
  <2>1. PICK j : j = Len(q) + i
    OBVIOUS
  <2>2. j \in 1..Len(q) + Len(u) /\ ~(j <= Len(q)) /\ j - Len(q) = i /\ i \in 1..Len(u)
    BY ONLY <1>4, <1>5, <1>6, <2>1, i \in 1..Len(r) - Len(p)
  <2>3. v[j] = u[j - Len(q)]
    BY <1>3, <2>2
  <2>4. u[i] = r[Len(p) + i]
    BY <1>2, <2>2
  <2> QED
    BY <2>1, <2>2, <2>3, <2>4
<1>9. IsPrefix(q, v)
  BY <1>3, <1>6, <1>7, PrefixIs
<1> QED
  BY <1>0, <1>3, <1>4, <1>5, <1>6, <1>7, <1>8, <1>9 DEF Continues

\* Back again.
LEMMA RebasedBack ==
  ASSUME NEW S, NEW p \in Seq(S), NEW q \in Seq(S), NEW r \in Seq(S), IsPrefix(p, r)
  PROVE  Rebased(q, p, Rebased(p, q, r)) = r
<1>1. PICK v : v = Rebased(p, q, r)
  OBVIOUS
<1>2. /\ v \in Seq(S) /\ Len(v) - Len(q) = Len(r) - Len(p) /\ IsPrefix(q, v)
      /\ Len(v) >= Len(q) /\ Len(r) >= Len(p)
      /\ Len(v) \in Nat /\ Len(q) \in Nat /\ Len(r) \in Nat /\ Len(p) \in Nat
      /\ \A i \in 1..Len(r) - Len(p) : v[Len(q) + i] = r[Len(p) + i]
  <2>1. v \in Seq(S) /\ Continues(p, q, r, v)
    BY <1>1, RebasedIs
  <2> QED
    BY <2>1 DEF Continues
<1>3. PICK w : w = Rebased(q, p, v)
  OBVIOUS
<1>4. /\ w \in Seq(S) /\ Len(w) - Len(p) = Len(v) - Len(q) /\ Len(w) \in Nat
      /\ \A i \in 1..Len(p) : w[i] = p[i]
      /\ \A i \in 1..Len(v) - Len(q) : w[Len(p) + i] = v[Len(q) + i]
  <2>1. w \in Seq(S) /\ Continues(q, p, v, w)
    BY <1>2, <1>3, RebasedIs
  <2> QED
    BY <2>1 DEF Continues
<1>5. Len(w) = Len(r)
  BY <1>2, <1>4
<1>6. \A i \in 1..Len(p) : p[i] = r[i]
  BY PrefixIs
<1>7. ASSUME NEW i \in 1..Len(w)
      PROVE  w[i] = r[i]
  <2>1. CASE i \in 1..Len(p)
    BY <1>4, <1>6, <2>1
  <2>2. CASE i \notin 1..Len(p)
    <3>1. PICK j : j = i - Len(p)
      OBVIOUS
    <3>2. /\ j \in 1..Len(r) - Len(p) /\ j \in 1..Len(v) - Len(q) /\ i = Len(p) + j
      BY <1>2, <1>5, <2>2, <3>1
    <3> QED
      BY <1>2, <1>4, <3>2
  <2> QED
    BY <2>1, <2>2
<1>8. w = r
  BY <1>4, <1>5, <1>7, SeqEqual
<1> QED
  BY <1>1, <1>3, <1>8

\* What lies above stays above.
LEMMA RebasedOrder ==
  ASSUME NEW S, NEW p \in Seq(S), NEW q \in Seq(S), NEW r \in Seq(S), NEW s \in Seq(S),
         IsPrefix(p, r), IsPrefix(r, s)
  PROVE  IsPrefix(Rebased(p, q, r), Rebased(p, q, s))
<1>0. IsPrefix(p, s)
  BY PrefixOrder
<1>1. PICK v : v = Rebased(p, q, r)
  OBVIOUS
<1>2. /\ v \in Seq(S) /\ Len(v) - Len(q) = Len(r) - Len(p)
      /\ Len(v) >= Len(q) /\ Len(r) >= Len(p)
      /\ Len(v) \in Nat /\ Len(q) \in Nat /\ Len(r) \in Nat /\ Len(p) \in Nat
      /\ \A i \in 1..Len(q) : v[i] = q[i]
      /\ \A i \in 1..Len(r) - Len(p) : v[Len(q) + i] = r[Len(p) + i]
  <2>1. v \in Seq(S) /\ Continues(p, q, r, v)
    BY <1>1, RebasedIs
  <2> QED
    BY <2>1 DEF Continues
<1>3. PICK w : w = Rebased(p, q, s)
  OBVIOUS
<1>4. /\ w \in Seq(S) /\ Len(w) - Len(q) = Len(s) - Len(p)
      /\ Len(w) \in Nat /\ Len(s) \in Nat
      /\ \A i \in 1..Len(q) : w[i] = q[i]
      /\ \A i \in 1..Len(s) - Len(p) : w[Len(q) + i] = s[Len(p) + i]
  <2>1. w \in Seq(S) /\ Continues(p, q, s, w)
    BY <1>0, <1>3, RebasedIs
  <2> QED
    BY <2>1 DEF Continues
<1>5. Len(r) <= Len(s) /\ \A i \in 1..Len(r) : r[i] = s[i]
  BY PrefixIs
<1>6. Len(v) <= Len(w)
  BY <1>2, <1>4, <1>5
<1>7. ASSUME NEW i \in 1..Len(v)
      PROVE  v[i] = w[i]
  <2>1. CASE i \in 1..Len(q)
    BY <1>2, <1>4, <2>1
  <2>2. CASE i \notin 1..Len(q)
    <3>1. PICK j : j = i - Len(q)
      OBVIOUS
    <3>2. /\ j \in 1..Len(r) - Len(p) /\ j \in 1..Len(s) - Len(p) /\ i = Len(q) + j
          /\ Len(p) + j \in 1..Len(r)
      BY <1>2, <1>4, <1>5, <2>2, <3>1
    <3> QED
      BY <1>2, <1>4, <1>5, <3>2
  <2> QED
    BY <2>1, <2>2
<1>8. IsPrefix(v, w)
  BY <1>2, <1>4, <1>6, <1>7, PrefixIs
<1> QED
  BY <1>1, <1>3, <1>8

\* p itself goes to q.
LEMMA RebasedItself ==
  ASSUME NEW S, NEW p \in Seq(S), NEW q \in Seq(S)
  PROVE  Rebased(p, q, p) = q
<1>1. PICK v : v = Rebased(p, q, p)
  OBVIOUS
<1>2. IsPrefix(p, p)
  BY PrefixOrder
<1>3. /\ v \in Seq(S) /\ Len(v) - Len(q) = Len(p) - Len(p)
      /\ Len(v) \in Nat /\ Len(q) \in Nat /\ Len(p) \in Nat
      /\ \A i \in 1..Len(q) : v[i] = q[i]
  <2>1. v \in Seq(S) /\ Continues(p, q, p, v)
    BY <1>1, <1>2, RebasedIs
  <2> QED
    BY <2>1 DEF Continues
<1>4. Len(v) = Len(q)
  BY <1>3
<1>5. v = q
  BY <1>3, <1>4, SeqEqual
<1> QED
  BY <1>1, <1>5

\* x lies where the subtree at p goes when it is moved to q.
MovesTo(p, q, x) == IsPrefix(q, x) /\ Rebased(q, p, x) \in DOMAIN tree

\* m is what the tree becomes.
IsMoved(p, q, base, m) ==
  /\ m = [x \in DOMAIN m |-> m[x]]
  /\ DOMAIN m \subseteq Paths
  /\ \A x \in Paths : x \in DOMAIN m <=> x \in DOMAIN base \/ MovesTo(p, q, x)
  /\ \A x \in Paths : MovesTo(p, q, x) => m[x] = tree[Rebased(q, p, x)]
  /\ \A x \in DOMAIN base : ~MovesTo(p, q, x) => m[x] = base[x]

\* Moved, point by point.
LEMMA MovedIs ==
  ASSUME TreeOK(tree), NEW p \in Paths, NEW q \in Paths, p \in DOMAIN tree,
         NEW base, base = Placed(Removed(tree, p), q, tree[p]), DOMAIN base \subseteq Paths
  PROVE  IsMoved(p, q, base, Moved(p, q))
<1> DEFINE below == {Rebased(p, q, r) : r \in Below(p)}
           moved == [r \in below |-> tree[Rebased(q, p, r)]]
<1>1. Moved(p, q) = [x \in below \cup DOMAIN base |-> IF x \in below THEN moved[x] ELSE base[x]]
  BY DEF Moved, Rebased
<1>2. below \subseteq Paths /\ \A x \in Paths : x \in below <=> MovesTo(p, q, x)
  <2>1. \A r \in Below(p) : r \in Paths /\ IsPrefix(p, r) /\ r \in DOMAIN tree
    BY DEF Below, TreeOK
  <2>2. \A r \in Below(p) : Rebased(p, q, r) \in Paths /\ IsPrefix(q, Rebased(p, q, r))
                            /\ Rebased(q, p, Rebased(p, q, r)) = r
    BY <2>1, RebasedIs, RebasedBack DEF Continues, Paths
  <2>3. \A x \in below : x \in Paths /\ MovesTo(p, q, x)
    BY <2>1, <2>2 DEF MovesTo
  <2>4. ASSUME NEW x \in Paths, MovesTo(p, q, x)
        PROVE  x \in below
    <3>1. PICK r : r = Rebased(q, p, x)
      OBVIOUS
    <3>2. r \in DOMAIN tree /\ IsPrefix(p, r) /\ Rebased(p, q, r) = x
      BY <2>4, <3>1, RebasedIs, RebasedBack DEF MovesTo, Continues, Paths
    <3> QED
      BY <3>2 DEF Below
  <2> HIDE DEF below
  <2> QED
    BY <2>3, <2>4
<1>3. \A x \in below : moved[x] = tree[Rebased(q, p, x)]
  OBVIOUS
<1> HIDE DEF below, moved
<1>4. PICK m : m = Moved(p, q)
  OBVIOUS
<1>5. /\ DOMAIN m = below \cup DOMAIN base
      /\ m = [x \in DOMAIN m |-> m[x]]
      /\ \A x \in below : m[x] = tree[Rebased(q, p, x)]
      /\ \A x \in DOMAIN base : x \notin below => m[x] = base[x]
  BY <1>1, <1>3, <1>4
<1> QED
  BY <1>2, <1>4, <1>5 DEF IsMoved

\* A subtree moved to where it can be written, and not into itself, leaves a tree.
LEMMA MovedOK ==
  ASSUME TreeOK(tree), NEW p \in Paths, NEW q \in Paths, p \in DOMAIN tree,
         Writable(tree, q), ~IsPrefix(p, q)
  PROVE  TreeOK(Moved(p, q))
<1>2. PICK rest : rest = Removed(tree, p)
  OBVIOUS
<1>3. TreeOK(rest)
  BY <1>2, RemovedOK
<1>4. /\ \A x : x \in DOMAIN rest <=> x \in DOMAIN tree /\ ~IsPrefix(p, x)
      /\ \A x \in DOMAIN rest : rest[x] = tree[x]
  BY <1>2, RemovedIs
<1>5. Writable(rest, q)
  BY <1>4 DEF Writable
<1>6. tree[p] \in {"directory"} \cup Contents
  BY DEF TreeOK
<1>7. PICK base : base = Placed(rest, q, tree[p])
  OBVIOUS
<1>8. TreeOK(base)
  BY <1>3, <1>5, <1>6, <1>7, PlacedOK
<1>9. DOMAIN base = DOMAIN rest \cup Ancestors(q) \cup {q}
  BY <1>7, PlacedIs DEF IsPlaced
<1>10. PICK m : m = Moved(p, q)
  OBVIOUS
<1>11. IsMoved(p, q, base, m)
  <2>1. DOMAIN base \subseteq Paths
    BY <1>8 DEF TreeOK
  <2> QED
    BY <1>2, <1>7, <1>10, <2>1, MovedIs
<1>12. \A x \in DOMAIN m : m[x] \in {"directory"} \cup Contents
  BY <1>8, <1>11 DEF IsMoved, TreeOK, MovesTo
<1>14. ASSUME NEW x \in DOMAIN m, NEW y \in Ancestors(x)
       PROVE  y \in DOMAIN m /\ m[y] = "directory"
  <2>1. x \in Paths
    BY <1>11 DEF IsMoved
  <2>2. y \in Paths /\ IsPrefix(y, x) /\ y # x
    BY <2>1, AncestorsOf
  <2>3. CASE MovesTo(p, q, x)
    <3>1. IsPrefix(q, x) /\ Rebased(q, p, x) \in DOMAIN tree
      BY <2>3 DEF MovesTo
    <3>2. CASE IsPrefix(q, y)
      <4>1. PICK u, v : u = Rebased(q, p, x) /\ v = Rebased(q, p, y)
        OBVIOUS
      <4>2. u \in Paths /\ v \in Paths /\ u \in DOMAIN tree
        BY <2>1, <2>2, <3>1, <3>2, <4>1, RebasedIs DEF Paths
      <4>3. IsPrefix(v, u)
        BY <2>1, <2>2, <3>2, <4>1, RebasedOrder DEF Paths
      <4>4. Rebased(p, q, u) = x /\ Rebased(p, q, v) = y
        BY <2>1, <2>2, <3>1, <3>2, <4>1, RebasedBack DEF Paths
      <4>5. v # u
        BY <2>2, <4>4
      <4>6. v \in Ancestors(u)
        BY <4>2, <4>3, <4>5, AncestorsOf
      <4>7. v \in DOMAIN tree /\ tree[v] = "directory"
        BY <4>2, <4>6 DEF TreeOK
      <4>8. MovesTo(p, q, y)
        BY <3>2, <4>1, <4>7 DEF MovesTo
      <4> QED
        BY <1>11, <2>2, <4>1, <4>7, <4>8 DEF IsMoved
    <3>3. CASE ~IsPrefix(q, y)
      <4>1. IsPrefix(y, q) /\ y # q
        <5>1. IsPrefix(q, q)
          BY PrefixOrder DEF Paths
        <5> QED
          BY <2>1, <2>2, <3>1, <3>3, <5>1, PrefixOrder DEF Paths
      <4>2. y \in Ancestors(q) /\ q \in DOMAIN base
        BY <1>9, <2>2, <4>1, AncestorsOf
      <4>3. y \in DOMAIN base /\ base[y] = "directory"
        BY <1>8, <4>2 DEF TreeOK
      <4> QED
        BY <1>11, <2>2, <3>3, <4>3 DEF IsMoved, MovesTo
    <3> QED
      BY <3>2, <3>3
  <2>4. CASE ~MovesTo(p, q, x)
    <3>1. x \in DOMAIN base
      BY <1>11, <2>1, <2>4 DEF IsMoved
    <3>2. y \in DOMAIN base /\ base[y] = "directory"
      BY <1>8, <3>1 DEF TreeOK
    <3>3. ~IsPrefix(q, y)
      <4> SUFFICES ASSUME IsPrefix(q, y) PROVE FALSE
        OBVIOUS
      <4>1. IsPrefix(q, x)
        BY <2>1, <2>2, PrefixOrder DEF Paths
      <4>2. q # x
        BY <2>1, <2>2, PrefixOrder DEF Paths
      <4>3. q \in Ancestors(x)
        BY <2>1, <4>1, <4>2, AncestorsOf
      <4>4. CASE x \in DOMAIN rest
        <5>1. x \in DOMAIN tree
          BY <1>4, <4>4
        <5>2. q \in DOMAIN tree /\ tree[q] = "directory"
          BY <4>3, <5>1 DEF TreeOK
        <5> QED
          BY <5>2 DEF Writable
      <4>5. CASE x \in Ancestors(q)
        <5>1. IsPrefix(x, q)
          BY <4>5, AncestorsOf
        <5> QED
          BY <2>1, <4>1, <4>2, <5>1, PrefixOrder DEF Paths
      <4> QED
        BY <1>9, <3>1, <4>2, <4>4, <4>5
    <3> QED
      BY <1>11, <2>2, <3>2, <3>3 DEF IsMoved, MovesTo
  <2> QED
    BY <2>3, <2>4
<1>15. TreeOK(m)
  <2>1. m = [x \in DOMAIN m |-> m[x]] /\ DOMAIN m \subseteq Paths
    BY <1>11 DEF IsMoved
  <2> QED
    BY <1>12, <1>14, <2>1 DEF TreeOK
<1> QED
  BY <1>10, <1>15

-----------------------------------------------------------------------------
(* What the operations of the server do to the tree. *)

\* Where two trees differ.
Differ(t, u) == {x \in DOMAIN t \cup DOMAIN u :
                   ~(x \in DOMAIN t /\ x \in DOMAIN u /\ t[x] = u[x])}

\* A response that reports no success leaves the tree.
Honest(response) ==
  /\ response.status \in {200, 404, 405, 500}
  /\ response.status # 200 => response.tree = tree
  /\ response.body = NoBody
  /\ TreeOK(response.tree)

\* An error leaves the tree.
LEMMA FailsHonestly ==
  ASSUME NEW status \in {404, 405, 500}, TreeOK(tree)
  PROVE  /\ Honest(Fails(status)) /\ Fails(status).status = status
         /\ Fails(status).tree = tree /\ Differ(Fails(status).tree, tree) = {}
BY DEF Honest, Fails, Response, Differ

\* A response that leaves the root where it was.
RootLeft(r) == Root \in DOMAIN tree => Root \in DOMAIN r.tree

\* p gets the content, and only what is above it may be new.
DidPut(p, content, r) ==
  /\ Honest(r) /\ RootLeft(r)
  /\ Differ(r.tree, tree) \subseteq {p} \cup Ancestors(p)
  /\ r.status = 200 => p \in DOMAIN r.tree /\ r.tree[p] = content

\* An upload does what it reports.
LEMMA ServerWrites ==
  ASSUME TreeOK(tree), NEW p \in Paths, NEW content \in Contents,
         NEW r, r = Writes(p, content)
  PROVE  DidPut(p, content, r)
<1>1. CASE Kind(p) = "directory" \/ ~Reachable(p)
  <2>1. r = Fails(405) \/ r = Fails(500)
    BY <1>1 DEF Writes
  <2> QED
    BY <2>1, FailsHonestly DEF Honest, RootLeft, DidPut
<1>2. CASE ~(Kind(p) = "directory" \/ ~Reachable(p))
  <2>1. PICK u : u = Placed(tree, p, content)
    OBVIOUS
  <2>2. r.status = 200 /\ r.tree = u /\ r.body = NoBody
    BY <1>2, <2>1 DEF Writes, Response
  <2>3. Writable(tree, p)
    BY <1>2 DEF Kind, Reachable, Exists, Writable
  <2>4. TreeOK(u)
    BY <2>1, <2>3, PlacedOK
  <2>5. IsPlaced(tree, p, content, u)
    BY <2>1, PlacedIs
  <2>6. Differ(u, tree) \subseteq {p} \cup Ancestors(p)
    BY <2>5 DEF Differ, IsPlaced
  <2>7. p \in DOMAIN u /\ u[p] = content
    BY <2>5 DEF IsPlaced
  <2>8. DOMAIN tree \subseteq DOMAIN u
    BY <2>5 DEF IsPlaced
  <2> QED
    BY <2>2, <2>4, <2>6, <2>7, <2>8 DEF Honest, RootLeft, DidPut
<1> QED
  BY <1>1, <1>2

\* p and what is below it are gone.
DidDelete(p, r) ==
  /\ Honest(r) /\ r.status \in {200, 404}
  /\ \A x \in Differ(r.tree, tree) : IsPrefix(p, x)
  /\ p \notin DOMAIN r.tree

\* A deletion does what it reports.
LEMMA ServerDeletes ==
  ASSUME TreeOK(tree), NEW p \in Paths,
         NEW r, r = IF Exists(p) THEN Response(200, NoBody, Removed(tree, p)) ELSE Fails(404)
  PROVE  DidDelete(p, r)
<1>1. CASE ~Exists(p)
  <2>1. r = Fails(404)
    BY <1>1
  <2> QED
    BY <1>1, <2>1, FailsHonestly DEF Exists, Honest, DidDelete
<1>2. CASE Exists(p)
  <2>1. PICK u : u = Removed(tree, p)
    OBVIOUS
  <2>2. r.status = 200 /\ r.tree = u /\ r.body = NoBody
    BY <1>2, <2>1 DEF Response
  <2>3. TreeOK(u)
    BY <2>1, RemovedOK
  <2>4. /\ \A x : x \in DOMAIN u <=> x \in DOMAIN tree /\ ~IsPrefix(p, x)
        /\ \A x \in DOMAIN u : u[x] = tree[x]
    BY <2>1, RemovedIs
  <2>5. \A x \in Differ(u, tree) : IsPrefix(p, x)
    BY <2>4 DEF Differ
  <2>6. IsPrefix(p, p)
    BY PrefixOrder DEF Paths
  <2> QED
    BY <2>2, <2>3, <2>4, <2>5, <2>6 DEF Honest, DidDelete
<1> QED
  BY <1>1, <1>2

\* What both ways of relocating need.
Relocatable(p, q) ==
  /\ p \in DOMAIN tree
  /\ Writable(tree, q)
  /\ ~IsPrefix(p, q)

\* A move or a copy is refused, or it can be done.
LEMMA ServerRefusesToRelocate ==
  ASSUME TreeOK(tree), NEW p \in Paths, NEW q \in Paths, NEW operation \in {"move", "copy"},
         NEW r, r = Relocates(p, q, operation)
  PROVE  \/ r \in {Fails(404), Fails(405), Fails(500)}
         \/ /\ Relocatable(p, q)
            /\ operation = "copy" => tree[p] # "directory"
            /\ r.status = 200 /\ r.body = NoBody
            /\ r.tree = IF operation = "move" THEN Moved(p, q) ELSE Placed(tree, q, tree[p])
<1>1. CASE ~Exists(p)
  BY <1>1 DEF Relocates
<1>2. CASE Exists(p) /\ (Kind(q) = "directory" \/ (operation = "copy" /\ Kind(p) = "directory"))
  BY <1>2 DEF Relocates
<1>3. CASE /\ Exists(p) /\ ~(Kind(q) = "directory" \/ (operation = "copy" /\ Kind(p) = "directory"))
           /\ ~Reachable(q) \/ IsPrefix(p, q)
  BY <1>3 DEF Relocates
<1>4. CASE /\ Exists(p) /\ ~(Kind(q) = "directory" \/ (operation = "copy" /\ Kind(p) = "directory"))
           /\ ~(~Reachable(q) \/ IsPrefix(p, q))
  <2>1. r = Response(200, NoBody,
                     IF operation = "move" THEN Moved(p, q) ELSE Placed(tree, q, tree[p]))
    BY <1>4 DEF Relocates
  <2>2. p \in DOMAIN tree /\ ~IsPrefix(p, q)
    BY <1>4 DEF Exists
  <2>3. Writable(tree, q)
    BY <1>4 DEF Writable, Reachable, Exists, Kind
  <2>4. operation = "copy" => tree[p] # "directory"
    BY <1>4 DEF Kind, Exists
  <2> QED
    BY <2>1, <2>2, <2>3, <2>4 DEF Response, Relocatable
<1> QED
  BY <1>1, <1>2, <1>3, <1>4

\* q is what p was and still is.
DidCopy(p, q, r) ==
  /\ Honest(r) /\ RootLeft(r)
  /\ Differ(r.tree, tree) \subseteq {q} \cup Ancestors(q)
  /\ r.status = 200 => /\ p \in DOMAIN tree /\ q \in DOMAIN r.tree /\ r.tree[q] = tree[p]
                       /\ p \in DOMAIN r.tree /\ r.tree[p] = tree[p]

\* A copy does what it reports.
LEMMA ServerCopies ==
  ASSUME TreeOK(tree), NEW p \in Paths, NEW q \in Paths, NEW r, r = Relocates(p, q, "copy")
  PROVE  DidCopy(p, q, r)
<1>1. CASE r \in {Fails(404), Fails(405), Fails(500)}
  <2>1. r = Fails(404) \/ r = Fails(405) \/ r = Fails(500)
    BY <1>1
  <2> QED
    BY <2>1, FailsHonestly DEF Honest, RootLeft, DidCopy
<1>2. CASE /\ Relocatable(p, q)
           /\ tree[p] # "directory"
           /\ r.status = 200 /\ r.body = NoBody
           /\ r.tree = Placed(tree, q, tree[p])
  <2>1. PICK u : u = Placed(tree, q, tree[p])
    OBVIOUS
  <2>2. p \in DOMAIN tree /\ Writable(tree, q) /\ ~IsPrefix(p, q)
    BY <1>2 DEF Relocatable
  <2>3. tree[p] \in {"directory"} \cup Contents
    BY <2>2 DEF TreeOK
  <2>4. TreeOK(u)
    BY <2>1, <2>2, <2>3, PlacedOK
  <2>5. IsPlaced(tree, q, tree[p], u)
    BY <2>1, PlacedIs
  <2>6. Differ(u, tree) \subseteq {q} \cup Ancestors(q)
    BY <2>5 DEF Differ, IsPlaced
  <2>7. p # q
    BY <2>2, PrefixOrder DEF Paths
  <2>8. q \in DOMAIN u /\ u[q] = tree[p] /\ p \in DOMAIN u /\ u[p] = tree[p]
    BY <2>2, <2>5, <2>7 DEF IsPlaced
  <2>9. DOMAIN tree \subseteq DOMAIN u
    BY <2>5 DEF IsPlaced
  <2> QED
    BY <1>2, <2>1, <2>2, <2>4, <2>6, <2>8, <2>9 DEF Honest, RootLeft, DidCopy
<1> QED
  BY <1>1, <1>2, ServerRefusesToRelocate

\* q is what p was, and p is gone.
DidMove(p, q, r) ==
  /\ Honest(r) /\ RootLeft(r)
  /\ \A x \in Differ(r.tree, tree) : IsPrefix(p, x) \/ IsPrefix(q, x) \/ x \in Ancestors(q)
  /\ r.status = 200 => /\ p \in DOMAIN tree /\ q \in DOMAIN r.tree /\ r.tree[q] = tree[p]
                       /\ p \notin DOMAIN r.tree

\* A move does what it reports.
LEMMA ServerMoves ==
  ASSUME TreeOK(tree), NEW p \in Paths, NEW q \in Paths, NEW r, r = Relocates(p, q, "move")
  PROVE  DidMove(p, q, r)
<1>1. CASE r \in {Fails(404), Fails(405), Fails(500)}
  <2>1. r = Fails(404) \/ r = Fails(405) \/ r = Fails(500)
    BY <1>1
  <2> QED
    BY <2>1, FailsHonestly DEF Honest, RootLeft, DidMove
<1>2. CASE /\ Relocatable(p, q)
           /\ r.status = 200 /\ r.body = NoBody
           /\ r.tree = Moved(p, q)
  <2>1. PICK m, rest, base : /\ m = Moved(p, q) /\ rest = Removed(tree, p)
                             /\ base = Placed(rest, q, tree[p])
    OBVIOUS
  <2>2. p \in DOMAIN tree /\ Writable(tree, q) /\ ~IsPrefix(p, q)
    BY <1>2 DEF Relocatable
  <2>3. TreeOK(m)
    BY <2>1, <2>2, MovedOK
  <2>4. /\ \A x : x \in DOMAIN rest <=> x \in DOMAIN tree /\ ~IsPrefix(p, x)
        /\ \A x \in DOMAIN rest : rest[x] = tree[x]
    BY <2>1, RemovedIs
  <2>5. IsPlaced(rest, q, tree[p], base)
    BY <2>1, PlacedIs
  <2>6. DOMAIN base \subseteq Paths
    BY <2>4, <2>5, AncestorsOf DEF IsPlaced, TreeOK
  <2>7. IsMoved(p, q, base, m)
    BY <2>1, <2>2, <2>6, MovedIs
  <2>8. DOMAIN tree \subseteq Paths /\ DOMAIN m \subseteq Paths
    BY <2>3 DEF TreeOK
  <2>9. IsPrefix(p, p) /\ IsPrefix(q, q)
    BY PrefixOrder DEF Paths
  <2>10. ASSUME NEW x \in Differ(m, tree),
                ~IsPrefix(p, x), ~IsPrefix(q, x), x \notin Ancestors(q)
         PROVE  FALSE
    <3>1. x \in Paths /\ x # q /\ ~MovesTo(p, q, x)
      BY <2>8, <2>9, <2>10 DEF Differ, MovesTo
    <3>2. x \in DOMAIN m <=> x \in DOMAIN base
      BY <2>7, <3>1 DEF IsMoved
    <3>3. x \in DOMAIN base <=> x \in DOMAIN rest
      BY <2>5, <2>10, <3>1 DEF IsPlaced
    <3>4. x \in DOMAIN rest <=> x \in DOMAIN tree
      BY <2>4, <2>10
    <3>5. x \in DOMAIN m => m[x] = base[x]
      BY <2>7, <3>1, <3>2 DEF IsMoved
    <3>6. x \in DOMAIN rest => base[x] = rest[x] /\ rest[x] = tree[x]
      BY <2>4, <2>5, <3>1 DEF IsPlaced
    <3> QED
      BY <3>2, <3>3, <3>4, <3>5, <3>6 DEF Differ
  <2>11. q \in DOMAIN m /\ m[q] = tree[p]
    <3>1. Rebased(q, p, q) = p
      BY RebasedItself DEF Paths
    <3>2. MovesTo(p, q, q)
      BY <2>2, <2>9, <3>1 DEF MovesTo
    <3> QED
      BY <2>7, <3>1, <3>2 DEF IsMoved
  <2>12. p \notin DOMAIN m
    <3>1. p # q
      BY <2>2, <2>9
    <3>2. ~IsPrefix(q, p)
      <4> SUFFICES ASSUME IsPrefix(q, p) PROVE FALSE
        OBVIOUS
      <4>1. q \in Ancestors(p)
        BY <3>1, AncestorsOf
      <4>2. q \in DOMAIN tree /\ tree[q] = "directory"
        BY <2>2, <4>1 DEF TreeOK
      <4> QED
        BY <2>2, <4>2 DEF Writable
    <3>3. p \notin Ancestors(q)
      BY <2>2, AncestorsOf
    <3>4. p \notin DOMAIN base
      BY <2>4, <2>5, <2>9, <3>1, <3>3 DEF IsPlaced
    <3> QED
      BY <2>7, <3>2, <3>4 DEF IsMoved, MovesTo
  <2>13. RootLeft(r)
    <3>1. Root \in Paths /\ IsPrefix(Root, q) /\ (IsPrefix(p, Root) => p = Root)
      BY EmptySeq, PrefixOrder DEF Paths, Root
    <3>2. Root \in DOMAIN tree => Root \in DOMAIN base
      BY <2>2, <2>4, <2>5, <3>1 DEF IsPlaced
    <3>3. Root \in DOMAIN tree => Root \in DOMAIN m
      BY <2>7, <3>1, <3>2 DEF IsMoved
    <3> QED
      BY <1>2, <2>1, <3>3 DEF RootLeft
  <2> QED
    BY <1>2, <2>1, <2>2, <2>3, <2>10, <2>11, <2>12, <2>13 DEF Honest, DidMove
<1> QED
  BY <1>1, <1>2, ServerRefusesToRelocate

-----------------------------------------------------------------------------
(* What the reading methods tell. *)

\* The type the server reports.
LEMMA KindIs ==
  ASSUME NEW p
  PROVE  /\ Kind(p) = "undefined" <=> ~Exists(p)
         /\ Kind(p) \in {"undefined", "directory", "resource"}
         /\ Kind(p) = "directory" <=> p \in DOMAIN tree /\ tree[p] = "directory"
<1>1. CASE ~Exists(p)
  BY <1>1 DEF Kind, Exists
<1>2. CASE Exists(p) /\ tree[p] = "directory"
  BY <1>2 DEF Kind, Exists
<1>3. CASE Exists(p) /\ tree[p] # "directory"
  BY <1>3 DEF Kind, Exists
<1> QED
  BY <1>1, <1>2, <1>3

\* Children are names, and finitely many.
LEMMA ChildrenAreNames ==
  ASSUME TreeOK(tree), NEW p \in Paths
  PROVE  /\ Children(p) \subseteq FileNames
         /\ Cardinality(Children(p)) = 0 <=> Children(p) = {}
<1>1. \A x \in DOMAIN tree : x \in Paths
  BY DEF TreeOK
<1>2. ASSUME NEW x \in Paths, Len(x) = Len(p) + 1
      PROVE  Last(x) \in FileNames
  <2>1. Len(p) \in Nat /\ Len(x) \in Nat
    BY LenProperties DEF Paths
  <2>2. Len(x) \in 1..Len(x)
    BY <1>2, <2>1
  <2> QED
    BY <2>2, ElementOfSeq DEF Last, Paths
<1>3. Children(p) \subseteq FileNames
  BY <1>1, <1>2 DEF Children, Below
<1>4. IsFiniteSet(FileNames)
  BY ResourcesAssumption
<1>5. IsFiniteSet(Children(p))
  BY <1>3, <1>4, FS_Subset
<1> QED
  BY <1>3, <1>5, FS_EmptySet

\* Stat: the type of what exists, ErrNotFound otherwise.
LEMMA StatTells ==
  ASSUME NEW p, NEW r, r = Reads(p, {"metadata", "json"}), NEW o, o = Returned("Stat", r)
  PROVE  /\ r.tree = tree
         /\ Exists(p) => o = Outcome("nil", {Kind(p)}) /\ Kind(p) \in {"directory", "resource"}
         /\ ~Exists(p) => o = Failure("ErrNotFound")
<1>1. r = Response(200, Body("metadata", {Kind(p)}), tree)
  BY DEF Reads
<1>2. r.status = 200 /\ r.tree = tree /\ r.body.of = {Kind(p)}
  BY <1>1 DEF Response, Body
<1>3. o = Stat(r)
  BY <1>2 DEF Returned
<1>4. o = IF {Kind(p)} = {"undefined"} THEN Failure("ErrNotFound") ELSE Outcome("nil", {Kind(p)})
  BY <1>2, <1>3 DEF Stat
<1>5. {Kind(p)} = {"undefined"} <=> ~Exists(p)
  BY KindIs
<1>6. Exists(p) => Kind(p) \in {"directory", "resource"}
  BY KindIs
<1> QED
  BY <1>2, <1>4, <1>5, <1>6

\* The responses to a read that does not ask for metadata.
IsRead(p, r) ==
  /\ r.tree = tree
  /\ ~Exists(p) => r.status = 404
  /\ Exists(p) => r.status = 200
  /\ Kind(p) = "directory" => r.body = ChildrenJSON(p)
  /\ Kind(p) = "resource" => r.body = Body(tree[p], {tree[p]})

\* A read leaves the tree and responds in one of three ways.
LEMMA ServerReads ==
  ASSUME NEW p, NEW query, "metadata" \notin query, NEW r, r = Reads(p, query)
  PROVE  IsRead(p, r)
<1>1. CASE ~Exists(p)
  BY <1>1, KindIs DEF IsRead, Reads, Fails, Response
<1>2. CASE Exists(p) /\ Kind(p) = "directory"
  BY <1>2 DEF IsRead, Reads, Response
<1>3. CASE Exists(p) /\ Kind(p) # "directory"
  BY <1>3 DEF IsRead, Reads, Response
<1> QED
  BY <1>1, <1>2, <1>3

\* Get: the content of a file, the children of a directory.
LEMMA GetTells ==
  ASSUME NEW p, NEW r, r = Reads(p, {"default"}), NEW o, o = Returned("Get", r)
  PROVE  /\ r.tree = tree
         /\ ~Exists(p) => o = Failure("ErrNotFound")
         /\ Kind(p) = "directory" => o = Outcome("nil", Children(p))
         /\ Kind(p) = "resource" => o = Outcome("nil", {tree[p]})
<1>1. /\ r.tree = tree
      /\ ~Exists(p) => r.status = 404
      /\ Exists(p) => r.status = 200
      /\ Kind(p) = "directory" => r.body = ChildrenJSON(p)
      /\ Kind(p) = "resource" => r.body = Body(tree[p], {tree[p]})
  <2>1. "metadata" \notin {"default"}
    OBVIOUS
  <2>2. IsRead(p, r)
    BY <2>1, ServerReads
  <2> QED
    BY <2>2 DEF IsRead
<1>2. CASE ~Exists(p)
  <2>1. o = Failure("ErrNotFound")
    BY <1>1, <1>2 DEF Returned, StatusError
  <2> QED
    BY <1>1, <1>2, <2>1, KindIs
<1>3. CASE Exists(p)
  <2>1. o = Outcome("nil", r.body.of)
    BY <1>1, <1>3 DEF Returned
  <2>2. Kind(p) = "directory" => r.body.of = Children(p)
    BY <1>1 DEF ChildrenJSON, Body
  <2>3. Kind(p) = "resource" => r.body.of = {tree[p]}
    BY <1>1 DEF Body
  <2> QED
    BY <1>1, <1>3, <2>1, <2>2, <2>3
<1> QED
  BY <1>2, <1>3

\* List: the children of a directory, whether none, one or many.
LEMMA ListTells ==
  ASSUME TreeOK(tree), NEW p \in Paths,
         NEW r, r = Reads(p, {"default", "json"}), NEW o, o = Returned("List", r)
  PROVE  /\ r.tree = tree
         /\ ~Exists(p) => o = Failure("ErrNotFound")
         /\ Kind(p) = "directory" => o = Outcome("nil", Children(p))
         /\ Kind(p) = "resource" => o \in {Failure("error"), Outcome("nil", {})}
<1>1. /\ r.tree = tree
      /\ ~Exists(p) => r.status = 404
      /\ Exists(p) => r.status = 200
      /\ Kind(p) = "directory" => r.body = ChildrenJSON(p)
      /\ Kind(p) = "resource" => r.body = Body(tree[p], {tree[p]})
  <2>1. "metadata" \notin {"default", "json"}
    OBVIOUS
  <2>2. IsRead(p, r)
    BY <2>1, ServerReads
  <2> QED
    BY <2>2 DEF IsRead
<1>2. CASE ~Exists(p)
  <2>1. o = Failure("ErrNotFound")
    BY <1>1, <1>2 DEF Returned, StatusError
  <2> QED
    BY <1>1, <1>2, <2>1, KindIs
<1>3. CASE Exists(p)
  <2>1. o = List(r)
    BY <1>1, <1>3 DEF Returned
  <2>2. CASE Kind(p) = "directory"
    <3>1. PICK s : s = CASE Cardinality(Children(p)) = 0 -> "string"
                         [] Cardinality(Children(p)) = 1 -> "object"
                         [] OTHER -> "array"
      OBVIOUS
    <3>2. r.body = Body(s, Children(p))
      BY <1>1, <2>2, <3>1 DEF ChildrenJSON
    <3>3. s \in {"string", "object", "array"} /\ (s = "string" => Cardinality(Children(p)) = 0)
      BY <3>1
    <3>4. s = "string" => Children(p) = {}
      BY <3>3, ChildrenAreNames
    <3>5. r.body.shape = s /\ r.body.of = Children(p)
      BY <3>2 DEF Body
    <3>6. childArray(r.body) = Children(p)
      BY <3>4, <3>5 DEF childArray
    <3>7. List(r) = Outcome("nil", Children(p))
      BY <3>3, <3>5, <3>6 DEF List
    <3> QED
      BY <1>1, <1>3, <2>1, <2>2, <3>7
  <2>3. CASE Kind(p) = "resource"
    <3>1. tree[p] \in Contents
      BY <1>3, <2>3, KindIs DEF TreeOK, Exists
    <3>2. r.body.shape = "text" \/ r.body.shape = "json"
      BY <1>1, <2>3, <3>1 DEF Body, Contents
    <3>3. List(r) \in {Failure("error"), Outcome("nil", {})}
      BY <3>2 DEF List
    <3> QED
      BY <1>1, <1>3, <2>1, <2>3, <3>3
  <2> QED
    BY <1>3, <2>2, <2>3, KindIs
<1> QED
  BY <1>2, <1>3

-----------------------------------------------------------------------------
(* What the methods send, and what the server then does. *)

\* Get, Stat and List send a read of what the path means.
LEMMA ReadIsServed ==
  ASSUME NEW a \in Seq(FileNames \cup {""}), NEW b, NEW content
  PROVE  /\ \A verb \in {"Get", "Stat", "List"} : RequestFor(verb, a, b) # Refused
         /\ Served(RequestFor("Get", a, b), content) = Reads(NamesIn(a), {"default"})
         /\ Served(RequestFor("Stat", a, b), content) = Reads(NamesIn(a), {"metadata", "json"})
         /\ Served(RequestFor("List", a, b), content) = Reads(NamesIn(a), {"default", "json"})
<1>1. ASSUME NEW query
      PROVE  /\ Read(a, query) # Refused
             /\ Served(Read(a, query), content) = Reads(NamesIn(a), query)
  <2>1. PICK r : r = Request("GET", pathSegments(a), <<>>, query)
    OBVIOUS
  <2>2. r.method = "GET" /\ r.query = query
    BY <2>1 DEF Request
  <2>3. Located(r) = NamesIn(a)
    BY <2>1, RequestIsLocated
  <2>4. Served(r, content) = Reads(NamesIn(a), query)
    BY <2>2, <2>3 DEF Served
  <2>5. Refused.method = "none"
    BY DEF Refused
  <2>6. r # Refused
    BY <2>2, <2>5
  <2> QED
    BY <2>1, <2>4, <2>6 DEF Read
<1>2. RequestFor("Get", a, b) = Read(a, {"default"})
  BY DEF RequestFor
<1>3. RequestFor("Stat", a, b) = Read(a, {"metadata", "json"})
  BY DEF RequestFor
<1>4. RequestFor("List", a, b) = Read(a, {"default", "json"})
  BY DEF RequestFor
<1> QED
  BY <1>1, <1>2, <1>3, <1>4

\* Put sends an upload to what the path means, and refuses the root.
LEMMA WriteIsServed ==
  ASSUME NEW a \in Seq(FileNames \cup {""}), NEW b, NEW content
  PROVE  /\ (RequestFor("Put", a, b) = Refused) <=> IsRoot(a)
         /\ ~IsRoot(a) =>
              Served(RequestFor("Put", a, b), content) = Writes(NamesIn(a), content)
<1>1. PICK r : r = Request("PUT", pathSegments(a), <<"content">>, {"default"})
  OBVIOUS
<1>2. r.method = "PUT" /\ r.query = {"default"}
  BY <1>1 DEF Request
<1>3. Located(r) = NamesIn(a)
  BY <1>1, RequestIsLocated
<1>4. Served(r, content) = Writes(NamesIn(a), content)
  BY <1>2, <1>3 DEF Served
<1>5. Refused.method = "none"
  BY DEF Refused
<1>6. r # Refused
  BY <1>2, <1>5
<1>7. RequestFor("Put", a, b) = IF IsRoot(a) THEN Refused ELSE r
  BY <1>1 DEF RequestFor
<1> QED
  BY <1>4, <1>6, <1>7

\* Delete sends a deletion of what the path means, and refuses the root.
LEMMA DeleteIsServed ==
  ASSUME NEW a \in Seq(FileNames \cup {""}), NEW b, NEW content
  PROVE  /\ (RequestFor("Delete", a, b) = Refused) <=> IsRoot(a)
         /\ ~IsRoot(a) =>
              Served(RequestFor("Delete", a, b), content) =
                IF Exists(NamesIn(a)) THEN Response(200, NoBody, Removed(tree, NamesIn(a)))
                ELSE Fails(404)
<1>1. PICK r : r = Request("DELETE", pathSegments(a), <<>>, {})
  OBVIOUS
<1>2. r.method = "DELETE"
  BY <1>1 DEF Request
<1>3. Located(r) = NamesIn(a)
  BY <1>1, RequestIsLocated
<1>4. Served(r, content) =
        IF Exists(NamesIn(a)) THEN Response(200, NoBody, Removed(tree, NamesIn(a))) ELSE Fails(404)
  BY <1>2, <1>3 DEF Served
<1>5. Refused.method = "none"
  BY DEF Refused
<1>6. r # Refused
  BY <1>2, <1>5
<1>7. RequestFor("Delete", a, b) = IF IsRoot(a) THEN Refused ELSE r
  BY <1>1 DEF RequestFor
<1> QED
  BY <1>4, <1>6, <1>7

\* Move and Copy send both paths, each in its place, and refuse the root as either.
LEMMA RelocationIsServed ==
  ASSUME NEW a \in Seq(FileNames \cup {""}), NEW b \in Seq(FileNames \cup {""}), NEW content
  PROVE  /\ (RequestFor("Move", a, b) = Refused) <=> (IsRoot(a) \/ IsRoot(b))
         /\ (RequestFor("Copy", a, b) = Refused) <=> (IsRoot(a) \/ IsRoot(b))
         /\ ~(IsRoot(a) \/ IsRoot(b)) =>
              /\ Served(RequestFor("Move", a, b), content) =
                   Relocates(NamesIn(a), NamesIn(b), "move")
              /\ Served(RequestFor("Copy", a, b), content) =
                   Relocates(NamesIn(a), NamesIn(b), "copy")
<1>1. ASSUME NEW operation \in {"move", "copy"}
      PROVE  /\ (relocate(a, b, operation) = Refused) <=> (IsRoot(a) \/ IsRoot(b))
             /\ ~(IsRoot(a) \/ IsRoot(b)) =>
                  Served(relocate(a, b, operation), content) =
                    Relocates(NamesIn(a), NamesIn(b), operation)
  <2>1. PICK r : r = Request("PUT", pathSegments(b), TrimPrefix(a), {operation})
    OBVIOUS
  <2>2. r.method = "PUT" /\ r.query = {operation} /\ r.body = TrimPrefix(a)
    BY <2>1 DEF Request
  <2>3. Located(r) = NamesIn(b)
    BY <2>1, RequestIsLocated
  <2>4. NamesIn(TrimPrefix(a)) = NamesIn(a)
    <3>1. "" \in FileNames \cup {""}
      OBVIOUS
    <3> QED
      BY <3>1, TrimKeepsMeaning
  <2>5. r.query # {"default"} /\ ("move" \in r.query <=> operation = "move")
    BY <2>2
  <2>6. Served(r, content) = Relocates(NamesIn(a), NamesIn(b), operation)
    BY <2>2, <2>3, <2>4, <2>5 DEF Served
  <2>7. Refused.method = "none"
    BY DEF Refused
  <2>8. r # Refused
    BY <2>2, <2>7
  <2>9. relocate(a, b, operation) = IF IsRoot(a) \/ IsRoot(b) THEN Refused ELSE r
    BY <2>1 DEF relocate
  <2> QED
    BY <2>6, <2>8, <2>9
<1>2. RequestFor("Move", a, b) = relocate(a, b, "move")
  BY DEF RequestFor
<1>3. RequestFor("Copy", a, b) = relocate(a, b, "copy")
  BY DEF RequestFor
<1> QED
  BY <1>1, <1>2, <1>3

-----------------------------------------------------------------------------
(* The calls. *)

\* A call and its outcome are recorded.
Records(verb, a, b, content, o) ==
  /\ before' = tree
  /\ last' = [verb |-> verb, path |-> a, other |-> b, content |-> content, outcome |-> o]

\* What Perform does, its operators spelled out: asked is the method called, r the
\* server's response.
Performs(verb, asked, a, b, content, r) ==
  /\ before' = tree
  /\ WithinBounds(r.tree)
  /\ \E o :
       /\ Records(verb, a, b, content, Answer(verb, o))
       /\ \/ /\ RequestFor(asked, a, b) = Refused
             /\ o = Failure("refused") /\ tree' = tree
          \/ /\ RequestFor(asked, a, b) # Refused
             /\ \/ tree' = r.tree /\ o = Returned(asked, r)
                \/ tree' \in {tree, r.tree} /\ o = Failure("error")

\* Perform is Performs.
LEMMA PerformIs ==
  ASSUME NEW verb, NEW a, NEW b, NEW content, Perform(verb, a, b, content),
         NEW asked, asked = IF verb = "Exists" THEN "Stat" ELSE verb,
         NEW r, r = Served(RequestFor(asked, a, b), content)
  PROVE  Performs(verb, asked, a, b, content, r)
<1>1. /\ WithinBounds(r.tree)
      /\ before' = tree
      /\ IF RequestFor(asked, a, b) = Refused
         THEN /\ last' = [verb |-> verb, path |-> a, other |-> b, content |-> content,
                          outcome |-> Answer(verb, Failure("refused"))]
              /\ UNCHANGED tree
         ELSE \/ /\ tree' = r.tree
                 /\ last' = [verb |-> verb, path |-> a, other |-> b, content |-> content,
                             outcome |-> Answer(verb, Returned(asked, r))]
              \/ /\ tree' \in {tree, r.tree}
                 /\ last' = [verb |-> verb, path |-> a, other |-> b, content |-> content,
                             outcome |-> Answer(verb, Failure("error"))]
  BY DEF Perform
<1> QED
  BY <1>1 DEF Performs, Records

Errors == {"nil", "refused", "error", "ErrNotFound", "ErrMethodNotAllowed"}
Answers == FileNames \cup Contents \cup {"directory", "resource"}

\* The types after a call.
LEMMA TypesAfter ==
  ASSUME NEW verb, NEW a, NEW b, NEW content, NEW o, Records(verb, a, b, content, o),
         TreeOK(tree'), WithinBounds(tree'), o.error \in Errors, o.answer \subseteq Answers
  PROVE  TypeOK'
<1>1. last'.outcome = o
  BY DEF Records
<1>2. \A x \in DOMAIN tree' : tree'[x] \in {"directory"} \cup Contents
  BY DEF TreeOK
<1> QED
  BY <1>1, <1>2 DEF TypeOK, WithinBounds, Errors, Answers

\* The reading methods.
Reading == {"Get", "Stat", "Exists", "List"}

\* A reading method changes nothing.
LEMMA ReadsDoNothing ==
  ASSUME NEW verb \in Reading, NEW a, NEW b, NEW content, NEW o,
         Records(verb, a, b, content, o), tree' = tree
  PROVE  CallsDoWhatTheySay'
<1>1. tree' = before' /\ last'.verb = verb
  BY DEF Records
<1>2. verb # "Put" /\ verb # "Delete" /\ verb # "Copy" /\ verb # "Move"
  BY DEF Reading
<1> QED
  BY <1>1, <1>2 DEF CallsDoWhatTheySay

\* What a reading method may answer.
Tells(verb, p, o) ==
  \/ o = Failure("error")
  \/ /\ verb = "Stat"
     /\ \/ Exists(p) /\ o = Outcome("nil", {Kind(p)})
        \/ ~Exists(p) /\ o = Failure("ErrNotFound")
  \/ /\ verb = "Exists"
     /\ \/ Exists(p) /\ o = Outcome("nil", {Kind(p)})
        \/ ~Exists(p) /\ o = Outcome("nil", {})
  \/ /\ verb = "Get"
     /\ \/ ~Exists(p) /\ o = Failure("ErrNotFound")
        \/ Kind(p) = "directory" /\ o = Outcome("nil", Children(p))
        \/ Kind(p) = "resource" /\ o = Outcome("nil", {tree[p]})
  \/ /\ verb = "List"
     /\ \/ ~Exists(p) /\ o = Failure("ErrNotFound")
        \/ Kind(p) = "directory" /\ o = Outcome("nil", Children(p))
        \/ Kind(p) = "resource" /\ o \in {Failure("error"), Outcome("nil", {})}

\* What a reading method may answer is true.
LEMMA AnswersAfter ==
  ASSUME NEW verb \in Reading, NEW a, NEW b, NEW content, NEW o,
         Records(verb, a, b, content, o), tree' = tree, Tells(verb, NamesIn(a), o)
  PROVE  AnswersAreTrue'
<1>1. PICK p : p = NamesIn(a)
  OBVIOUS
<1>2. last'.verb = verb /\ last'.outcome = o /\ Meant(last'.path) = p
  BY <1>1 DEF Records, Meant
<1>3. Exists(p)' <=> Exists(p)
  BY DEF Exists
<1>4. Kind(p)' = Kind(p)
  BY DEF Kind, Exists
<1>5. Children(p)' = Children(p)
  BY DEF Children, Below
<1>6. /\ verb = "Stat" =>
           /\ o.error = "nil" => Exists(p) /\ o.answer = {Kind(p)}
           /\ o.error = "ErrNotFound" => ~Exists(p)
      /\ verb = "Exists" /\ o.error = "nil" => o.answer = (IF Exists(p) THEN {Kind(p)} ELSE {})
      /\ verb = "Get" /\ o.error = "nil" /\ Kind(p) = "resource" => o.answer = {tree[p]}
      /\ verb = "List" /\ o.error = "nil" /\ Kind(p) = "directory" => o.answer = Children(p)
      /\ verb = "List" /\ o.error = "ErrNotFound" => ~Exists(p)
  BY <1>1, KindIs DEF Tells, Failure, Outcome
<1> QED
  BY <1>2, <1>3, <1>4, <1>5, <1>6 DEF AnswersAreTrue

\* What a reading method may answer is of the right type.
LEMMA TellsTypes ==
  ASSUME TreeOK(tree), NEW verb \in Reading, NEW p \in Paths, NEW o, Tells(verb, p, o)
  PROVE  o.error \in Errors /\ o.answer \subseteq Answers
<1>1. Children(p) \subseteq Answers
  BY ChildrenAreNames DEF Answers
<1>2. Exists(p) => {Kind(p)} \subseteq Answers
  BY KindIs DEF Answers
<1>3. Kind(p) = "resource" => {tree[p]} \subseteq Answers
  BY KindIs DEF TreeOK, Exists, Answers
<1> QED
  BY <1>1, <1>2, <1>3, KindIs DEF Tells, Failure, Outcome, Errors

Writing == {"Put", "Delete", "Move", "Copy"}

\* What every writing method makes of the response.
Wrote(verb, a, b, content, r, o) ==
  /\ Records(verb, a, b, content, o)
  /\ o.error \in Errors /\ o.answer = {}
  /\ tree' = tree \/ (RequestFor(verb, a, b) # Refused /\ tree' = r.tree)
  /\ o.error = "nil" => RequestFor(verb, a, b) # Refused /\ r.status = 200 /\ tree' = r.tree
  /\ o.error \in {"refused", "ErrNotFound", "ErrMethodNotAllowed"} => tree' = tree
  /\ o.error = "ErrNotFound" => RequestFor(verb, a, b) # Refused /\ r.status = 404

\* The error of a writing method follows from the status.
LEMMA WriteReturns ==
  ASSUME NEW verb \in Writing, NEW r, Honest(r), NEW o, o = Returned(verb, r)
  PROVE  /\ o.error \in {"nil", "error", "ErrNotFound", "ErrMethodNotAllowed"} /\ o.answer = {}
         /\ o.error = "nil" => r.status = 200
         /\ o.error = "ErrNotFound" => r.status = 404
         /\ o.error # "nil" => r.tree = tree
<1>1. r.status \in {200, 404, 405, 500} /\ (r.status # 200 => r.tree = tree)
  BY DEF Honest
<1>2. CASE r.status = 200
  <2>1. verb # "Stat" /\ verb # "List" /\ verb # "Get"
    BY DEF Writing
  <2>2. o = Outcome("nil", {})
    BY <1>2, <2>1 DEF Returned
  <2> QED
    BY <1>2, <2>2 DEF Outcome
<1>3. CASE r.status # 200
  <2>1. o = Failure(StatusError(r.status))
    BY <1>3 DEF Returned
  <2>2. o.error = StatusError(r.status) /\ o.answer = {}
    BY <2>1 DEF Failure, Outcome
  <2>3. /\ StatusError(r.status) \in {"error", "ErrNotFound", "ErrMethodNotAllowed"}
        /\ StatusError(r.status) = "ErrNotFound" => r.status = 404
    BY DEF StatusError
  <2> QED
    BY <1>1, <1>3, <2>2, <2>3
<1> QED
  BY <1>2, <1>3

\* A writing method is refused, answered, or fails underway.
LEMMA WritesReturn ==
  ASSUME NEW verb \in Writing, NEW a, NEW b, NEW content, NEW r,
         Performs(verb, verb, a, b, content, r), RequestFor(verb, a, b) # Refused => Honest(r)
  PROVE  \E o : Wrote(verb, a, b, content, r, o)
<1>0. \A o : Answer(verb, o) = o
  BY DEF Answer, Writing
<1>1. PICK o :
       /\ Records(verb, a, b, content, o)
       /\ \/ /\ RequestFor(verb, a, b) = Refused
             /\ o = Failure("refused") /\ tree' = tree
          \/ /\ RequestFor(verb, a, b) # Refused
             /\ \/ tree' = r.tree /\ o = Returned(verb, r)
                \/ tree' \in {tree, r.tree} /\ o = Failure("error")
  BY <1>0 DEF Performs
<1>2. CASE RequestFor(verb, a, b) = Refused /\ o = Failure("refused") /\ tree' = tree
  <2>1. o.error = "refused" /\ o.answer = {}
    BY <1>2 DEF Failure, Outcome
  <2> QED
    BY <1>1, <1>2, <2>1 DEF Wrote, Errors
<1>3. CASE RequestFor(verb, a, b) # Refused /\ tree' = r.tree /\ o = Returned(verb, r)
  <2>1. /\ o.error \in {"nil", "error", "ErrNotFound", "ErrMethodNotAllowed"} /\ o.answer = {}
        /\ o.error = "nil" => r.status = 200
        /\ o.error = "ErrNotFound" => r.status = 404
        /\ o.error # "nil" => r.tree = tree
    BY <1>3, WriteReturns
  <2> QED
    BY <1>1, <1>3, <2>1 DEF Wrote, Errors
<1>4. CASE RequestFor(verb, a, b) # Refused /\ tree' \in {tree, r.tree} /\ o = Failure("error")
  <2>1. o.error = "error" /\ o.answer = {}
    BY <1>4 DEF Failure, Outcome
  <2> QED
    BY <1>1, <1>4, <2>1 DEF Wrote, Errors
<1> QED
  BY <1>1, <1>2, <1>3, <1>4

\* A tree does not differ from itself.
LEMMA NothingDiffers == Differ(tree, tree) = {}
BY DEF Differ

\* After a Put.
LEMMA PutDoes ==
  ASSUME TreeOK(tree), NEW a, NEW b, NEW content, NEW r, NEW o,
         Wrote("Put", a, b, content, r, o),
         RequestFor("Put", a, b) # Refused => DidPut(NamesIn(a), content, r)
  PROVE  CallsDoWhatTheySay'
<1>1. PICK p : p = NamesIn(a)
  OBVIOUS
<1>2. /\ last'.verb = "Put" /\ last'.outcome = o /\ last'.content = content
      /\ Meant(last'.path) = p /\ before' = tree
  BY <1>1 DEF Wrote, Records, Meant
<1>3. Differ(tree', tree) \subseteq {p} \cup Ancestors(p)
  BY <1>1, NothingDiffers DEF Wrote, Honest, DidPut
<1>4. Changed' = Differ(tree', tree)
  BY <1>2 DEF Changed, Differ
<1>5. o.error = "nil" => p \in DOMAIN tree' /\ tree'[p] = content
  BY <1>1 DEF Wrote, Honest, DidPut
<1>6. o.error \in {"refused", "ErrNotFound", "ErrMethodNotAllowed"} => tree' = tree
  BY DEF Wrote, Honest, DidPut
<1> QED
  BY <1>2, <1>3, <1>4, <1>5, <1>6 DEF CallsDoWhatTheySay

\* After a Delete.
LEMMA DeleteDoes ==
  ASSUME TreeOK(tree), NEW a, NEW b, NEW content, NEW r, NEW o,
         Wrote("Delete", a, b, content, r, o),
         RequestFor("Delete", a, b) # Refused => DidDelete(NamesIn(a), r)
  PROVE  CallsDoWhatTheySay'
<1>1. PICK p : p = NamesIn(a)
  OBVIOUS
<1>2. /\ last'.verb = "Delete" /\ last'.outcome = o
      /\ Meant(last'.path) = p /\ before' = tree
  BY <1>1 DEF Wrote, Records, Meant
<1>3. \A x \in Differ(tree', tree) : IsPrefix(p, x)
  BY <1>1, NothingDiffers DEF Wrote, Honest, DidDelete
<1>4. Changed' = Differ(tree', tree)
  BY <1>2 DEF Changed, Differ
<1>5. o.error \in {"nil", "ErrNotFound"} => p \notin DOMAIN tree'
  BY <1>1 DEF Wrote, Honest, DidDelete
<1>6. o.error \in {"refused", "ErrNotFound", "ErrMethodNotAllowed"} => tree' = tree
  BY DEF Wrote, Honest, DidDelete
<1> QED
  BY <1>2, <1>3, <1>4, <1>5, <1>6 DEF CallsDoWhatTheySay, Exists

\* After a Copy.
LEMMA CopyDoes ==
  ASSUME TreeOK(tree), NEW a, NEW b, NEW content, NEW r, NEW o,
         Wrote("Copy", a, b, content, r, o), NEW p, p = NamesIn(a), NEW q, q = NamesIn(b),
         RequestFor("Copy", a, b) # Refused => DidCopy(p, q, r)
  PROVE  CallsDoWhatTheySay'
<1>2. /\ last'.verb = "Copy" /\ last'.outcome = o
      /\ Meant(last'.path) = p /\ Meant(last'.other) = q /\ before' = tree
  BY DEF Wrote, Records, Meant
<1>3. Differ(tree', tree) \subseteq {q} \cup Ancestors(q)
  BY NothingDiffers DEF Wrote, Honest, DidCopy
<1>4. Changed' = Differ(tree', tree)
  BY <1>2 DEF Changed, Differ
<1>5. o.error = "nil" => /\ p \in DOMAIN tree /\ q \in DOMAIN tree' /\ tree'[q] = tree[p]
                         /\ p \in DOMAIN tree' /\ tree'[p] = tree[p]
  BY DEF Wrote, Honest, DidCopy
<1>6. o.error \in {"refused", "ErrNotFound", "ErrMethodNotAllowed"} => tree' = tree
  BY DEF Wrote, Honest, DidCopy
<1> QED
  BY <1>2, <1>3, <1>4, <1>5, <1>6 DEF CallsDoWhatTheySay

\* After a Move.
LEMMA MoveDoes ==
  ASSUME TreeOK(tree), NEW a, NEW b, NEW content, NEW r, NEW o,
         Wrote("Move", a, b, content, r, o), NEW p, p = NamesIn(a), NEW q, q = NamesIn(b),
         RequestFor("Move", a, b) # Refused => DidMove(p, q, r)
  PROVE  CallsDoWhatTheySay'
<1>2. /\ last'.verb = "Move" /\ last'.outcome = o
      /\ Meant(last'.path) = p /\ Meant(last'.other) = q /\ before' = tree
  BY DEF Wrote, Records, Meant
<1>3. \A x \in Differ(tree', tree) : IsPrefix(p, x) \/ IsPrefix(q, x) \/ x \in Ancestors(q)
  BY NothingDiffers DEF Wrote, Honest, DidMove
<1>4. Changed' = Differ(tree', tree)
  BY <1>2 DEF Changed, Differ
<1>5. o.error = "nil" => /\ p \in DOMAIN tree /\ q \in DOMAIN tree' /\ tree'[q] = tree[p]
                         /\ p \notin DOMAIN tree'
  BY DEF Wrote, Honest, DidMove
<1>6. o.error \in {"refused", "ErrNotFound", "ErrMethodNotAllowed"} => tree' = tree
  BY DEF Wrote, Honest, DidMove
<1> QED
  BY <1>2, <1>3, <1>4, <1>5, <1>6 DEF CallsDoWhatTheySay, Exists

\* No call but a Delete of slashes loses the root.
RootStays ==
  Root \in DOMAIN before /\ Root \notin DOMAIN tree =>
    /\ last.verb = "Delete" /\ Meant(last.path) = Root
    /\ last.path \notin {<<"">>, <<"", "">>}

\* A writing method whose response leaves the root.
LEMMA RootStaysAfter ==
  ASSUME NEW verb, NEW a, NEW b, NEW content, NEW r, NEW o, Wrote(verb, a, b, content, r, o),
         RequestFor(verb, a, b) # Refused => RootLeft(r)
  PROVE  RootStays'
<1>1. before' = tree
  BY DEF Wrote, Records
<1>2. Root \in DOMAIN tree => Root \in DOMAIN tree'
  BY DEF Wrote, RootLeft
<1> QED
  BY <1>1, <1>2 DEF RootStays

\* A Delete: what it removes lies below the path it was given.
LEMMA RootStaysAfterDelete ==
  ASSUME NEW a, NEW b, NEW content, NEW r, NEW o, Wrote("Delete", a, b, content, r, o),
         NEW p \in Paths, p = NamesIn(a),
         RequestFor("Delete", a, b) # Refused => DidDelete(p, r) /\ ~IsRoot(a)
  PROVE  RootStays'
<1>1. before' = tree /\ last'.verb = "Delete" /\ last'.path = a
  BY DEF Wrote, Records
<1>2. CASE tree' = tree
  BY <1>1, <1>2 DEF RootStays
<1>3. CASE RequestFor("Delete", a, b) # Refused /\ tree' = r.tree
  <2>1. a \notin {<<"">>, <<"", "">>}
    BY <1>3 DEF IsRoot
  <2>2. Meant(a) = p
    BY DEF Meant
  <2>3. Root \in DOMAIN tree /\ Root \notin DOMAIN tree' => IsPrefix(p, Root)
    BY <1>3 DEF DidDelete, Differ
  <2>4. IsPrefix(p, Root) => p = Root
    BY PrefixOrder DEF Paths, Root
  <2> QED
    BY <1>1, <2>1, <2>2, <2>3, <2>4 DEF RootStays
<1> QED
  BY <1>2, <1>3 DEF Wrote

\* What a call leaves behind.
Leaves ==
  /\ TreeOK(tree')
  /\ RootStays'
  /\ TypeOK'
  /\ CallsDoWhatTheySay'
  /\ AnswersAreTrue'

\* Every call of a reading method.
LEMMA ReadLeaves ==
  ASSUME TreeOK(tree), WithinBounds(tree), NEW verb \in Reading, NEW a \in Arguments,
         NEW b, NEW content, Perform(verb, a, b, content)
  PROVE  Leaves
<1>1. PICK p : p = NamesIn(a)
  OBVIOUS
<1>2. a \in Seq(FileNames \cup {""}) /\ p \in Paths
  BY <1>1, ArgumentsMean, MeaningIsPath DEF Paths
<1>3. PICK asked : asked = IF verb = "Exists" THEN "Stat" ELSE verb
  OBVIOUS
<1>4. PICK r : r = Served(RequestFor(asked, a, b), content)
  OBVIOUS
<1>5. Performs(verb, asked, a, b, content, r)
  BY <1>3, <1>4, PerformIs
<1>6. asked \in {"Get", "Stat", "List"}
  BY <1>3 DEF Reading
<1>7. RequestFor(asked, a, b) # Refused
  BY <1>2, <1>6, ReadIsServed
<1>8. PICK o : /\ Records(verb, a, b, content, Answer(verb, o))
               /\ \/ tree' = r.tree /\ o = Returned(asked, r)
                  \/ tree' \in {tree, r.tree} /\ o = Failure("error")
  BY <1>5, <1>7 DEF Performs
<1>9. /\ asked = "Stat" => r = Reads(p, {"metadata", "json"})
      /\ asked = "Get" => r = Reads(p, {"default"})
      /\ asked = "List" => r = Reads(p, {"default", "json"})
  BY <1>1, <1>2, <1>4, ReadIsServed
<1>10. /\ r.tree = tree
       /\ Tells(asked, p, Returned(asked, r))
  <2>1. PICK u : u = Returned(asked, r)
    OBVIOUS
  <2>2. CASE asked = "Stat"
    <3>1. /\ r.tree = tree
          /\ Exists(p) => u = Outcome("nil", {Kind(p)})
          /\ ~Exists(p) => u = Failure("ErrNotFound")
      BY <1>9, <2>1, <2>2, StatTells
    <3> QED
      BY <2>1, <2>2, <3>1 DEF Tells
  <2>3. CASE asked = "Get"
    <3>1. /\ r.tree = tree
          /\ ~Exists(p) => u = Failure("ErrNotFound")
          /\ Kind(p) = "directory" => u = Outcome("nil", Children(p))
          /\ Kind(p) = "resource" => u = Outcome("nil", {tree[p]})
      BY <1>9, <2>1, <2>3, GetTells
    <3> QED
      BY <2>1, <2>3, <3>1, KindIs DEF Tells
  <2>4. CASE asked = "List"
    <3>1. /\ r.tree = tree
          /\ ~Exists(p) => u = Failure("ErrNotFound")
          /\ Kind(p) = "directory" => u = Outcome("nil", Children(p))
          /\ Kind(p) = "resource" => u \in {Failure("error"), Outcome("nil", {})}
      BY <1>2, <1>9, <2>1, <2>4, ListTells
    <3> QED
      BY <2>1, <2>4, <3>1, KindIs DEF Tells
  <2> QED
    BY <1>6, <2>2, <2>3, <2>4
<1>11. tree' = tree
  BY <1>8, <1>10
<1>12. Tells(asked, p, o)
  BY <1>8, <1>10 DEF Tells
<1>13. Tells(verb, p, Answer(verb, o))
  <2>1. CASE verb # "Exists"
    <3>1. asked = verb /\ Answer(verb, o) = o
      BY <1>3, <2>1 DEF Answer
    <3> QED
      BY <1>12, <3>1
  <2>2. CASE verb = "Exists"
    <3>1. asked = "Stat" /\ Answer(verb, o) = ExistsAnswer(o)
      BY <1>3, <2>2 DEF Answer
    <3>2. CASE o = Failure("error")
      <4>1. ExistsAnswer(o) = o
        BY <3>2 DEF ExistsAnswer, Failure, Outcome
      <4> QED
        BY <3>1, <3>2, <4>1 DEF Tells
    <3>3. CASE Exists(p) /\ o = Outcome("nil", {Kind(p)})
      <4>1. ExistsAnswer(o) = o
        BY <3>3 DEF ExistsAnswer, Outcome
      <4> QED
        BY <2>2, <3>1, <3>3, <4>1 DEF Tells
    <3>4. CASE ~Exists(p) /\ o = Failure("ErrNotFound")
      <4>1. ExistsAnswer(o) = Outcome("nil", {})
        BY <3>4 DEF ExistsAnswer, Failure, Outcome
      <4> QED
        BY <2>2, <3>1, <3>4, <4>1 DEF Tells
    <3> QED
      BY <1>12, <3>1, <3>2, <3>3, <3>4 DEF Tells
  <2> QED
    BY <2>1, <2>2
<1>14. PICK e : e = Answer(verb, o)
  OBVIOUS
<1>15. Records(verb, a, b, content, e) /\ Tells(verb, p, e)
  BY <1>8, <1>13, <1>14
<1>16. e.error \in Errors /\ e.answer \subseteq Answers
  BY <1>2, <1>15, TellsTypes
<1>17. TreeOK(tree') /\ WithinBounds(tree')
  BY <1>11
<1>18. TypeOK'
  BY <1>15, <1>16, <1>17, TypesAfter
<1>19. CallsDoWhatTheySay'
  BY <1>11, <1>15, ReadsDoNothing
<1>20. AnswersAreTrue'
  BY <1>1, <1>11, <1>15, AnswersAfter
<1>21. RootStays'
  BY <1>11, <1>15 DEF Records, RootStays
<1> QED
  BY <1>17, <1>18, <1>19, <1>20, <1>21 DEF Leaves

\* A writing method leaves a tree, whatever it did.
LEMMA WriteLeaves ==
  ASSUME TreeOK(tree), WithinBounds(tree), NEW verb \in Writing, NEW a, NEW b, NEW content,
         NEW r, Performs(verb, verb, a, b, content, r), NEW o,
         Wrote(verb, a, b, content, r, o),
         RequestFor(verb, a, b) # Refused => TreeOK(r.tree),
         CallsDoWhatTheySay', RootStays'
  PROVE  Leaves
<1>1. Records(verb, a, b, content, o) /\ o.error \in Errors /\ o.answer \subseteq Answers
  BY DEF Wrote
<1>2. TreeOK(tree') /\ WithinBounds(tree')
  BY DEF Wrote, Performs
<1>3. TypeOK'
  BY <1>1, <1>2, TypesAfter
<1>4. last'.verb = verb
  BY <1>1 DEF Records
<1>5. verb # "Stat" /\ verb # "Exists" /\ verb # "Get" /\ verb # "List"
  BY DEF Writing
<1>6. AnswersAreTrue'
  BY <1>4, <1>5 DEF AnswersAreTrue
<1> QED
  BY <1>2, <1>3, <1>6 DEF Leaves

\* Every Put.
LEMMA PutLeaves ==
  ASSUME TreeOK(tree), WithinBounds(tree), NEW a \in Arguments, NEW b,
         NEW content \in Contents, Perform("Put", a, b, content)
  PROVE  Leaves
<1>1. PICK p : p = NamesIn(a)
  OBVIOUS
<1>2. a \in Seq(FileNames \cup {""}) /\ p \in Paths
  BY <1>1, ArgumentsMean, MeaningIsPath DEF Paths
<1>3. PICK r : r = Served(RequestFor("Put", a, b), content)
  OBVIOUS
<1>4. Performs("Put", "Put", a, b, content, r)
  BY <1>3, PerformIs
<1>5. RequestFor("Put", a, b) # Refused => r = Writes(p, content)
  BY <1>1, <1>2, <1>3, WriteIsServed
<1>6. RequestFor("Put", a, b) # Refused => DidPut(p, content, r)
  BY <1>2, <1>5, ServerWrites
<1>7. "Put" \in Writing
  BY DEF Writing
<1>8. PICK o : Wrote("Put", a, b, content, r, o)
  BY <1>4, <1>6, <1>7, WritesReturn DEF DidPut
<1>9. CallsDoWhatTheySay'
  BY <1>1, <1>6, <1>8, PutDoes
<1>10. RootStays'
  BY <1>6, <1>8, RootStaysAfter DEF DidPut
<1> QED
  BY <1>4, <1>6, <1>7, <1>8, <1>9, <1>10, WriteLeaves DEF Honest, DidPut

\* Every Delete.
LEMMA DeleteLeaves ==
  ASSUME TreeOK(tree), WithinBounds(tree), NEW a \in Arguments, NEW b, NEW content,
         Perform("Delete", a, b, content)
  PROVE  Leaves
<1>1. PICK p : p = NamesIn(a)
  OBVIOUS
<1>2. a \in Seq(FileNames \cup {""}) /\ p \in Paths
  BY <1>1, ArgumentsMean, MeaningIsPath DEF Paths
<1>3. PICK r : r = Served(RequestFor("Delete", a, b), content)
  OBVIOUS
<1>4. Performs("Delete", "Delete", a, b, content, r)
  BY <1>3, PerformIs
<1>5. RequestFor("Delete", a, b) # Refused =>
        /\ r = IF Exists(p) THEN Response(200, NoBody, Removed(tree, p)) ELSE Fails(404)
        /\ ~IsRoot(a)
  BY <1>1, <1>2, <1>3, DeleteIsServed
<1>6. RequestFor("Delete", a, b) # Refused => DidDelete(p, r)
  BY <1>2, <1>5, ServerDeletes
<1>7. "Delete" \in Writing
  BY DEF Writing
<1>8. PICK o : Wrote("Delete", a, b, content, r, o)
  BY <1>4, <1>6, <1>7, WritesReturn DEF DidDelete
<1>9. CallsDoWhatTheySay'
  BY <1>1, <1>6, <1>8, DeleteDoes
<1>10. RootStays'
  BY <1>1, <1>2, <1>5, <1>6, <1>8, RootStaysAfterDelete
<1> QED
  BY <1>4, <1>6, <1>7, <1>8, <1>9, <1>10, WriteLeaves DEF Honest, DidDelete

\* Every Copy.
LEMMA CopyLeaves ==
  ASSUME TreeOK(tree), WithinBounds(tree), NEW a \in Arguments, NEW b \in Arguments,
         NEW content, Perform("Copy", a, b, content)
  PROVE  Leaves
<1>1. PICK p, q : p = NamesIn(a) /\ q = NamesIn(b)
  OBVIOUS
<1>2. a \in Seq(FileNames \cup {""}) /\ b \in Seq(FileNames \cup {""}) /\ p \in Paths /\ q \in Paths
  BY <1>1, ArgumentsMean, MeaningIsPath DEF Paths
<1>3. PICK r : r = Served(RequestFor("Copy", a, b), content)
  OBVIOUS
<1>4. Performs("Copy", "Copy", a, b, content, r)
  BY <1>3, PerformIs
<1>5. RequestFor("Copy", a, b) # Refused => r = Relocates(p, q, "copy")
  BY <1>1, <1>2, <1>3, RelocationIsServed
<1>6. RequestFor("Copy", a, b) # Refused => DidCopy(p, q, r)
  BY <1>2, <1>5, ServerCopies
<1>7. "Copy" \in Writing
  BY DEF Writing
<1>8. PICK o : Wrote("Copy", a, b, content, r, o)
  BY <1>4, <1>6, <1>7, WritesReturn DEF DidCopy
<1>9. CallsDoWhatTheySay'
  BY <1>1, <1>6, <1>8, CopyDoes
<1>10. RootStays'
  BY <1>6, <1>8, RootStaysAfter DEF DidCopy
<1> QED
  BY <1>4, <1>6, <1>7, <1>8, <1>9, <1>10, WriteLeaves DEF Honest, DidCopy

\* Every Move.
LEMMA MoveLeaves ==
  ASSUME TreeOK(tree), WithinBounds(tree), NEW a \in Arguments, NEW b \in Arguments,
         NEW content, Perform("Move", a, b, content)
  PROVE  Leaves
<1>1. PICK p, q : p = NamesIn(a) /\ q = NamesIn(b)
  OBVIOUS
<1>2. a \in Seq(FileNames \cup {""}) /\ b \in Seq(FileNames \cup {""}) /\ p \in Paths /\ q \in Paths
  BY <1>1, ArgumentsMean, MeaningIsPath DEF Paths
<1>3. PICK r : r = Served(RequestFor("Move", a, b), content)
  OBVIOUS
<1>4. Performs("Move", "Move", a, b, content, r)
  BY <1>3, PerformIs
<1>5. RequestFor("Move", a, b) # Refused => r = Relocates(p, q, "move")
  BY <1>1, <1>2, <1>3, RelocationIsServed
<1>6. RequestFor("Move", a, b) # Refused => DidMove(p, q, r)
  BY <1>2, <1>5, ServerMoves
<1>7. "Move" \in Writing
  BY DEF Writing
<1>8. PICK o : Wrote("Move", a, b, content, r, o)
  BY <1>4, <1>6, <1>7, WritesReturn DEF DidMove
<1>9. CallsDoWhatTheySay'
  BY <1>1, <1>6, <1>8, MoveDoes
<1>10. RootStays'
  BY <1>6, <1>8, RootStaysAfter DEF DidMove
<1> QED
  BY <1>4, <1>6, <1>7, <1>8, <1>9, <1>10, WriteLeaves DEF Honest, DidMove

-----------------------------------------------------------------------------
(* The invariant. *)

ResourcesInv ==
  /\ TreeOK(tree)
  /\ RootStays
  /\ TypeOK
  /\ CallsDoWhatTheySay
  /\ AnswersAreTrue

\* The empty data directory.
LEMMA InitIsInvariant == ResourcesInit => ResourcesInv
<1> SUFFICES ASSUME ResourcesInit PROVE ResourcesInv
  OBVIOUS
<1>1. tree = [x \in {Root} |-> "directory"] /\ before = tree
  BY DEF ResourcesInit
<1>2. last.verb = "none" /\ last.outcome.error = "nil" /\ last.outcome.answer = {}
  BY DEF ResourcesInit, NoCall, Outcome
<1>3. Root \in Paths
  BY EmptySeq DEF Paths, Root
<1>4. Ancestors(Root) = {}
  <2>1. \A y \in Ancestors(Root) : y \in Paths /\ IsPrefix(y, Root) /\ y # Root
    BY <1>3, AncestorsOf
  <2>2. \A y \in Paths : IsPrefix(y, Root) => y = Root
    BY PrefixOrder DEF Paths, Root
  <2> QED
    BY <2>1, <2>2
<1>5. TreeOK(tree)
  BY <1>1, <1>3, <1>4 DEF TreeOK
<1>6. TypeOK
  BY <1>1, <1>2 DEF TypeOK, WithinBounds
<1>7. CallsDoWhatTheySay
  BY <1>1, <1>2 DEF CallsDoWhatTheySay
<1>8. AnswersAreTrue
  BY <1>2 DEF AnswersAreTrue
<1>9. RootStays
  BY <1>1 DEF RootStays
<1> QED
  BY <1>5, <1>6, <1>7, <1>8, <1>9 DEF ResourcesInv

\* Between two calls.
LEMMA GoOnKeeps ==
  ASSUME ResourcesInv, GoOn
  PROVE  ResourcesInv'
<1>1. tree' = tree /\ before' = tree
  BY DEF GoOn
<1>2. last'.verb = "none" /\ last'.outcome.error = "nil" /\ last'.outcome.answer = {}
  BY DEF GoOn, NoCall, Outcome
<1>3. TreeOK(tree)'
  BY <1>1 DEF ResourcesInv, TreeOK, Ancestors
<1>4. TypeOK'
  BY <1>1, <1>2 DEF ResourcesInv, TypeOK, WithinBounds
<1>5. CallsDoWhatTheySay'
  BY <1>1, <1>2 DEF CallsDoWhatTheySay
<1>6. AnswersAreTrue'
  BY <1>2 DEF AnswersAreTrue
<1>7. RootStays'
  BY <1>1 DEF RootStays
<1> QED
  BY <1>3, <1>4, <1>5, <1>6, <1>7 DEF ResourcesInv

\* Every step keeps the invariant.
LEMMA NextKeeps ==
  ASSUME ResourcesInv, ResourcesNext
  PROVE  ResourcesInv'
<1>1. TreeOK(tree) /\ WithinBounds(tree)
  BY DEF ResourcesInv, TypeOK
<1>2. Leaves => ResourcesInv'
  BY DEF Leaves, ResourcesInv
<1>3. CASE GoOn
  BY <1>3, GoOnKeeps
<1>4. ASSUME NEW path \in Arguments, NEW verb \in {"Get", "Stat", "Exists", "List", "Delete"},
             Perform(verb, path, <<"">>, "")
      PROVE  ResourcesInv'
  <2>1. CASE verb = "Delete"
    BY <1>1, <1>2, <1>4, <2>1, DeleteLeaves
  <2>2. CASE verb # "Delete"
    <3>1. verb \in Reading
      BY <2>2 DEF Reading
    <3> QED
      BY <1>1, <1>2, <1>4, <3>1, ReadLeaves
  <2> QED
    BY <2>1, <2>2
<1>5. ASSUME NEW path \in Arguments, NEW content \in Contents, Perform("Put", path, <<"">>, content)
      PROVE  ResourcesInv'
  BY <1>1, <1>2, <1>5, PutLeaves
<1>6. ASSUME NEW path \in Arguments, NEW other \in Arguments, NEW verb \in {"Move", "Copy"},
             Perform(verb, path, other, "")
      PROVE  ResourcesInv'
  <2>1. CASE verb = "Move"
    BY <1>1, <1>2, <1>6, <2>1, MoveLeaves
  <2>2. CASE verb = "Copy"
    BY <1>1, <1>2, <1>6, <2>2, CopyLeaves
  <2> QED
    BY <2>1, <2>2
<1> QED
  BY <1>3, <1>4, <1>5, <1>6 DEF ResourcesNext

\* So does a step of something else.
LEMMA StutterKeeps ==
  ASSUME ResourcesInv, UNCHANGED resourceVars
  PROVE  ResourcesInv'
<1>1. tree' = tree /\ before' = before /\ last' = last
  BY DEF resourceVars
<1>2. TreeOK(tree)'
  BY <1>1 DEF ResourcesInv
<1>3. TypeOK'
  BY <1>1 DEF ResourcesInv, TypeOK
<1>4. CallsDoWhatTheySay'
  BY <1>1 DEF ResourcesInv, CallsDoWhatTheySay, Changed, Exists
<1>5. AnswersAreTrue'
  BY <1>1 DEF ResourcesInv, AnswersAreTrue, Kind, Exists, Children, Below
<1>6. RootStays'
  BY <1>1 DEF ResourcesInv, RootStays
<1> QED
  BY <1>2, <1>3, <1>4, <1>5, <1>6 DEF ResourcesInv

\* Whatever is called in whatever order, and wherever calls fail, the data directory is
\* a tree and the last call did and answered what it says.
THEOREM ResourcesInductive ==
  ResourcesSpec => []ResourcesInv
<1>1. ResourcesInit => ResourcesInv
  BY InitIsInvariant
<1>2. ResourcesInv /\ [ResourcesNext]_resourceVars => ResourcesInv'
  BY NextKeeps, StutterKeeps
<1> QED
  BY <1>1, <1>2, PTL DEF ResourcesSpec

\* The types of the tree and of the answers (TypeOK).
THEOREM ResourcesTypes ==
  ResourcesSpec => []TypeOK
<1>1. ResourcesInv => TypeOK
  BY DEF ResourcesInv
<1> QED
  BY <1>1, ResourcesInductive, PTL

\* No sequence of puts, moves, copies and deletes, in any of the spellings, leaves a
\* file outside a directory; only a Delete of nothing but slashes, more than one of
\* them, loses the root (IsTree).
THEOREM DirectoryStaysATree ==
  ResourcesSpec => []IsTree
<1>1. ResourcesInv => IsTree
  BY DEF ResourcesInv, RootStays, IsTree, TreeOK
<1> QED
  BY <1>1, ResourcesInductive, PTL

\* A call changes what its arguments name and nothing else, and reports nil only when it
\* did (CallsDoWhatTheySay).
THEOREM CallsDoWhatIsAsked ==
  ResourcesSpec => []CallsDoWhatTheySay
<1>1. ResourcesInv => CallsDoWhatTheySay
  BY DEF ResourcesInv
<1> QED
  BY <1>1, ResourcesInductive, PTL

\* Stat, Exists, Get and List report what is there (AnswersAreTrue).
THEOREM ReadsAnswerTruly ==
  ResourcesSpec => []AnswersAreTrue
<1>1. ResourcesInv => AnswersAreTrue
  BY DEF ResourcesInv
<1> QED
  BY <1>1, ResourcesInductive, PTL
=============================================================================
