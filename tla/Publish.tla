-------------------------------- MODULE Publish --------------------------------
(***************************************************************************)
(* The programs under examples/: each is a script of library calls against *)
(* one workspace that it deletes first, "best-effort cleanup from a        *)
(* previous run", and is run again when it failed.  The requests are those *)
(* the sub-clients build; what a call tells the program is what            *)
(* CallContract allows: a call that timed out may still take effect, while *)
(* the program goes on or after it has been started again.                 *)
(* The configuration tree of GeoServer is external.                        *)
(***************************************************************************)
EXTENDS SubClients, FiniteSets

CONSTANTS
  Programs,   \* the example programs that are run
  MaxFaults   \* timeouts, expired deadlines and kills, over all runs

ASSUME ProgramsAssumption ==
  /\ Programs \subseteq {"workspaces", "error-handling", "style-upload", "publish-postgis"}
  /\ MaxFaults \in Nat

VARIABLES
  program,  \* the program that is run, and run again
  pc,       \* its next step
  status,   \* "running", "failed" or "done"
  answer,   \* of the current call: 0 not sent, 1 sent, or the HTTP status
  expired,  \* the context deadline of main has passed
  tree,     \* the items the server has, as paths
  late,     \* requests no one waits for that the server may still execute
  faults,   \* faults so far
  calm,     \* no fault in this run and no late request when it started
  twice     \* status of the second Create of the same workspace, 0 before it

vars == <<program, pc, status, answer, expired, tree, late, faults, calm, twice>>

-----------------------------------------------------------------------------
\* A step: the call, and whether an error ends the program.
Must(client, verb, scope, name) ==
  [op |-> [client |-> client, verb |-> verb, scope |-> scope, name |-> name,
           recurse |-> TRUE],
   must |-> TRUE]

Try(client, verb, scope, name) == [Must(client, verb, scope, name) EXCEPT !.must = FALSE]

WorkspacesDemo ==
  <<Must("workspaces", "List", <<>>, ""),
    Try("workspaces", "Delete", <<>>, "ws"),
    Must("workspaces", "Create", <<>>, "ws"),
    Must("workspaces", "Get", <<>>, "ws"),
    Try("workspaces", "Get", <<>>, "missing"),
    Must("workspaces", "List", <<>>, ""),
    Must("workspaces", "Delete", <<>>, "ws")>>

\* Faulty variant: the Delete is not deferred.
ErrorHandlingNoDefer ==
  <<Try("workspaces", "Get", <<>>, "missing"),
    Try("workspaces", "Get", <<>>, "missing"),
    Try("workspaces", "Delete", <<>>, "ws"),
    Must("workspaces", "Create", <<>>, "ws"),
    Try("workspaces", "Delete", <<>>, "ws"),
    Try("workspaces", "Create", <<>>, "ws")>>

\* The client with a wrong password is left out.  The deferred Delete runs
\* when main returns, not after fatal.
ErrorHandling ==
  <<Try("workspaces", "Get", <<>>, "missing"),
    Try("workspaces", "Get", <<>>, "missing"),
    Try("workspaces", "Delete", <<>>, "ws"),
    Must("workspaces", "Create", <<>>, "ws"),
    Try("workspaces", "Create", <<>>, "ws"),
    Try("workspaces", "Delete", <<>>, "ws")>>

\* Faulty variant: the style is uploaded before it is registered.
StyleUploadFirst ==
  <<Try("workspaces", "Delete", <<>>, "ws"),
    Must("workspaces", "Create", <<>>, "ws"),
    Must("styles", "UploadSLD", <<"ws">>, "style"),
    Must("styles", "Create", <<"ws">>, "style"),
    Must("styles", "Get", <<"ws">>, "style"),
    Try("styles", "Delete", <<"ws">>, "style"),
    Try("workspaces", "Delete", <<>>, "ws"),
    Try("styles", "Get", <<"ws">>, "style")>>

StyleUpload ==
  <<Try("workspaces", "Delete", <<>>, "ws"),
    Must("workspaces", "Create", <<>>, "ws"),
    Must("styles", "Create", <<"ws">>, "style"),
    Must("styles", "UploadSLD", <<"ws">>, "style"),
    Must("styles", "Get", <<"ws">>, "style"),
    Try("styles", "Delete", <<"ws">>, "style"),
    Try("workspaces", "Delete", <<>>, "ws"),
    Try("styles", "Get", <<"ws">>, "style")>>

\* Faulty variant: nothing is cleaned up before the workspace is created.
PublishPostGISNoCleanup ==
  <<Must("workspaces", "Create", <<>>, "ws"),
    Must("datastores", "Create", <<"ws">>, "store"),
    Must("featureTypes", "Discover", <<"ws", "store">>, ""),
    Must("featureTypes", "Create", <<"ws", "store">>, "table"),
    Must("layers", "Get", <<"ws">>, "table"),
    Must("featureTypes", "Get", <<"ws", "store">>, "table"),
    Try("workspaces", "Delete", <<>>, "ws"),
    Try("datastores", "Get", <<"ws">>, "store")>>

PublishPostGIS ==
  <<Try("workspaces", "Delete", <<>>, "ws"),
    Must("workspaces", "Create", <<>>, "ws"),
    Must("datastores", "Create", <<"ws">>, "store"),
    Must("featureTypes", "Discover", <<"ws", "store">>, ""),
    Must("featureTypes", "Create", <<"ws", "store">>, "table"),
    Must("layers", "Get", <<"ws">>, "table"),
    Must("featureTypes", "Get", <<"ws", "store">>, "table"),
    Try("workspaces", "Delete", <<>>, "ws"),
    Try("datastores", "Get", <<"ws">>, "store")>>

Script ==
  CASE program = "workspaces" -> WorkspacesDemo
    [] program = "error-handling" -> ErrorHandling
    [] program = "style-upload" -> StyleUpload
    [] program = "publish-postgis" -> PublishPostGIS

-----------------------------------------------------------------------------
\* GeoServer.  An item is at "rest" followed by pairs of a collection and a
\* name; the path of a collection is one segment longer than its parent's.
IsItem(path) == Len(path) % 2 = 1

HasParent(path, items) == Front(path) = <<"rest">> \/ Front(path) \in items

Below(path, items) == {i \in items : Len(path) <= Len(i) /\ SubSeq(i, 1, Len(path)) = path}

\* Publishing a feature type creates the layer of the same name.
CreatedBy(item) ==
  {item} \cup
    IF item[Len(item) - 1] = "featuretypes"
    THEN {SubSeq(item, 1, 3) \o <<"layers", item[Len(item)]>>} ELSE {}

Served(code, items) == [status |-> code, tree |-> items]

\* Executing request r on a server that has items.
Serve(r, items) ==
  IF r.method = "POST"
  THEN LET item == Append(r.path, r.body[2])
       IN IF ~HasParent(r.path, items) THEN Served(404, items)
          ELSE IF item \in items THEN Served(409, items)
          ELSE Served(201, items \cup CreatedBy(item))
  ELSE IF ~IsItem(r.path)
  THEN Served(IF HasParent(r.path, items) THEN 200 ELSE 404, items)
  ELSE IF r.path \notin items THEN Served(404, items)
  ELSE IF r.method # "DELETE" THEN Served(200, items)
  ELSE IF Below(r.path, items) # {r.path} /\ "recurse=true" \notin r.query
  THEN Served(403, items)
  ELSE Served(200, items \ Below(r.path, items))

-----------------------------------------------------------------------------
Init ==
  /\ program \in Programs
  /\ pc = 1
  /\ status = "running"
  /\ answer = 0
  /\ expired = FALSE
  /\ tree = {}
  /\ late = {}
  /\ faults = 0
  /\ calm = TRUE
  /\ twice = 0

Current == RequestOf(Script[pc].op)

\* The Create that ErrorHandling expects to fail.
Duplicate == Script[pc].op.verb = "Create" /\ ~Script[pc].must

\* The call of this step returns: an error of a call the program insists on is
\* fatal, whatever it is.
Proceed(failed) ==
  IF failed /\ Script[pc].must
  THEN status' = "failed" /\ UNCHANGED <<pc, answer>>
  ELSE IF pc = Len(Script)
  THEN status' = "done" /\ UNCHANGED <<pc, answer>>
  ELSE pc' = pc + 1 /\ answer' = 0 /\ UNCHANGED status

Issue ==
  /\ status = "running"
  /\ answer = 0
  /\ ~expired
  /\ answer' = 1
  /\ UNCHANGED <<program, pc, status, expired, tree, late, faults, calm, twice>>

Execute ==
  /\ status = "running"
  /\ answer = 1
  /\ LET served == Serve(Current, tree) IN
       /\ tree' = served.tree
       /\ answer' = served.status
  /\ UNCHANGED <<program, pc, status, expired, late, faults, calm, twice>>

\* The response arrives.
Answered ==
  /\ status = "running"
  /\ answer \notin {0, 1}
  /\ Proceed(answer \notin 200..299)
  /\ twice' = IF Duplicate THEN answer ELSE twice
  /\ UNCHANGED <<program, expired, tree, late, faults, calm>>

\* The request no one waits for any more is lost, or still on its way.
Abandon ==
  \/ UNCHANGED late
  \/ answer = 1 /\ late' = late \cup {Current}

\* http.Client.Timeout, or a broken connection: the caller cannot tell whether
\* the request was executed.
Timeout ==
  /\ status = "running"
  /\ answer # 0
  /\ faults < MaxFaults
  /\ faults' = faults + 1
  /\ calm' = FALSE
  /\ Abandon
  /\ Proceed(TRUE)
  /\ UNCHANGED <<program, expired, tree, twice>>

\* The deadline of the context main passes to every call.
DeadlinePasses ==
  /\ status = "running"
  /\ ~expired
  /\ faults < MaxFaults
  /\ faults' = faults + 1
  /\ expired' = TRUE
  /\ calm' = FALSE
  /\ UNCHANGED <<program, pc, status, answer, tree, late, twice>>

\* From then on every call fails, the one in progress included.
Expired ==
  /\ status = "running"
  /\ expired
  /\ Abandon
  /\ Proceed(TRUE)
  /\ UNCHANGED <<program, expired, tree, faults, calm, twice>>

\* The process is killed.
Kill ==
  /\ status = "running"
  /\ faults < MaxFaults
  /\ faults' = faults + 1
  /\ status' = "failed"
  /\ calm' = FALSE
  /\ Abandon
  /\ UNCHANGED <<program, pc, answer, expired, tree, twice>>

\* A late request reaches the server, or never does.
ExecuteLate ==
  \E r \in late :
    /\ late' = late \ {r}
    /\ tree' \in {tree, Serve(r, tree).tree}
    /\ UNCHANGED <<program, pc, status, answer, expired, faults, calm, twice>>

\* A failed program is started again.
Restart ==
  /\ status = "failed"
  /\ pc' = 1
  /\ status' = "running"
  /\ answer' = 0
  /\ expired' = FALSE
  /\ calm' = (late = {})
  /\ twice' = 0
  /\ UNCHANGED <<program, tree, late, faults>>

Next ==
  \/ Issue \/ Execute \/ Answered \/ Timeout \/ DeadlinePasses \/ Expired \/ Kill
  \/ ExecuteLate \/ Restart

Spec == Init /\ [][Next]_vars

\* The program runs, the server answers, late requests arrive or are lost, and
\* someone starts a failed program again.  Faults need not happen.
Fairness ==
  /\ WF_vars(Issue \/ Execute \/ Answered \/ Expired)
  /\ WF_vars(ExecuteLate)
  /\ WF_vars(Restart)

FairSpec == Spec /\ Fairness

-----------------------------------------------------------------------------
\* Whatever earlier runs left behind, killed or timed out at any point, a run
\* that nothing disturbs succeeds: the first Delete removes the whole tree and
\* every later call finds what the ones before it created.
CalmRunSucceeds == calm => status # "failed"

\* It then leaves nothing behind.
CalmRunCleansUp == calm /\ status = "done" => tree = {}

\* error-handling: the second Create of the workspace is a conflict, unless a
\* late Delete came in between.
DuplicateIsConflict == calm /\ twice # 0 => twice = 409

\* Once the faults are over, starting the program again ends in success.
EventuallyDone == <>(status = "done")
=============================================================================
