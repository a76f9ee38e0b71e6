------------------------------- MODULE Resources -------------------------------
(***************************************************************************)
(* The Resource API (rest/resources): files and directories of the data    *)
(* directory under one URL, the operation chosen by method and query.      *)
(* Programs call the methods in any order, a call may fail before or after *)
(* the server performed it.  A path argument is the sequence of strings    *)
(* that splitting it at the slashes gives: "" is <<"">>, "/" is <<"","">>. *)
(***************************************************************************)
EXTENDS SubClients, FiniteSets

CONSTANTS
  FileNames,        \* of files and directories
  Spellings     \* how callers write a path: some of the fields of SpellingOf

ASSUME ResourcesAssumption ==
  /\ IsFiniteSet(FileNames) /\ {"", ".", ".."} \cap FileNames = {}
  /\ Spellings \subseteq {"plain", "slashed", "empty", "slash", "slashes"}

VARIABLES
  tree,     \* the data directory: from paths to "directory" or a file's content
  before,   \* the tree the last call found
  last      \* the last call: its arguments, request, outcome and answer

resourceVars == <<tree, before, last>>

-----------------------------------------------------------------------------
\* Paths.

Root == <<>>
Places == {<<m>> : m \in FileNames} \cup {<<m, n>> : m, n \in FileNames}

SpellingOf(place) ==
  [plain |-> place,
   slashed |-> <<"", Head(place), "">> \o Tail(place) \o <<"">>]

RootSpellings == [empty |-> <<"">>, slash |-> <<"", "">>, slashes |-> <<"", "", "">>]

Arguments ==
  {SpellingOf(p)[s] : p \in Places, s \in Spellings \ DOMAIN RootSpellings}
    \cup {RootSpellings[s] : s \in Spellings \cap DOMAIN RootSpellings}

\* The names between the slashes of a path: the empty strings are dropped.
NextName(names, part) == IF part = "" THEN names ELSE Append(names, part)

NamesIn(path) ==
  LET names[i \in 0..Len(path)] == IF i = 0 THEN <<>> ELSE NextName(names[i - 1], path[i])
  IN names[Len(path)]

\* What a caller means by an argument.
Meant(argument) == NamesIn(argument)

splitPath(path) == NamesIn(path)

pathSegments(path) == <<"rest", "resource">> \o splitPath(path)

-----------------------------------------------------------------------------
\* The methods.

\* Faulty variant: only the empty string is taken for the root.
IsEmpty(path) == path = <<"">>

IsRoot(path) == path \in {<<"">>, <<"", "">>}

\* The text of a path without one leading slash; the server splits it again.
TrimPrefix(path) == IF Len(path) > 1 /\ Head(path) = "" THEN Tail(path) ELSE path

\* Faulty variant: the two paths change places.
relocateSwapped(srcPath, dstPath, operation) ==
  IF IsRoot(srcPath) \/ IsRoot(dstPath) THEN Refused
  ELSE Request("PUT", pathSegments(srcPath), TrimPrefix(dstPath), {operation})

relocate(srcPath, dstPath, operation) ==
  IF IsRoot(srcPath) \/ IsRoot(dstPath) THEN Refused
  ELSE Request("PUT", pathSegments(dstPath), TrimPrefix(srcPath), {operation})

Read(path, query) == Request("GET", pathSegments(path), <<>>, query)

RequestFor(verb, path, other) ==
  CASE verb = "Get" -> Read(path, {"default"})
    [] verb = "Stat" -> Read(path, {"metadata", "json"})
    [] verb = "List" -> Read(path, {"default", "json"})
    [] verb = "Put" ->
         IF IsRoot(path) THEN Refused
         ELSE Request("PUT", pathSegments(path), <<"content">>, {"default"})
    [] verb = "Move" -> relocate(path, other, "move")
    [] verb = "Copy" -> relocate(path, other, "copy")
    [] verb = "Delete" ->
         IF IsRoot(path) THEN Refused ELSE Request("DELETE", pathSegments(path), <<>>, {})

-----------------------------------------------------------------------------
\* The server.

Located(request) == SubSeq(request.path, 3, Len(request.path))

Exists(p) == p \in DOMAIN tree
Kind(p) ==
  CASE ~Exists(p) -> "undefined"
    [] Exists(p) /\ tree[p] = "directory" -> "directory"
    [] OTHER -> "resource"
Below(p) == {q \in DOMAIN tree : IsPrefix(p, q)}
Children(p) == {Last(q) : q \in {r \in Below(p) : Len(r) = Len(p) + 1}}

Ancestors(p) == {SubSeq(p, 1, i) : i \in 0..(Len(p) - 1)}
Reachable(p) == \A q \in Ancestors(p) : Exists(q) => tree[q] = "directory"

\* The tree with content put at p and its parents created.
Placed(t, p, content) ==
  [q \in DOMAIN t \cup Ancestors(p) \cup {p} |->
     IF q = p THEN content ELSE IF q \in DOMAIN t THEN t[q] ELSE "directory"]

Removed(t, p) == [q \in {r \in DOMAIN t : ~IsPrefix(p, r)} |-> t[q]]

\* The subtree at p moved to where there is nothing, or a file.
Moved(p, q) ==
  LET base == Placed(Removed(tree, p), q, tree[p])
      below == {q \o SubSeq(r, Len(p) + 1, Len(r)) : r \in Below(p)}
  IN [r \in below \cup DOMAIN base |->
        IF r \in below THEN tree[p \o SubSeq(r, Len(q) + 1, Len(r))] ELSE base[r]]

\* A body is a shape and what it tells: the type, the content, the children.
Body(shape, of) == [shape |-> shape, of |-> of]
NoBody == Body("none", {})

\* A response: its status, its body, and the tree it leaves.
Response(status, body, t) == [status |-> status, body |-> body, tree |-> t]
Fails(status) == Response(status, NoBody, tree)

\* The shapes of a list of children.
ChildrenJSON(p) ==
  Body(CASE Cardinality(Children(p)) = 0 -> "string"
         [] Cardinality(Children(p)) = 1 -> "object"
         [] OTHER -> "array", Children(p))

Reads(p, query) ==
  IF "metadata" \in query THEN Response(200, Body("metadata", {Kind(p)}), tree)
  ELSE IF ~Exists(p) THEN Fails(404)
  ELSE IF Kind(p) = "directory" THEN Response(200, ChildrenJSON(p), tree)
  ELSE Response(200, Body(tree[p], {tree[p]}), tree)

\* Uploads do not replace a directory and do not pass through a file.
Writes(p, content) ==
  IF Kind(p) = "directory" THEN Fails(405)
  ELSE IF ~Reachable(p) THEN Fails(500)
  ELSE Response(200, NoBody, Placed(tree, p, content))

Relocates(p, q, operation) ==
  IF ~Exists(p) THEN Fails(404)
  ELSE IF Kind(q) = "directory" \/ (operation = "copy" /\ Kind(p) = "directory") THEN Fails(405)
  ELSE IF ~Reachable(q) \/ IsPrefix(p, q) THEN Fails(500)
  ELSE Response(200, NoBody, IF operation = "move" THEN Moved(p, q) ELSE Placed(tree, q, tree[p]))

Served(request, content) ==
  LET p == Located(request)
  IN IF request.method = "GET" THEN Reads(p, request.query)
     ELSE IF request.method = "DELETE"
     THEN IF Exists(p) THEN Response(200, NoBody, Removed(tree, p)) ELSE Fails(404)
     ELSE IF request.query = {"default"} THEN Writes(p, content)
     ELSE Relocates(NamesIn(request.body), p,
                    IF "move" \in request.query THEN "move" ELSE "copy")

-----------------------------------------------------------------------------
\* What the methods make of a response.

\* Faulty variant: a single object is not accepted as a list of one.
childArrayStrict(json) == IF json.shape = "array" THEN json.of ELSE {}

\* childArray.UnmarshalJSON: an array, one object, or the empty string.
childArray(json) == IF json.shape = "string" THEN {} ELSE json.of

Outcome(error, answer) == [error |-> error, answer |-> answer]
Failure(error) == Outcome(error, {})

StatusError(status) ==
  IF status = 404 THEN "ErrNotFound"
  ELSE IF status = 405 THEN "ErrMethodNotAllowed" ELSE "error"

\* Faulty variant: the type is handed on as it came.
StatRaw(response) == Outcome("nil", response.body.of)

\* Stat turns the type "undefined" of a 200 into a 404.
Stat(response) ==
  IF response.body.of = {"undefined"} THEN Failure("ErrNotFound")
  ELSE Outcome("nil", response.body.of)

\* List decodes whatever comes: the bytes of a file, when the path is one, decode
\* if they are JSON, and a document without the envelope is an empty directory.
List(response) ==
  IF response.body.shape = "text" THEN Failure("error")
  ELSE IF response.body.shape = "json" THEN Outcome("nil", {})
  ELSE Outcome("nil", childArray(response.body))

Returned(verb, response) ==
  IF response.status # 200 THEN Failure(StatusError(response.status))
  ELSE CASE verb = "Stat" -> Stat(response)
         [] verb = "List" -> List(response)
         [] verb = "Get" -> Outcome("nil", response.body.of)
         [] OTHER -> Outcome("nil", {})

\* Exists asks Stat; only a 404 means that there is nothing.
ExistsAnswer(outcome) ==
  IF outcome.error = "ErrNotFound" THEN Outcome("nil", {}) ELSE outcome

-----------------------------------------------------------------------------
Contents == {"text", "json"}

NoCall == [verb |-> "none", path |-> <<"">>, other |-> <<"">>, content |-> "",
           outcome |-> Outcome("nil", {})]

ResourcesInit ==
  /\ tree = [p \in {Root} |-> "directory"]
  /\ before = tree
  /\ last = NoCall

Answer(verb, outcome) == IF verb = "Exists" THEN ExistsAnswer(outcome) ELSE outcome

\* No deeper than two names: a directory is not moved into another one.
WithinBounds(t) == DOMAIN t \subseteq {Root} \cup Places

\* A call that is refused, served, or fails on the way there or back.
Perform(verb, path, other, content) ==
  LET request == RequestFor(IF verb = "Exists" THEN "Stat" ELSE verb, path, other)
      response == Served(request, content)
      Returns(outcome) ==
        last' = [verb |-> verb, path |-> path, other |-> other, content |-> content,
                 outcome |-> Answer(verb, outcome)]
  IN /\ last = NoCall
     /\ WithinBounds(response.tree)
     /\ before' = tree
     /\ IF request = Refused THEN Returns(Failure("refused")) /\ UNCHANGED tree
        ELSE \/ /\ tree' = response.tree
                /\ Returns(Returned(IF verb = "Exists" THEN "Stat" ELSE verb, response))
             \/ /\ tree' \in {tree, response.tree}
                /\ Returns(Failure("error"))

\* The program goes on; the sub-client keeps nothing.
GoOn ==
  /\ last # NoCall
  /\ last' = NoCall
  /\ before' = tree
  /\ UNCHANGED tree

ResourcesNext ==
  \/ GoOn
  \/ \E path \in Arguments :
       \/ \E verb \in {"Get", "Stat", "Exists", "List", "Delete"} : Perform(verb, path, <<"">>, "")
       \/ \E content \in Contents : Perform("Put", path, <<"">>, content)
       \/ \E other \in Arguments, verb \in {"Move", "Copy"} : Perform(verb, path, other, "")

ResourcesSpec == ResourcesInit /\ [][ResourcesNext]_resourceVars

-----------------------------------------------------------------------------
TypeOK ==
  /\ WithinBounds(tree)
  /\ \A p \in DOMAIN tree : tree[p] \in {"directory"} \cup Contents
  /\ last.outcome.error \in {"nil", "refused", "error", "ErrNotFound", "ErrMethodNotAllowed"}
  /\ last.outcome.answer \subseteq FileNames \cup Contents \cup {"directory", "resource"}

\* Whatever is moved, copied or deleted, and in whatever spelling: every file lies
\* in directories, and no call loses the root of the data directory but a Delete
\* that spells it with slashes alone, more than one of them - no Put or Move over
\* it, no Move or Copy of it, and none of the spellings the guards look for.
IsTree ==
  /\ \A p \in DOMAIN tree : \A q \in Ancestors(p) : q \in DOMAIN tree /\ tree[q] = "directory"
  /\ Root \in DOMAIN before /\ Root \notin DOMAIN tree =>
       /\ last.verb = "Delete" /\ Meant(last.path) = Root
       /\ last.path \notin {<<"">>, <<"", "">>}

\* resources.go:250: "refusing to DELETE the root resource directory".
RootIsKept == Root \in DOMAIN tree

\* A call changes what its arguments name, however they are spelled, and nothing
\* else: Put writes its path, Move and Copy read the first and write the second,
\* Delete removes what is at its path and below; a call that reports nil did so,
\* one that reports a status changed nothing, and the reading methods never do.
Changed == {p \in DOMAIN tree \cup DOMAIN before :
              ~(p \in DOMAIN tree /\ p \in DOMAIN before /\ tree[p] = before[p])}

CallsDoWhatTheySay ==
  LET p == Meant(last.path)
      q == Meant(last.other)
      done == last.outcome.error = "nil"
      At(t, r) == IF r \in DOMAIN t THEN t[r] ELSE "missing"
  IN /\ last.outcome.error \in {"refused", "ErrNotFound", "ErrMethodNotAllowed"} => tree = before
     /\ last.verb \in {"Get", "Stat", "Exists", "List"} => tree = before
     /\ last.verb = "Put" =>
          /\ Changed \subseteq {p} \cup Ancestors(p)
          /\ done => At(tree, p) = last.content
     /\ last.verb = "Delete" =>
          /\ \A r \in Changed : IsPrefix(p, r)
          /\ last.outcome.error \in {"nil", "ErrNotFound"} => ~Exists(p)
     /\ last.verb = "Copy" =>
          /\ Changed \subseteq {q} \cup Ancestors(q)
          /\ done => At(tree, q) = At(before, p) /\ At(tree, p) = At(before, p)
     /\ last.verb = "Move" =>
          /\ \A r \in Changed : IsPrefix(p, r) \/ IsPrefix(q, r) \/ r \in Ancestors(q)
          /\ done => At(tree, q) = At(before, p) /\ (p # q => ~Exists(p))

\* What Stat, Exists, Get and List report is what is there: missing is reported
\* as missing although the server answers 200, a failed call is not taken for
\* absence, and a listing of a directory has every child however many there are.
AnswersAreTrue ==
  LET p == Meant(last.path)
      error == last.outcome.error
      answer == last.outcome.answer
  IN /\ last.verb = "Stat" =>
          /\ error = "nil" => Exists(p) /\ answer = {Kind(p)}
          /\ error = "ErrNotFound" => ~Exists(p)
     /\ last.verb = "Exists" /\ error = "nil" => answer = (IF Exists(p) THEN {Kind(p)} ELSE {})
     /\ last.verb = "Get" /\ error = "nil" /\ Kind(p) = "resource" => answer = {tree[p]}
     /\ last.verb = "List" /\ error = "nil" /\ Kind(p) = "directory" => answer = Children(p)
     /\ last.verb = "List" /\ error = "ErrNotFound" => ~Exists(p)
=============================================================================
