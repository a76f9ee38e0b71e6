# A TLA+ model of the GeoServer client library

`github.com/hishamkaram/geoserver/v2` is a Go library: an immutable `*Client`,
sub-clients (55, counting each scope and each part of
the larger packages) that turn typed calls into REST requests, and a small transport
that turns answers into values and errors. It starts no goroutine and keeps no
state of its own after `New`. What is hard in it is therefore at its edges: what
a caller may conclude from an error, who owns a connection, what a URL addresses
when an argument is missing, what a partial update overwrites, what two Clients
built from one `http.Client` share, whether a document survives being read and put
back, what two administrators do to each other, and what is left on the server when
a program made of many calls is interrupted. Those are the subjects of the modules
here.

## Inventory

| Component | State | Operations | Interacts with | What makes it hard |
|---|---|---|---|---|
| Transport core (`geoserver.go`, `internal/transport/transport.go`, `errors.go`) | per call: the request, the response, an open body; the shared connection pool | `Do`, `DoRaw`, `DoXML`, `DoStream`, `SynthesizeError` | every sub-client above, `net/http` and the server below | timeouts against late answers, truncated and broken bodies, redirects, connection ownership |
| Construction (`options.go`, `New`, `buildHTTPClient`, `internal/transport/auth.go`) | `clientConfig`, the `http.Client`, the RoundTripper stack | eight options, `New`, `RoundTrip` | the caller's `http.Client` | option order, aliasing |
| URL building and sub-clients (`internal/transport/url.go`, `rest/*`) | the scope strings | List, Get, Create, Update, Delete, uploads, discovery | the transport core | an empty segment disappears; packages are copies of each other |
| Documents (`rest/*/types.go`, Update methods) | none; the document is on the server | Get, Update | several editors of one document | partial updates, zero values, lost updates |
| Example programs (`examples/*`) | what they created so far | main | all of the above | being killed, timing out, being run again |
| Request bodies (`buildHTTPRequest`, `DoRaw`, uploads) | the position of the caller's `io.Reader` | one upload, its attempts, the next upload | a retrying transport below, the caller above | what a second attempt sends |
| Codecs (`UnmarshalJSON`, `MarshalJSON` in ten packages, the audit log's CSV) | none | decode, encode | every Get, List and Update | one document in several shapes, fields the types do not know |
| Security (`rest/security`) | none; the Client's credentials never change | users, groups, roles, providers, chains, filters, both passwords | the server's own authentication, other admins | which password is right after a timeout |
| Access rules (`rest/acl`) | none | List, Add, Update, Delete, Reload | other administrators, other tools | keys that join the parts of a rule, stale lists, what an empty role list means |
| GeoWebCache (`rest/gwc`) | the caller's `SeedRequest`, which `Submit` fills in | layers, seed tasks, quota, grid sets, truncation | tasks on the server, goroutines that share a request | tasks outlive the call; a name left from another layer |
| Importer (`rest/imports`) | none | sessions and tasks | long-running sessions | polling, deleting a running session |
| Resources (`rest/resources`) | none | Get, Stat, List, Exists, Put, Move, Copy, Delete | the data directory | check then act, a 404 made out of a 200, paths that split into nothing |
| Settings, logging (`rest/settings`, `rest/logging`) | none | Get, Update | as documents | zero values |
| OWS, about, fonts, system, monitor | none | reads, reload, reset | transport core | tolerant decoding |
| `internal/wire`, `internal/testenv` | none | decoding helpers, test support | | |

`PROJECT.json` lists the components with their status, and every hazard of the
code at its line with the properties aimed at it.

## Modules

### Transport: the life of a call

One action per thing that can happen to a call between its start and its return.
`Requests` are the four entry points of `coreAdapter` with what matters of a
request: whether a decode target is given, whether it writes, whether `net/http`
can rewind its body, whether `buildHTTPRequest` succeeds. `doRequest`, `DoXML` and
`newAPIError` are operators named after the functions; they compute the result of
a call from the request, the response and how much of the body arrived, in the
order in which the code tests things, which is where `doRequest` (read error
first) and `DoXML` (status first) differ. `DoStream` and `DoStreamError` are the
two outcomes of the streaming path, `CloseBody` is the caller's.

The environment is external: the pool of `http.Transport` (`Send`), the redirect
policy (`Redirect`, `RedirectAsIs`, `TooManyRedirects`), the timer (`GiveUp`,
`Expire`), the server (`Serve`), a gateway in front of it (`ProxyAnswers`) and the
network (`RequestLost`). `net/http` retries only idempotent reads on its own, so a
write is sent once.

`CallContract` is the abstract specification: a request takes effect at most once,
never when the call failed before sending it, and not after the call returned with
a definite answer. `KeepsContract` is the refinement, with `Phase`, `executed` and
`Verdict` as the mapping: a transport, read or decode error and a 502 or 504 tell
the caller nothing definite, so the effect may still come.

### SubClients and Addressing: what each call addresses

`SubClients` has one operator per sub-client that maps a call to its request: the
guards in the order of the code, the method, the segments passed to `BuildURL`,
the body's identity and the identifying query. `Crud` is the shape most packages
repeat. `Addressing` enumerates every method with every combination of arguments,
an empty one included, and makes the calls one at a time; the library keeps
nothing between them. `Unambiguous` compares each request with all the others.

### Options: building Clients

The options as records, `Apply` their effect on `clientConfig`, `buildHTTPClient`
the shallow copy and the layers, `RoundTrip` what the layers do to a request. The
`http.Client` values live on a heap, the caller's own at the address `"caller"`,
so that aliasing is visible; the caller may change its value at any time.

### Documents: updates

An editor begins an edit, reads the document when the package makes it send the
whole one, and sends a body; the server merges. `PatchBody` is the pointer-field
`Patch`, `OmitEmptyBody` a struct whose plain fields carry `omitempty`,
`DocumentBody` chooses by package, the variable `package`. A call may fail before or after the server
executed it, be retried or given up, and an abandoned update may arrive later.

### Publish: the example programs

Each `main` is a sequence of library calls, each either fatal on error (`Must`) or
ignored (`Try`), over the same `RequestOf` that `Addressing` checks. The server is
a set of paths with GeoServer's rules: a parent must exist, a second create is a
409, a non-empty item needs `recurse=true`, publishing a feature type creates its
layer. A program may be killed, lose its deadline or time out in a call; what it
had sent may be executed later, also when it has been started again.

### Resources: the data directory

A tree of files and directories, and each method of `rest/resources` on it, with
the path in every spelling a caller may give it. `splitPath`, `pathSegments` and
`relocate` are the functions of that name; `RequestFor` has the refusals and the
request, `Located` and `Served` are the server's. A call fails before or after it
was performed, or succeeds, and `Stat`, `List`, `ExistsAnswer` are what the
package makes of the answer: `Stat` turns the type `undefined` of a 200 into a 404,
`childArray` reads a list that is an array, an object or an empty string.

### Codecs and RoundTrip: documents through the decoders

`Codecs` has the custom decoders and encoders as operators from JSON (a shape, a
text, fields, items) to a document, which is the sequence of its texts, and back.
`RoundTrip` is their reference: for each of 18 types, `Docs` are the documents there
are and `Shapes` the bodies in which the comments and the tests say a server
writes one. The server writes the document in a shape (`ServeDocument`), the program
reads it (`GetDocument`), edits one text or appends one, and puts it back
(`UpdateDocument`), and the server applies the body (`Reads`, what is not in a body
keeps its value): `ReadsAreTrue` and `WritesAreMeant` compare what was decoded with
what there was, and what arrived with what was meant. 11 of the types are written, the
others only read.

### AccessRules: rules under several administrators

The keys of the wire are sequences of tokens, separators among them. `EncodeKey`,
`DecodeRule` and `DecodeRESTRule` are those of `types.go`, which also join and split the
roles (`JoinRoles`, `SplitRoles`; the name of a role is one token, so a name with a comma
in it, which would come back as two roles, is left out); the server's table is a
function from keys to joined roles, and `ReadsAs`, `Accepts`, `Stored` say how it reads a
key. Administrators keep the rules of their last `List` and send one back changed,
or delete it; other tools write rules of a form the package does not decode.
`Subjects`, `RoleLists` and `Foreign` are what writers may ask for.

### Passwords: rotating what one logs in with

`Update` of the master password names the current one; `Change` replaces the
password the Client itself logs in with, so after it the Client is dead. A password
is a number, drawn once. A request may be answered, answered by a password policy,
fail at a proxy, or time out and arrive later. `ErrorOf` is what the sentinels of
`errors.go` let a caller tell of an answer, and `Definite` those that exclude the effect:
an admin keeps in `keys` every login password that may be the right one, and drops
one when an answer rules it out.

### Uploads: bodies under a retrying transport

The README of the library invites retry libraries below the Client. `buildHTTPRequest`
makes a reader for a document and passes on the caller's for a file; `GetBody` is
whether `http.NewRequest` can rewind it. An attempt may be cut short or its answer lost
(`CutShort`, `Accepted`), the retry library sends again what it can rewind, and the
caller calls again with a fresh reader or with the one it has.

### Seeding: tasks that outlive the call

`Submit` has its steps: the name of the request is tested and filled in the caller's
struct (`Name`, `Fill`), the type is tested, the body is marshalled. Goroutines may
share the struct: the read of a field that another goroutine is writing gives the
old value, the new one, or a torn string (`Seen`). `shared` are the requests that two
goroutines had in `Submit` at one time, of which nothing is promised; every other one,
however often and for whatever layers it is used, seeds one layer (`OneLayerPerRequest`):
its Name is written once and the server turns away a body of another layer. Tasks are the server's; they go
from pending to done, are aborted by `KillAll`, and leave the list some time after they
ended. A caller polls `Status` until nothing listed is active.

### Modules for TLC

`MCTransport` declares the symmetry of the calls. Three modules put together
components that do not interact, so that each is explored beside the others in
one run: `MCRequests` (`Addressing`, `Resources`, `Options`), `MCPrograms` (`Publish`,
`Seeding`, `Documents`) and `MCAdministration` (`Passwords`, `Uploads`, `AccessRules`, `RoundTrip`).
Their variable `work` says which of them goes on. The library keeps nothing between
calls and the parts of the server they use are disjoint, so a behaviour of all of
them at once is, for the variables of each, a behaviour of that one with stutters:
checking them one at a time checks them all.

## Runs

| Run | Checks | Bounds, and why they are enough |
|---|---|---|
| `transport_safety` | `TypeOK`, `NoConnectionLeak`, `NilErrorMeansPerformed`, `KeepsContract` | two interchangeable calls and one connection, so that one waits for the other; a body of 0, 1 or 2 units against caps of 1 and 2, so that it is empty, fits one cap, or is cut by the smaller; one 2xx, one 4xx and one gateway status; a rewriting and a preserving redirect, one hop |
| `transport_liveness` | `EveryCallReturns`, `ConnectionsComeBack` | two calls, one connection, no body: what matters is who waits for whom |
| `transport_read_error` | `NonSuccessIsAPIError`, violated | one call |
| `transport_truncated` | `SuccessDecodes`, violated | one call, a document of two units and a cap of one |
| `addressing` | `Unambiguous`, `EmptyArgumentIsRefused`; of `Resources`: `TypeOK`, `IsTree`, `CallsDoWhatTheySay`, `AnswersAreTrue`; of `Options`: `OwnCredentials`, `ImmutableAfterNew` | 55 sub-clients; two names and the empty one in every position, which tells swapped, lost and repeated arguments apart. Two names on two levels, so that a file can be where a directory is needed, a directory can be moved below itself and a list can have no, one or two children; two spellings of every path and three of the root, `//` among them. Two New calls and three options between them: two for one and one for the other, in any order |
| `granules_delete` | `DeleteIsSingle`, violated | two sub-clients |
| `publish` | `CalmRunSucceeds`, `CalmRunCleansUp`, `DuplicateIsConflict`, `EventuallyDone`; of `Seeding`: `TypeOK`, `OneLayerPerRequest`, `OwnRequestIsAccepted`, `OverMeansOver`, `PollingEnds`; of `Documents`: `LatestEditWins` | the four programs, three faults over all runs: a late create, a late delete and a kill can fall into one history. Two goroutines with one request between them, two layers, two calls, one of them unanswered: a request reused for another layer, shared while it is filled in, or submitted again while the first copy is underway. Three calls (514,670 states, without `Documents`) give no violation either. The four packages with a Patch and one with a whole document; two editors, two fields, three edits and two timeouts: an edit, a newer edit of the same field and one of the other |
| `root_kept` | `RootIsKept`, violated | two names, all spellings |
| `layer_styles` | `NoStylesIsNil`, violated | lists of up to two styles |
| `options_order` | `LaterOptionWins`, violated | one New call, two options |
| `settings_false` | `FalseCanBeSet`, violated | one editor, one edit, no fault |
| `administration` | `TypeOK`, `OneWinner`, `StaleUpdateIsDead`, `RefusedForGood`, `NotLockedOut` of `Passwords`; `StoredIsWhole` of `Uploads`; `RulesTypeOK`, `RulesMeanWhatWasSaid`, `ListIsWhole` of `AccessRules`; `DocumentTypeOK`, `ReadsAreTrue`, `WritesAreMeant` of `RoundTrip` | two admins, three new passwords and one answer that is not the server's, so that two rotations overlap and a third follows (also checked with two such answers, 1,458,245 states, and with a 401 for a wrong master password). A file of three units, three calls of three attempts: cut at either end of a unit, retried, sent again by the caller. Two administrators and three writes: list, be overtaken, write. Lists of up to three elements, the least that is neither empty nor collapsed nor a pair |

Names that `path.Join` treats specially (`.` and `..`) and names that collide
with a literal of the API (a provider called `order`, a layer ending in `.xml`)
are not among the enumerated ones. Nor are two values for which the code does what
its documentation rules out, listed below: patterns with a colon or a question
mark, and JSON files where a directory is listed. The path `//` and layers without
styles are among them: `IsTree` says which `Delete` alone loses the root and
`ReadsAreTrue` leaves out what `ListStyles` makes of no styles (`NoStyles`), and a run
of its own shows either.

The runs that turn deadlock checking off are those whose system really stops:
calls return, programs end, edits are used up. Each call is made once, each
builder calls `New` once.

The seven runs that expect a violation show a disagreement between the code and
what its own documentation says; `findings` in `PROJECT.json` quotes both sides.

- A non-2xx answer whose body breaks off is not an `*APIError`.
- A successful JSON document longer than 8 KiB does not decode.
- `Granules().Delete` with an empty ID deletes at the URL of the whole collection.
- `resources.Delete("//")` passes the guard against the root of the data directory and
  deletes it.
- `ListStyles` of a layer without alternative styles is an error: `{"styles":""}` does
  not decode.
- `WithHTTPClient` after `WithTransport` does not win.
- Get, modify, Put cannot set a flag of the settings to false.

Met while modelling, without a run:

- `DecodeRESTRule` cuts a key at its first `:` or `;` (`rest/acl/types.go:205`), also
  inside an Ant pattern such as `/{x:re}`; `types.go:15-18` says that the encoder and
  the decoder round-trip. Encoding the two parts joins them again.
- `RESTClient.Delete` appends the rule to the URL as it is (`rest/acl/rest.go:131`): a `?`
  of the pattern starts the query. `types.go:161-163` says that slashes are
  percent-encoded by `Core.URL`, which `rest.go:116-120` avoids on purpose.
- `resources.List` of a file that is itself JSON returns an empty directory and no
  error (`rest/resources/resources.go:127`, against line 116).
- `CRS.MarshalJSON` writes the bare string for the class `string` and an object for
  none; `internal/wire/types.go:24-26` has it the other way round.
- `rest/styles/styles.go:181` refers to `Client.UploadSLDOrCreate`, which does not exist.
- `WithTimeout(0)` does not remove the timeout of a given `http.Client`, whose own zero
  timeout becomes 30 seconds.
- `AuthProviders.List` promises the active order and ranges over a map when the answer
  is an object.
- `Seed.Submit` and `Styles.Create` write a default into the caller's struct.

## Fairness

`Transport.Fairness` assumes that the calling goroutine runs and that the timer of
`http.Client.Timeout` fires (`defaultTimeout` is 30 seconds and applies to every
Client that does not ask for zero). It assumes nothing of the server, of the
network, or of the owner of a stream. Without a timeout neither liveness property
holds, and `HasTimeout` keeps the fairness of `GiveUp` to the case where there is
one.

`Publish.Fairness` assumes that the program runs and its calls are answered or
fail, that a late request is executed or lost in the end, and that someone starts
a failed program again. Faults may happen up to `MaxFaults` and need not. The
server answering is justified by the client's timeout: an unanswered call is a
fault.

`SeedingFairness` assumes that a task the server has goes on until it ends, and that a
caller that polls polls again. It does not assume that a request which timed out
arrives, that a task is dropped from the list, or that anyone calls `KillAll`.

The other modules state safety only.

## What is proved

`TransportProofs` proves, for any set of calls, any statuses and redirects within
HTTP's ranges, any limit of connections and hops and any caps with the JSON cap
positive and not above the XML cap (`CapsAssumption`, `EnvironmentAssumption`):

| Theorem | Statement |
|---|---|
| `Inductive` | `Spec => []IInv` |
| `TypeCorrect` | `Spec => []TypeOK` |
| `NoLeak` | `Spec => []NoConnectionLeak` |
| `NilErrorIsEarned` | `Spec => []NilErrorMeansPerformed` |
| `ImplementsContract` | `Spec => KeepsContract` |

None of the properties is inductive. That a nil error means the server performed
the request says something about a state at the return; the step that returns
only sees the response, so the invariant must say that a 2xx response was sent by
a server that performed the request, or after a rewriting redirect. That no effect
follows a definite answer needs that a response other than a gateway's ends the
server's work on the request. `IInv` is `TypeOK` and, for each call, `CallInv`:
these two facts, what may be held in each phase, and that a result repeats the
status of its response. The proof has one lemma per reader of a body (what it can
return, from whatever part of the body it got), one case per action for the type
invariant, one for `CallInv`, and one for the refinement, where an action is a
step of the contract (`BuildFails` a refusal, `Start` an issue, the first
execution a performance, the returning actions a return) or a stutter.

`DocumentsProofs` proves, for any fields, editors and numbers of edits and faults:

| Theorem | Statement |
|---|---|
| `DocumentsTypeCorrect` | `DocumentsSpec => []DocumentsTypeOK`, for every package |
| `DocumentsInductive` | `DocumentsSpec => []IInv`, if `Clients \subseteq Patches \cup Whole` |
| `NoUpdateLost` | `DocumentsSpec => []LatestEditWins`, under the same condition |

The condition leaves out the packages whose structs drop zero values, where the
property is false (`settings_false`). `LatestEditWins` alone is not inductive: it
says nothing of the updates that are sent, abandoned or about to be sent again.
`IInv` adds that each of them would change its own field and no other. For a Patch
this is the shape of its body. For a whole document it depends on the rest of the
document, and holds because everything in flight, retries and late copies
included, is one edit (`Alone`): executing it leaves the document equal to the
bodies of the others. The steps that begin no edit are one lemma
(`NothingNewInv`), since all that is in flight after them was before.

`AdministrationProofs` proves, of `Passwords`, for any number of admins, passwords and faults and for either
answer to a wrong master password (`PasswordsAssumption`):

| Theorem | Statement |
|---|---|
| `PasswordsInductive` | `Spec => []IInv` |
| `PasswordsTypeCorrect` | `Spec => []TypeOK` |
| `RotationIsToldOnce` | `Spec => []OneWinner` |
| `StaleUpdatesAreDead` | `Spec => []StaleUpdateIsDead` |
| `RefusalsAreFinal` | `Spec => []RefusedForGood` |
| `AccountIsKept` | `Spec => []NotLockedOut` |

Passwords are drawn in increasing order and a request names or carries only older
ones than its new one (`Message`), so the master and the login password only grow: what
is no longer current never is again. From this follow `OneWinner`, `StaleUpdateIsDead` and `RefusedForGood`, once the
invariant says that whoever was told nil was right (`Told`), that what an admin
learnt was current once (`Bounds`), and that a refused request named the past
(`Refused`). That nobody is locked out needs more: until a Change returns, its new
password is in its caller's keys and nobody else's (`Own`), and a late Change that can
still take effect is noted by its caller (`Noted`). The lemmas go by what actions
share: the methods begin a call (`BeginInv`), the server handles a request at once or
late (`ServeInv` and `ArriveInv` over `HandledInv`), a call fails with or without an
answer (`FailedInv`).

`AdministrationProofs` also proves, of `Uploads`, for any size of a body and any number of calls and attempts:

| Theorem | Statement |
|---|---|
| `UploadsAreWhole` | `UploadsSpec => []StoredIsWhole` |

The invariant says from where each attempt reads: a body `GetBody` can rewind begins
where the call began, and one it cannot is sent once; so what the server accepted as
complete begins at the start of the file unless the caller's reader was used before
the call.

`ProgramsProofs` proves of `Seeding`, for any goroutines, requests, layers and numbers of calls and
of unanswered ones (`SeedingAssumption`):

| Theorem | Statement |
|---|---|
| `SeedingInductive` | `SeedingSpec => []SeedingInv` |
| `SeedingTypes` | `SeedingSpec => []TypeOK` |
| `RequestsSeedOneLayer` | `SeedingSpec => []OneLayerPerRequest` |
| `OwnRequestAccepted` | `SeedingSpec => []OwnRequestIsAccepted` |
| `PollingIsTrue` | `SeedingSpec => []OverMeansOver` |

The properties speak of tasks and of calls that ended; `SeedingInv` carries them back to
the struct. `Made` says that every call and message has the request its caller used, and
`OwnName` that a request which one goroutine alone uses, for one layer, has a name once it
was filled in, keeps it until it is sent, and was given another layer's if the call was turned away.
Behind it is `SeenAlone`: nobody writes while the only user reads. `Unlisted` says that a task that has left the list
has ended, from which `OverMeansOver` follows. `Naming` carries `OneLayerPerRequest` back: of a
request that is not in `shared`, one goroutine at most is between the test of its name and the
body made of it, who is about to write the name found none, and every body on its way that the
server would take is for the layer that is there.

It proves of `Publish`, for any of the four programs and any number of faults
(`ProgramsAssumption`):

| Theorem | Statement |
|---|---|
| `PublishInductive` | `Spec => []PublishInv` |
| `CalmRunsSucceed` | `Spec => []CalmRunSucceeds` |
| `CalmRunsCleanUp` | `Spec => []CalmRunCleansUp` |
| `DuplicatesConflict` | `Spec => []DuplicateIsConflict` |

A calm run says nothing of the runs before it, which may have stopped anywhere and
whose requests may have come in any order. `PublishInv` holds two things about them:
the server has nothing but the workspace and what is in it (`AnyTree`), because every
request of every script keeps to that (`Keeps`), and a request that is still late is
one of the script's. From there the argument follows the script: the first Delete leads
from any such tree to the empty one, and each step from the tree the step before it
leaves to the next (`Leads`, `Runs`). That these lemmas are about the requests the
sub-clients build takes the rest of the module: `BuildURL` keeps segments that are
neither empty nor dots (`BuildIsExact`), and each script's calls send what the server's rules expect
(`WorkspaceRequests` to `LayerRequests`).

`Recursion` has what the proofs about loops need. `Fold` is a loop over a sequence, with
its start and its step as constants; `FoldAppend` is what one more element does, and
`SeqInduction` is induction over sequences, with a set where the library's theorem
has an operator that no prover here can instantiate. The proofs below instantiate the
module with the code's own loops.

| Theorem | Statement |
|---|---|
| `SeqInduction` | a set that has the empty sequence, and with a sequence every longer one, has all |
| `FoldAppend` | `Fold(Append(s, x)) = Step(Fold(s), x)` |

`RequestsProofs` proves of `Addressing`, for any of its sub-clients and any names
(`ClientsAssumption`):

| Theorem | Statement |
|---|---|
| `EmptyArgumentsRefused` | `Spec => []EmptyArgumentIsRefused` |

It goes client by client, since each package repeats its guards: an argument that is empty
and means nothing is a scope or a name (`IncompleteIs`), and the client has a check for
both where it can be either. `Unambiguous` has no such proof: it fails for some names, such
as a template `a` and one `a.ftl`, whose URLs are the same on purpose.

It proves of `Resources`, for any finite set of names, spelled in any of the
ways of `Spellings`, `//` included:

| Theorem | Statement |
|---|---|
| `BuildIsExact` | `BuildURL(s) = s` for segments none of which is empty or a dot |
| `ArgumentsMean` | the names in an argument are a place or the root, and what `IsRoot` finds is the root (not the converse: `//`) |
| `ResourcesInductive` | `ResourcesSpec => []ResourcesInv` |
| `ResourcesTypes` | `ResourcesSpec => []TypeOK` |
| `DirectoryStaysATree` | `ResourcesSpec => []IsTree` |
| `CallsDoWhatIsAsked` | `ResourcesSpec => []CallsDoWhatTheySay` |
| `ReadsAnswerTruly` | `ResourcesSpec => []AnswersAreTrue` |

`ResourcesInv` is the four properties with a stronger first half of `IsTree` (`TreeOK`,
which also bounds what the tree may hold). Moves and copies need it: a whole subtree goes
only because everything below an item is reached through it. `RootStays` is the other
half: of all calls only a `Delete` whose path is slashes alone, more than one, loses the
root. No theorem says that the root is kept; `root_kept` shows that it is not. Each method
is followed from its argument (`splitPath` and `pathSegments`, by induction over the string)
to the URL, to what the server does to the tree, to the outcome the package makes of the
answer.

`WireProofs` proves of `AccessRules`, for any kinds of rules, any number of
administrators, tools and writes:

| Theorem | Statement |
|---|---|
| `SplitInjective` | no two strings split into the same parts |
| `RulesInductive` | `RulesSpec => []IInv` |
| `RulesTypes` | `RulesSpec => []RulesTypeOK` |
| `RulesMean` | `RulesSpec => []RulesMeanWhatWasSaid` |
| `ListsAreWhole` | `RulesSpec => []ListIsWhole` |

The hypothesis `Inputs` says what is written: subjects of any strings over any `Tokens` (for a
REST rule: without `:`, `;` and `?`, the findings of `rest/acl/types.go:205` and
`rest.go:131`), any lists of roles whose names have no comma, and by other tools any keys that have no empty part. `RulesMeanWhatWasSaid`
compares the table with what writers asked for, by the subject the server reads a key as,
so it is inductive only if no two keys the server accepts read alike (`KeysDiffer`).
That is a fact about strings: a key splits into the parts it was joined from
(`SplitInjective`, `MarkIs`, `FullKey`). `ListIsWhole` is about a list of the past, which the table no
longer shows: `HeldOK` keeps for each administrator that its list is the decoded form
of a whole table, and `DecodedEntry` that decoding loses nothing.

It proves of `RoundTrip`, for any of its types, any set of texts without `""` (the text of
a field that is not set) and lists of any length (`RoundTripAssumption`):

| Theorem | Statement |
|---|---|
| `DocumentInductive` | `DocumentSpec => []DocumentInv` |
| `DocumentTypes` | `DocumentSpec => []DocumentTypeOK` |
| `ReadsTrue` | `DocumentSpec => []ReadsAreTrue` |
| `WritesMeant` | `DocumentSpec => []WritesAreMeant` |

The two properties look at a document only where a call ends. `DocumentInv` says what
joins them: what was served is one of `Shapes`, a program that has read holds the document as
it wants it (`HoldsAsked`), and a body that was sent is the encoding of what is held. So
one step of the proof is that every shape decodes to the document it was written from
(`ServedRead`: `ListsServed` for the types that are lists, `ObjectsServed` for the others,
a lemma each), and one that the server reads what is written as what is held
(`WrittenRead`, from `ListWritten`, `ObjectWritten` and `EmptyListWritten`). The second needs
`UnsetIsKept`: an Update leaves an empty list or an unset field out of its body
(`omitempty`), so it can say nothing of one, and the document keeps what it had. The program sets
texts that are not empty and shortens no list, hence what it wants where it leaves
something out is what there was. The model has no program that empties a list or a field.

`OptionsProofs` proves, for any number of New calls and options, `"caller"` not being
one of the New calls (`OptionsAssumption`):

| Theorem | Statement |
|---|---|
| `OptionsInductive` | `OptionsSpec => []IInv` |
| `CredentialsAreOwn` | `OptionsSpec => []OwnCredentials` |
| `ClientsAreImmutable` | `OptionsSpec => ImmutableAfterNew` |

`OwnCredentials` is about the request that leaves a stack of layers on the heap, and says
nothing of a Client that is being built. `Configured` says what the options applied so
far made of the configuration, and `Owned` that a built Client points to its own
`http.Client` and has its own two layers above a base that has none. `ImmutableAfterNew` follows
from the latter: no step writes at the address of a built Client.

## What is only model-checked

Liveness (`EveryCallReturns`, `ConnectionsComeBack`, `EventuallyDone`, `PollingEnds`)
stays with TLC: the proof system has no support for fairness and ENABLED. So does
`Unambiguous`, which compares the requests of 55 sub-clients pair by pair: it holds of some names
only, and the path of an item whose file has an extension is a concatenation of two strings,
of which the provers know nothing.

## What is not modelled

- The life of an import session. The package names the states and says nothing of
  the transitions, so a model would be a guess at the server; its requests are in
  `Addressing`.
- What the server does with an incomplete or outdated order of providers and chains:
  `SetOrder` sends a list of names. The order of a list that comes as an object.
- Structs that `encoding/json` and `encoding/xml` handle by their tags alone: the OWS
  types, layer configurations, grid sets, most documents of the catalog.
- Filters of List and Discover, which are only passed on; logging; the wording of
  errors.
- Two programs between an `Exists` or `Stat` and what follows it: a call of `Resources`
  is one request of one program. A caller that gives `DoRaw` a reader it has used
  before. A write of an access rule from an old list, which replaces a newer one: the
  last write counts as what was meant. The order in which two updates of one field take
  effect, when one of them is late. The library promises nothing of any of these, so
  the properties exempt them; the hazards say so at their lines.
- Role names with a comma.
- Malformed answers, beyond a body that is cut or breaks off.
- Whole-document updates by several writers at once lose updates: the library has no
  version check, so `Documents` lets such documents have one writer at a time and
  says so.
- The program `error-handling` also builds a Client with a wrong password; `Publish`
  leaves that out. `internal/testenv` is test support.

## Plan

Done, in this order: `Transport` with `CallContract` and its proofs; `SubClients`
with `Addressing`; `Publish` over `SubClients`; `Options`; `Documents` with its proofs;
`AccessRules`; `Resources`; `Codecs` with `RoundTrip`; `Seeding`; `Passwords` and
`Uploads`, each with its proofs; the proofs of `Seeding`, of `Resources`, of
`AccessRules`, of `Options`, of `Publish` and of `Addressing`; those of `RoundTrip`.

Left: `Unambiguous`, for names none of which ends in an extension.
