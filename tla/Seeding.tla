------------------------------- MODULE Seeding -------------------------------
(***************************************************************************)
(* Seed tasks of GeoWebCache (rest/gwc).  Goroutines that share a Client   *)
(* submit tasks for layers, each with a SeedRequest of its own or one that *)
(* was used before, and then poll until nothing runs on their layer.       *)
(* Submit fills the name of the request in the caller's struct, which is   *)
(* visible to whoever else holds it.                                       *)
(***************************************************************************)
EXTENDS Integers, Sequences, FiniteSets

CONSTANTS
  TileLayers,
  Requests,       \* the SeedRequest values of the program
  Goroutines,
  MaxCalls,       \* of Submit and KillAll, over all goroutines
  MaxUnanswered   \* calls whose answer does not arrive

ASSUME SeedingAssumption ==
  /\ {"", "torn"} \cap TileLayers = {}
  /\ MaxCalls \in Nat /\ MaxUnanswered \in Nat

VARIABLES
  req,       \* the requests: their Name and Type
  proc,      \* each goroutine: where it is, and the call it makes
  tasks,     \* the tasks of the server, in the order they came
  underway,  \* requests that timed out and may still arrive
  used,      \* by which goroutine and for which layer a request was submitted
  shared,    \* the requests that two goroutines had in Submit at one time
  calls,
  unanswered

seedingVars == <<req, proc, tasks, underway, used, shared, calls, unanswered>>

-----------------------------------------------------------------------------
StatusAborted == -1
StatusPending == 0
StatusRunning == 1
StatusDone == 2

\* Faulty variant: only what is done is over.
ActiveUnlessDone(status) == status # StatusDone

\* Faulty variant: the zero value counts as nothing to wait for.
ActiveIfRunning(status) == status = StatusRunning

\* What a caller that polls waits for.
Active(status) == status \in {StatusPending, StatusRunning}

Ended == {StatusAborted, StatusDone}

Idle == [pc |-> "idle", layer |-> "", req |-> CHOOSE r \in Requests : TRUE,
         name |-> "", err |-> "nil"]

SeedingInit ==
  /\ req \in [Requests -> [Name : TileLayers \cup {""}, Type : {"", "seed"}]]
  /\ proc = [g \in Goroutines |-> Idle]
  /\ tasks = <<>>
  /\ underway = {}
  /\ used = [r \in Requests |-> {}]
  /\ shared = {}
  /\ calls = 0
  /\ unanswered = 0

At(g, pc) == proc[g].pc = pc

Goes(g, pc) == proc' = [proc EXCEPT ![g].pc = pc]

Returns(g, err) == proc' = [proc EXCEPT ![g].pc = "idle", ![g].err = err]

\* What g may read of the Name: a string is two words, and while another goroutine
\* writes them any mixture of the old and the new ones.
Writers(g) == {h \in Goroutines \ {g} : At(h, "filling") /\ proc[h].req = proc[g].req}

Seen(g) ==
  {req[proc[g].req].Name}
    \cup (IF Writers(g) = {} THEN {}
          ELSE {"", "torn"} \cup {proc[h].layer : h \in Writers(g)})

\* g is in Submit and has yet to read r or to write its name.
Holds(g, r) == proc[g].req = r /\ proc[g].pc \in {"name", "filling", "type", "marshal"}

\* Submit(ctx, layer, r), with a layer that is not empty and a request.
Submit(g, layer, r) ==
  /\ At(g, "idle")
  /\ calls < MaxCalls
  /\ calls' = calls + 1
  /\ proc' = [proc EXCEPT ![g] = [Idle EXCEPT !.pc = "name", !.layer = layer, !.req = r]]
  /\ used' = [used EXCEPT ![r] = @ \cup {<<g, layer>>}]
  /\ shared' = IF \E h \in Goroutines : Holds(h, r) THEN shared \cup {r} ELSE shared
  /\ UNCHANGED <<req, tasks, underway, unanswered>>

\* Faulty variant: the name is left to the caller.
NameUnfilled(g) ==
  /\ At(g, "name")
  /\ Goes(g, "type")
  /\ UNCHANGED <<req, tasks, underway, used, shared, calls, unanswered>>

\* Faulty variant: the name is written whatever it was.
NameAnyway(g) ==
  /\ At(g, "name")
  /\ Goes(g, "filling")
  /\ UNCHANGED <<req, tasks, underway, used, shared, calls, unanswered>>

\* if req.Name == ""
Name(g) ==
  /\ At(g, "name")
  /\ \E name \in Seen(g) : Goes(g, IF name = "" THEN "filling" ELSE "type")
  /\ UNCHANGED <<req, tasks, underway, used, shared, calls, unanswered>>

\* req.Name = layer has been written.
Fill(g) ==
  /\ At(g, "filling")
  /\ req' = [req EXCEPT ![proc[g].req].Name =
               IF Writers(g) = {} \/ @ \in {"", proc[g].layer} THEN proc[g].layer ELSE "torn"]
  /\ Goes(g, "type")
  /\ UNCHANGED <<tasks, underway, used, shared, calls, unanswered>>

\* The Type is checked after the name was filled.
Type(g) ==
  /\ At(g, "type")
  /\ IF req[proc[g].req].Type = "" THEN Returns(g, "refused") ELSE Goes(g, "marshal")
  /\ UNCHANGED <<req, tasks, underway, used, shared, calls, unanswered>>

Marshal(g) ==
  /\ At(g, "marshal")
  /\ \E name \in Seen(g) : proc' = [proc EXCEPT ![g].pc = "sent", ![g].name = name]
  /\ UNCHANGED <<req, tasks, underway, used, shared, calls, unanswered>>

-----------------------------------------------------------------------------
\* The server.

\* Faulty variant: the URL is made from the request.
PathOfRequest(call) == call.name

\* The layer in the URL.
Path(call) == call.layer

\* "GeoServer rejects mismatches."
Accepted(call) == call.name = Path(call)

Queued(call, by, nil) ==
  [layer |-> Path(call), req |-> call.req, by |-> by, nil |-> nil,
   status |-> StatusPending, listed |-> TRUE]

\* The server answers, or the answer is lost.
Handle(g) ==
  /\ At(g, "sent")
  /\ \E lost \in {b \in BOOLEAN : b => unanswered < MaxUnanswered} :
       /\ unanswered' = IF lost THEN unanswered + 1 ELSE unanswered
       /\ tasks' = IF Accepted(proc[g]) THEN Append(tasks, Queued(proc[g], g, ~lost)) ELSE tasks
       /\ Returns(g, IF lost THEN "timeout"
                     ELSE IF Accepted(proc[g]) THEN "nil" ELSE "mismatch")
  /\ UNCHANGED <<req, underway, used, shared, calls>>

\* Submit times out before the request arrives.
TimeOut(g) ==
  /\ At(g, "sent")
  /\ unanswered < MaxUnanswered
  /\ unanswered' = unanswered + 1
  /\ underway' = underway \cup {[call |-> proc[g], by |-> g]}
  /\ Returns(g, "timeout")
  /\ UNCHANGED <<req, tasks, used, shared, calls>>

Arrive(m) ==
  /\ underway' = underway \ {m}
  /\ tasks' = IF Accepted(m.call) THEN Append(tasks, Queued(m.call, m.by, FALSE)) ELSE tasks
  /\ UNCHANGED <<req, proc, used, shared, calls, unanswered>>

\* A task starts, and ends.
Progress(t) ==
  /\ tasks[t].status \notin Ended
  /\ tasks' = [tasks EXCEPT ![t].status = @ + 1]
  /\ UNCHANGED <<req, proc, underway, used, shared, calls, unanswered>>

\* A task that ended leaves the list some time later.
Forget(t) ==
  /\ tasks[t].status \in Ended /\ tasks[t].listed
  /\ tasks' = [tasks EXCEPT ![t].listed = FALSE]
  /\ UNCHANGED <<req, proc, underway, used, shared, calls, unanswered>>

\* KillAll terminates every task there is.
KillAll(g) ==
  /\ At(g, "idle")
  /\ calls < MaxCalls
  /\ calls' = calls + 1
  /\ tasks' = [t \in DOMAIN tasks |->
                 IF tasks[t].status = StatusDone THEN tasks[t]
                 ELSE [tasks[t] EXCEPT !.status = StatusAborted]]
  /\ UNCHANGED <<req, proc, underway, used, shared, unanswered>>

-----------------------------------------------------------------------------
\* The caller turns to the progress of the layer it submitted last.
Wait(g) ==
  /\ At(g, "idle")
  /\ proc[g].layer # ""
  /\ Goes(g, "polling")
  /\ UNCHANGED <<req, tasks, underway, used, shared, calls, unanswered>>

\* Status: the tasks of the layer that the server lists.
Rows(layer) == {t \in DOMAIN tasks : tasks[t].layer = layer /\ tasks[t].listed}

\* It polls until no task is pending or running.
Status(g) ==
  /\ At(g, "polling")
  /\ Goes(g, IF \E t \in Rows(proc[g].layer) : Active(tasks[t].status)
             THEN "polling" ELSE "finished")
  /\ UNCHANGED <<req, tasks, underway, used, shared, calls, unanswered>>

SeedingNext ==
  \/ \E g \in Goroutines :
       \/ \E layer \in TileLayers, r \in Requests : Submit(g, layer, r)
       \/ Name(g) \/ Fill(g) \/ Type(g) \/ Marshal(g) \/ Handle(g) \/ TimeOut(g)
       \/ KillAll(g) \/ Wait(g) \/ Status(g)
  \/ \E m \in underway : Arrive(m)
  \/ \E t \in DOMAIN tasks : Progress(t) \/ Forget(t)

SeedingSpec == SeedingInit /\ [][SeedingNext]_seedingVars

\* Tasks go on until they end, and a caller that polls polls again.
SeedingFairness ==
  /\ \A t \in 1..MaxCalls : WF_seedingVars(t \in DOMAIN tasks /\ Progress(t))
  /\ \A g \in Goroutines : WF_seedingVars(Status(g))

SeedingFairSpec == SeedingSpec /\ SeedingFairness

-----------------------------------------------------------------------------
Steps == {"idle", "name", "filling", "type", "marshal", "sent", "polling", "finished"}

TypeOK ==
  /\ \A r \in Requests : req[r].Name \in TileLayers \cup {"", "torn"}
  /\ \A g \in Goroutines :
       /\ proc[g].pc \in Steps
       /\ proc[g].name \in TileLayers \cup {"", "torn"}
       /\ proc[g].err \in {"nil", "refused", "timeout", "mismatch"}
  /\ \A t \in DOMAIN tasks :
       tasks[t].layer \in TileLayers /\ tasks[t].status \in StatusAborted..StatusDone
  /\ Len(tasks) + Cardinality(underway) <= calls /\ calls <= MaxCalls
  /\ unanswered <= MaxUnanswered

\* However often and for whatever layers a request is submitted, by whichever
\* goroutines in turn, in time or late: the tasks that come of it run on the layer
\* that its Name, which the caller can read, says - one layer, as the Name is
\* written once and a request for another layer is turned away.  Nothing of the
\* kind holds of a request that two goroutines had in Submit at one time.
OneLayerPerRequest ==
  \A t \in DOMAIN tasks :
    tasks[t].req \notin shared => tasks[t].layer = req[tasks[t].req].Name

\* A request that one goroutine uses for one layer is never turned away for its
\* name, if the caller left the name empty or gave the layer's: not at the first
\* Submit, not when it is submitted again after an error.
OwnRequestIsAccepted ==
  \A g \in Goroutines :
    (proc[g].err = "mismatch" /\ used[proc[g].req] = {<<g, proc[g].layer>>})
    => req[proc[g].req].Name \notin {"", proc[g].layer}

\* When polling ends, no task of a Submit that returned nil is left running on
\* that layer.
OverMeansOver ==
  \A g \in Goroutines : At(g, "finished") =>
    \A t \in DOMAIN tasks :
      tasks[t].by = g /\ tasks[t].nil /\ tasks[t].layer = proc[g].layer
        => tasks[t].status \in Ended

\* Polling comes to an end, also after KillAll.
PollingEnds == \A g \in Goroutines : At(g, "polling") ~> At(g, "finished")
=============================================================================
