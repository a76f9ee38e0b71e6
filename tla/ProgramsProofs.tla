---------------------------- MODULE ProgramsProofs ----------------------------
(***************************************************************************)
(* Programs that use the library from start to end.                        *)
(*                                                                         *)
(* Seeding is sound for any layers, requests and goroutines and any number *)
(* of calls and lost answers.  The goroutines share requests without       *)
(* locks, so what is known of a request is what nobody else can have       *)
(* written: its Type, and its Name as long as one goroutine uses it for    *)
(* one layer.                                                              *)
(*                                                                         *)
(* The examples recover from any number of timeouts, expired deadlines and *)
(* kills: what is left of earlier runs is always the workspace and what is *)
(* in it, so the Delete a run begins with removes it, and from there each  *)
(* step finds the tree that the one before it leaves.                      *)
(***************************************************************************)
EXTENDS Publish, Seeding, FiniteSetTheorems, SequenceTheorems, TLAPS

-----------------------------------------------------------------------------
(* Seeding: the inductive invariant. *)

SomeName == TileLayers \cup {"", "torn"}
SomeType == {"", "seed"}
Errors == {"nil", "refused", "timeout", "mismatch"}
Statuses == {StatusAborted, StatusPending, StatusRunning, StatusDone}

Calls ==
  [pc : Steps, layer : TileLayers \cup {""}, req : Requests \cup {Idle.req},
   name : SomeName, err : Errors]

Tasks ==
  [layer : TileLayers, req : Requests, by : Goroutines, nil : BOOLEAN,
   status : Statuses, listed : BOOLEAN]

Messages == [call : Calls, by : Goroutines]

Types ==
  /\ req \in [Requests -> [Name : SomeName, Type : SomeType]]
  /\ proc \in [Goroutines -> Calls]
  /\ tasks \in Seq(Tasks)
  /\ underway \subseteq Messages
  /\ used \in [Requests -> SUBSET (Goroutines \X TileLayers)]
  /\ calls \in Nat /\ unanswered \in Nat

\* Has g submitted anything?
Submitted(g) == proc[g].layer # ""

Submitting == {"name", "filling", "type", "marshal", "sent"}

\* A call that was made has its arguments, and one whose body was written a Type.
WellFormed(call) ==
  /\ call.layer \in TileLayers /\ call.req \in Requests
  /\ call.pc \in {"marshal", "sent"} => req[call.req].Type # ""

Made ==
  /\ \A g \in Goroutines :
       /\ proc[g].pc # "idle" => Submitted(g)
       /\ proc[g].err = "mismatch" => Submitted(g)
       /\ proc[g].pc \in Submitting => proc[g].err = "nil"
       /\ Submitted(g) =>
            /\ WellFormed(proc[g])
            /\ <<g, proc[g].layer>> \in used[proc[g].req]
  /\ \A m \in underway : WellFormed(m.call) /\ m.call.pc = "sent"

\* Nobody else has submitted the request of g's call, and g for that layer alone.
Sole(g) == Submitted(g) /\ used[proc[g].req] = {<<g, proc[g].layer>>}

\* The name of a request that one goroutine uses for one layer.
OwnName ==
  \A g \in Goroutines : Sole(g) =>
    LET name == req[proc[g].req].Name
    IN /\ proc[g].pc \in {"type", "marshal", "sent"} => name # ""
       /\ proc[g].pc = "sent" => proc[g].name = name
       /\ proc[g].err = "mismatch" => name \notin {"", proc[g].layer}

\* What has left the list is over.
Unlisted == \A t \in DOMAIN tasks : ~tasks[t].listed => tasks[t].status \in Ended

Busy == {g \in Goroutines : proc[g].pc \in Submitting}

\* Each call is a goroutine that submits, a request on its way, a task, or over.
Counted ==
  /\ IsFiniteSet(Busy) /\ IsFiniteSet(underway)
  /\ Cardinality(Busy) + Cardinality(underway) + Len(tasks) <= calls
  /\ calls <= MaxCalls
  /\ unanswered <= MaxUnanswered

SeedingInv ==
  /\ Types /\ Made /\ OwnName /\ Unlisted /\ OverMeansOver /\ Counted

-----------------------------------------------------------------------------
(* One call changes. *)

\* A goroutine that has not called yet.
LEMMA IdleType == Idle \in Calls
<1>1. "idle" \in Steps /\ "" \in SomeName /\ "nil" \in Errors
  BY DEF Steps, SomeName, Errors
<1> QED
  BY <1>1 DEF Calls, Idle

\* The other goroutines stay where they are.
LEMMA OthersUnchanged ==
  ASSUME Types, NEW g \in Goroutines, NEW c \in Calls, proc' = [proc EXCEPT ![g] = c]
  PROVE  /\ proc' \in [Goroutines -> Calls]
         /\ proc'[g] = c
         /\ \A h \in Goroutines : h # g => proc'[h] = proc[h]
BY DEF Types

\* A goroutine begins to submit, or goes on with it.
LEMMA BusyMore ==
  ASSUME SeedingInv, NEW g \in Goroutines, NEW c \in Calls, proc' = [proc EXCEPT ![g] = c],
         c.pc \in Submitting
  PROVE  /\ IsFiniteSet(Busy') /\ Cardinality(Busy') \in Nat
         /\ Cardinality(Busy') <= Cardinality(Busy) + 1
         /\ proc[g].pc \in Submitting => Cardinality(Busy') = Cardinality(Busy)
<1>1. Types /\ IsFiniteSet(Busy)
  BY DEF SeedingInv, Counted
<1>2. Busy' = Busy \cup {g}
  BY <1>1, OthersUnchanged DEF Busy
<1>3. g \in Busy <=> proc[g].pc \in Submitting
  BY DEF Busy
<1>4. IsFiniteSet(Busy \cup {g}) /\ Cardinality(Busy) \in Nat
  BY <1>1, FS_AddElement, FS_CardinalityType
<1>5. Cardinality(Busy \cup {g}) = IF g \in Busy THEN Cardinality(Busy) ELSE Cardinality(Busy) + 1
  BY <1>1, FS_AddElement
<1> QED
  BY <1>2, <1>3, <1>4, <1>5

\* A goroutine is done with it, or does something else.
LEMMA BusyLess ==
  ASSUME SeedingInv, NEW g \in Goroutines, NEW c \in Calls, proc' = [proc EXCEPT ![g] = c],
         c.pc \notin Submitting
  PROVE  /\ IsFiniteSet(Busy') /\ Cardinality(Busy') \in Nat
         /\ Cardinality(Busy') <= Cardinality(Busy)
         /\ proc[g].pc \in Submitting => Cardinality(Busy') = Cardinality(Busy) - 1
<1>1. Types /\ IsFiniteSet(Busy)
  BY DEF SeedingInv, Counted
<1>2. Busy' = Busy \ {g}
  BY <1>1, OthersUnchanged DEF Busy
<1>3. g \in Busy <=> proc[g].pc \in Submitting
  BY DEF Busy
<1>4. IsFiniteSet(Busy \ {g}) /\ Cardinality(Busy) \in Nat
  BY <1>1, FS_RemoveElement, FS_CardinalityType
<1>5. Cardinality(Busy \ {g}) = IF g \in Busy THEN Cardinality(Busy) - 1 ELSE Cardinality(Busy)
  BY <1>1, FS_RemoveElement
<1>6. Cardinality(Busy \ {g}) \in Nat
  BY <1>4, FS_CardinalityType
<1> QED
  BY <1>2, <1>3, <1>4, <1>5, <1>6

-----------------------------------------------------------------------------
(* The steps of Submit. *)

\* What a goroutine that uses a request alone reads of its name.
LEMMA SeenAlone ==
  ASSUME Types, Made, NEW g \in Goroutines, Sole(g)
  PROVE  Writers(g) = {} /\ Seen(g) = {req[proc[g].req].Name}
<1>1. ASSUME NEW h \in Goroutines \ {g}, At(h, "filling"), proc[h].req = proc[g].req
      PROVE  FALSE
  <2>1. h # g /\ <<h, proc[h].layer>> \in used[proc[h].req]
    BY <1>1 DEF At, Made
  <2>2. <<h, proc[h].layer>> \in {<<g, proc[g].layer>>}
    BY <1>1, <2>1 DEF Sole
  <2> QED
    BY <2>1, <2>2
<1> QED
  BY <1>1 DEF Writers, Seen

\* What goroutines read is a name.
LEMMA SeenType ==
  ASSUME Types, Made, NEW g \in Goroutines, Submitted(g)
  PROVE  Seen(g) \subseteq SomeName
<1>1. \A h \in Goroutines : proc[h].layer \in TileLayers \cup {""}
  BY DEF Types, Calls
<1>2. proc[g].req \in Requests
  BY DEF Made, WellFormed
<1> QED
  BY <1>1, <1>2 DEF Types, SomeName, Seen, Writers

\* A step of a call that leaves its arguments, its error, the requests and the
\* server as they are.
LEMMA CallStepInv ==
  ASSUME SeedingInv, NEW g \in Goroutines, NEW c \in Calls, proc' = [proc EXCEPT ![g] = c],
         UNCHANGED <<req, tasks, underway, used, calls, unanswered>>,
         c.layer = proc[g].layer, c.req = proc[g].req, c.err = proc[g].err,
         proc[g].pc \in Submitting, c.pc \in Submitting,
         c.pc = "marshal" => req[c.req].Type # "",
         c.pc = "sent" => req[c.req].Type # "",
         Sole(g) =>
           LET name == req[c.req].Name
           IN /\ c.pc \in {"type", "marshal", "sent"} => name # ""
              /\ c.pc = "sent" => c.name = name
  PROVE  SeedingInv'
<1> USE DEF SeedingInv
<1>1. /\ proc' \in [Goroutines -> Calls] /\ proc'[g] = c
      /\ \A h \in Goroutines : h # g => proc'[h] = proc[h]
  BY OthersUnchanged
<1>2. proc[g].pc # "idle" /\ c.pc \notin {"idle", "finished"}
  BY DEF Submitting
<1>3. \A h \in Goroutines : Submitted(h)' <=> Submitted(h)
  BY <1>1 DEF Submitted
<1>4. Types'
  BY <1>1 DEF Types
<1>5. Made'
  <2>1. \A h \in Goroutines : h # g =>
          /\ proc'[h].pc # "idle" => Submitted(h)'
          /\ proc'[h].err = "mismatch" => Submitted(h)'
          /\ proc'[h].pc \in Submitting => proc'[h].err = "nil"
          /\ Submitted(h)' => WellFormed(proc[h])' /\ <<h, proc'[h].layer>> \in used[proc'[h].req]
    BY <1>1, <1>3 DEF Made, WellFormed
  <2>2. Submitted(g) /\ Submitted(g)' /\ WellFormed(proc[g])
    BY <1>2, <1>3 DEF Made
  <2>3. WellFormed(proc[g])' /\ <<g, proc'[g].layer>> \in used[proc'[g].req]
    BY <1>1, <2>2 DEF Made, WellFormed
  <2>5. proc'[g].err = "nil"
    BY <1>1 DEF Made
  <2>4. \A m \in underway : WellFormed(m.call)' /\ m.call.pc = "sent"
    BY DEF Made, WellFormed
  <2> QED
    BY <1>1, <2>1, <2>2, <2>3, <2>4, <2>5 DEF Made
<1>6. Unlisted'
  BY DEF Unlisted
<1>7. OwnName'
  <2> SUFFICES ASSUME NEW h \in Goroutines, Sole(h)'
               PROVE  LET name == req[proc'[h].req].Name
                      IN /\ proc'[h].pc \in {"type", "marshal", "sent"} => name # ""
                         /\ proc'[h].pc = "sent" => proc'[h].name = name
                         /\ proc'[h].err = "mismatch" => name \notin {"", proc'[h].layer}
    BY DEF OwnName
  <2>1. Sole(h)
    BY <1>1, <1>3 DEF Sole
  <2>2. CASE h = g
    BY <1>1, <2>1, <2>2 DEF OwnName
  <2>3. CASE h # g
    BY <1>1, <2>1, <2>3 DEF OwnName
  <2> QED
    BY <2>2, <2>3
<1>8. OverMeansOver'
  BY <1>1, <1>2 DEF OverMeansOver, At
<1>9. Counted'
  BY BusyMore DEF Counted
<1> QED
  BY <1>4, <1>5, <1>6, <1>7, <1>8, <1>9

\* if req.Name == "".
LEMMA NameInv ==
  ASSUME SeedingInv, NEW g \in Goroutines, Name(g)
  PROVE  SeedingInv'
<1>1. PICK name \in Seen(g) : Goes(g, IF name = "" THEN "filling" ELSE "type")
  BY DEF Name
<1>2. PICK c : c = [proc[g] EXCEPT !.pc = IF name = "" THEN "filling" ELSE "type"]
  OBVIOUS
<1>3. proc[g] \in Calls /\ proc[g].pc = "name"
  BY DEF SeedingInv, Types, Name, At
<1>4. /\ c \in Calls /\ c.pc = (IF name = "" THEN "filling" ELSE "type")
      /\ c.layer = proc[g].layer /\ c.req = proc[g].req /\ c.err = proc[g].err
  BY <1>2, <1>3 DEF Calls, Steps
<1>5. proc' = [proc EXCEPT ![g] = c]
  BY <1>1, <1>2 DEF Goes
<1>6. Sole(g) => (c.pc = "type" => req[c.req].Name # "")
  BY <1>1, <1>4, SeenAlone DEF SeedingInv
<1> QED
  BY <1>3, <1>4, <1>5, <1>6, CallStepInv DEF Name, Submitting

\* The body is written.
LEMMA MarshalInv ==
  ASSUME SeedingInv, NEW g \in Goroutines, Marshal(g)
  PROVE  SeedingInv'
<1>1. PICK name \in Seen(g) : proc' = [proc EXCEPT ![g].pc = "sent", ![g].name = name]
  BY DEF Marshal
<1>2. PICK c : c = [proc[g] EXCEPT !.pc = "sent", !.name = name]
  OBVIOUS
<1>3. proc[g] \in Calls /\ proc[g].pc = "marshal" /\ Submitted(g)
  BY DEF SeedingInv, Types, Made, Marshal, At
<1>4. /\ c \in Calls /\ c.pc = "sent" /\ c.name = name
      /\ c.layer = proc[g].layer /\ c.req = proc[g].req /\ c.err = proc[g].err
  <2>1. name \in SomeName
    BY <1>1, <1>3, SeenType DEF SeedingInv
  <2> QED
    BY <1>2, <1>3, <2>1 DEF Calls, Steps
<1>5. proc' = [proc EXCEPT ![g] = c]
  BY <1>1, <1>2, <1>3 DEF SeedingInv, Types
<1>6. req[c.req].Type # ""
  BY <1>3, <1>4 DEF SeedingInv, Made, WellFormed
<1>7. Sole(g) => c.name = req[c.req].Name /\ req[c.req].Name # ""
  BY <1>1, <1>3, <1>4, SeenAlone DEF SeedingInv, OwnName
<1> QED
  BY <1>3, <1>4, <1>5, <1>6, <1>7, CallStepInv DEF Marshal, Submitting

\* Facts about lists and numbers, by themselves.
LEMMA NoTasks == <<>> \in Seq(Tasks) /\ Len(<<>>) = 0 /\ DOMAIN <<>> = {}
OBVIOUS

\* No calls, no tasks and no faults are within every bound.
LEMMA Zero == 0 + 0 + 0 <= 0 /\ 0 <= MaxCalls /\ 0 <= MaxUnanswered
<1>1. MaxCalls \in Nat /\ MaxUnanswered \in Nat
  BY SeedingAssumption
<1> QED
  BY ONLY <1>1

\* A call that ends frees its place for what it leaves behind.
LEMMA Budget ==
  ASSUME NEW b \in Nat, NEW b1 \in Nat, NEW m \in Nat, NEW m1 \in Nat,
         NEW n \in Nat, NEW n1 \in Nat, NEW limit \in Nat,
         b1 = b - 1, m1 + n1 <= m + n + 1, b + m + n <= limit
  PROVE  b1 + m1 + n1 <= limit
OBVIOUS

\* The tasks have a number.
LEMMA TasksCounted ==
  ASSUME NEW s \in Seq(Tasks)
  PROVE  Len(s) \in Nat
OBVIOUS

\* A list with one more task.
LEMMA TaskAppended ==
  ASSUME NEW s \in Seq(Tasks), NEW t \in Tasks
  PROVE  /\ Append(s, t) \in Seq(Tasks) /\ Len(s) \in Nat
         /\ Len(Append(s, t)) = Len(s) + 1
         /\ \A i \in DOMAIN Append(s, t) :
              (i \in DOMAIN s /\ Append(s, t)[i] = s[i]) \/ Append(s, t)[i] = t
OBVIOUS

\* The messages on their way become one more.
LEMMA MessageAdded ==
  ASSUME IsFiniteSet(underway), NEW m, underway' = underway \cup {m}
  PROVE  /\ IsFiniteSet(underway') /\ Cardinality(underway') \in Nat
         /\ Cardinality(underway) \in Nat
         /\ Cardinality(underway') <= Cardinality(underway) + 1
<1>1. Cardinality(underway) \in Nat
  BY FS_CardinalityType
<1>2. IsFiniteSet(underway \cup {m})
  BY FS_AddElement
<1>3. Cardinality(underway \cup {m}) \in Nat
  BY <1>2, FS_CardinalityType
<1>4. Cardinality(underway \cup {m}) =
        IF m \in underway THEN Cardinality(underway) ELSE Cardinality(underway) + 1
  BY FS_AddElement
<1> QED
  BY <1>1, <1>2, <1>3, <1>4

\* What a step can have done to the tasks and the messages on behalf of g.
Kept(g) ==
  /\ tasks' \in Seq(Tasks)
  /\ \A t \in DOMAIN tasks' :
       \/ t \in DOMAIN tasks /\ tasks'[t] = tasks[t]
       \/ tasks'[t].listed /\ tasks'[t].by = g
  /\ \A m \in underway' :
       m \in underway \/ (m \in Messages /\ m.call.pc = "sent" /\ WellFormed(m.call))
  /\ IsFiniteSet(underway')
  /\ Cardinality(underway') + Len(tasks') <= Cardinality(underway) + Len(tasks) + 1

\* The three ways a call returns: it leaves nothing behind, a request, or a task.
LEMMA NothingKept ==
  ASSUME SeedingInv, NEW g \in Goroutines, UNCHANGED <<tasks, underway>>
  PROVE  Kept(g)
<1>1. tasks \in Seq(Tasks) /\ Len(tasks) \in Nat
  BY LenProperties DEF SeedingInv, Types
<1>2. IsFiniteSet(underway) /\ Cardinality(underway) \in Nat
  BY FS_CardinalityType DEF SeedingInv, Counted
<1>3. Cardinality(underway) + Len(tasks) <= Cardinality(underway) + Len(tasks) + 1
  BY <1>1, <1>2
<1> QED
  BY <1>1, <1>2, <1>3 DEF Kept

\* The request of a call that gives up is left on its way.
LEMMA MessageKept ==
  ASSUME SeedingInv, NEW g \in Goroutines, UNCHANGED tasks, NEW m \in Messages,
         m.call.pc = "sent", WellFormed(m.call), underway' = underway \cup {m}
  PROVE  Kept(g)
<1>1. tasks \in Seq(Tasks) /\ Len(tasks) \in Nat
  BY LenProperties DEF SeedingInv, Types
<1>2. /\ IsFiniteSet(underway') /\ Cardinality(underway') \in Nat
      /\ Cardinality(underway) \in Nat
      /\ Cardinality(underway') <= Cardinality(underway) + 1
  BY MessageAdded DEF SeedingInv, Counted
<1>3. Cardinality(underway') + Len(tasks) <= Cardinality(underway) + Len(tasks) + 1
  BY <1>1, <1>2
<1> QED
  BY <1>1, <1>2, <1>3 DEF Kept

\* The server queues a task for it.
LEMMA TaskKept ==
  ASSUME SeedingInv, NEW g \in Goroutines, UNCHANGED underway, NEW t \in Tasks,
         t.listed, t.by = g, tasks' = Append(tasks, t)
  PROVE  Kept(g)
<1>1. tasks \in Seq(Tasks)
  BY DEF SeedingInv, Types
<1>2. PICK s : s = Append(tasks, t)
  OBVIOUS
<1>3. /\ s \in Seq(Tasks) /\ Len(s) = Len(tasks) + 1 /\ Len(tasks) \in Nat
      /\ \A i \in DOMAIN s : (i \in DOMAIN tasks /\ s[i] = tasks[i]) \/ s[i] = t
  BY <1>1, <1>2, TaskAppended
<1>7. tasks' = s
  BY <1>2
<1>4. IsFiniteSet(underway) /\ Cardinality(underway) \in Nat
  BY FS_CardinalityType DEF SeedingInv, Counted
<1>5. Cardinality(underway') + Len(tasks') <= Cardinality(underway) + Len(tasks) + 1
  <2>1. Len(tasks') = Len(tasks) + 1
    BY <1>3, <1>7
  <2>2. Cardinality(underway') = Cardinality(underway)
    OBVIOUS
  <2> QED
    BY ONLY <1>3, <1>4, <2>1, <2>2
<1>6. IsFiniteSet(underway')
  BY <1>4
<1>8. tasks' \in Seq(Tasks)
  BY <1>3, <1>7
<1>9. ASSUME NEW i \in DOMAIN tasks'
      PROVE  (i \in DOMAIN tasks /\ tasks'[i] = tasks[i]) \/ tasks'[i] = t
  BY <1>3, <1>7
<1>10. \A m \in underway' : m \in underway
  OBVIOUS
<1> QED
  BY <1>5, <1>6, <1>8, <1>9, <1>10 DEF Kept

\* A call returns: with an error, or with the answer of a server that has handled
\* it, which may have queued a task; its request may be still underway.
LEMMA ReturnInv ==
  ASSUME SeedingInv, NEW g \in Goroutines, NEW c \in Calls, proc' = [proc EXCEPT ![g] = c],
         UNCHANGED <<req, used, calls>>,
         c.pc = "idle", c.layer = proc[g].layer, c.req = proc[g].req,
         proc[g].pc \in Submitting,
         c.err = "mismatch" /\ Sole(g) => req[c.req].Name \notin {"", c.layer},
         unanswered' \in Nat, unanswered' <= MaxUnanswered, Kept(g)
  PROVE  SeedingInv'
<1> USE DEF SeedingInv
<1>1. /\ proc' \in [Goroutines -> Calls] /\ proc'[g] = c
      /\ \A h \in Goroutines : h # g => proc'[h] = proc[h]
  BY OthersUnchanged
<1>2. proc[g].pc \notin {"idle", "finished"} /\ "idle" \notin Submitting
  BY DEF Submitting
<1>3. \A h \in Goroutines : Submitted(h)' <=> Submitted(h)
  BY <1>1 DEF Submitted
<1>4. /\ tasks' \in Seq(Tasks)
      /\ \A t \in DOMAIN tasks' :
           \/ t \in DOMAIN tasks /\ tasks'[t] = tasks[t]
           \/ tasks'[t].listed /\ tasks'[t].by = g
  BY DEF Kept
<1>5. \A m \in underway' :
        m \in underway \/ (m \in Messages /\ m.call.pc = "sent" /\ WellFormed(m.call))
  BY DEF Kept
<1>6. Types'
  BY <1>1, <1>4, <1>5 DEF Types
<1>7. Made'
  <2>1. \A h \in Goroutines : h # g =>
          /\ proc'[h].pc # "idle" => Submitted(h)'
          /\ proc'[h].err = "mismatch" => Submitted(h)'
          /\ proc'[h].pc \in Submitting => proc'[h].err = "nil"
          /\ Submitted(h)' => WellFormed(proc[h])' /\ <<h, proc'[h].layer>> \in used[proc'[h].req]
    BY <1>1, <1>3 DEF Made, WellFormed
  <2>2. Submitted(g) /\ Submitted(g)' /\ WellFormed(proc[g])
    BY <1>2, <1>3 DEF Made
  <2>3. WellFormed(proc[g])' /\ <<g, proc'[g].layer>> \in used[proc'[g].req]
    BY <1>1, <2>2 DEF Made, WellFormed
  <2>4. \A m \in underway' : WellFormed(m.call)' /\ m.call.pc = "sent"
    BY <1>5 DEF Made, WellFormed
  <2> QED
    BY <1>1, <1>2, <2>1, <2>2, <2>3, <2>4 DEF Made
<1>8. Unlisted'
  BY <1>4 DEF Unlisted
<1>9. OwnName'
  <2> SUFFICES ASSUME NEW h \in Goroutines, Sole(h)'
               PROVE  LET name == req[proc'[h].req].Name
                      IN /\ proc'[h].pc \in {"type", "marshal", "sent"} => name # ""
                         /\ proc'[h].pc = "sent" => proc'[h].name = name
                         /\ proc'[h].err = "mismatch" => name \notin {"", proc'[h].layer}
    BY DEF OwnName
  <2>1. Sole(h)
    BY <1>1, <1>3 DEF Sole
  <2>2. CASE h = g
    BY <1>1, <2>1, <2>2 DEF OwnName
  <2>3. CASE h # g
    BY <1>1, <2>1, <2>3 DEF OwnName
  <2> QED
    BY <2>2, <2>3
<1>10. OverMeansOver'
  <2> SUFFICES ASSUME NEW h \in Goroutines, proc'[h].pc = "finished", NEW t \in DOMAIN tasks',
                      tasks'[t].by = h, tasks'[t].nil, tasks'[t].layer = proc'[h].layer
               PROVE  tasks'[t].status \in Ended
    BY DEF OverMeansOver, At
  <2>1. h # g /\ proc'[h] = proc[h]
    BY <1>1
  <2>2. t \in DOMAIN tasks /\ tasks'[t] = tasks[t]
    BY <1>4, <2>1 DEF Types
  <2> QED
    BY <2>1, <2>2 DEF OverMeansOver, At
<1>11. Counted'
  <2>1. /\ IsFiniteSet(Busy') /\ Cardinality(Busy') \in Nat
        /\ Cardinality(Busy') = Cardinality(Busy) - 1
    BY <1>2, BusyLess
  <2>2. /\ IsFiniteSet(underway')
        /\ Cardinality(underway') + Len(tasks') <= Cardinality(underway) + Len(tasks) + 1
    BY DEF Kept
  <2>3. IsFiniteSet(Busy) /\ Cardinality(Busy) \in Nat
    BY FS_CardinalityType DEF Counted
  <2> QED
    <3>1. Cardinality(Busy) + Cardinality(underway) + Len(tasks) <= calls /\ calls \in Nat
      BY DEF Counted, Types
    <3>2. /\ Len(tasks) \in Nat /\ Len(tasks') \in Nat
          /\ Cardinality(underway) \in Nat /\ Cardinality(underway') \in Nat
      <4>1. tasks \in Seq(Tasks) /\ IsFiniteSet(underway)
        BY DEF Counted, Types
      <4>2. Len(tasks) \in Nat /\ Len(tasks') \in Nat
        BY <1>4, <4>1, TasksCounted
      <4> QED
        BY <2>2, <4>1, <4>2, FS_CardinalityType
    <3>3. Cardinality(Busy') + Cardinality(underway') + Len(tasks') <= calls
      BY ONLY <2>1, <2>2, <2>3, <3>1, <3>2, Budget
    <3> QED
      BY <2>1, <2>2, <3>3 DEF Counted
<1> QED
  BY <1>6, <1>7, <1>8, <1>9, <1>10, <1>11

\* if req.Type == "".
LEMMA TypeInv ==
  ASSUME SeedingInv, NEW g \in Goroutines, Type(g)
  PROVE  SeedingInv'
<1>1. /\ proc[g] \in Calls /\ proc[g].pc = "type" /\ Submitted(g)
      /\ proc[g].req \in Requests /\ proc[g].layer \in TileLayers
  BY DEF SeedingInv, Types, Made, WellFormed, Type, At
<1>2. CASE req[proc[g].req].Type # ""
  <2>1. PICK c : c = [proc[g] EXCEPT !.pc = "marshal"]
    OBVIOUS
  <2>2. /\ c \in Calls /\ c.pc = "marshal"
        /\ c.layer = proc[g].layer /\ c.req = proc[g].req /\ c.err = proc[g].err
    BY <1>1, <2>1 DEF Calls, Steps
  <2>3. proc' = [proc EXCEPT ![g] = c]
    BY <1>2, <2>1 DEF Type, Goes
  <2>4. Sole(g) => req[c.req].Name # ""
    BY <1>1, <2>2 DEF SeedingInv, OwnName
  <2> QED
    BY <1>1, <1>2, <2>2, <2>3, <2>4, CallStepInv DEF Type, Submitting
<1>3. CASE req[proc[g].req].Type = ""
  <2>1. PICK c : c = [proc[g] EXCEPT !.pc = "idle", !.err = "refused"]
    OBVIOUS
  <2>2. /\ c \in Calls /\ c.pc = "idle" /\ c.err = "refused"
        /\ c.layer = proc[g].layer /\ c.req = proc[g].req
    BY <1>1, <2>1 DEF Calls, Steps, Errors
  <2>3. proc' = [proc EXCEPT ![g] = c]
    BY <1>1, <1>3, <2>1 DEF Type, Returns, SeedingInv, Types
  <2> QED
    BY <1>1, <2>2, <2>3, NothingKept, ReturnInv DEF Type, Submitting, SeedingInv, Types, Counted
<1> QED
  BY <1>2, <1>3
\* What a message leaves in the queue of the server.
LEMMA QueuedType ==
  ASSUME Types, NEW call \in Calls, WellFormed(call), call.pc = "sent",
         NEW by \in Goroutines, NEW nil \in BOOLEAN
  PROVE  LET t == Queued(call, by, nil)
         IN /\ t \in Tasks /\ t.listed /\ t.by = by /\ t.nil = nil
            /\ t.req = call.req /\ t.layer = call.layer
<1>1. call.req \in Requests /\ call.layer \in TileLayers
  BY DEF WellFormed
<1>2. StatusPending \in Statuses
  BY DEF Statuses
<1> QED
  BY <1>1, <1>2 DEF Queued, Path, Tasks

\* A mismatch is not about the name of a request that is used alone for the layer,
\* or the name was neither empty nor the layer's.
LEMMA MismatchIsReal ==
  ASSUME SeedingInv, NEW g \in Goroutines, proc[g].pc = "sent", ~Accepted(proc[g]), Sole(g)
  PROVE  req[proc[g].req].Name \notin {"", proc[g].layer}
BY DEF SeedingInv, OwnName, Accepted, Path

\* The server answers, or its answer is lost.
LEMMA HandleInv ==
  ASSUME SeedingInv, NEW g \in Goroutines, Handle(g)
  PROVE  SeedingInv'
<1>1. /\ proc[g] \in Calls /\ proc[g].pc = "sent" /\ WellFormed(proc[g]) /\ Types
  BY DEF SeedingInv, Types, Made, Handle, At
<1>2. PICK lost \in BOOLEAN :
        /\ lost => unanswered < MaxUnanswered
        /\ unanswered' = IF lost THEN unanswered + 1 ELSE unanswered
        /\ tasks' = IF Accepted(proc[g]) THEN Append(tasks, Queued(proc[g], g, ~lost)) ELSE tasks
        /\ Returns(g, IF lost THEN "timeout"
                      ELSE IF Accepted(proc[g]) THEN "nil" ELSE "mismatch")
  BY DEF Handle
<1>3. PICK e : e = IF lost THEN "timeout" ELSE IF Accepted(proc[g]) THEN "nil" ELSE "mismatch"
  OBVIOUS
<1>4. PICK c : c = [proc[g] EXCEPT !.pc = "idle", !.err = e]
  OBVIOUS
<1>5. /\ c \in Calls /\ c.pc = "idle" /\ c.err = e
      /\ c.layer = proc[g].layer /\ c.req = proc[g].req
  <2>1. e \in Errors
    BY ONLY <1>3 DEF Errors
  <2> QED
    BY <1>1, <1>4, <2>1 DEF Calls, Steps
<1>6. proc' = [proc EXCEPT ![g] = c]
  BY <1>1, <1>2, <1>3, <1>4 DEF Returns, Types
<1>7. e = "mismatch" /\ Sole(g) => req[c.req].Name \notin {"", c.layer}
  <2>1. e = "mismatch" => ~Accepted(proc[g])
    BY ONLY <1>3
  <2> QED
    BY <1>1, <1>5, <2>1, MismatchIsReal
<1>8. unanswered' \in Nat /\ unanswered' <= MaxUnanswered
  <2>1. unanswered \in Nat /\ unanswered <= MaxUnanswered /\ MaxUnanswered \in Nat
    BY SeedingAssumption DEF SeedingInv, Types, Counted
  <2> QED
    BY ONLY <1>2, <2>1
<1>9. Kept(g)
  <2>1. CASE Accepted(proc[g])
    <3>1. PICK t : t = Queued(proc[g], g, ~lost)
      OBVIOUS
    <3>2. t \in Tasks /\ t.listed /\ t.by = g
      BY <1>1, <3>1, QueuedType
    <3>3. tasks' = Append(tasks, t) /\ UNCHANGED underway
      BY <1>2, <2>1, <3>1 DEF Handle
    <3> QED
      BY <3>2, <3>3, TaskKept
  <2>2. CASE ~Accepted(proc[g])
    <3>1. UNCHANGED <<tasks, underway>>
      BY <1>2, <2>2 DEF Handle
    <3> QED
      BY <3>1, NothingKept
  <2> QED
    BY <2>1, <2>2
<1>10. UNCHANGED <<req, used, calls>> /\ proc[g].pc \in Submitting
  BY <1>1 DEF Handle, Submitting
<1> QED
  BY <1>5, <1>6, <1>7, <1>8, <1>9, <1>10, ReturnInv

\* The request is still underway when Submit gives up.
LEMMA TimeOutInv ==
  ASSUME SeedingInv, NEW g \in Goroutines, TimeOut(g)
  PROVE  SeedingInv'
<1>1. /\ proc[g] \in Calls /\ proc[g].pc = "sent" /\ WellFormed(proc[g]) /\ Types
  BY DEF SeedingInv, Types, Made, TimeOut, At
<1>2. PICK c : c = [proc[g] EXCEPT !.pc = "idle", !.err = "timeout"]
  OBVIOUS
<1>3. /\ c \in Calls /\ c.pc = "idle" /\ c.err = "timeout"
      /\ c.layer = proc[g].layer /\ c.req = proc[g].req
  BY <1>1, <1>2 DEF Calls, Steps, Errors
<1>4. proc' = [proc EXCEPT ![g] = c]
  BY <1>1, <1>2 DEF Returns, TimeOut, Types
<1>5. unanswered' \in Nat /\ unanswered' <= MaxUnanswered
  <2>1. unanswered \in Nat /\ unanswered < MaxUnanswered /\ MaxUnanswered \in Nat
        /\ unanswered' = unanswered + 1
    BY SeedingAssumption DEF SeedingInv, Types, TimeOut
  <2> QED
    BY ONLY <2>1
<1>6. Kept(g)
  <2>1. PICK m : m = [call |-> proc[g], by |-> g]
    OBVIOUS
  <2>2. m \in Messages /\ m.call.pc = "sent" /\ WellFormed(m.call)
    BY <1>1, <2>1 DEF Messages
  <2>3. UNCHANGED tasks /\ underway' = underway \cup {m}
    BY <2>1 DEF TimeOut
  <2> QED
    BY <2>2, <2>3, MessageKept
<1>7. UNCHANGED <<req, used, calls>> /\ proc[g].pc \in Submitting
  BY <1>1 DEF TimeOut, Submitting
<1> QED
  BY <1>3, <1>4, <1>5, <1>6, <1>7, ReturnInv
-----------------------------------------------------------------------------
(* The steps of the server. *)

\* The task t, older: what it is about stays, and what is over stays over.
Older(t, u) ==
  /\ u.layer = t.layer /\ u.req = t.req /\ u.by = t.by /\ u.nil = t.nil
  /\ t.status \in Ended => u.status \in Ended
  /\ t.listed => u.listed \/ u.status \in Ended

\* A step of the server alone: tasks get older, or one comes from a message.
LEMMA ServerInv ==
  ASSUME SeedingInv, UNCHANGED <<req, proc, used, unanswered>>,
         calls' \in Nat, calls <= calls', calls' <= MaxCalls,
         underway' \subseteq underway, tasks' \in Seq(Tasks),
         \A t \in DOMAIN tasks' :
           \/ t \in DOMAIN tasks /\ Older(tasks[t], tasks'[t])
           \/ ~tasks'[t].nil /\ tasks'[t].listed,
         Cardinality(underway') + Len(tasks') <= Cardinality(underway) + Len(tasks)
  PROVE  SeedingInv'
<1>1. Types'
  BY DEF SeedingInv, Types
<1>2. Made'
  BY DEF SeedingInv, Made, WellFormed, Submitted
<1>4. OwnName'
  BY DEF SeedingInv, OwnName, Sole, Submitted
<1>5. Unlisted'
  BY DEF SeedingInv, Unlisted, Older
<1>6. OverMeansOver'
  BY DEF SeedingInv, OverMeansOver, Older, At
<1>7. Counted'
  <2>1. Busy' = Busy
    BY DEF Busy
  <2>2. /\ IsFiniteSet(Busy) /\ Cardinality(Busy) \in Nat
        /\ IsFiniteSet(underway) /\ Cardinality(underway) \in Nat
        /\ IsFiniteSet(underway') /\ Cardinality(underway') \in Nat
        /\ Len(tasks) \in Nat /\ Len(tasks') \in Nat /\ calls \in Nat
    BY FS_Subset, FS_CardinalityType, TasksCounted DEF SeedingInv, Counted, Types
  <2>3. Cardinality(Busy) + Cardinality(underway) + Len(tasks) <= calls /\ calls <= calls'
    BY DEF SeedingInv, Counted
  <2>4. Cardinality(underway') + Len(tasks') <= Cardinality(underway) + Len(tasks)
    OBVIOUS
  <2>5. calls' \in Nat
    OBVIOUS
  <2>6. Cardinality(Busy') = Cardinality(Busy)
    BY <2>1
  <2>7. Cardinality(Busy') + Cardinality(underway') + Len(tasks') <= calls'
    BY ONLY <2>2, <2>3, <2>4, <2>5, <2>6
  <2>8. IsFiniteSet(Busy') /\ unanswered' <= MaxUnanswered
    BY <2>1, <2>2 DEF SeedingInv, Counted
  <2> QED
    BY <2>2, <2>7, <2>8 DEF Counted
<1> QED
  BY <1>1, <1>2, <1>4, <1>5, <1>6, <1>7 DEF SeedingInv

\* A message that arrives is no longer on its way.
LEMMA MessageArrived ==
  ASSUME SeedingInv, NEW m \in underway, underway' = underway \ {m}
  PROVE  /\ Cardinality(underway') \in Nat /\ Cardinality(underway) \in Nat
         /\ Cardinality(underway') = Cardinality(underway) - 1
<1>1. IsFiniteSet(underway)
  BY DEF SeedingInv, Counted
<1>2. /\ IsFiniteSet(underway \ {m}) /\ Cardinality(underway) \in Nat
      /\ Cardinality(underway \ {m}) = Cardinality(underway) - 1
  BY <1>1, FS_RemoveElement, FS_CardinalityType
<1>3. Cardinality(underway \ {m}) \in Nat
  BY <1>2, FS_CardinalityType
<1> QED
  BY <1>2, <1>3

\* A request that Submit has given up arrives.
LEMMA ArriveInv ==
  ASSUME SeedingInv, NEW m \in underway, Arrive(m)
  PROVE  SeedingInv'
<1>1. /\ m.call \in Calls /\ m.by \in Goroutines /\ WellFormed(m.call) /\ m.call.pc = "sent"
      /\ Types /\ tasks \in Seq(Tasks) /\ calls \in Nat /\ calls <= MaxCalls
  BY DEF SeedingInv, Types, Made, Messages, Counted
<1>2. /\ Cardinality(underway') \in Nat /\ Cardinality(underway) \in Nat
      /\ Cardinality(underway') = Cardinality(underway) - 1
  BY MessageArrived DEF Arrive
<1>3. UNCHANGED <<req, proc, used, calls, unanswered>> /\ underway' \subseteq underway
  BY DEF Arrive
<1>4. CASE Accepted(m.call)
  <2>1. PICK t : t = Queued(m.call, m.by, FALSE)
    OBVIOUS
  <2>2. t \in Tasks /\ t.listed /\ ~t.nil
    BY <1>1, <2>1, QueuedType
  <2>3. PICK s : s = Append(tasks, t)
    OBVIOUS
  <2>4. /\ s \in Seq(Tasks) /\ Len(s) = Len(tasks) + 1 /\ Len(tasks) \in Nat
        /\ \A i \in DOMAIN s : (i \in DOMAIN tasks /\ s[i] = tasks[i]) \/ s[i] = t
    BY <1>1, <2>2, <2>3, TaskAppended
  <2>5. tasks' = s
    BY <1>4, <2>1, <2>3 DEF Arrive
  <2>6. Len(tasks') = Len(s)
    BY <2>5
  <2>7. Cardinality(underway') + Len(tasks') <= Cardinality(underway) + Len(tasks)
    BY ONLY <1>2, <2>4, <2>6
  <2>8. ASSUME NEW i \in DOMAIN tasks'
        PROVE  \/ i \in DOMAIN tasks /\ Older(tasks[i], tasks'[i])
               \/ ~tasks'[i].nil /\ tasks'[i].listed
    BY <2>2, <2>4, <2>5 DEF Older
  <2>9. tasks' \in Seq(Tasks) /\ calls' \in Nat /\ calls <= calls' /\ calls' <= MaxCalls
    BY <1>1, <1>3, <2>4, <2>5
  <2> QED
    BY <1>3, <2>7, <2>8, <2>9, ServerInv
<1>5. CASE ~Accepted(m.call)
  <2>1. UNCHANGED tasks
    BY <1>5 DEF Arrive
  <2>2. Len(tasks') = Len(tasks) /\ Len(tasks) \in Nat
    BY <1>1, <2>1, TasksCounted
  <2>3. Cardinality(underway') + Len(tasks') <= Cardinality(underway) + Len(tasks)
    BY ONLY <1>2, <2>2
  <2>4. \A i \in DOMAIN tasks' : i \in DOMAIN tasks /\ Older(tasks[i], tasks'[i])
    BY <2>1 DEF Older
  <2>5. tasks' \in Seq(Tasks) /\ calls' \in Nat /\ calls <= calls' /\ calls' <= MaxCalls
    BY <1>1, <1>3, <2>1
  <2> QED
    BY <1>3, <2>3, <2>4, <2>5, ServerInv
<1> QED
  BY <1>4, <1>5
\* The tasks get older, and none comes or goes.
LEMMA AgedInv ==
  ASSUME SeedingInv, UNCHANGED <<req, proc, used, unanswered, underway>>,
         calls' \in Nat, calls <= calls', calls' <= MaxCalls,
         NEW s \in Seq(Tasks), tasks' = s, Len(s) = Len(tasks),
         \A t \in DOMAIN s : t \in DOMAIN tasks /\ Older(tasks[t], s[t])
  PROVE  SeedingInv'
<1>1. Len(tasks) \in Nat /\ Cardinality(underway) \in Nat
  BY FS_CardinalityType, TasksCounted DEF SeedingInv, Types, Counted
<1>2. Len(tasks') = Len(tasks) /\ Cardinality(underway') = Cardinality(underway)
  OBVIOUS
<1>3. Cardinality(underway') + Len(tasks') <= Cardinality(underway) + Len(tasks)
  BY ONLY <1>1, <1>2
<1>4. \A t \in DOMAIN tasks' : t \in DOMAIN tasks /\ Older(tasks[t], tasks'[t])
  OBVIOUS
<1>5. tasks' \in Seq(Tasks) /\ underway' \subseteq underway
  OBVIOUS
<1> QED
  BY <1>3, <1>4, <1>5, ServerInv

\* A task of the list is replaced.
LEMMA TaskReplaced ==
  ASSUME NEW s \in Seq(Tasks), NEW t \in DOMAIN s, NEW u \in Tasks
  PROVE  LET r == [s EXCEPT ![t] = u]
         IN /\ r \in Seq(Tasks) /\ Len(r) = Len(s) /\ DOMAIN r = DOMAIN s
            /\ r[t] = u /\ \A i \in DOMAIN s : i # t => r[i] = s[i]
OBVIOUS

\* The steps of a task, and KillAll.
LEMMA ProgressInv ==
  ASSUME SeedingInv, NEW t \in DOMAIN tasks, Progress(t)
  PROVE  SeedingInv'
<1>1. tasks \in Seq(Tasks) /\ calls \in Nat /\ calls <= MaxCalls /\ tasks[t] \in Tasks
  BY DEF SeedingInv, Types, Counted
<1>2. PICK u : u = [tasks[t] EXCEPT !.status = @ + 1]
  OBVIOUS
<1>3. u \in Tasks /\ Older(tasks[t], u)
  <2>1. tasks[t].status \in {StatusPending, StatusRunning}
    BY <1>1 DEF Progress, Tasks, Statuses, Ended
  <2>2. tasks[t].status + 1 \in Statuses
    BY <2>1 DEF Statuses, StatusPending, StatusRunning, StatusDone
  <2>3. tasks[t].status \notin Ended
    BY DEF Progress
  <2> QED
    BY <1>1, <1>2, <2>2, <2>3 DEF Tasks, Older
<1>4. PICK s : s = [tasks EXCEPT ![t] = u]
  OBVIOUS
<1>5. /\ s \in Seq(Tasks) /\ Len(s) = Len(tasks) /\ DOMAIN s = DOMAIN tasks
      /\ s[t] = u /\ \A i \in DOMAIN tasks : i # t => s[i] = tasks[i]
  BY <1>1, <1>3, <1>4, TaskReplaced
<1>6. \A i \in DOMAIN s : i \in DOMAIN tasks /\ Older(tasks[i], s[i])
  BY <1>3, <1>5 DEF Older
<1>7. tasks' = s /\ UNCHANGED <<req, proc, used, unanswered, underway, calls>>
  BY <1>2, <1>4 DEF Progress
<1> QED
  BY <1>1, <1>5, <1>6, <1>7, AgedInv

\* An ended task leaves the list.
LEMMA ForgetInv ==
  ASSUME SeedingInv, NEW t \in DOMAIN tasks, Forget(t)
  PROVE  SeedingInv'
<1>1. tasks \in Seq(Tasks) /\ calls \in Nat /\ calls <= MaxCalls /\ tasks[t] \in Tasks
  BY DEF SeedingInv, Types, Counted
<1>2. PICK u : u = [tasks[t] EXCEPT !.listed = FALSE]
  OBVIOUS
<1>3. u \in Tasks /\ Older(tasks[t], u)
  BY <1>1, <1>2 DEF Tasks, Older, Forget
<1>4. PICK s : s = [tasks EXCEPT ![t] = u]
  OBVIOUS
<1>5. /\ s \in Seq(Tasks) /\ Len(s) = Len(tasks) /\ DOMAIN s = DOMAIN tasks
      /\ s[t] = u /\ \A i \in DOMAIN tasks : i # t => s[i] = tasks[i]
  BY <1>1, <1>3, <1>4, TaskReplaced
<1>6. \A i \in DOMAIN s : i \in DOMAIN tasks /\ Older(tasks[i], s[i])
  BY <1>3, <1>5 DEF Older
<1>7. tasks' = s /\ UNCHANGED <<req, proc, used, unanswered, underway, calls>>
  BY <1>2, <1>4 DEF Forget
<1> QED
  BY <1>1, <1>5, <1>6, <1>7, AgedInv

\* Every task that is not done is aborted.
LEMMA KillAllInv ==
  ASSUME SeedingInv, NEW g \in Goroutines, KillAll(g)
  PROVE  SeedingInv'
<1>1. tasks \in Seq(Tasks) /\ calls \in Nat
  BY DEF SeedingInv, Types
<1>2. PICK s : s = [t \in DOMAIN tasks |->
                      IF tasks[t].status = StatusDone THEN tasks[t]
                      ELSE [tasks[t] EXCEPT !.status = StatusAborted]]
  OBVIOUS
<1>3. DOMAIN s = DOMAIN tasks
  BY <1>2
<1>4. ASSUME NEW t \in DOMAIN tasks
      PROVE  s[t] \in Tasks /\ Older(tasks[t], s[t])
  <2>1. tasks[t] \in Tasks
    BY <1>1
  <2>2. s[t] = tasks[t] \/ s[t] = [tasks[t] EXCEPT !.status = StatusAborted]
    BY <1>2
  <2>3. StatusAborted \in Statuses /\ StatusAborted \in Ended
    BY DEF Statuses, Ended
  <2> QED
    BY <2>1, <2>2, <2>3 DEF Tasks, Older
<1>5. s \in Seq(Tasks) /\ Len(s) = Len(tasks)
  <2>1. DOMAIN s = 1..Len(tasks) /\ Len(tasks) \in Nat
    BY <1>1, <1>3, LenProperties
  <2>2. s = [t \in 1..Len(tasks) |-> s[t]]
    BY <1>2, <2>1
  <2>3. s \in [1..Len(tasks) -> Tasks]
    BY <1>4, <2>1, <2>2, <1>3
  <2> QED
    BY <2>1, <2>2, <2>3
<1>6. \A t \in DOMAIN s : t \in DOMAIN tasks /\ Older(tasks[t], s[t])
  BY <1>3, <1>4
<1>7. tasks' = s /\ UNCHANGED <<req, proc, used, unanswered, underway>>
  BY <1>2 DEF KillAll
<1>8. calls' \in Nat /\ calls <= calls' /\ calls' <= MaxCalls
  <2>1. calls' = calls + 1 /\ calls < MaxCalls /\ MaxCalls \in Nat
    BY SeedingAssumption DEF KillAll
  <2> QED
    BY ONLY <1>1, <2>1
<1> QED
  BY <1>5, <1>6, <1>7, <1>8, AgedInv
-----------------------------------------------------------------------------
(* Submit, the name it fills, and polling. *)

\* Who submits a request for a layer takes it from whoever had it alone.
LEMMA SubmitTakes ==
  ASSUME Types, Made, NEW g \in Goroutines, NEW layer \in TileLayers, NEW r \in Requests,
         used' = [used EXCEPT ![r] = @ \cup {<<g, layer>>}],
         NEW h \in Goroutines, h # g, proc'[h] = proc[h], Sole(h)'
  PROVE  Sole(h)
<1>1. proc[h].req \in Requests /\ Submitted(h)
  BY DEF Made, WellFormed, Sole, Submitted
<1>2. used'[proc[h].req] = {<<h, proc[h].layer>>}
  BY DEF Sole
<1>3. proc[h].req # r
  <2> SUFFICES ASSUME proc[h].req = r PROVE FALSE
    OBVIOUS
  <2>1. <<g, layer>> \in used'[r]
    BY DEF Types
  <2>2. <<g, layer>> = <<h, proc[h].layer>>
    BY <1>2, <2>1
  <2> QED
    BY <2>2
<1>4. used'[proc[h].req] = used[proc[h].req]
  BY <1>1, <1>3 DEF Types
<1> QED
  BY <1>1, <1>2, <1>4 DEF Sole

\* Submit is called.
LEMMA SubmitInv ==
  ASSUME SeedingInv, NEW g \in Goroutines, NEW layer \in TileLayers, NEW r \in Requests,
         Submit(g, layer, r)
  PROVE  SeedingInv'
<1> USE DEF SeedingInv
<1>1. PICK c : c = [Idle EXCEPT !.pc = "name", !.layer = layer, !.req = r]
  OBVIOUS
<1>2. c \in Calls /\ c.pc = "name" /\ c.layer = layer /\ c.req = r /\ c.err = "nil"
  BY <1>1, IdleType DEF Calls, Steps, Idle
<1>3. /\ proc' = [proc EXCEPT ![g] = c]
      /\ used' = [used EXCEPT ![r] = @ \cup {<<g, layer>>}]
      /\ UNCHANGED <<req, tasks, underway, unanswered>>
  BY <1>1 DEF Submit
<1>4. /\ proc' \in [Goroutines -> Calls] /\ proc'[g] = c
      /\ \A h \in Goroutines : h # g => proc'[h] = proc[h]
  BY <1>2, <1>3, OthersUnchanged
<1>5. calls' = calls + 1 /\ calls < MaxCalls /\ calls \in Nat /\ MaxCalls \in Nat
  BY SeedingAssumption DEF Submit, Types
<1>6. \A q \in Requests : used[q] \subseteq used'[q]
  BY <1>3 DEF Types
<1>7. <<g, layer>> \in used'[r] /\ layer # ""
  BY <1>3, SeedingAssumption DEF Types
<1>8. Types'
  <2>1. used' \in [Requests -> SUBSET (Goroutines \X TileLayers)]
    BY <1>3 DEF Types
  <2> QED
    BY <1>3, <1>4, <1>5, <2>1 DEF Types
<1>9. Made'
  <2>1. ASSUME NEW h \in Goroutines, h # g
        PROVE  /\ proc'[h].pc # "idle" => Submitted(h)'
               /\ proc'[h].err = "mismatch" => Submitted(h)'
               /\ proc'[h].pc \in Submitting => proc'[h].err = "nil"
               /\ Submitted(h)' =>
                    /\ WellFormed(proc[h])' /\ <<h, proc'[h].layer>> \in used'[proc'[h].req]
    BY <1>3, <1>4, <1>6, <2>1 DEF Made, WellFormed, Submitted
  <2>2. Submitted(g)' /\ WellFormed(proc[g])' /\ <<g, proc'[g].layer>> \in used'[proc'[g].req]
    BY <1>2, <1>4, <1>7 DEF Submitted, WellFormed
  <2>3. \A m \in underway' : WellFormed(m.call)' /\ m.call.pc = "sent"
    BY <1>3 DEF Made, WellFormed
  <2> QED
    BY <1>2, <1>4, <2>1, <2>2, <2>3 DEF Made
<1>10. Unlisted'
  BY <1>3 DEF Unlisted
<1>11. OwnName'
  <2> SUFFICES ASSUME NEW h \in Goroutines, Sole(h)'
               PROVE  LET name == req'[proc'[h].req].Name
                      IN /\ proc'[h].pc \in {"type", "marshal", "sent"} => name # ""
                         /\ proc'[h].pc = "sent" => proc'[h].name = name
                         /\ proc'[h].err = "mismatch" => name \notin {"", proc'[h].layer}
    BY DEF OwnName
  <2>1. CASE h = g
    BY <1>2, <1>4, <2>1
  <2>2. CASE h # g
    <3>1. Sole(h)
      BY <1>3, <1>4, <2>2, SubmitTakes
    <3> QED
      BY <1>3, <1>4, <2>2, <3>1 DEF OwnName
  <2> QED
    BY <2>1, <2>2
<1>12. OverMeansOver'
  BY <1>2, <1>3, <1>4 DEF OverMeansOver, At
<1>13. Counted'
  <2>1. c.pc \in Submitting
    BY <1>2 DEF Submitting
  <2>2. /\ IsFiniteSet(Busy') /\ Cardinality(Busy') \in Nat
        /\ Cardinality(Busy') <= Cardinality(Busy) + 1
    BY <1>2, <1>3, <2>1, BusyMore
  <2>3. /\ Cardinality(Busy) \in Nat /\ Cardinality(underway) \in Nat /\ Len(tasks) \in Nat
        /\ IsFiniteSet(underway)
        /\ Cardinality(Busy) + Cardinality(underway) + Len(tasks) <= calls
        /\ unanswered <= MaxUnanswered
    BY FS_CardinalityType, TasksCounted DEF Types, Counted
  <2>4. Cardinality(underway') = Cardinality(underway) /\ Len(tasks') = Len(tasks)
    BY <1>3
  <2>5. Cardinality(Busy') + Cardinality(underway') + Len(tasks') <= calls'
    BY ONLY <1>5, <2>2, <2>3, <2>4
  <2>6. calls' <= MaxCalls
    BY ONLY <1>5
  <2> QED
    BY <1>3, <2>2, <2>3, <2>5, <2>6 DEF Counted
<1> QED
  BY <1>8, <1>9, <1>10, <1>11, <1>12, <1>13

\* req.Name = layer.
LEMMA FillInv ==
  ASSUME SeedingInv, NEW g \in Goroutines, Fill(g)
  PROVE  SeedingInv'
<1> USE DEF SeedingInv
<1>1. /\ proc[g] \in Calls /\ proc[g].pc = "filling" /\ Submitted(g) /\ WellFormed(proc[g])
      /\ proc[g].req \in Requests /\ proc[g].layer \in TileLayers
      /\ <<g, proc[g].layer>> \in used[proc[g].req] /\ proc[g].err = "nil"
  BY DEF Types, Made, WellFormed, Fill, At, Submitting
<1>2. PICK q : q = proc[g].req
  OBVIOUS
<1>3. PICK name :
        name = IF Writers(g) = {} \/ req[q].Name \in {"", proc[g].layer}
               THEN proc[g].layer ELSE "torn"
  OBVIOUS
<1>4. name \in SomeName /\ name # "" /\ q \in Requests
  BY <1>1, <1>2, <1>3, SeedingAssumption DEF SomeName
<1>5. req' = [req EXCEPT ![q].Name = name]
  BY <1>2, <1>3 DEF Fill
<1>6. /\ req' \in [Requests -> [Name : SomeName, Type : SomeType]]
      /\ req'[q].Name = name
      /\ \A r \in Requests : req'[r].Type = req[r].Type /\ (r # q => req'[r] = req[r])
  BY <1>4, <1>5 DEF Types
<1>7. PICK c : c = [proc[g] EXCEPT !.pc = "type"]
  OBVIOUS
<1>8. /\ c \in Calls /\ c.pc = "type"
      /\ c.layer = proc[g].layer /\ c.req = proc[g].req /\ c.err = proc[g].err
  BY <1>1, <1>7 DEF Calls, Steps
<1>9. proc' = [proc EXCEPT ![g] = c] /\ UNCHANGED <<tasks, underway, used, calls, unanswered>>
  BY <1>7 DEF Fill, Goes
<1>10. /\ proc' \in [Goroutines -> Calls] /\ proc'[g] = c
       /\ \A h \in Goroutines : h # g => proc'[h] = proc[h]
  BY <1>8, <1>9, OthersUnchanged
<1>11. \A h \in Goroutines : Submitted(h)' <=> Submitted(h)
  BY <1>8, <1>10 DEF Submitted
<1>12. \A call : WellFormed(call) /\ call.pc # "type" => WellFormed(call)'
  BY <1>6 DEF WellFormed
<1>13. Types'
  BY <1>6, <1>9, <1>10 DEF Types
<1>14. Made'
  <2>1. ASSUME NEW h \in Goroutines, h # g
        PROVE  /\ proc'[h].pc # "idle" => Submitted(h)'
               /\ proc'[h].err = "mismatch" => Submitted(h)'
               /\ proc'[h].pc \in Submitting => proc'[h].err = "nil"
               /\ Submitted(h)' =>
                    /\ WellFormed(proc[h])' /\ <<h, proc'[h].layer>> \in used'[proc'[h].req]
    BY <1>6, <1>9, <1>10, <1>11, <2>1 DEF Made, WellFormed
  <2>2. Submitted(g)' /\ WellFormed(proc[g])' /\ <<g, proc'[g].layer>> \in used'[proc'[g].req]
    BY <1>1, <1>8, <1>9, <1>10, <1>11 DEF WellFormed
  <2>3. \A m \in underway' : WellFormed(m.call)' /\ m.call.pc = "sent"
    BY <1>6, <1>9 DEF Made, WellFormed
  <2> QED
    BY <1>1, <1>8, <1>10, <2>1, <2>2, <2>3 DEF Made
<1>15. Unlisted'
  BY <1>9 DEF Unlisted
<1>16. OwnName'
  <2> SUFFICES ASSUME NEW h \in Goroutines, Sole(h)'
               PROVE  LET n == req'[proc'[h].req].Name
                      IN /\ proc'[h].pc \in {"type", "marshal", "sent"} => n # ""
                         /\ proc'[h].pc = "sent" => proc'[h].name = n
                         /\ proc'[h].err = "mismatch" => n \notin {"", proc'[h].layer}
    BY DEF OwnName
  <2>1. Sole(h)
    BY <1>8, <1>9, <1>10, <1>11 DEF Sole
  <2>2. CASE h = g
    <3>1. /\ req'[proc'[h].req].Name # ""
          /\ proc'[h].pc = "type" /\ proc'[h].err = "nil"
      BY <1>1, <1>2, <1>4, <1>6, <1>8, <1>10, <2>2
    <3> QED
      BY ONLY <3>1
  <2>3. CASE h # g
    <3>1. proc[h].req # q
      <4> SUFFICES ASSUME proc[h].req = q PROVE FALSE
        OBVIOUS
      <4>1. <<g, proc[g].layer>> \in {<<h, proc[h].layer>>}
        BY <1>1, <1>2, <2>1 DEF Sole
      <4> QED
        BY <2>3, <4>1
    <3>2. proc[h].req \in Requests
      BY <2>1 DEF Sole, Made, WellFormed
    <3>3. req'[proc'[h].req] = req[proc[h].req] /\ proc'[h] = proc[h]
      BY <1>6, <1>10, <2>3, <3>1, <3>2
    <3> QED
      BY <2>1, <3>3 DEF OwnName
  <2> QED
    BY <2>2, <2>3
<1>17. OverMeansOver'
  BY <1>8, <1>9, <1>10 DEF OverMeansOver, At
<1>18. Counted'
  <2>1. c.pc \in Submitting /\ proc[g].pc \in Submitting
    BY <1>1, <1>8 DEF Submitting
  <2>2. IsFiniteSet(Busy') /\ Cardinality(Busy') = Cardinality(Busy)
    BY <1>8, <1>9, <2>1, BusyMore
  <2> QED
    BY <1>9, <2>2 DEF Counted
<1> QED
  BY <1>13, <1>14, <1>15, <1>16, <1>17, <1>18
\* A goroutine that does not submit starts to poll, polls again, or is done.
LEMMA PollInv ==
  ASSUME SeedingInv, NEW g \in Goroutines, NEW c \in Calls, proc' = [proc EXCEPT ![g] = c],
         UNCHANGED <<req, tasks, underway, used, calls, unanswered>>,
         c.layer = proc[g].layer, c.req = proc[g].req, c.err = proc[g].err,
         Submitted(g), c.pc \in {"polling", "finished"},
         c.pc = "finished" =>
           \A t \in DOMAIN tasks : tasks[t].layer = c.layer => tasks[t].status \in Ended
  PROVE  SeedingInv'
<1> USE DEF SeedingInv
<1>1. /\ proc' \in [Goroutines -> Calls] /\ proc'[g] = c
      /\ \A h \in Goroutines : h # g => proc'[h] = proc[h]
  BY OthersUnchanged
<1>2. c.pc \notin Submitting /\ c.pc \notin {"type", "marshal", "sent", "idle"}
  BY DEF Submitting
<1>3. \A h \in Goroutines : Submitted(h)' <=> Submitted(h)
  BY <1>1 DEF Submitted
<1>4. Types'
  BY <1>1 DEF Types
<1>5. Made'
  <2>1. ASSUME NEW h \in Goroutines, h # g
        PROVE  /\ proc'[h].pc # "idle" => Submitted(h)'
               /\ proc'[h].err = "mismatch" => Submitted(h)'
               /\ proc'[h].pc \in Submitting => proc'[h].err = "nil"
               /\ Submitted(h)' =>
                    /\ WellFormed(proc[h])' /\ <<h, proc'[h].layer>> \in used[proc'[h].req]
    BY <1>1, <1>3, <2>1 DEF Made, WellFormed
  <2>2. Submitted(g)' /\ WellFormed(proc[g])' /\ <<g, proc'[g].layer>> \in used[proc'[g].req]
    BY <1>1, <1>2, <1>3 DEF Made, WellFormed
  <2>3. \A m \in underway : WellFormed(m.call)' /\ m.call.pc = "sent"
    BY DEF Made, WellFormed
  <2> QED
    BY <1>1, <1>2, <2>1, <2>2, <2>3 DEF Made
<1>6. Unlisted'
  BY DEF Unlisted
<1>7. OwnName'
  <2> SUFFICES ASSUME NEW h \in Goroutines, Sole(h)'
               PROVE  LET name == req[proc'[h].req].Name
                      IN /\ proc'[h].pc \in {"type", "marshal", "sent"} => name # ""
                         /\ proc'[h].pc = "sent" => proc'[h].name = name
                         /\ proc'[h].err = "mismatch" => name \notin {"", proc'[h].layer}
    BY DEF OwnName
  <2>1. Sole(h)
    BY <1>1, <1>3 DEF Sole
  <2>2. CASE h = g
    <3>1. c.err = "mismatch" => req[c.req].Name \notin {"", c.layer}
      BY <2>1, <2>2 DEF OwnName
    <3> QED
      BY <1>1, <1>2, <2>2, <3>1
  <2>3. CASE h # g
    BY <1>1, <2>1, <2>3 DEF OwnName
  <2> QED
    BY <2>2, <2>3
<1>8. OverMeansOver'
  BY <1>1 DEF OverMeansOver, At
<1>9. Counted'
  <2>1. /\ IsFiniteSet(Busy') /\ Cardinality(Busy') \in Nat
        /\ Cardinality(Busy') <= Cardinality(Busy)
    BY <1>2, BusyLess
  <2>2. /\ Cardinality(Busy) \in Nat /\ Cardinality(underway) \in Nat /\ Len(tasks) \in Nat
        /\ Cardinality(Busy) + Cardinality(underway) + Len(tasks) <= calls /\ calls \in Nat
    BY FS_CardinalityType, TasksCounted DEF Types, Counted
  <2>3. Cardinality(Busy') + Cardinality(underway) + Len(tasks) <= calls
    BY ONLY <2>1, <2>2
  <2> QED
    BY <2>1, <2>3 DEF Counted
<1> QED
  BY <1>4, <1>5, <1>6, <1>7, <1>8, <1>9

\* The caller turns to polling.
LEMMA WaitInv ==
  ASSUME SeedingInv, NEW g \in Goroutines, Wait(g)
  PROVE  SeedingInv'
<1>1. proc[g] \in Calls /\ Submitted(g)
  BY DEF SeedingInv, Types, Wait, Submitted
<1>2. PICK c : c = [proc[g] EXCEPT !.pc = "polling"]
  OBVIOUS
<1>3. /\ c \in Calls /\ c.pc = "polling"
      /\ c.layer = proc[g].layer /\ c.req = proc[g].req /\ c.err = proc[g].err
  BY <1>1, <1>2 DEF Calls, Steps
<1>4. proc' = [proc EXCEPT ![g] = c]
  BY <1>2 DEF Wait, Goes
<1> QED
  BY <1>1, <1>3, <1>4, PollInv DEF Wait

\* Nothing is active among the tasks the server lists: what it no longer lists is over.
LEMMA StatusInv ==
  ASSUME SeedingInv, NEW g \in Goroutines, Status(g)
  PROVE  SeedingInv'
<1>1. proc[g] \in Calls /\ Submitted(g) /\ tasks \in Seq(Tasks)
  BY DEF SeedingInv, Types, Made, Status, At
<1>2. PICK active \in BOOLEAN :
        active <=> \E t \in Rows(proc[g].layer) : Active(tasks[t].status)
  OBVIOUS
<1>3. PICK c : c = [proc[g] EXCEPT !.pc = IF active THEN "polling" ELSE "finished"]
  OBVIOUS
<1>4. /\ c \in Calls /\ c.pc = (IF active THEN "polling" ELSE "finished")
      /\ c.layer = proc[g].layer /\ c.req = proc[g].req /\ c.err = proc[g].err
  BY <1>1, <1>3 DEF Calls, Steps
<1>5. proc' = [proc EXCEPT ![g] = c]
  BY <1>2, <1>3 DEF Status, Goes
<1>6. ASSUME ~active, NEW t \in DOMAIN tasks, tasks[t].layer = c.layer
      PROVE  tasks[t].status \in Ended
  <2>1. CASE tasks[t].listed
    <3>1. ~Active(tasks[t].status)
      BY <1>2, <1>4, <1>6, <2>1 DEF Rows
    <3>2. tasks[t].status \in Statuses
      <4>1. tasks[t] \in Tasks
        BY <1>1
      <4> QED
        BY <4>1 DEF Tasks
    <3> QED
      BY <3>1, <3>2 DEF Active, Statuses, Ended
  <2>2. CASE ~tasks[t].listed
    BY <2>2 DEF SeedingInv, Unlisted
  <2> QED
    BY <2>1, <2>2
<1> QED
  BY <1>1, <1>4, <1>5, <1>6, PollInv DEF Status
-----------------------------------------------------------------------------
(* Every behaviour. *)

\* No call has been made.
LEMMA InitInv ==
  ASSUME SeedingInit
  PROVE  SeedingInv
<1> USE DEF SeedingInit
<1>1. \A g \in Goroutines : proc[g] = Idle
  OBVIOUS
<1>2. Idle.pc = "idle" /\ Idle.layer = "" /\ Idle.err = "nil"
  BY DEF Idle
<1>3. Types
  <2>1. proc \in [Goroutines -> Calls]
    BY IdleType
  <2>2. [Name : TileLayers \cup {""}, Type : {"", "seed"}]
          \subseteq [Name : SomeName, Type : SomeType]
    BY DEF SomeName, SomeType
  <2>3. req \in [Requests -> [Name : SomeName, Type : SomeType]]
    BY <2>2
  <2>4. tasks \in Seq(Tasks)
    BY NoTasks
  <2>5. used \in [Requests -> SUBSET (Goroutines \X TileLayers)]
    OBVIOUS
  <2> QED
    BY <2>1, <2>3, <2>4, <2>5 DEF Types
<1>4. Made /\ OwnName
  BY <1>1, <1>2 DEF Made, OwnName, Sole, Submitted, Submitting
<1>5. Unlisted /\ OverMeansOver
  <2>1. DOMAIN tasks = {}
    BY NoTasks
  <2> QED
    BY <2>1 DEF Unlisted, OverMeansOver
<1>6. Counted
  <2>1. Busy = {}
    BY <1>1, <1>2 DEF Busy, Submitting
  <2>2. IsFiniteSet({}) /\ Cardinality({}) = 0
    BY FS_EmptySet
  <2>3. Len(tasks) = 0 /\ Cardinality(Busy) = 0 /\ Cardinality(underway) = 0
    BY <2>1, <2>2, NoTasks
  <2>4. calls = 0 /\ unanswered = 0
    OBVIOUS
  <2>5. Cardinality(Busy) + Cardinality(underway) + Len(tasks) <= calls
    BY <2>3, <2>4, Zero
  <2>6. 0 <= MaxCalls /\ 0 <= MaxUnanswered
    BY Zero
  <2>7. IsFiniteSet(Busy) /\ IsFiniteSet(underway)
    BY <2>1, <2>2
  <2> QED
    BY <2>4, <2>5, <2>6, <2>7 DEF Counted
<1> QED
  BY <1>3, <1>4, <1>5, <1>6 DEF SeedingInv

\* Nothing happens.
LEMMA StutterInv ==
  ASSUME SeedingInv, UNCHANGED seedingVars
  PROVE  SeedingInv'
<1>1. UNCHANGED <<req, proc, tasks, underway, used, calls, unanswered>>
  BY DEF seedingVars
<1>2. calls \in Nat /\ calls <= MaxCalls /\ tasks \in Seq(Tasks)
  BY DEF SeedingInv, Types, Counted
<1>3. \A t \in DOMAIN tasks : Older(tasks[t], tasks[t])
  BY DEF Older
<1> QED
  BY <1>1, <1>2, <1>3, AgedInv

\* Each action keeps the invariant.
LEMMA StepInv ==
  ASSUME SeedingInv, [SeedingNext]_seedingVars
  PROVE  SeedingInv'
<1>1. ASSUME NEW g \in Goroutines, NEW layer \in TileLayers, NEW r \in Requests,
             Submit(g, layer, r)
      PROVE  SeedingInv'
  BY <1>1, SubmitInv
<1>2. ASSUME NEW g \in Goroutines,
             Name(g) \/ Fill(g) \/ Type(g) \/ Marshal(g) \/ Handle(g) \/ TimeOut(g)
      PROVE  SeedingInv'
  BY <1>2, NameInv, FillInv, TypeInv, MarshalInv, HandleInv, TimeOutInv
<1>3. ASSUME NEW g \in Goroutines, KillAll(g) \/ Wait(g) \/ Status(g)
      PROVE  SeedingInv'
  BY <1>3, KillAllInv, WaitInv, StatusInv
<1>4. ASSUME NEW m \in underway, Arrive(m)
      PROVE  SeedingInv'
  BY <1>4, ArriveInv
<1>5. ASSUME NEW t \in DOMAIN tasks, Progress(t) \/ Forget(t)
      PROVE  SeedingInv'
  BY <1>5, ProgressInv, ForgetInv
<1> QED
  BY <1>1, <1>2, <1>3, <1>4, <1>5, StutterInv DEF SeedingNext

\* The inductive invariant holds of the program.
THEOREM SeedingInductive == SeedingSpec => []SeedingInv
<1>1. SeedingInit => SeedingInv
  BY InitInv
<1>2. SeedingInv /\ [SeedingNext]_seedingVars => SeedingInv'
  BY StepInv
<1> QED
  BY <1>1, <1>2, PTL DEF SeedingSpec

\* The requests, the calls and the tasks of the server are what they should be,
\* and no call leaves more behind than one task or one request on its way.
THEOREM SeedingTypes == SeedingSpec => []TypeOK
<1>1. SeedingInv => TypeOK
  <2> SUFFICES ASSUME SeedingInv PROVE TypeOK
    OBVIOUS
  <2> USE DEF SeedingInv
  <2>1. \A r \in Requests : req[r].Name \in TileLayers \cup {"", "torn"}
    BY DEF Types, SomeName
  <2>2. ASSUME NEW g \in Goroutines
        PROVE  /\ proc[g].pc \in Steps
               /\ proc[g].name \in TileLayers \cup {"", "torn"}
               /\ proc[g].err \in {"nil", "refused", "timeout", "mismatch"}
    BY DEF Types, Calls, SomeName, Errors
  <2>3. ASSUME NEW t \in DOMAIN tasks
        PROVE  tasks[t].layer \in TileLayers /\ tasks[t].status \in StatusAborted..StatusDone
    <3>1. tasks \in Seq(Tasks)
      BY DEF Types
    <3>2. tasks[t] \in Tasks
      BY <3>1
    <3>3. tasks[t].layer \in TileLayers /\ tasks[t].status \in Statuses
      BY <3>2 DEF Tasks
    <3>4. Statuses \subseteq StatusAborted..StatusDone
      BY DEF Statuses, StatusAborted, StatusPending, StatusRunning, StatusDone
    <3> QED
      BY <3>3, <3>4
  <2>4. Len(tasks) + Cardinality(underway) <= calls /\ calls <= MaxCalls
        /\ unanswered <= MaxUnanswered
    <3>1. /\ Cardinality(Busy) \in Nat /\ Cardinality(underway) \in Nat /\ Len(tasks) \in Nat
          /\ Cardinality(Busy) + Cardinality(underway) + Len(tasks) <= calls /\ calls \in Nat
      BY FS_CardinalityType, TasksCounted DEF Types, Counted
    <3>2. Len(tasks) + Cardinality(underway) <= calls
      BY ONLY <3>1
    <3> QED
      BY <3>2 DEF Counted
  <2> QED
    BY <2>1, <2>2, <2>3, <2>4 DEF TypeOK
<1> QED
  BY <1>1, SeedingInductive, PTL

\* What is known of a request that no two goroutines had in Submit at one time: one
\* of them at most is at it, who is about to write its name found it empty, and
\* whatever was sent and will be accepted, or was, is for the layer it names.
Unnamed(r) == req[r].Name = ""

Naming ==
  \A r \in Requests \ shared :
    /\ \A g, h \in Goroutines : Holds(g, r) /\ Holds(h, r) => g = h
    /\ \A g \in Goroutines : proc[g].req = r =>
         /\ proc[g].pc = "filling" => Unnamed(r)
         /\ proc[g].pc = "sent" /\ Accepted(proc[g]) => proc[g].layer = req[r].Name
    /\ \A m \in underway : m.call.req = r /\ Accepted(m.call) => m.call.layer = req[r].Name
    /\ \A t \in DOMAIN tasks : tasks[t].req = r => tasks[t].layer = req[r].Name

\* Who is alone with a request reads the name that is in it.
LEMMA SeenOwn ==
  ASSUME Naming, NEW g \in Goroutines, NEW r \in Requests \ shared, Holds(g, r)
  PROVE  Seen(g) = {req[r].Name}
<1>1. Writers(g) = {}
  BY DEF Naming, Holds, Writers, At
<1> QED
  BY <1>1 DEF Seen, Holds

\* A step of g's call that leaves the names: what it sends, and what comes of what
\* it sent, is for the layer the request names.
LEMMA NamingMoves ==
  ASSUME Naming, NEW g \in Goroutines, UNCHANGED <<req, shared>>,
         \A h \in Goroutines : h # g => proc'[h] = proc[h],
         proc'[g].req = proc[g].req,
         \A r : Holds(g, r)' => Holds(g, r),
         proc[g].req \in Requests \ shared =>
           /\ proc'[g].pc = "filling" => Unnamed(proc[g].req)
           /\ proc'[g].pc = "sent" /\ Accepted(proc'[g]) =>
                proc'[g].layer = req[proc[g].req].Name,
         \A m \in underway' :
           m \in underway \/ (m.call.req = proc[g].req /\ (m.call.req \in Requests \ shared =>
                                (Accepted(m.call) => m.call.layer = req[m.call.req].Name))),
         \A t \in DOMAIN tasks' :
           \/ t \in DOMAIN tasks /\ tasks'[t] = tasks[t]
           \/ tasks'[t].req \in Requests \ shared => tasks'[t].layer = req[tasks'[t].req].Name
  PROVE  Naming'
<1> SUFFICES ASSUME NEW r \in Requests \ shared
             PROVE  /\ \A k, h \in Goroutines : Holds(k, r)' /\ Holds(h, r)' => k = h
                    /\ \A h \in Goroutines : proc'[h].req = r =>
                         /\ proc'[h].pc = "filling" => Unnamed(r)
                         /\ proc'[h].pc = "sent" /\ Accepted(proc'[h]) => proc'[h].layer = req[r].Name
                    /\ \A m \in underway' :
                         m.call.req = r /\ Accepted(m.call) => m.call.layer = req[r].Name
                    /\ \A t \in DOMAIN tasks' :
                         tasks'[t].req = r => tasks'[t].layer = req[r].Name
  BY DEF Naming, Accepted, Path, Unnamed
<1>1. \A h \in Goroutines : Holds(h, r)' => Holds(h, r)
  BY DEF Holds
<1>2. \A k, h \in Goroutines : Holds(k, r)' /\ Holds(h, r)' => k = h
  BY <1>1 DEF Naming
<1>3. ASSUME NEW h \in Goroutines, proc'[h].req = r
      PROVE  /\ proc'[h].pc = "filling" => Unnamed(r)
             /\ proc'[h].pc = "sent" /\ Accepted(proc'[h]) => proc'[h].layer = req[r].Name
  <2>1. CASE h = g
    BY <1>3, <2>1
  <2>2. CASE h # g
    BY <1>3, <2>2 DEF Naming
  <2> QED
    BY <2>1, <2>2
<1>4. \A m \in underway' : m.call.req = r /\ Accepted(m.call) => m.call.layer = req[r].Name
  BY DEF Naming
<1>5. \A t \in DOMAIN tasks' : tasks'[t].req = r => tasks'[t].layer = req[r].Name
  BY DEF Naming
<1> QED
  BY <1>2, <1>3, <1>4, <1>5

\* The server alone: what arrives was sent, and a task keeps its layer.
LEMMA NamingServer ==
  ASSUME Naming, UNCHANGED <<req, proc, shared>>, underway' \subseteq underway,
         \A t \in DOMAIN tasks' :
           \/ /\ t \in DOMAIN tasks
              /\ tasks'[t].layer = tasks[t].layer /\ tasks'[t].req = tasks[t].req
           \/ \E m \in underway : /\ Accepted(m.call)
                                  /\ tasks'[t].req = m.call.req /\ tasks'[t].layer = m.call.layer
  PROVE  Naming'
<1> SUFFICES ASSUME NEW r \in Requests \ shared
             PROVE  /\ \A k, h \in Goroutines : Holds(k, r)' /\ Holds(h, r)' => k = h
                    /\ \A h \in Goroutines : proc'[h].req = r =>
                         /\ proc'[h].pc = "filling" => Unnamed(r)
                         /\ proc'[h].pc = "sent" /\ Accepted(proc'[h]) => proc'[h].layer = req[r].Name
                    /\ \A m \in underway' :
                         m.call.req = r /\ Accepted(m.call) => m.call.layer = req[r].Name
                    /\ \A t \in DOMAIN tasks' :
                         tasks'[t].req = r => tasks'[t].layer = req[r].Name
  BY DEF Naming, Accepted, Path, Unnamed
<1>1. \A h \in Goroutines : Holds(h, r)' <=> Holds(h, r)
  BY DEF Holds
<1>2. \A t \in DOMAIN tasks' : tasks'[t].req = r => tasks'[t].layer = req[r].Name
  BY DEF Naming
<1> QED
  BY <1>1, <1>2 DEF Naming

\* Submit is called: if somebody is at the request, it is shared from now on.
LEMMA NamingSubmit ==
  ASSUME SeedingInv, Naming, NEW g \in Goroutines, NEW layer \in TileLayers, NEW q \in Requests,
         Submit(g, layer, q)
  PROVE  Naming'
<1>1. PICK c : c = [Idle EXCEPT !.pc = "name", !.layer = layer, !.req = q]
  OBVIOUS
<1>2. c.pc = "name" /\ c.req = q
  BY <1>1 DEF Idle
<1>3. /\ proc'[g] = c /\ \A h \in Goroutines : h # g => proc'[h] = proc[h]
      /\ UNCHANGED <<req, tasks, underway>>
  BY <1>1 DEF Submit, SeedingInv, Types
<1>4. shared \subseteq shared' /\ (q \notin shared' => \A h \in Goroutines : ~Holds(h, q))
  BY DEF Submit
<1> SUFFICES ASSUME NEW r \in Requests \ shared'
             PROVE  /\ \A k, h \in Goroutines : Holds(k, r)' /\ Holds(h, r)' => k = h
                    /\ \A h \in Goroutines : proc'[h].req = r =>
                         /\ proc'[h].pc = "filling" => Unnamed(r)
                         /\ proc'[h].pc = "sent" /\ Accepted(proc'[h]) => proc'[h].layer = req[r].Name
                    /\ \A m \in underway :
                         m.call.req = r /\ Accepted(m.call) => m.call.layer = req[r].Name
                    /\ \A t \in DOMAIN tasks :
                         tasks[t].req = r => tasks[t].layer = req[r].Name
  BY <1>3 DEF Naming, Accepted, Path, Unnamed
<1>5. r \in Requests \ shared
  BY <1>4
<1>6. \A h \in Goroutines : Holds(h, r)' => (IF h = g THEN r = q ELSE Holds(h, r))
  BY <1>2, <1>3 DEF Holds
<1>7. \A k, h \in Goroutines : Holds(k, r)' /\ Holds(h, r)' => k = h
  BY <1>4, <1>5, <1>6 DEF Naming
<1>8. \A h \in Goroutines : proc'[h].req = r =>
        /\ proc'[h].pc = "filling" => Unnamed(r)
        /\ proc'[h].pc = "sent" /\ Accepted(proc'[h]) => proc'[h].layer = req[r].Name
  BY <1>2, <1>3, <1>5 DEF Naming
<1> QED
  BY <1>5, <1>7, <1>8 DEF Naming

\* The name is written where there was none, so nothing was accepted yet.
LEMMA NamingFill ==
  ASSUME SeedingInv, Naming, NEW g \in Goroutines, Fill(g)
  PROVE  Naming'
<1>1. PICK q : q = proc[g].req
  OBVIOUS
<1>2. /\ proc[g].pc = "filling" /\ q \in Requests /\ Holds(g, q)
      /\ \A r \in Requests : r # q => req'[r] = req[r]
      /\ UNCHANGED <<tasks, underway, shared>>
  BY <1>1 DEF SeedingInv, Types, Made, WellFormed, Submitted, Fill, At, Holds, Submitting
<1>3. /\ proc'[g].pc = "type" /\ proc'[g].req = q
      /\ \A h \in Goroutines : h # g => proc'[h] = proc[h]
  BY <1>1 DEF Fill, Goes, SeedingInv, Types, Calls
<1>4. "" \notin TileLayers
  BY SeedingAssumption
<1> SUFFICES ASSUME NEW r \in Requests \ shared
             PROVE  /\ \A k, h \in Goroutines : Holds(k, r)' /\ Holds(h, r)' => k = h
                    /\ \A h \in Goroutines : proc'[h].req = r =>
                         /\ proc'[h].pc = "filling" => Unnamed(r)'
                         /\ proc'[h].pc = "sent" /\ Accepted(proc'[h]) => proc'[h].layer = req'[r].Name
                    /\ \A m \in underway :
                         m.call.req = r /\ Accepted(m.call) => m.call.layer = req'[r].Name
                    /\ \A t \in DOMAIN tasks :
                         tasks[t].req = r => tasks[t].layer = req'[r].Name
  BY <1>2 DEF Naming, Accepted, Path
<1>5. \A h \in Goroutines : Holds(h, r)' => Holds(h, r)
  BY <1>1, <1>2, <1>3 DEF Holds
<1>6. \A k, h \in Goroutines : Holds(k, r)' /\ Holds(h, r)' => k = h
  BY <1>5 DEF Naming
<1>7. CASE r # q
  <2>1. req'[r] = req[r] /\ (Unnamed(r)' <=> Unnamed(r))
    BY <1>2, <1>7 DEF Unnamed
  <2>2. \A h \in Goroutines : proc'[h].req = r => h # g /\ proc'[h] = proc[h]
    BY <1>3, <1>7
  <2> QED
    BY <1>6, <2>1, <2>2 DEF Naming
<1>8. CASE r = q
  <2>1. req[r].Name = ""
    BY <1>1, <1>2, <1>8 DEF Naming, Unnamed
  <2>2. \A h \in Goroutines : proc'[h].req = r => proc'[h].pc # "filling"
    BY <1>2, <1>3, <1>5, <1>8 DEF Naming, Holds
  <2>3. ASSUME NEW h \in Goroutines, proc'[h].req = r, proc'[h].pc = "sent", Accepted(proc'[h])
        PROVE  FALSE
    <3>1. h # g /\ proc'[h] = proc[h]
      BY <1>3, <2>3
    <3>2. proc[h].layer = ""
      BY <2>1, <2>3, <3>1 DEF Naming
    <3> QED
      BY <1>4, <2>3, <3>1, <3>2 DEF SeedingInv, Made, Submitted
  <2>4. ASSUME NEW m \in underway, m.call.req = r, Accepted(m.call)
        PROVE  FALSE
    <3>1. m.call.layer = ""
      BY <2>1, <2>4 DEF Naming
    <3> QED
      BY <1>4, <3>1 DEF SeedingInv, Made, WellFormed
  <2>5. ASSUME NEW t \in DOMAIN tasks, tasks[t].req = r
        PROVE  FALSE
    <3>1. tasks[t].layer = ""
      BY <2>1, <2>5 DEF Naming
    <3>2. tasks \in Seq(Tasks)
      BY DEF SeedingInv, Types
    <3>3. tasks[t] \in Tasks
      BY <3>2
    <3> QED
      BY <1>4, <3>1, <3>3 DEF Tasks
  <2> QED
    BY <1>6, <2>2, <2>3, <2>4, <2>5
<1> QED
  BY <1>7, <1>8

\* The steps of a call once it was made, but for the name it writes.
LEMMA NamingCall ==
  ASSUME SeedingInv, Naming, NEW g \in Goroutines,
         Name(g) \/ Type(g) \/ Marshal(g) \/ Wait(g) \/ Status(g)
  PROVE  Naming'
<1>1. proc[g] \in Calls /\ g \in DOMAIN proc
  BY DEF SeedingInv, Types
<1>2. /\ UNCHANGED <<req, shared, tasks, underway>>
      /\ \A h \in Goroutines : h # g => proc'[h] = proc[h]
  BY DEF Name, Type, Marshal, Wait, Status, Goes, Returns, SeedingInv, Types
<1>3. CASE Name(g)
  <2>1. PICK name \in Seen(g) : Goes(g, IF name = "" THEN "filling" ELSE "type")
    BY <1>3 DEF Name
  <2>2. /\ proc'[g].req = proc[g].req /\ Holds(g, proc[g].req)
        /\ proc'[g].pc = IF name = "" THEN "filling" ELSE "type"
    BY <1>1, <1>3, <2>1 DEF Name, At, Goes, Holds, Calls
  <2>3. proc[g].req \in Requests \ shared => name = req[proc[g].req].Name
    BY <2>1, <2>2, SeenOwn
  <2>4. proc[g].req \in Requests \ shared /\ proc'[g].pc = "filling" => Unnamed(proc[g].req)
    BY <2>2, <2>3 DEF Unnamed
  <2>5. proc'[g].pc # "sent"
    BY <2>2
  <2> QED
    BY <1>2, <2>2, <2>4, <2>5, NamingMoves DEF Holds
<1>4. CASE Type(g)
  <2>1. /\ proc'[g].req = proc[g].req /\ Holds(g, proc[g].req)
        /\ proc'[g].pc \in {"idle", "marshal"}
    BY <1>1, <1>4 DEF Type, At, Goes, Returns, Holds, Calls
  <2> QED
    BY <1>2, <2>1, NamingMoves DEF Holds
<1>5. CASE Marshal(g)
  <2>1. PICK name \in Seen(g) : proc' = [proc EXCEPT ![g].pc = "sent", ![g].name = name]
    BY <1>5 DEF Marshal
  <2>2. /\ proc'[g].req = proc[g].req /\ Holds(g, proc[g].req)
        /\ proc'[g].pc = "sent" /\ proc'[g].name = name
    BY <1>1, <1>5, <2>1 DEF Marshal, At, Holds, Calls
  <2>3. proc[g].req \in Requests \ shared => name = req[proc[g].req].Name
    BY <2>1, <2>2, SeenOwn
  <2>4. Accepted(proc'[g]) => proc'[g].layer = name
    BY <2>2 DEF Accepted, Path
  <2> QED
    BY <1>2, <2>2, <2>3, <2>4, NamingMoves DEF Holds
<1>6. CASE Wait(g) \/ Status(g)
  <2>1. proc'[g].req = proc[g].req /\ proc'[g].pc \in {"polling", "finished"}
    BY <1>1, <1>6 DEF Wait, Status, Goes, Calls
  <2> QED
    BY <1>2, <2>1, NamingMoves DEF Holds
<1> QED
  BY <1>3, <1>4, <1>5, <1>6

\* The server answers, or the call times out with its request on the way.
LEMMA NamingReturn ==
  ASSUME SeedingInv, Naming, NEW g \in Goroutines, Handle(g) \/ TimeOut(g)
  PROVE  Naming'
<1>1. proc[g] \in Calls /\ proc[g].pc = "sent" /\ WellFormed(proc[g]) /\ Types
  BY DEF SeedingInv, Types, Made, Submitted, Handle, TimeOut, At
<1>2. /\ UNCHANGED <<req, shared>> /\ proc'[g].req = proc[g].req /\ proc'[g].pc = "idle"
      /\ \A h \in Goroutines : h # g => proc'[h] = proc[h]
  <2>1. PICK e : Returns(g, e) /\ UNCHANGED <<req, shared>>
    BY DEF Handle, TimeOut
  <2>2. proc' = [proc EXCEPT ![g].pc = "idle", ![g].err = e]
    BY <2>1 DEF Returns
  <2> QED
    BY <1>1, <2>1, <2>2 DEF Types, Calls
<1>3. \A r : ~Holds(g, r)'
  BY <1>2 DEF Holds
<1>4. proc[g].req \in Requests \ shared /\ Accepted(proc[g]) =>
        proc[g].layer = req[proc[g].req].Name
  BY <1>1 DEF Naming
<1>5. CASE Handle(g)
  <2>1. PICK lost \in BOOLEAN :
          tasks' = IF Accepted(proc[g]) THEN Append(tasks, Queued(proc[g], g, ~lost)) ELSE tasks
    BY <1>5 DEF Handle
  <2>2. PICK t : t = Queued(proc[g], g, ~lost)
    OBVIOUS
  <2>3. t \in Tasks /\ t.req = proc[g].req /\ t.layer = proc[g].layer
    BY <1>1, <2>2, QueuedType
  <2>4. tasks \in Seq(Tasks)
    BY DEF SeedingInv, Types
  <2>5. \A i \in DOMAIN tasks' :
          \/ i \in DOMAIN tasks /\ tasks'[i] = tasks[i]
          \/ Accepted(proc[g]) /\ tasks'[i] = t
    <3>1. CASE Accepted(proc[g])
      <4>1. PICK s : s = Append(tasks, t)
        OBVIOUS
      <4>2. \A i \in DOMAIN s : (i \in DOMAIN tasks /\ s[i] = tasks[i]) \/ s[i] = t
        BY <2>3, <2>4, <4>1, TaskAppended
      <4> QED
        BY <2>1, <2>2, <3>1, <4>1, <4>2
    <3>2. CASE ~Accepted(proc[g])
      BY <2>1, <3>2
    <3> QED
      BY <3>1, <3>2
  <2>6. \A i \in DOMAIN tasks' :
          \/ i \in DOMAIN tasks /\ tasks'[i] = tasks[i]
          \/ tasks'[i].req \in Requests \ shared => tasks'[i].layer = req[tasks'[i].req].Name
    BY <1>4, <2>3, <2>5
  <2>7. UNCHANGED underway
    BY <1>5 DEF Handle
  <2> QED
    BY <1>2, <1>3, <2>6, <2>7, NamingMoves
<1>6. CASE TimeOut(g)
  <2>1. PICK m : m = [call |-> proc[g], by |-> g]
    OBVIOUS
  <2>2. UNCHANGED tasks /\ underway' = underway \cup {m} /\ m.call = proc[g]
    BY <1>6, <2>1 DEF TimeOut
  <2>3. \A n \in underway' :
          \/ n \in underway
          \/ /\ n.call.req = proc[g].req
             /\ n.call.req \in Requests \ shared =>
                  (Accepted(n.call) => n.call.layer = req[n.call.req].Name)
    BY <1>4, <2>2
  <2> QED
    BY <1>2, <1>3, <2>2, <2>3, NamingMoves
<1> QED
  BY <1>5, <1>6

\* A late request arrives, tasks go on, end, are aborted and leave the list.
LEMMA NamingTasks ==
  ASSUME SeedingInv, Naming,
         \/ \E m \in underway : Arrive(m)
         \/ \E t \in DOMAIN tasks : Progress(t) \/ Forget(t)
         \/ \E g \in Goroutines : KillAll(g)
  PROVE  Naming'
<1>1. tasks \in Seq(Tasks) /\ Types
  BY DEF SeedingInv, Types
<1>2. ASSUME NEW m \in underway, Arrive(m)
      PROVE  Naming'
  <2>1. m.call \in Calls /\ m.by \in Goroutines /\ WellFormed(m.call) /\ m.call.pc = "sent"
    BY DEF SeedingInv, Types, Made, Messages
  <2>2. PICK t : t = Queued(m.call, m.by, FALSE)
    OBVIOUS
  <2>3. t \in Tasks /\ t.req = m.call.req /\ t.layer = m.call.layer
    BY <1>1, <2>1, <2>2, QueuedType
  <2>4. \A i \in DOMAIN tasks' :
          \/ i \in DOMAIN tasks /\ tasks'[i] = tasks[i]
          \/ Accepted(m.call) /\ tasks'[i] = t
    <3>1. CASE Accepted(m.call)
      <4>1. PICK s : s = Append(tasks, t)
        OBVIOUS
      <4>2. \A i \in DOMAIN s : (i \in DOMAIN tasks /\ s[i] = tasks[i]) \/ s[i] = t
        BY <1>1, <2>3, <4>1, TaskAppended
      <4>3. tasks' = s
        BY <1>2, <2>2, <3>1, <4>1 DEF Arrive
      <4> QED
        BY <3>1, <4>2, <4>3
    <3>2. CASE ~Accepted(m.call)
      BY <1>2, <3>2 DEF Arrive
    <3> QED
      BY <3>1, <3>2
  <2>5. UNCHANGED <<req, proc, shared>> /\ underway' \subseteq underway
    BY <1>2 DEF Arrive
  <2> QED
    BY <2>3, <2>4, <2>5, NamingServer
<1>3. ASSUME NEW t \in DOMAIN tasks, Progress(t) \/ Forget(t)
      PROVE  Naming'
  <2>1. \A i \in DOMAIN tasks : tasks[i] \in Tasks
    BY <1>1
  <2>2. \A i \in DOMAIN tasks' :
          i \in DOMAIN tasks /\ tasks'[i].layer = tasks[i].layer /\ tasks'[i].req = tasks[i].req
    BY <1>3, <2>1 DEF Progress, Forget, Tasks
  <2>3. UNCHANGED <<req, proc, shared, underway>>
    BY <1>3 DEF Progress, Forget
  <2> QED
    BY <2>2, <2>3, NamingServer
<1>4. ASSUME NEW g \in Goroutines, KillAll(g)
      PROVE  Naming'
  <2>1. \A i \in DOMAIN tasks : tasks[i] \in Tasks
    BY <1>1
  <2>2. \A i \in DOMAIN tasks' :
          i \in DOMAIN tasks /\ tasks'[i].layer = tasks[i].layer /\ tasks'[i].req = tasks[i].req
    BY <1>4, <2>1 DEF KillAll, Tasks
  <2>3. UNCHANGED <<req, proc, shared, underway>>
    BY <1>4 DEF KillAll
  <2> QED
    BY <2>2, <2>3, NamingServer
<1> QED
  BY <1>2, <1>3, <1>4

\* Submit, gwc.go, and the Name of types.go:192: for any layers, requests and
\* goroutines, what comes of a request that was in one Submit at a time runs on the
\* layer that the request names.
THEOREM RequestsSeedOneLayer == SeedingSpec => []OneLayerPerRequest
<1>1. SeedingInit => Naming
  <2> SUFFICES ASSUME SeedingInit PROVE Naming
    OBVIOUS
  <2>1. \A g \in Goroutines : proc[g].pc = "idle"
    BY DEF SeedingInit, Idle
  <2>2. underway = {} /\ DOMAIN tasks = {}
    BY NoTasks DEF SeedingInit
  <2> QED
    BY <2>1, <2>2 DEF Naming, Holds
<1>2. SeedingInv /\ Naming /\ [SeedingNext]_seedingVars => Naming'
  <2> SUFFICES ASSUME SeedingInv, Naming, [SeedingNext]_seedingVars PROVE Naming'
    OBVIOUS
  <2>1. CASE UNCHANGED seedingVars
    BY <2>1, NamingServer DEF seedingVars
  <2>2. CASE SeedingNext
    BY <2>2, NamingSubmit, NamingFill, NamingCall, NamingReturn, NamingTasks DEF SeedingNext
  <2> QED
    BY <2>1, <2>2
<1>3. SeedingInv /\ Naming => OneLayerPerRequest
  <2> SUFFICES ASSUME SeedingInv, Naming, NEW t \in DOMAIN tasks, tasks[t].req \notin shared
               PROVE  tasks[t].layer = req[tasks[t].req].Name
    BY DEF OneLayerPerRequest
  <2>1. tasks \in Seq(Tasks)
    BY DEF SeedingInv, Types
  <2>2. tasks[t] \in Tasks
    BY <2>1
  <2> QED
    BY <2>2 DEF Naming, Tasks
<1> QED
  BY <1>1, <1>2, <1>3, SeedingInductive, PTL DEF SeedingSpec

\* A request that one goroutine uses for one layer is not turned away for the name
\* that Submit filled in, however often it is submitted and whoever else submits.
THEOREM OwnRequestAccepted == SeedingSpec => []OwnRequestIsAccepted
<1>1. SeedingInv => OwnRequestIsAccepted
  BY DEF SeedingInv, OwnName, OwnRequestIsAccepted, Made, Sole
<1> QED
  BY <1>1, SeedingInductive, PTL

\* When a caller stops polling, nothing that it submitted without an error still
\* runs on the layer: the server forgets no task that is not over.
THEOREM PollingIsTrue == SeedingSpec => []OverMeansOver
<1>1. SeedingInv => OverMeansOver
  BY DEF SeedingInv
<1> QED
  BY <1>1, SeedingInductive, PTL

-----------------------------------------------------------------------------
(* The example programs (Publish).  First, the paths of their requests.    *)

Joining == INSTANCE Recursion WITH Start <- <<>>, Step <- PathJoin

\* path.Join of nothing.
LEMMA BuildNone == BuildURL(<<>>) = <<>>
<1>1. BuildURL(<<>>) = Joining!Fold(<<>>)
  BY DEF BuildURL, Joining!Fold
<1> QED
  BY <1>1, Joining!FoldEmpty

\* path.Join with one segment more.
LEMMA BuildMore ==
  ASSUME NEW S, NEW s \in Seq(S), NEW x \in S
  PROVE  BuildURL(Append(s, x)) = PathJoin(BuildURL(s), x)
<1>1. BuildURL(Append(s, x)) = Joining!Fold(Append(s, x)) /\ BuildURL(s) = Joining!Fold(s)
  BY DEF BuildURL, Joining!Fold
<1> QED
  BY <1>1, Joining!FoldAppend

\* Words that path.Join keeps.
IsWord(x) == x \notin {"", ".", ".."}

\* path.Join of words is the words.
LEMMA BuildIsExact ==
  ASSUME NEW S, \A x \in S : IsWord(x), NEW s \in Seq(S)
  PROVE  BuildURL(s) = s
<1> DEFINE T == {r \in Seq(S) : BuildURL(r) = r}
<1>1. <<>> \in T
  BY BuildNone, EmptySeq
<1>2. ASSUME NEW r \in Seq(S), NEW x \in S, r \in T
      PROVE  Append(r, x) \in T
  <2>1. Append(r, x) \in Seq(S) /\ BuildURL(Append(r, x)) = PathJoin(r, x)
    BY <1>2, BuildMore, AppendProperties
  <2>2. x # "" /\ x # "." /\ x # ".."
    BY DEF IsWord
  <2>3. PathJoin(r, x) = Append(r, x)
    BY <2>2 DEF PathJoin
  <2> QED
    BY <2>1, <2>3
<1> HIDE DEF T
<1>3. Seq(S) \subseteq T
  BY <1>1, <1>2, Joining!SeqInduction
<1> QED
  BY <1>3 DEF T

-----------------------------------------------------------------------------
(* The items the example programs make. *)

Words == {"rest", "workspaces", "ws", "missing", "styles", "style", "datastores", "store",
          "featuretypes", "table", "layers"}

Collection == <<"rest", "workspaces">>
Ws == <<"rest", "workspaces", "ws">>
Missing == <<"rest", "workspaces", "missing">>
StylesOfWs == <<"rest", "workspaces", "ws", "styles">>
Style == <<"rest", "workspaces", "ws", "styles", "style">>
StoresOfWs == <<"rest", "workspaces", "ws", "datastores">>
Store == <<"rest", "workspaces", "ws", "datastores", "store">>
TablesOfStore == <<"rest", "workspaces", "ws", "datastores", "store", "featuretypes">>
Table == <<"rest", "workspaces", "ws", "datastores", "store", "featuretypes", "table">>
LayersOfWs == <<"rest", "workspaces", "ws", "layers">>
Layer == <<"rest", "workspaces", "ws", "layers", "table">>

\* They are the workspace and what is below it.
OfWs == {p \in Seq(Words) : Len(p) >= 3 /\ SubSeq(p, 1, 3) = Ws}

\* What any run may have left behind: nothing, or the workspace and what it made in it.
AnyTree == {T \in SUBSET OfWs : T # {} => Ws \in T}

\* None of them is a segment that path.Join drops.
LEMMA WordsAreWords == \A x \in Words : IsWord(x)
BY DEF Words, IsWord

\* The paths are made of them.
LEMMA PathTypes ==
  /\ Collection \in Seq(Words) /\ Ws \in Seq(Words) /\ Missing \in Seq(Words)
  /\ StylesOfWs \in Seq(Words) /\ Style \in Seq(Words) /\ StoresOfWs \in Seq(Words)
  /\ Store \in Seq(Words) /\ TablesOfStore \in Seq(Words) /\ Table \in Seq(Words)
  /\ LayersOfWs \in Seq(Words) /\ Layer \in Seq(Words)
BY DEF Words, Collection, Ws, Missing, StylesOfWs, Style, StoresOfWs, Store, TablesOfStore,
       Table, LayersOfWs, Layer

\* How they are put together.
LEMMA PathsAre ==
  /\ Collection = Append(<<"rest">>, "workspaces")
  /\ Ws = Append(Collection, "ws") /\ Missing = Append(Collection, "missing")
  /\ StylesOfWs = Append(Ws, "styles") /\ Style = Append(StylesOfWs, "style")
  /\ StoresOfWs = Append(Ws, "datastores") /\ Store = Append(StoresOfWs, "store")
  /\ TablesOfStore = Append(Store, "featuretypes") /\ Table = Append(TablesOfStore, "table")
  /\ LayersOfWs = Append(Ws, "layers") /\ Layer = Append(LayersOfWs, "table")
BY DEF Collection, Ws, Missing, StylesOfWs, Style, StoresOfWs, Store, TablesOfStore, Table,
       LayersOfWs, Layer

\* The words that are appended.
LEMMA WordsOfPaths ==
  {"rest", "workspaces", "styles", "datastores", "store", "featuretypes", "layers", "table"}
    \subseteq Words
BY DEF Words

\* Two segments more.
LEMMA TwoMore ==
  ASSUME NEW S, NEW s \in Seq(S), NEW x \in S, NEW y \in S
  PROVE  s \o <<x, y>> = Append(Append(s, x), y)
<1>1. <<x>> \in Seq(S) /\ <<y>> \in Seq(S) /\ Append(s, x) \in Seq(S)
  BY AppendProperties
<1>2. <<x, y>> = <<x>> \o <<y>>
  <2>1. <<x, y>> \in Seq(S) /\ Len(<<x, y>>) = 2 /\ <<x, y>>[1] = x /\ <<x, y>>[2] = y
    OBVIOUS
  <2>2. PICK t : t = Append(<<x>>, y)
    OBVIOUS
  <2>3. t \in Seq(S) /\ Len(t) = 2 /\ t[1] = x /\ t[2] = y
    BY <1>1, <2>2, AppendProperties
  <2>4. PICK u : u = <<x, y>>
    OBVIOUS
  <2>5. u \in Seq(S) /\ Len(u) = 2 /\ u[1] = x /\ u[2] = y
    BY <2>1, <2>4
  <2>6. Len(t) = Len(u) /\ \A i \in 1..Len(t) : t[i] = u[i]
    BY <2>3, <2>5
  <2>7. t = u
    BY ONLY <2>3, <2>5, <2>6, SeqEqual
  <2> QED
    BY <1>1, <2>2, <2>4, <2>7, AppendIsConcat
<1>3. s \o (<<x>> \o <<y>>) = (s \o <<x>>) \o <<y>>
  BY <1>1, ConcatAssociative
<1>4. s \o <<x>> = Append(s, x)
  BY AppendIsConcat
<1>5. Append(s, x) \o <<y>> = Append(Append(s, x), y)
  BY <1>1, AppendIsConcat
<1> QED
  BY <1>2, <1>3, <1>4, <1>5


\* BuildURL loses none of their segments.
LEMMA PathsBuilt ==
  /\ BuildURL(Collection) = Collection /\ BuildURL(Ws) = Ws /\ BuildURL(Missing) = Missing
  /\ BuildURL(StylesOfWs) = StylesOfWs /\ BuildURL(Style) = Style
  /\ BuildURL(StoresOfWs) = StoresOfWs /\ BuildURL(Store) = Store
  /\ BuildURL(TablesOfStore) = TablesOfStore /\ BuildURL(Table) = Table
  /\ BuildURL(Layer) = Layer
BY PathTypes, WordsAreWords, BuildIsExact

\* Which of them are items.
LEMMA ItemsAre ==
  /\ ~IsItem(Collection) /\ ~IsItem(TablesOfStore)
  /\ IsItem(Ws) /\ IsItem(Missing) /\ IsItem(Style) /\ IsItem(Store) /\ IsItem(Table)
  /\ IsItem(Layer)
BY DEF IsItem, Collection, Ws, Missing, Style, Store, TablesOfStore, Table, Layer

\* The beginning of a path.
LEMMA BeginningIs ==
  ASSUME NEW S, NEW s \in Seq(S), NEW t \in Seq(S), NEW n \in Nat, n = Len(t),
         n <= Len(s), \A i \in 1..n : s[i] = t[i]
  PROVE  SubSeq(s, 1, n) = t
<1>1. Len(s) \in Nat /\ \A i \in 1..n : s[i] \in S
  BY LenProperties, ElementOfSeq
<1>2. n - 1 + 1 = n /\ 1 \in Int /\ n \in Int /\ \A i \in 1..n : 1 + i - 1 = i
  OBVIOUS
<1>3. /\ SubSeq(s, 1, n) \in Seq(S)
      /\ Len(SubSeq(s, 1, n)) = IF 1 <= n THEN n - 1 + 1 ELSE 0
      /\ \A i \in 1..n - 1 + 1 : SubSeq(s, 1, n)[i] = s[1 + i - 1]
  BY <1>1, <1>2, SubSeqProperties
<1>4. Len(SubSeq(s, 1, n)) = n /\ \A i \in 1..n : SubSeq(s, 1, n)[i] = t[i]
  BY <1>2, <1>3
<1> QED
  BY <1>3, <1>4, SeqEqual

\* A path without its last segment.
LEMMA FrontIs ==
  ASSUME NEW S, NEW s \in Seq(S), NEW x \in S
  PROVE  Front(Append(s, x)) = s
<1>1. /\ Append(s, x) \in Seq(S) /\ Len(Append(s, x)) = Len(s) + 1 /\ Len(s) \in Nat
      /\ \A i \in 1..Len(s) : Append(s, x)[i] = s[i]
  BY AppendProperties, LenProperties
<1>2. Len(Append(s, x)) - 1 = Len(s) /\ Len(s) <= Len(Append(s, x))
  BY <1>1
<1> QED
  BY <1>1, <1>2, BeginningIs DEF Front

\* The parents of the collections.
LEMMA Fronts ==
  /\ Front(Collection) = <<"rest">> /\ Front(StylesOfWs) = Ws /\ Front(StoresOfWs) = Ws
  /\ Front(TablesOfStore) = Store
<1>1. <<"rest">> \in Seq(Words)
  BY WordsOfPaths
<1> QED
  BY <1>1, PathsAre, WordsOfPaths, PathTypes, FrontIs

\* What begins with the workspace is in it or below it.
LEMMA BeginsWithWs ==
  ASSUME NEW p \in Seq(Words), Len(p) >= 3, p[1] = Ws[1], p[2] = Ws[2], p[3] = Ws[3]
  PROVE  p \in OfWs
<1>1. Len(p) \in Nat /\ 3 <= Len(p) /\ \A i \in 1..3 : p[i] = Ws[i]
  BY LenProperties
<1>2. Ws \in Seq(Words) /\ 3 = Len(Ws) /\ 3 \in Nat
  BY PathTypes DEF Ws
<1>3. SubSeq(p, 1, 3) = Ws
  BY ONLY <1>1, <1>2, p \in Seq(Words), BeginningIs
<1> QED
  BY <1>3 DEF OfWs

\* What the programs make is in the workspace.
LEMMA OfWsAre == {Ws, Style, Store, Table, Layer} \subseteq OfWs
<1>1. Ws \in OfWs
  <2>1. Ws \in Seq(Words)
    BY PathTypes
  <2>2. Len(Ws) >= 3 /\ Ws[1] = Ws[1] /\ Ws[2] = Ws[2] /\ Ws[3] = Ws[3]
    BY DEF Ws
  <2> QED
    BY ONLY <2>1, <2>2, BeginsWithWs
<1>2. Style \in OfWs
  <2>1. Style \in Seq(Words)
    BY PathTypes
  <2>2. Len(Style) >= 3 /\ Style[1] = Ws[1] /\ Style[2] = Ws[2] /\ Style[3] = Ws[3]
    BY DEF Ws, Style
  <2> QED
    BY ONLY <2>1, <2>2, BeginsWithWs
<1>3. Store \in OfWs
  <2>1. Store \in Seq(Words)
    BY PathTypes
  <2>2. Len(Store) >= 3 /\ Store[1] = Ws[1] /\ Store[2] = Ws[2] /\ Store[3] = Ws[3]
    BY DEF Ws, Store
  <2> QED
    BY ONLY <2>1, <2>2, BeginsWithWs
<1>4. Table \in OfWs
  <2>1. Table \in Seq(Words)
    BY PathTypes
  <2>2. Len(Table) >= 3 /\ Table[1] = Ws[1] /\ Table[2] = Ws[2] /\ Table[3] = Ws[3]
    BY DEF Ws, Table
  <2> QED
    BY ONLY <2>1, <2>2, BeginsWithWs
<1>5. Layer \in OfWs
  <2>1. Layer \in Seq(Words)
    BY PathTypes
  <2>2. Len(Layer) >= 3 /\ Layer[1] = Ws[1] /\ Layer[2] = Ws[2] /\ Layer[3] = Ws[3]
    BY DEF Ws, Layer
  <2> QED
    BY ONLY <2>1, <2>2, BeginsWithWs
<1> QED
  BY <1>1, <1>2, <1>3, <1>4, <1>5

-----------------------------------------------------------------------------
(* What the server does with each request of the programs. *)

\* A read or a PUT of an item.
LEMMA ItemServed ==
  ASSUME NEW r, NEW T, r.method \in {"GET", "PUT"}, IsItem(r.path)
  PROVE  Serve(r, T) = Served(IF r.path \in T THEN 200 ELSE 404, T)
BY DEF Serve

\* A delete of all there is below an item.
LEMMA DeleteServed ==
  ASSUME NEW r, NEW T, r.method = "DELETE", IsItem(r.path)
  PROVE  /\ r.path \notin T => Serve(r, T) = Served(404, T)
         /\ r.path \in T /\ (Below(r.path, T) = {r.path} \/ "recurse=true" \in r.query) =>
              Serve(r, T) = Served(200, T \ Below(r.path, T))
         /\ Serve(r, T).tree \in {T, T \ Below(r.path, T)}
BY DEF Serve, Served

\* Publishing a feature type creates its layer too, everything else only itself.
LEMMA Creates ==
  /\ CreatedBy(Ws) = {Ws} /\ CreatedBy(Style) = {Style} /\ CreatedBy(Store) = {Store}
  /\ CreatedBy(Table) = {Table, Layer}
<1>1. CreatedBy(Ws) = {Ws}
  BY DEF CreatedBy, Ws
<1>2. CreatedBy(Style) = {Style}
  BY DEF CreatedBy, Style
<1>3. CreatedBy(Store) = {Store}
  BY DEF CreatedBy, Store
<1>4. CreatedBy(Table) = {Table, Layer}
  <2>1. Len(Table) = 7 /\ Table[Len(Table) - 1] = "featuretypes" /\ Table[Len(Table)] = "table"
    BY DEF Table
  <2>2. SubSeq(Table, 1, 3) = Ws
    <3>1. Table \in OfWs
      BY OfWsAre
    <3> QED
      BY ONLY <3>1 DEF OfWs
  <2>3. Ws \o <<"layers", "table">> = Layer
    BY PathsAre, PathTypes, WordsOfPaths, TwoMore
  <2> QED
    BY <2>1, <2>2, <2>3 DEF CreatedBy
<1> QED
  BY <1>1, <1>2, <1>3, <1>4

\* Below the workspace is everything.
LEMMA BelowWs ==
  ASSUME NEW T \in AnyTree
  PROVE  Below(Ws, T) = T
<1>1. Len(Ws) = 3
  BY DEF Ws
<1>2. \A p \in T : 3 <= Len(p) /\ SubSeq(p, 1, 3) = Ws
  BY DEF AnyTree, OfWs
<1> QED
  BY <1>1, <1>2 DEF Below

\* Nothing is below the style.
LEMMA BelowStyle == Below(Style, {Ws, Style}) = {Style}
<1>1. Len(Ws) = 3 /\ Len(Style) = 5
  BY DEF Ws, Style
<1>2. SubSeq(Style, 1, 5) = Style
  BY <1>1, PathTypes, BeginningIs
<1> QED
  BY <1>1, <1>2 DEF Below

\* The answer to a step is what the program expects, and leaves one of these trees.
Fits(step, served, after) ==
  /\ served.tree \in after
  /\ step.must => served.status \in 200..299
  /\ step.op.verb = "Create" /\ ~step.must => served.status = 409
  /\ served.status \notin {0, 1}

\* A step of a script leads from any tree of one set to one of another.
Leads(step, before, after) ==
  \A T \in before : Fits(step, Serve(RequestOf(step.op), T), after)

\* Whenever its request arrives, it keeps to the workspace.
Keeps(step) == \A T \in AnyTree : Serve(RequestOf(step.op), T).tree \in AnyTree

\* The request of a call.
Req(method, path, body, query) ==
  [method |-> method, path |-> path, body |-> body, query |-> query]

\* None of the clients below is a client of templates.
LEMMA NoTemplates ==
  \A o : o.client \in DOMAIN ScopeKinds =>
           o.client \notin {"workspaces", "styles", "datastores", "featureTypes", "layers"}
BY DEF ScopeKinds

\* The requests of Crud for an item of a collection.
Sends(o, c, item, q, r) ==
  /\ o.verb = "Create" => r = Req("POST", c, <<"json", o.name>>, {})
  /\ o.verb = "Get" => r = Req("GET", item, <<>>, {})
  /\ o.verb = "Delete" => r = Req("DELETE", item, <<>>, q)

\* They are what Crud sends where no path loses a segment.
LEMMA CrudSends ==
  ASSUME NEW o, NEW c, NEW q, NEW item, o.name # "", item = Append(c, o.name),
         BuildURL(c) = c, BuildURL(item) = item
  PROVE  Sends(o, c, item, q, Crud(o, c, q))
<1>1. \A m, body, query : /\ Request(m, c, body, query) = Req(m, c, body, query)
                          /\ Request(m, item, body, query) = Req(m, item, body, query)
  BY DEF Request, Req
<1>2. Method["Get"] = "GET" /\ Method["Delete"] = "DELETE"
  BY DEF Method
<1>3. o.verb = "Create" => Crud(o, c, q) = Req("POST", c, <<"json", o.name>>, {})
  BY <1>1 DEF Crud
<1>4. o.verb = "Get" => Crud(o, c, q) = Req("GET", item, <<>>, {})
  BY <1>1, <1>2 DEF Crud
<1>5. o.verb = "Delete" => Crud(o, c, q) = Req("DELETE", item, <<>>, q)
  BY <1>1, <1>2 DEF Crud
<1> QED
  BY <1>3, <1>4, <1>5 DEF Sends

\* What the client of workspaces sends.
LEMMA WorkspaceRequests ==
  ASSUME NEW o, o.client = "workspaces", o.recurse = TRUE
  PROVE  /\ o.verb = "List" => RequestOf(o) = Req("GET", Collection, <<>>, {})
         /\ o.name = "ws" =>
              /\ o.verb = "Create" =>
                   RequestOf(o) = Req("POST", Collection, <<"json", o.name>>, {})
              /\ o.verb = "Get" => RequestOf(o) = Req("GET", Ws, <<>>, {})
              /\ o.verb = "Delete" => RequestOf(o) = Req("DELETE", Ws, <<>>, {"recurse=true"})
         /\ o.name = "missing" /\ o.verb = "Get" =>
              RequestOf(o) = Req("GET", Missing, <<>>, {})
<1>1. RequestOf(o) = Workspaces(o)
  BY NoTemplates DEF RequestOf
<1>2. Workspaces(o) = Crud(o, Collection, {"recurse=true"})
  BY DEF Workspaces, Recurse, Collection
<1>6. PICK q : q = {"recurse=true"}
  OBVIOUS
<1>3. o.verb = "List" => RequestOf(o) = Req("GET", Collection, <<>>, {})
  BY <1>1, <1>2, PathsBuilt DEF Crud, Request, Req
<1>4. ASSUME o.name = "ws"
      PROVE  /\ o.verb = "Create" =>
                  RequestOf(o) = Req("POST", Collection, <<"json", o.name>>, {})
             /\ o.verb = "Get" => RequestOf(o) = Req("GET", Ws, <<>>, {})
             /\ o.verb = "Delete" => RequestOf(o) = Req("DELETE", Ws, <<>>, {"recurse=true"})
  <2>1. Ws = Append(Collection, o.name) /\ o.name # ""
    BY <1>4, PathsAre
  <2>2. Sends(o, Collection, Ws, q, Crud(o, Collection, q))
    BY <2>1, CrudSends, PathsBuilt
  <2> QED
    BY <1>1, <1>2, <1>6, <2>2 DEF Sends
<1>5. ASSUME o.name = "missing", o.verb = "Get"
      PROVE  RequestOf(o) = Req("GET", Missing, <<>>, {})
  <2>1. Missing = Append(Collection, o.name) /\ o.name # ""
    BY <1>5, PathsAre
  <2>2. Sends(o, Collection, Missing, q, Crud(o, Collection, q))
    BY <2>1, CrudSends, PathsBuilt
  <2> QED
    BY <1>1, <1>2, <1>5, <1>6, <2>2 DEF Sends
<1> QED
  BY <1>3, <1>4, <1>5

\* What the client of styles sends.
LEMMA StyleRequests ==
  ASSUME NEW o, o.client = "styles", o.scope = <<"ws">>, o.name = "style"
  PROVE  /\ o.verb = "Create" => RequestOf(o) = Req("POST", StylesOfWs, <<"json", o.name>>, {})
         /\ o.verb = "UploadSLD" => RequestOf(o) = Req("PUT", Style, <<"sld">>, {})
         /\ o.verb = "Get" => RequestOf(o) = Req("GET", Style, <<>>, {})
         /\ o.verb = "Delete" => \E query : RequestOf(o) = Req("DELETE", Style, <<>>, query)
<1>1. RequestOf(o) = Styles(o)
  BY NoTemplates DEF RequestOf
<1>2. o.scope[1] = "ws" /\ "ws" # ""
  OBVIOUS
<1>3. <<"rest">> \o <<"workspaces", "ws">> \o <<"styles">> = StylesOfWs
  <2>1. <<"rest">> \o <<"workspaces", "ws">> = Ws
    BY PathsAre, PathTypes, WordsOfPaths, TwoMore DEF Words
  <2>2. Ws \o <<"styles">> = Append(Ws, "styles")
    BY PathTypes, WordsOfPaths, AppendIsConcat
  <2> QED
    BY <2>1, <2>2, PathsAre
<1>4. PICK query : query = IF o.recurse THEN {"purge=true"} ELSE {"purge=false"}
  OBVIOUS
<1>5. Styles(o) = IF o.verb = "UploadSLD"
                  THEN Request("PUT", Append(StylesOfWs, o.name), <<"sld">>, {})
                  ELSE Crud(o, StylesOfWs, query)
  BY <1>2, <1>3, <1>4 DEF Styles
<1>6. o.name # "" /\ Style = Append(StylesOfWs, o.name)
  BY PathsAre
<1>7. o.verb = "UploadSLD" => RequestOf(o) = Req("PUT", Style, <<"sld">>, {})
  BY <1>1, <1>5, <1>6, PathsBuilt DEF Request, Req
<1>8. o.verb \in {"Create", "Get", "Delete"} => RequestOf(o) = Crud(o, StylesOfWs, query)
  BY <1>1, <1>5
<1>9. Sends(o, StylesOfWs, Style, query, Crud(o, StylesOfWs, query))
  BY <1>6, CrudSends, PathsBuilt
<1> QED
  BY <1>7, <1>8, <1>9 DEF Sends

\* A scope without an empty name passes the check.
LEMMA Scoped ==
  ASSUME NEW o, o.scope = <<"ws">> \/ o.scope = <<"ws", "store">>
  PROVE  ~Unscoped(o)
<1>1. \A i \in DOMAIN o.scope : i \in {1, 2}
  OBVIOUS
<1>2. o.scope[1] = "ws" /\ (2 \in DOMAIN o.scope => o.scope[2] = "store")
  OBVIOUS
<1> QED
  BY <1>1, <1>2 DEF Unscoped

\* What the client of datastores sends.
LEMMA StoreRequests ==
  ASSUME NEW o, o.client = "datastores", o.scope = <<"ws">>, o.name = "store"
  PROVE  /\ o.verb = "Create" => RequestOf(o) = Req("POST", StoresOfWs, <<"json", o.name>>, {})
         /\ o.verb = "Get" => RequestOf(o) = Req("GET", Store, <<>>, {})
<1>1. RequestOf(o) = Datastores(o)
  BY NoTemplates DEF RequestOf
<1>2. ~Unscoped(o)
  BY Scoped
<1>3. InWorkspace(o, "datastores") = StoresOfWs
  <2>1. o.scope[1] = "ws"
    OBVIOUS
  <2> QED
    BY <2>1 DEF InWorkspace, StoresOfWs
<1>4. o.verb \in {"Create", "Get"} => Datastores(o) = Crud(o, StoresOfWs, Recurse(o))
  BY <1>2, <1>3 DEF Datastores
<1>5. o.name # "" /\ Store = Append(StoresOfWs, o.name)
  BY PathsAre
<1>6. Sends(o, StoresOfWs, Store, Recurse(o), Crud(o, StoresOfWs, Recurse(o)))
  BY <1>5, CrudSends, PathsBuilt
<1> QED
  BY <1>1, <1>4, <1>6 DEF Sends

\* What the client of feature types sends.
LEMMA TableRequests ==
  ASSUME NEW o, o.client = "featureTypes", o.scope = <<"ws", "store">>
  PROVE  /\ o.verb = "Discover" => RequestOf(o) = Req("GET", TablesOfStore, <<>>, {"list"})
         /\ o.name = "table" =>
              /\ o.verb = "Create" =>
                   RequestOf(o) = Req("POST", TablesOfStore, <<"json", o.name>>, {})
              /\ o.verb = "Get" => RequestOf(o) = Req("GET", Table, <<>>, {})
<1>1. RequestOf(o) = FeatureTypes(o)
  BY NoTemplates DEF RequestOf
<1>2. ~Unscoped(o)
  BY Scoped
<1>3. o.scope[1] = "ws" /\ o.scope[2] = "store"
  OBVIOUS
<1>4. InWorkspace(o, "datastores") = StoresOfWs
  BY <1>3 DEF InWorkspace, StoresOfWs
<1>5. StoresOfWs \o <<"store", "featuretypes">> = TablesOfStore
  BY PathsAre, PathTypes, WordsOfPaths, TwoMore
<1>6. FeatureTypes(o) = IF o.verb = "Discover" THEN Request("GET", TablesOfStore, <<>>, {"list"})
                        ELSE Crud(o, TablesOfStore, Recurse(o))
  BY <1>2, <1>3, <1>4, <1>5 DEF FeatureTypes
<1>7. o.name = "table" => o.name # "" /\ Table = Append(TablesOfStore, o.name)
  BY PathsAre
<1>8. o.verb = "Discover" => RequestOf(o) = Req("GET", TablesOfStore, <<>>, {"list"})
  BY <1>1, <1>6, PathsBuilt DEF Request, Req
<1>9. o.verb \in {"Create", "Get"} => RequestOf(o) = Crud(o, TablesOfStore, Recurse(o))
  BY <1>1, <1>6
<1>10. o.name = "table" =>
          Sends(o, TablesOfStore, Table, Recurse(o), Crud(o, TablesOfStore, Recurse(o)))
  BY <1>7, CrudSends, PathsBuilt
<1> QED
  BY <1>8, <1>9, <1>10 DEF Sends

\* What the client of layers sends.
LEMMA LayerRequests ==
  ASSUME NEW o, o.client = "layers", o.scope = <<"ws">>, o.name = "table", o.verb = "Get"
  PROVE  RequestOf(o) = Req("GET", Layer, <<>>, {})
<1>1. RequestOf(o) = Layers(o)
  BY NoTemplates DEF RequestOf
<1>2. ~Unscoped(o)
  BY Scoped
<1>3. InWorkspace(o, "layers") = LayersOfWs
  <2>1. o.scope[1] = "ws"
    OBVIOUS
  <2> QED
    BY <2>1 DEF InWorkspace, LayersOfWs
<1>4. Layers(o) = Crud(o, LayersOfWs, Recurse(o))
  BY <1>2, <1>3 DEF Layers
<1>5. o.name # "" /\ Layer = Append(LayersOfWs, o.name) /\ BuildURL(LayersOfWs) = LayersOfWs
  BY PathsAre, PathTypes, WordsAreWords, BuildIsExact
<1>6. Sends(o, LayersOfWs, Layer, Recurse(o), Crud(o, LayersOfWs, Recurse(o)))
  BY <1>5, CrudSends, PathsBuilt
<1> QED
  BY <1>1, <1>4, <1>6 DEF Sends
-----------------------------------------------------------------------------
(* What each kind of step leads to. *)

\* A read, or the upload of a style: nothing changes.
LEMMA ReadLeads ==
  ASSUME NEW s, NEW item, NEW method \in {"GET", "PUT"}, NEW body, NEW query,
         RequestOf(s.op) = Req(method, item, body, query), IsItem(item),
         s.op.verb # "Create", NEW before,
         s.must => \A T \in before : item \in T
  PROVE  Leads(s, before, before) /\ Keeps(s)
<1>1. PICK r : r = RequestOf(s.op)
  OBVIOUS
<1>2. r.method \in {"GET", "PUT"} /\ r.path = item
  BY <1>1 DEF Req
<1>3. \A T : Serve(r, T) = Served(IF item \in T THEN 200 ELSE 404, T)
  BY <1>2, ItemServed
<1>4. \A T : /\ Serve(r, T).tree = T
             /\ Serve(r, T).status = IF item \in T THEN 200 ELSE 404
  BY <1>3 DEF Served
<1>5. 200 \in 200..299 /\ 200 \notin {0, 1} /\ 404 \notin {0, 1}
  OBVIOUS
<1> QED
  BY <1>1, <1>4, <1>5 DEF Leads, Fits, Keeps

\* A list of a collection that is there.
LEMMA ListLeads ==
  ASSUME NEW s, NEW c, NEW body, NEW query, RequestOf(s.op) = Req("GET", c, body, query),
         ~IsItem(c), s.op.verb # "Create", NEW before,
         \A T \in before : HasParent(c, T)
  PROVE  Leads(s, before, before) /\ Keeps(s)
<1>1. PICK r : r = RequestOf(s.op)
  OBVIOUS
<1>2. r.method = "GET" /\ r.path = c
  BY <1>1 DEF Req
<1>3. \A T : Serve(r, T) = Served(IF HasParent(c, T) THEN 200 ELSE 404, T)
  BY <1>2 DEF Serve
<1>4. \A T : /\ Serve(r, T).tree = T
             /\ HasParent(c, T) => Serve(r, T).status = 200
  BY <1>3 DEF Served
<1>5. 200 \in 200..299 /\ 200 \notin {0, 1}
  OBVIOUS
<1> QED
  BY <1>1, <1>4, <1>5 DEF Leads, Fits, Keeps

\* The step creates an item of a collection, in the workspace or the workspace itself.
Makes(s, c, item) ==
  /\ \E name : item = Append(c, name) /\ RequestOf(s.op) = Req("POST", c, <<"json", name>>, {})
  /\ CreatedBy(item) \subseteq OfWs /\ item \in CreatedBy(item)
  /\ item = Ws \/ Front(c) # <<"rest">>

\* What a create answers where the parent is there.
Created(s, c, item) ==
  \A T : HasParent(c, T) =>
    Serve(RequestOf(s.op), T) = IF item \in T THEN Served(409, T)
                                ELSE Served(201, T \cup CreatedBy(item))

\* A create, which is refused where the parent is missing.
LEMMA CreateKeeps ==
  ASSUME NEW s, NEW c, NEW item, Makes(s, c, item)
  PROVE  Keeps(s) /\ Created(s, c, item)
<1>1. PICK r : r = RequestOf(s.op)
  OBVIOUS
<1>2. r.method = "POST" /\ r.path = c /\ Append(c, r.body[2]) = item
  BY <1>1 DEF Makes, Req
<1>3. \A T : Serve(r, T) = IF ~HasParent(c, T) THEN Served(404, T)
                           ELSE IF item \in T THEN Served(409, T)
                           ELSE Served(201, T \cup CreatedBy(item))
  BY <1>2 DEF Serve
<1>4. ASSUME NEW T \in AnyTree
      PROVE  Serve(r, T).tree \in AnyTree
  <2>1. CASE Serve(r, T).tree = T
    BY <2>1
  <2>2. CASE HasParent(c, T) /\ Serve(r, T).tree = T \cup CreatedBy(item)
    <3>1. Ws \in T \cup CreatedBy(item)
      BY <2>2 DEF Makes, HasParent, AnyTree
    <3> QED
      BY <2>2, <3>1 DEF Makes, AnyTree
  <2> QED
    BY <1>3, <2>1, <2>2 DEF Served
<1> QED
  BY <1>1, <1>3, <1>4 DEF Keeps, Created

\* The create of an item that is not there.
LEMMA CreateLeads ==
  ASSUME NEW s, NEW c, NEW item, Makes(s, c, item),
         s.must, NEW T, HasParent(c, T), item \notin T
  PROVE  Leads(s, {T}, {T \cup CreatedBy(item)}) /\ Keeps(s)
<1>1. Keeps(s) /\ Created(s, c, item)
  BY CreateKeeps
<1>2. Serve(RequestOf(s.op), T) = Served(201, T \cup CreatedBy(item))
  BY <1>1 DEF Created
<1>3. Fits(s, Served(201, T \cup CreatedBy(item)), {T \cup CreatedBy(item)})
  BY DEF Fits, Served
<1> QED
  BY <1>1, <1>2, <1>3 DEF Leads

\* The create of an item that is there.
LEMMA ConflictLeads ==
  ASSUME NEW s, NEW c, NEW item, Makes(s, c, item),
         ~s.must, NEW T, HasParent(c, T), item \in T
  PROVE  Leads(s, {T}, {T}) /\ Keeps(s)
<1>1. Keeps(s) /\ Created(s, c, item)
  BY CreateKeeps
<1>2. Serve(RequestOf(s.op), T) = Served(409, T)
  BY <1>1 DEF Created
<1>3. Fits(s, Served(409, T), {T})
  BY DEF Fits, Served
<1> QED
  BY <1>1, <1>2, <1>3 DEF Leads

\* Deleting the workspace deletes everything.
LEMMA DeleteWsLeads ==
  ASSUME NEW s, RequestOf(s.op) = Req("DELETE", Ws, <<>>, {"recurse=true"}),
         s.op.verb = "Delete", NEW before, before \subseteq AnyTree,
         s.must => \A T \in before : Ws \in T
  PROVE  Leads(s, before, {{}}) /\ Keeps(s)
<1>1. PICK r : r = RequestOf(s.op)
  OBVIOUS
<1>2. r.method = "DELETE" /\ r.path = Ws /\ "recurse=true" \in r.query
  BY <1>1 DEF Req
<1>3. \A T : /\ Ws \in T => Serve(r, T) = Served(200, T \ Below(Ws, T))
             /\ Ws \notin T => Serve(r, T) = Served(404, T)
  <2>1. IsItem(r.path)
    BY <1>2, ItemsAre
  <2>2. ASSUME NEW T
        PROVE  /\ r.path \in T => Serve(r, T) = Served(200, T \ Below(r.path, T))
               /\ r.path \notin T => Serve(r, T) = Served(404, T)
    BY <1>2, <2>1 DEF Serve
  <2> QED
    BY ONLY <1>2, <2>2
<1>4. ASSUME NEW T \in AnyTree
      PROVE  /\ Ws \in T => Serve(r, T) = Served(200, {})
             /\ Ws \notin T => Serve(r, T) = Served(404, {})
  <2>1. Below(Ws, T) = T /\ T \ T = {} /\ (Ws \notin T => T = {})
    BY BelowWs DEF AnyTree
  <2> QED
    BY <1>3, <2>1
<1>5. Fits(s, Served(200, {}), {{}}) /\ (~s.must => Fits(s, Served(404, {}), {{}}))
  BY DEF Fits, Served
<1>6. Leads(s, before, {{}})
  <2> SUFFICES ASSUME NEW T \in before
               PROVE  Fits(s, Serve(r, T), {{}})
    BY <1>1 DEF Leads
  <2>1. T \in AnyTree /\ (Ws \in T \/ ~s.must)
    OBVIOUS
  <2> QED
    BY <1>4, <1>5, <2>1
<1>7. Keeps(s)
  <2>1. {} \in AnyTree
    BY DEF AnyTree
  <2>2. Served(200, {}).tree = {} /\ Served(404, {}).tree = {}
    BY DEF Served
  <2>3. ASSUME NEW T \in AnyTree PROVE Serve(r, T).tree \in AnyTree
    <3>1. Serve(r, T) = Served(200, {}) \/ Serve(r, T) = Served(404, {})
      BY <1>4
    <3> QED
      BY ONLY <2>1, <2>2, <3>1
  <2> QED
    BY <1>1, <2>3 DEF Keeps
<1> QED
  BY <1>6, <1>7

\* Deleting the style leaves the workspace.
LEMMA DeleteStyleLeads ==
  ASSUME NEW s, NEW query, RequestOf(s.op) = Req("DELETE", Style, <<>>, query),
         s.op.verb = "Delete"
  PROVE  Leads(s, {{Ws, Style}}, {{Ws}}) /\ Keeps(s)
<1>1. PICK r : r = RequestOf(s.op)
  OBVIOUS
<1>2. r.method = "DELETE" /\ r.path = Style
  BY <1>1 DEF Req
<1>3. Len(Ws) = 3 /\ Len(Style) = 5
  BY DEF Ws, Style
<1>4. Serve(r, {Ws, Style}) = Served(200, {Ws})
  <2>1. PICK T : T = {Ws, Style}
    OBVIOUS
  <2>2. Below(r.path, T) = {r.path} /\ r.path \in T /\ IsItem(r.path)
    BY <1>2, <2>1, ItemsAre, BelowStyle
  <2>3. Serve(r, T) = Served(200, T \ Below(r.path, T))
    BY <1>2, <2>2, DeleteServed
  <2>4. Ws # Style
    BY <1>3
  <2>5. T \ Below(r.path, T) = {Ws}
    BY <1>2, <2>1, <2>2, <2>4
  <2> QED
    BY <2>1, <2>3, <2>5
<1>5. Fits(s, Served(200, {Ws}), {{Ws}})
  BY DEF Fits, Served
<1>6. ASSUME NEW T \in AnyTree
      PROVE  Serve(r, T).tree \in AnyTree
  <2>1. Serve(r, T).tree \in {T, T \ Below(Style, T)}
    BY <1>2, ItemsAre, DeleteServed
  <2>2. Ws \notin Below(Style, T)
    <3>1. \A p \in Below(Style, T) : Len(Style) <= Len(p)
      BY DEF Below
    <3>2. ~(Len(Style) <= Len(Ws))
      BY ONLY <1>3
    <3> QED
      BY ONLY <3>1, <3>2
  <2> QED
    BY <2>1, <2>2 DEF AnyTree
<1> QED
  BY <1>1, <1>4, <1>5, <1>6 DEF Leads, Keeps

-----------------------------------------------------------------------------
(* The steps of the programs. *)

Published == {Ws, Store, Table, Layer}

Does(s, before, after) == Leads(s, before, after) /\ Keeps(s)

\* What the programs leave between their steps is such a tree.
LEMMA TreesAre ==
  /\ {} \in AnyTree /\ {Ws} \in AnyTree /\ {Ws, Style} \in AnyTree /\ {Ws, Store} \in AnyTree
  /\ Published \in AnyTree
BY OfWsAre DEF AnyTree, Published

\* The items are different ones.
LEMMA PathsDiffer ==
  /\ Style # Ws /\ Store # Ws /\ Table # Ws /\ Table # Store /\ Layer # Ws
BY DEF Ws, Style, Store, Table, Layer

\* Whose parents are there.
LEMMA ParentsAre ==
  /\ \A T : HasParent(Collection, T)
  /\ \A T : Ws \in T => HasParent(StylesOfWs, T) /\ HasParent(StoresOfWs, T)
  /\ \A T : Store \in T => HasParent(TablesOfStore, T)
BY Fronts DEF HasParent

\* There is always a list of workspaces.
LEMMA ListWorkspaces ==
  ASSUME NEW B
  PROVE  Does(Must("workspaces", "List", <<>>, ""), B, B)
<1>1. PICK s : s = Must("workspaces", "List", <<>>, "")
  OBVIOUS
<1>2. s.op.client = "workspaces" /\ s.op.verb = "List" /\ s.op.recurse = TRUE
  BY <1>1 DEF Must, Try
<1>3. RequestOf(s.op) = Req("GET", Collection, <<>>, {})
  BY <1>2, WorkspaceRequests
<1>4. \A T \in B : HasParent(Collection, T)
  BY ParentsAre
<1>5. Leads(s, B, B) /\ Keeps(s)
  BY <1>2, <1>3, <1>4, ItemsAre, ListLeads
<1> QED
  BY <1>1, <1>5 DEF Does

\* Deleting the workspace, which may be missing if the program does not insist.
LEMMA DeleteWorkspace ==
  ASSUME NEW s, \/ s = Try("workspaces", "Delete", <<>>, "ws")
                \/ s = Must("workspaces", "Delete", <<>>, "ws"),
         NEW B, B \subseteq AnyTree, s.must => \A T \in B : Ws \in T
  PROVE  Does(s, B, {{}})
<1>1. /\ s.op.client = "workspaces" /\ s.op.verb = "Delete" /\ s.op.name = "ws"
      /\ s.op.recurse = TRUE
  BY DEF Must, Try
<1>2. RequestOf(s.op) = Req("DELETE", Ws, <<>>, {"recurse=true"})
  BY <1>1, WorkspaceRequests
<1>3. Leads(s, B, {{}}) /\ Keeps(s)
  BY <1>1, <1>2, DeleteWsLeads
<1> QED
  BY <1>3 DEF Does

\* What the create of a workspace asks for.
LEMMA MakesWs ==
  ASSUME NEW s, s.op.client = "workspaces", s.op.verb = "Create", s.op.name = "ws",
         s.op.recurse = TRUE
  PROVE  Makes(s, Collection, Ws)
<1>1. RequestOf(s.op) = Req("POST", Collection, <<"json", s.op.name>>, {})
  BY WorkspaceRequests
<1>2. Ws = Append(Collection, s.op.name)
  BY PathsAre
<1>3. CreatedBy(Ws) \subseteq OfWs /\ Ws \in CreatedBy(Ws)
  BY Creates, OfWsAre
<1> QED
  BY <1>1, <1>2, <1>3 DEF Makes

\* The workspace is created on a server without it.
LEMMA CreateWorkspace ==
  Does(Must("workspaces", "Create", <<>>, "ws"), {{}}, {{Ws}})
<1>1. PICK s : s = Must("workspaces", "Create", <<>>, "ws")
  OBVIOUS
<1>2. /\ s.op.client = "workspaces" /\ s.op.verb = "Create" /\ s.op.name = "ws"
      /\ s.op.recurse = TRUE /\ s.must
  BY <1>1 DEF Must, Try
<1>3. Makes(s, Collection, Ws)
  BY <1>2, MakesWs
<1>4. PICK T : T = {}
  OBVIOUS
<1>5. HasParent(Collection, T) /\ Ws \notin T
  BY <1>4, ParentsAre
<1>6. Leads(s, {T}, {T \cup CreatedBy(Ws)}) /\ Keeps(s)
  BY ONLY <1>2, <1>3, <1>5, CreateLeads
<1>7. T \cup CreatedBy(Ws) = {Ws}
  BY <1>4, Creates
<1> QED
  BY <1>1, <1>4, <1>6, <1>7 DEF Does

\* Created again, it is a conflict.
LEMMA CreateWorkspaceAgain ==
  Does(Try("workspaces", "Create", <<>>, "ws"), {{Ws}}, {{Ws}})
<1>1. PICK s : s = Try("workspaces", "Create", <<>>, "ws")
  OBVIOUS
<1>2. /\ s.op.client = "workspaces" /\ s.op.verb = "Create" /\ s.op.name = "ws"
      /\ s.op.recurse = TRUE /\ ~s.must
  BY <1>1 DEF Must, Try
<1>3. Makes(s, Collection, Ws)
  BY <1>2, MakesWs
<1>4. PICK T : T = {Ws}
  OBVIOUS
<1>5. HasParent(Collection, T) /\ Ws \in T
  BY <1>4, ParentsAre
<1>6. Leads(s, {T}, {T}) /\ Keeps(s)
  BY ONLY <1>2, <1>3, <1>5, ConflictLeads
<1> QED
  BY <1>1, <1>4, <1>6 DEF Does

\* It can be read then.
LEMMA GetWorkspace ==
  Does(Must("workspaces", "Get", <<>>, "ws"), {{Ws}}, {{Ws}})
<1>1. PICK s : s = Must("workspaces", "Get", <<>>, "ws")
  OBVIOUS
<1>2. /\ s.op.client = "workspaces" /\ s.op.verb = "Get" /\ s.op.name = "ws"
      /\ s.op.recurse = TRUE
  BY <1>1 DEF Must, Try
<1>3. RequestOf(s.op) = Req("GET", Ws, <<>>, {})
  BY <1>2, WorkspaceRequests
<1>4. PICK B : B = {{Ws}}
  OBVIOUS
<1>5. s.must => \A T \in B : Ws \in T
  BY <1>4
<1>6. Leads(s, B, B) /\ Keeps(s)
  BY <1>2, <1>3, <1>5, ItemsAre, ReadLeads
<1> QED
  BY <1>1, <1>4, <1>6 DEF Does

\* A workspace that may be missing is read.
LEMMA GetMissing ==
  ASSUME NEW B
  PROVE  Does(Try("workspaces", "Get", <<>>, "missing"), B, B)
<1>1. PICK s : s = Try("workspaces", "Get", <<>>, "missing")
  OBVIOUS
<1>2. /\ s.op.client = "workspaces" /\ s.op.verb = "Get" /\ s.op.name = "missing"
      /\ s.op.recurse = TRUE /\ ~s.must
  BY <1>1 DEF Must, Try
<1>3. RequestOf(s.op) = Req("GET", Missing, <<>>, {})
  BY <1>2, WorkspaceRequests
<1>4. Leads(s, B, B) /\ Keeps(s)
  BY <1>2, <1>3, ItemsAre, ReadLeads
<1> QED
  BY <1>1, <1>4 DEF Does

\* The style is registered in the workspace.
LEMMA CreateStyle ==
  Does(Must("styles", "Create", <<"ws">>, "style"), {{Ws}}, {{Ws, Style}})
<1>1. PICK s : s = Must("styles", "Create", <<"ws">>, "style")
  OBVIOUS
<1>2. /\ s.op.client = "styles" /\ s.op.verb = "Create" /\ s.op.name = "style"
      /\ s.op.scope = <<"ws">> /\ s.must
  BY <1>1 DEF Must, Try
<1>3. Makes(s, StylesOfWs, Style)
  <2>1. RequestOf(s.op) = Req("POST", StylesOfWs, <<"json", s.op.name>>, {})
    BY <1>2, StyleRequests
  <2>2. Style = Append(StylesOfWs, s.op.name)
    BY <1>2, PathsAre
  <2>3. CreatedBy(Style) \subseteq OfWs /\ Style \in CreatedBy(Style)
    BY Creates, OfWsAre
  <2>4. Front(StylesOfWs) # <<"rest">>
    BY Fronts DEF Ws
  <2> QED
    BY <2>1, <2>2, <2>3, <2>4 DEF Makes
<1>4. PICK T : T = {Ws}
  OBVIOUS
<1>5. HasParent(StylesOfWs, T) /\ Style \notin T
  BY <1>4, ParentsAre, PathsDiffer
<1>6. Leads(s, {T}, {T \cup CreatedBy(Style)}) /\ Keeps(s)
  BY ONLY <1>2, <1>3, <1>5, CreateLeads
<1>7. T \cup CreatedBy(Style) = {Ws, Style}
  BY <1>4, Creates
<1> QED
  BY <1>1, <1>4, <1>6, <1>7 DEF Does

\* Once registered, it can be uploaded and read.
LEMMA ReadStyle ==
  ASSUME NEW verb \in {"UploadSLD", "Get"}
  PROVE  Does(Must("styles", verb, <<"ws">>, "style"), {{Ws, Style}}, {{Ws, Style}})
<1>1. PICK s : s = Must("styles", verb, <<"ws">>, "style")
  OBVIOUS
<1>2. /\ s.op.client = "styles" /\ s.op.verb = verb /\ s.op.name = "style"
      /\ s.op.scope = <<"ws">>
  BY <1>1 DEF Must, Try
<1>3. \E method \in {"GET", "PUT"} : \E body, query :
        RequestOf(s.op) = Req(method, Style, body, query)
  <2>1. CASE verb = "Get"
    BY <1>2, <2>1, StyleRequests
  <2>2. CASE verb = "UploadSLD"
    BY <1>2, <2>2, StyleRequests
  <2> QED
    BY <2>1, <2>2
<1>4. PICK B : B = {{Ws, Style}}
  OBVIOUS
<1>5. s.must => \A T \in B : Style \in T
  BY <1>4
<1>6. s.op.verb # "Create" /\ IsItem(Style)
  BY <1>2, ItemsAre
<1>7. Leads(s, B, B) /\ Keeps(s)
  BY ONLY <1>3, <1>5, <1>6, ReadLeads
<1> QED
  BY <1>1, <1>4, <1>7 DEF Does

\* It is deleted.
LEMMA DeleteStyle ==
  Does(Try("styles", "Delete", <<"ws">>, "style"), {{Ws, Style}}, {{Ws}})
<1>1. PICK s : s = Try("styles", "Delete", <<"ws">>, "style")
  OBVIOUS
<1>2. /\ s.op.client = "styles" /\ s.op.verb = "Delete" /\ s.op.name = "style"
      /\ s.op.scope = <<"ws">>
  BY <1>1 DEF Must, Try
<1>3. \E query : RequestOf(s.op) = Req("DELETE", Style, <<>>, query)
  BY <1>2, StyleRequests
<1>4. Leads(s, {{Ws, Style}}, {{Ws}}) /\ Keeps(s)
  BY <1>2, <1>3, DeleteStyleLeads
<1> QED
  BY <1>1, <1>4 DEF Does

\* It is read, though it may be gone.
LEMMA GetNoStyle ==
  ASSUME NEW B
  PROVE  Does(Try("styles", "Get", <<"ws">>, "style"), B, B)
<1>1. PICK s : s = Try("styles", "Get", <<"ws">>, "style")
  OBVIOUS
<1>2. /\ s.op.client = "styles" /\ s.op.verb = "Get" /\ s.op.name = "style"
      /\ s.op.scope = <<"ws">> /\ ~s.must
  BY <1>1 DEF Must, Try
<1>3. RequestOf(s.op) = Req("GET", Style, <<>>, {})
  BY <1>2, StyleRequests
<1>4. Leads(s, B, B) /\ Keeps(s)
  BY <1>2, <1>3, ItemsAre, ReadLeads
<1> QED
  BY <1>1, <1>4 DEF Does

\* The store is created in the workspace.
LEMMA CreateStore ==
  Does(Must("datastores", "Create", <<"ws">>, "store"), {{Ws}}, {{Ws, Store}})
<1>1. PICK s : s = Must("datastores", "Create", <<"ws">>, "store")
  OBVIOUS
<1>2. /\ s.op.client = "datastores" /\ s.op.verb = "Create" /\ s.op.name = "store"
      /\ s.op.scope = <<"ws">> /\ s.must
  BY <1>1 DEF Must, Try
<1>3. Makes(s, StoresOfWs, Store)
  <2>1. RequestOf(s.op) = Req("POST", StoresOfWs, <<"json", s.op.name>>, {})
    BY <1>2, StoreRequests
  <2>2. Store = Append(StoresOfWs, s.op.name)
    BY <1>2, PathsAre
  <2>3. CreatedBy(Store) \subseteq OfWs /\ Store \in CreatedBy(Store)
    BY Creates, OfWsAre
  <2>4. Front(StoresOfWs) # <<"rest">>
    BY Fronts DEF Ws
  <2> QED
    BY <2>1, <2>2, <2>3, <2>4 DEF Makes
<1>4. PICK T : T = {Ws}
  OBVIOUS
<1>5. HasParent(StoresOfWs, T) /\ Store \notin T
  BY <1>4, ParentsAre, PathsDiffer
<1>6. Leads(s, {T}, {T \cup CreatedBy(Store)}) /\ Keeps(s)
  BY ONLY <1>2, <1>3, <1>5, CreateLeads
<1>7. T \cup CreatedBy(Store) = {Ws, Store}
  BY <1>4, Creates
<1> QED
  BY <1>1, <1>4, <1>6, <1>7 DEF Does

\* It is read, though it may be gone.
LEMMA GetNoStore ==
  ASSUME NEW B
  PROVE  Does(Try("datastores", "Get", <<"ws">>, "store"), B, B)
<1>1. PICK s : s = Try("datastores", "Get", <<"ws">>, "store")
  OBVIOUS
<1>2. /\ s.op.client = "datastores" /\ s.op.verb = "Get" /\ s.op.name = "store"
      /\ s.op.scope = <<"ws">> /\ ~s.must
  BY <1>1 DEF Must, Try
<1>3. RequestOf(s.op) = Req("GET", Store, <<>>, {})
  BY <1>2, StoreRequests
<1>4. Leads(s, B, B) /\ Keeps(s)
  BY <1>2, <1>3, ItemsAre, ReadLeads
<1> QED
  BY <1>1, <1>4 DEF Does

\* Its tables are listed.
LEMMA DiscoverTables ==
  Does(Must("featureTypes", "Discover", <<"ws", "store">>, ""), {{Ws, Store}}, {{Ws, Store}})
<1>1. PICK s : s = Must("featureTypes", "Discover", <<"ws", "store">>, "")
  OBVIOUS
<1>2. s.op.client = "featureTypes" /\ s.op.verb = "Discover" /\ s.op.scope = <<"ws", "store">>
  BY <1>1 DEF Must, Try
<1>3. RequestOf(s.op) = Req("GET", TablesOfStore, <<>>, {"list"})
  BY <1>2, TableRequests
<1>4. PICK B : B = {{Ws, Store}}
  OBVIOUS
<1>5. \A T \in B : HasParent(TablesOfStore, T)
  BY <1>4, ParentsAre
<1>6. Leads(s, B, B) /\ Keeps(s)
  BY <1>2, <1>3, <1>5, ItemsAre, ListLeads
<1> QED
  BY <1>1, <1>4, <1>6 DEF Does

\* A table is published, and with it its layer.
LEMMA CreateTable ==
  Does(Must("featureTypes", "Create", <<"ws", "store">>, "table"), {{Ws, Store}}, {Published})
<1>1. PICK s : s = Must("featureTypes", "Create", <<"ws", "store">>, "table")
  OBVIOUS
<1>2. /\ s.op.client = "featureTypes" /\ s.op.verb = "Create" /\ s.op.name = "table"
      /\ s.op.scope = <<"ws", "store">> /\ s.must
  BY <1>1 DEF Must, Try
<1>3. Makes(s, TablesOfStore, Table)
  <2>1. RequestOf(s.op) = Req("POST", TablesOfStore, <<"json", s.op.name>>, {})
    BY <1>2, TableRequests
  <2>2. Table = Append(TablesOfStore, s.op.name)
    BY <1>2, PathsAre
  <2>3. CreatedBy(Table) \subseteq OfWs /\ Table \in CreatedBy(Table)
    BY Creates, OfWsAre
  <2>4. Front(TablesOfStore) # <<"rest">>
    BY Fronts DEF Store
  <2> QED
    BY <2>1, <2>2, <2>3, <2>4 DEF Makes
<1>4. PICK T : T = {Ws, Store}
  OBVIOUS
<1>5. HasParent(TablesOfStore, T) /\ Table \notin T
  BY <1>4, ParentsAre, PathsDiffer
<1>6. Leads(s, {T}, {T \cup CreatedBy(Table)}) /\ Keeps(s)
  BY ONLY <1>2, <1>3, <1>5, CreateLeads
<1>7. T \cup CreatedBy(Table) = Published
  BY <1>4, Creates DEF Published
<1> QED
  BY <1>1, <1>4, <1>6, <1>7 DEF Does

\* The feature type can be read then.
LEMMA GetTable ==
  Does(Must("featureTypes", "Get", <<"ws", "store">>, "table"), {Published}, {Published})
<1>1. PICK s : s = Must("featureTypes", "Get", <<"ws", "store">>, "table")
  OBVIOUS
<1>2. /\ s.op.client = "featureTypes" /\ s.op.verb = "Get" /\ s.op.name = "table"
      /\ s.op.scope = <<"ws", "store">>
  BY <1>1 DEF Must, Try
<1>3. RequestOf(s.op) = Req("GET", Table, <<>>, {})
  BY <1>2, TableRequests
<1>4. PICK B : B = {Published}
  OBVIOUS
<1>5. s.must => \A T \in B : Table \in T
  BY <1>4 DEF Published
<1>6. Leads(s, B, B) /\ Keeps(s)
  BY <1>2, <1>3, <1>5, ItemsAre, ReadLeads
<1> QED
  BY <1>1, <1>4, <1>6 DEF Does

\* So can the layer.
LEMMA GetLayer ==
  Does(Must("layers", "Get", <<"ws">>, "table"), {Published}, {Published})
<1>1. PICK s : s = Must("layers", "Get", <<"ws">>, "table")
  OBVIOUS
<1>2. /\ s.op.client = "layers" /\ s.op.verb = "Get" /\ s.op.name = "table"
      /\ s.op.scope = <<"ws">>
  BY <1>1 DEF Must, Try
<1>3. RequestOf(s.op) = Req("GET", Layer, <<>>, {})
  BY <1>2, LayerRequests
<1>4. PICK B : B = {Published}
  OBVIOUS
<1>5. s.must => \A T \in B : Layer \in T
  BY <1>4 DEF Published
<1>6. Leads(s, B, B) /\ Keeps(s)
  BY <1>2, <1>3, <1>5, ItemsAre, ReadLeads
<1> QED
  BY <1>1, <1>4, <1>6 DEF Does

-----------------------------------------------------------------------------
(* The programs.  For each, the trees the server may have before its steps *)
(* and after the last, if nothing disturbs the run.                        *)

WorkspacesStages == <<AnyTree, AnyTree, {{}}, {{Ws}}, {{Ws}}, {{Ws}}, {{Ws}}, {{}}>>
ErrorStages == <<AnyTree, AnyTree, AnyTree, {{}}, {{Ws}}, {{Ws}}, {{}}>>
StyleStages ==
  <<AnyTree, {{}}, {{Ws}}, {{Ws, Style}}, {{Ws, Style}}, {{Ws, Style}}, {{Ws}}, {{}}, {{}}>>
PublishStages ==
  <<AnyTree, {{}}, {{Ws}}, {{Ws, Store}}, {{Ws, Store}}, {Published}, {Published}, {Published},
    {{}}, {{}}>>

\* Each step leads from one of them to the next, from anything to nothing.
Runs(script, stages) ==
  /\ Len(script) \in Nat \ {0}
  /\ stages[1] = AnyTree /\ stages[Len(script) + 1] = {{}}
  /\ \A n \in 1..Len(script) : Does(script[n], stages[n], stages[n + 1])

\* The workspace may be deleted whatever is there, or nothing.
LEMMA DeleteAnything ==
  /\ Does(Try("workspaces", "Delete", <<>>, "ws"), AnyTree, {{}})
  /\ Does(Try("workspaces", "Delete", <<>>, "ws"), {{Ws}}, {{}})
  /\ Does(Try("workspaces", "Delete", <<>>, "ws"), {Published}, {{}})
  /\ Does(Must("workspaces", "Delete", <<>>, "ws"), {{Ws}}, {{}})
<1>1. PICK try : try = Try("workspaces", "Delete", <<>>, "ws")
  OBVIOUS
<1>2. PICK must : must = Must("workspaces", "Delete", <<>>, "ws")
  OBVIOUS
<1>3. ~try.must
  BY <1>1 DEF Try, Must
<1>4. PICK W, P : W = {{Ws}} /\ P = {Published}
  OBVIOUS
<1>5. W \subseteq AnyTree /\ P \subseteq AnyTree /\ \A T \in W : Ws \in T
  BY <1>4, TreesAre
<1>6. Does(try, AnyTree, {{}}) /\ Does(try, W, {{}}) /\ Does(try, P, {{}})
  BY <1>1, <1>3, <1>5, DeleteWorkspace
<1>7. Does(must, W, {{}})
  BY <1>2, <1>5, DeleteWorkspace
<1> QED
  BY <1>1, <1>2, <1>4, <1>6, <1>7

\* The workspaces example runs through.
LEMMA WorkspacesDemoRuns == Runs(WorkspacesDemo, WorkspacesStages)
<1>1. Len(WorkspacesDemo) = 7
  BY DEF WorkspacesDemo
<1>2. /\ WorkspacesDemo[1] = Must("workspaces", "List", <<>>, "")
      /\ WorkspacesDemo[2] = Try("workspaces", "Delete", <<>>, "ws")
      /\ WorkspacesDemo[3] = Must("workspaces", "Create", <<>>, "ws")
      /\ WorkspacesDemo[4] = Must("workspaces", "Get", <<>>, "ws")
      /\ WorkspacesDemo[5] = Try("workspaces", "Get", <<>>, "missing")
      /\ WorkspacesDemo[6] = Must("workspaces", "List", <<>>, "")
      /\ WorkspacesDemo[7] = Must("workspaces", "Delete", <<>>, "ws")
  BY DEF WorkspacesDemo
<1>3. /\ WorkspacesStages[1] = AnyTree
      /\ WorkspacesStages[2] = AnyTree
      /\ WorkspacesStages[3] = {{}}
      /\ WorkspacesStages[4] = {{Ws}}
      /\ WorkspacesStages[5] = {{Ws}}
      /\ WorkspacesStages[6] = {{Ws}}
      /\ WorkspacesStages[7] = {{Ws}}
      /\ WorkspacesStages[8] = {{}}
  BY DEF WorkspacesStages
<1>4. Does(WorkspacesDemo[1], WorkspacesStages[1], WorkspacesStages[2])
  <2>1. Does(Must("workspaces", "List", <<>>, ""), AnyTree, AnyTree)
    BY ListWorkspaces
  <2> QED
    BY <1>2, <1>3, <2>1
<1>5. Does(WorkspacesDemo[2], WorkspacesStages[2], WorkspacesStages[3])
  BY <1>2, <1>3, DeleteAnything
<1>6. Does(WorkspacesDemo[3], WorkspacesStages[3], WorkspacesStages[4])
  BY <1>2, <1>3, CreateWorkspace
<1>7. Does(WorkspacesDemo[4], WorkspacesStages[4], WorkspacesStages[5])
  BY <1>2, <1>3, GetWorkspace
<1>8. Does(WorkspacesDemo[5], WorkspacesStages[5], WorkspacesStages[6])
  <2>1. Does(Try("workspaces", "Get", <<>>, "missing"), {{Ws}}, {{Ws}})
    BY GetMissing
  <2> QED
    BY <1>2, <1>3, <2>1
<1>9. Does(WorkspacesDemo[6], WorkspacesStages[6], WorkspacesStages[7])
  <2>1. Does(Must("workspaces", "List", <<>>, ""), {{Ws}}, {{Ws}})
    BY ListWorkspaces
  <2> QED
    BY <1>2, <1>3, <2>1
<1>10. Does(WorkspacesDemo[7], WorkspacesStages[7], WorkspacesStages[8])
  BY <1>2, <1>3, DeleteAnything
<1>11. \A i \in 1..Len(WorkspacesDemo) :
         Does(WorkspacesDemo[i], WorkspacesStages[i], WorkspacesStages[i + 1])
  BY ONLY <1>1, <1>4, <1>5, <1>6, <1>7, <1>8, <1>9, <1>10
<1>12. WorkspacesStages[1] = AnyTree /\ WorkspacesStages[Len(WorkspacesDemo) + 1] = {{}}
  <2>1. Len(WorkspacesDemo) + 1 = 8
    BY ONLY <1>1
  <2> QED
    BY <1>3, <2>1
<1> QED
  BY ONLY <1>1, <1>11, <1>12 DEF Runs

\* The error-handling example runs through.
LEMMA ErrorHandlingRuns == Runs(ErrorHandling, ErrorStages)
<1>1. Len(ErrorHandling) = 6
  BY DEF ErrorHandling
<1>2. /\ ErrorHandling[1] = Try("workspaces", "Get", <<>>, "missing")
      /\ ErrorHandling[2] = Try("workspaces", "Get", <<>>, "missing")
      /\ ErrorHandling[3] = Try("workspaces", "Delete", <<>>, "ws")
      /\ ErrorHandling[4] = Must("workspaces", "Create", <<>>, "ws")
      /\ ErrorHandling[5] = Try("workspaces", "Create", <<>>, "ws")
      /\ ErrorHandling[6] = Try("workspaces", "Delete", <<>>, "ws")
  BY DEF ErrorHandling
<1>3. /\ ErrorStages[1] = AnyTree
      /\ ErrorStages[2] = AnyTree
      /\ ErrorStages[3] = AnyTree
      /\ ErrorStages[4] = {{}}
      /\ ErrorStages[5] = {{Ws}}
      /\ ErrorStages[6] = {{Ws}}
      /\ ErrorStages[7] = {{}}
  BY DEF ErrorStages
<1>4. Does(ErrorHandling[1], ErrorStages[1], ErrorStages[2])
  <2>1. Does(Try("workspaces", "Get", <<>>, "missing"), AnyTree, AnyTree)
    BY GetMissing
  <2> QED
    BY <1>2, <1>3, <2>1
<1>5. Does(ErrorHandling[2], ErrorStages[2], ErrorStages[3])
  <2>1. Does(Try("workspaces", "Get", <<>>, "missing"), AnyTree, AnyTree)
    BY GetMissing
  <2> QED
    BY <1>2, <1>3, <2>1
<1>6. Does(ErrorHandling[3], ErrorStages[3], ErrorStages[4])
  BY <1>2, <1>3, DeleteAnything
<1>7. Does(ErrorHandling[4], ErrorStages[4], ErrorStages[5])
  BY <1>2, <1>3, CreateWorkspace
<1>8. Does(ErrorHandling[5], ErrorStages[5], ErrorStages[6])
  BY <1>2, <1>3, CreateWorkspaceAgain
<1>9. Does(ErrorHandling[6], ErrorStages[6], ErrorStages[7])
  BY <1>2, <1>3, DeleteAnything
<1>10. \A i \in 1..Len(ErrorHandling) :
         Does(ErrorHandling[i], ErrorStages[i], ErrorStages[i + 1])
  BY ONLY <1>1, <1>4, <1>5, <1>6, <1>7, <1>8, <1>9
<1>11. ErrorStages[1] = AnyTree /\ ErrorStages[Len(ErrorHandling) + 1] = {{}}
  <2>1. Len(ErrorHandling) + 1 = 7
    BY ONLY <1>1
  <2> QED
    BY <1>3, <2>1
<1> QED
  BY ONLY <1>1, <1>10, <1>11 DEF Runs

\* The style-upload example runs through.
LEMMA StyleUploadRuns == Runs(StyleUpload, StyleStages)
<1>1. Len(StyleUpload) = 8
  BY DEF StyleUpload
<1>2. /\ StyleUpload[1] = Try("workspaces", "Delete", <<>>, "ws")
      /\ StyleUpload[2] = Must("workspaces", "Create", <<>>, "ws")
      /\ StyleUpload[3] = Must("styles", "Create", <<"ws">>, "style")
      /\ StyleUpload[4] = Must("styles", "UploadSLD", <<"ws">>, "style")
      /\ StyleUpload[5] = Must("styles", "Get", <<"ws">>, "style")
      /\ StyleUpload[6] = Try("styles", "Delete", <<"ws">>, "style")
      /\ StyleUpload[7] = Try("workspaces", "Delete", <<>>, "ws")
      /\ StyleUpload[8] = Try("styles", "Get", <<"ws">>, "style")
  BY DEF StyleUpload
<1>3. /\ StyleStages[1] = AnyTree
      /\ StyleStages[2] = {{}}
      /\ StyleStages[3] = {{Ws}}
      /\ StyleStages[4] = {{Ws, Style}}
      /\ StyleStages[5] = {{Ws, Style}}
      /\ StyleStages[6] = {{Ws, Style}}
      /\ StyleStages[7] = {{Ws}}
      /\ StyleStages[8] = {{}}
      /\ StyleStages[9] = {{}}
  BY DEF StyleStages
<1>4. Does(StyleUpload[1], StyleStages[1], StyleStages[2])
  BY <1>2, <1>3, DeleteAnything
<1>5. Does(StyleUpload[2], StyleStages[2], StyleStages[3])
  BY <1>2, <1>3, CreateWorkspace
<1>6. Does(StyleUpload[3], StyleStages[3], StyleStages[4])
  BY <1>2, <1>3, CreateStyle
<1>7. Does(StyleUpload[4], StyleStages[4], StyleStages[5])
  BY <1>2, <1>3, ReadStyle
<1>8. Does(StyleUpload[5], StyleStages[5], StyleStages[6])
  BY <1>2, <1>3, ReadStyle
<1>9. Does(StyleUpload[6], StyleStages[6], StyleStages[7])
  BY <1>2, <1>3, DeleteStyle
<1>10. Does(StyleUpload[7], StyleStages[7], StyleStages[8])
  BY <1>2, <1>3, DeleteAnything
<1>11. Does(StyleUpload[8], StyleStages[8], StyleStages[9])
  <2>1. Does(Try("styles", "Get", <<"ws">>, "style"), {{}}, {{}})
    BY GetNoStyle
  <2> QED
    BY <1>2, <1>3, <2>1
<1>12. \A i \in 1..Len(StyleUpload) :
         Does(StyleUpload[i], StyleStages[i], StyleStages[i + 1])
  BY ONLY <1>1, <1>4, <1>5, <1>6, <1>7, <1>8, <1>9, <1>10, <1>11
<1>13. StyleStages[1] = AnyTree /\ StyleStages[Len(StyleUpload) + 1] = {{}}
  <2>1. Len(StyleUpload) + 1 = 9
    BY ONLY <1>1
  <2> QED
    BY <1>3, <2>1
<1> QED
  BY ONLY <1>1, <1>12, <1>13 DEF Runs

\* The publish-postgis example runs through.
LEMMA PublishPostGISRuns == Runs(PublishPostGIS, PublishStages)
<1>1. Len(PublishPostGIS) = 9
  BY DEF PublishPostGIS
<1>2. /\ PublishPostGIS[1] = Try("workspaces", "Delete", <<>>, "ws")
      /\ PublishPostGIS[2] = Must("workspaces", "Create", <<>>, "ws")
      /\ PublishPostGIS[3] = Must("datastores", "Create", <<"ws">>, "store")
      /\ PublishPostGIS[4] = Must("featureTypes", "Discover", <<"ws", "store">>, "")
      /\ PublishPostGIS[5] = Must("featureTypes", "Create", <<"ws", "store">>, "table")
      /\ PublishPostGIS[6] = Must("layers", "Get", <<"ws">>, "table")
      /\ PublishPostGIS[7] = Must("featureTypes", "Get", <<"ws", "store">>, "table")
      /\ PublishPostGIS[8] = Try("workspaces", "Delete", <<>>, "ws")
      /\ PublishPostGIS[9] = Try("datastores", "Get", <<"ws">>, "store")
  BY DEF PublishPostGIS
<1>3. /\ PublishStages[1] = AnyTree
      /\ PublishStages[2] = {{}}
      /\ PublishStages[3] = {{Ws}}
      /\ PublishStages[4] = {{Ws, Store}}
      /\ PublishStages[5] = {{Ws, Store}}
      /\ PublishStages[6] = {Published}
      /\ PublishStages[7] = {Published}
      /\ PublishStages[8] = {Published}
      /\ PublishStages[9] = {{}}
      /\ PublishStages[10] = {{}}
  BY DEF PublishStages
<1>4. Does(PublishPostGIS[1], PublishStages[1], PublishStages[2])
  BY <1>2, <1>3, DeleteAnything
<1>5. Does(PublishPostGIS[2], PublishStages[2], PublishStages[3])
  BY <1>2, <1>3, CreateWorkspace
<1>6. Does(PublishPostGIS[3], PublishStages[3], PublishStages[4])
  BY <1>2, <1>3, CreateStore
<1>7. Does(PublishPostGIS[4], PublishStages[4], PublishStages[5])
  BY <1>2, <1>3, DiscoverTables
<1>8. Does(PublishPostGIS[5], PublishStages[5], PublishStages[6])
  BY <1>2, <1>3, CreateTable
<1>9. Does(PublishPostGIS[6], PublishStages[6], PublishStages[7])
  BY <1>2, <1>3, GetLayer
<1>10. Does(PublishPostGIS[7], PublishStages[7], PublishStages[8])
  BY <1>2, <1>3, GetTable
<1>11. Does(PublishPostGIS[8], PublishStages[8], PublishStages[9])
  BY <1>2, <1>3, DeleteAnything
<1>12. Does(PublishPostGIS[9], PublishStages[9], PublishStages[10])
  <2>1. Does(Try("datastores", "Get", <<"ws">>, "store"), {{}}, {{}})
    BY GetNoStore
  <2> QED
    BY <1>2, <1>3, <2>1
<1>13. \A i \in 1..Len(PublishPostGIS) :
         Does(PublishPostGIS[i], PublishStages[i], PublishStages[i + 1])
  BY ONLY <1>1, <1>4, <1>5, <1>6, <1>7, <1>8, <1>9, <1>10, <1>11, <1>12
<1>14. PublishStages[1] = AnyTree /\ PublishStages[Len(PublishPostGIS) + 1] = {{}}
  <2>1. Len(PublishPostGIS) + 1 = 10
    BY ONLY <1>1
  <2> QED
    BY <1>3, <2>1
<1> QED
  BY ONLY <1>1, <1>13, <1>14 DEF Runs

Stages ==
  CASE program = "workspaces" -> WorkspacesStages
    [] program = "error-handling" -> ErrorStages
    [] program = "style-upload" -> StyleStages
    [] program = "publish-postgis" -> PublishStages

\* Each of the programs runs through.
LEMMA ScriptRuns ==
  ASSUME program \in Programs
  PROVE  Runs(Script, Stages)
<1>1. program \in {"workspaces", "error-handling", "style-upload", "publish-postgis"}
  BY ProgramsAssumption
<1>2. CASE program = "workspaces"
  BY <1>2, WorkspacesDemoRuns DEF Script, Stages
<1>3. CASE program = "error-handling"
  BY <1>3, ErrorHandlingRuns DEF Script, Stages
<1>4. CASE program = "style-upload"
  BY <1>4, StyleUploadRuns DEF Script, Stages
<1>5. CASE program = "publish-postgis"
  BY <1>5, PublishPostGISRuns DEF Script, Stages
<1> QED
  BY <1>1, <1>2, <1>3, <1>4, <1>5

-----------------------------------------------------------------------------
(* The inductive invariant. *)

\* The requests a run can make.
ItsRequests == {RequestOf(Script[n].op) : n \in 1..Len(Script)}

\* Whatever happens, the server has only what the programs make.
PublishTypes ==
  /\ program \in Programs
  /\ pc \in 1..Len(Script)
  /\ status \in {"running", "failed", "done"}
  /\ calm \in BOOLEAN /\ expired \in BOOLEAN
  /\ faults \in 0..MaxFaults
  /\ tree \in AnyTree
  /\ late \subseteq ItsRequests

\* Before its step is executed a calm run finds what the steps before it left, and
\* after it what the step leaves, with the answer the program expects.
OnCourse ==
  /\ answer \in {0, 1} => tree \in Stages[pc]
  /\ answer \notin {0, 1} => Fits(Script[pc], Served(answer, tree), Stages[pc + 1])

CalmRun ==
  /\ late = {} /\ ~expired
  /\ status # "failed"
  /\ status = "running" => OnCourse
  /\ status = "done" => tree = {}
  /\ twice \in {0, 409}

PublishInv == PublishTypes /\ (calm => CalmRun)

\* The current step.
LEMMA CurrentStep ==
  ASSUME PublishTypes
  PROVE  /\ Len(Script) \in Nat \ {0} /\ pc \in 1..Len(Script) /\ pc \in Nat
         /\ Stages[1] = AnyTree /\ Stages[Len(Script) + 1] = {{}}
         /\ Leads(Script[pc], Stages[pc], Stages[pc + 1])
         /\ \A n \in 1..Len(Script) : Keeps(Script[n])
         /\ Current \in ItsRequests
<1>1. Runs(Script, Stages)
  BY ScriptRuns DEF PublishTypes
<1>2. pc \in 1..Len(Script)
  BY DEF PublishTypes
<1>3. Current \in ItsRequests
  BY <1>2 DEF Current, ItsRequests
<1> QED
  BY <1>1, <1>2, <1>3 DEF Runs, Does

\* The script is that of the program.
LEMMA SameScript ==
  ASSUME program' = program
  PROVE  Script' = Script /\ Stages' = Stages /\ ItsRequests' = ItsRequests
<1>1. Script' = Script /\ Stages' = Stages
  BY DEF Script, Stages
<1> QED
  BY <1>1 DEF ItsRequests

\* A call returns: where the program is.
LEMMA ProceedTypes ==
  ASSUME PublishTypes, NEW failed \in BOOLEAN, Proceed(failed), program' = program
  PROVE  pc' \in 1..Len(Script') /\ status' \in {"running", "failed", "done"}
<1>1. Len(Script) \in Nat \ {0} /\ pc \in 1..Len(Script) /\ pc \in Nat /\ Script' = Script
  BY CurrentStep, SameScript
<1>2. status \in {"running", "failed", "done"}
  BY DEF PublishTypes
<1> QED
  BY <1>1, <1>2 DEF Proceed

\* What is abandoned is a request of the program.
LEMMA AbandonTypes ==
  ASSUME PublishTypes, Abandon, program' = program
  PROVE  late' \subseteq ItsRequests'
<1>1. Current \in ItsRequests /\ ItsRequests' = ItsRequests /\ late \subseteq ItsRequests
  BY CurrentStep, SameScript DEF PublishTypes
<1> QED
  BY <1>1 DEF Abandon

\* It holds at first.
LEMMA PublishInitInv ==
  ASSUME Init
  PROVE  PublishInv
<1>1. /\ program \in Programs /\ pc = 1 /\ status = "running" /\ answer = 0 /\ expired = FALSE
      /\ tree = {} /\ late = {} /\ faults = 0 /\ calm = TRUE /\ twice = 0
  BY DEF Init
<1>2. Runs(Script, Stages)
  BY <1>1, ScriptRuns
<1>3. {} \in AnyTree /\ Stages[1] = AnyTree /\ 1 \in 1..Len(Script)
  BY <1>2, TreesAre DEF Runs
<1>4. 0 \in 0..MaxFaults
  BY ProgramsAssumption
<1>5. PublishTypes
  BY <1>1, <1>3, <1>4 DEF PublishTypes
<1>6. OnCourse
  BY <1>1, <1>3 DEF OnCourse
<1>7. CalmRun
  BY <1>1, <1>6 DEF CalmRun
<1> QED
  BY <1>5, <1>7 DEF PublishInv

\* A call is sent: the server has not seen it yet.
LEMMA IssueInv ==
  ASSUME PublishInv, Issue
  PROVE  PublishInv'
<1>1. /\ status = "running" /\ answer = 0 /\ answer' = 1
      /\ UNCHANGED <<program, pc, status, expired, tree, late, faults, calm, twice>>
  BY DEF Issue
<1>2. Script' = Script /\ Stages' = Stages /\ ItsRequests' = ItsRequests
  BY <1>1, SameScript
<1>3. PublishTypes'
  BY <1>1, <1>2 DEF PublishInv, PublishTypes
<1>4. ASSUME calm
      PROVE  CalmRun'
  <2>1. CalmRun /\ tree \in Stages[pc]
    BY <1>1, <1>4 DEF PublishInv, CalmRun, OnCourse
  <2>2. OnCourse'
    BY <1>1, <1>2, <2>1 DEF OnCourse
  <2> QED
    BY <1>1, <2>1, <2>2 DEF CalmRun
<1> QED
  BY <1>1, <1>3, <1>4 DEF PublishInv

\* The server does what the step is there for.
LEMMA ExecuteInv ==
  ASSUME PublishInv, Execute
  PROVE  PublishInv'
<1>1. /\ status = "running" /\ answer = 1
      /\ tree' = Serve(Current, tree).tree /\ answer' = Serve(Current, tree).status
      /\ UNCHANGED <<program, pc, status, expired, late, faults, calm, twice>>
  BY DEF Execute
<1>2. Script' = Script /\ Stages' = Stages /\ ItsRequests' = ItsRequests
  BY <1>1, SameScript
<1>3. /\ Leads(Script[pc], Stages[pc], Stages[pc + 1]) /\ Keeps(Script[pc])
      /\ Current = RequestOf(Script[pc].op) /\ tree \in AnyTree
  BY CurrentStep DEF PublishInv, PublishTypes, Current
<1>4. tree' \in AnyTree
  BY <1>1, <1>3 DEF Keeps
<1>5. PublishTypes'
  BY <1>1, <1>2, <1>4 DEF PublishInv, PublishTypes
<1>6. ASSUME calm
      PROVE  CalmRun'
  <2>1. CalmRun /\ tree \in Stages[pc]
    BY <1>1, <1>6 DEF PublishInv, CalmRun, OnCourse
  <2>2. Fits(Script[pc], Serve(Current, tree), Stages[pc + 1])
    BY <1>3, <2>1 DEF Leads
  <2>3. Fits(Script[pc], Served(answer', tree'), Stages[pc + 1]) /\ answer' \notin {0, 1}
    BY <1>1, <2>2 DEF Fits, Served
  <2>4. OnCourse'
    BY <1>1, <1>2, <2>3 DEF OnCourse
  <2> QED
    BY <1>1, <2>1, <2>4 DEF CalmRun
<1> QED
  BY <1>1, <1>5, <1>6 DEF PublishInv

\* The program goes on where the next step finds what it needs.
LEMMA AnsweredInv ==
  ASSUME PublishInv, Answered
  PROVE  PublishInv'
<1>1. /\ status = "running" /\ answer \notin {0, 1}
      /\ UNCHANGED <<program, expired, tree, late, faults, calm>>
  BY DEF Answered
<1>2. PICK failed \in BOOLEAN : failed = (answer \notin 200..299)
  OBVIOUS
<1>3. Proceed(failed) /\ twice' = IF Duplicate THEN answer ELSE twice
  BY <1>2 DEF Answered
<1>4. Script' = Script /\ Stages' = Stages /\ ItsRequests' = ItsRequests /\ PublishTypes
  BY <1>1, SameScript DEF PublishInv
<1>5. PublishTypes'
  BY <1>1, <1>3, <1>4, ProceedTypes DEF PublishTypes
<1>6. ASSUME calm
      PROVE  CalmRun'
  <2>1. /\ late = {} /\ ~expired /\ twice \in {0, 409}
        /\ Fits(Script[pc], Served(answer, tree), Stages[pc + 1])
    BY <1>1, <1>6 DEF PublishInv, CalmRun, OnCourse
  <2>2. /\ tree \in Stages[pc + 1] /\ (Script[pc].must => ~failed)
        /\ Duplicate => answer = 409
    BY <1>2, <2>1 DEF Fits, Served, Duplicate
  <2>3. twice' \in {0, 409}
    BY <1>3, <2>1, <2>2
  <2>4. CASE pc = Len(Script) /\ status' = "done"
    <3>1. tree = {}
      BY <1>4, <2>2, <2>4, CurrentStep
    <3> QED
      BY <1>1, <2>1, <2>3, <2>4, <3>1 DEF CalmRun
  <2>5. CASE pc' = pc + 1 /\ answer' = 0 /\ status' = status
    <3>1. OnCourse'
      BY <1>1, <1>4, <2>2, <2>5 DEF OnCourse
    <3> QED
      BY <1>1, <2>1, <2>3, <2>5, <3>1 DEF CalmRun
  <2> QED
    BY <1>3, <2>2, <2>4, <2>5 DEF Proceed
<1> QED
  BY <1>1, <1>5, <1>6 DEF PublishInv

\* After a timeout the run is not calm; its request may come later.
LEMMA PublishTimeoutInv ==
  ASSUME PublishInv, Timeout
  PROVE  PublishInv'
<1>1. /\ calm' = FALSE /\ faults < MaxFaults /\ faults' = faults + 1 /\ Abandon /\ Proceed(TRUE)
      /\ UNCHANGED <<program, expired, tree, twice>>
  BY DEF Timeout
<1>2. PublishTypes /\ program' = program
  BY <1>1 DEF PublishInv
<1>3. /\ pc' \in 1..Len(Script') /\ status' \in {"running", "failed", "done"}
      /\ late' \subseteq ItsRequests'
  BY <1>1, <1>2, ProceedTypes, AbandonTypes
<1>4. faults' \in 0..MaxFaults
  BY <1>1, <1>2, ProgramsAssumption DEF PublishTypes
<1>5. PublishTypes'
  BY <1>1, <1>2, <1>3, <1>4 DEF PublishTypes
<1> QED
  BY <1>1, <1>5 DEF PublishInv

\* Nor is it once the deadline has passed.
LEMMA DeadlinePassesInv ==
  ASSUME PublishInv, DeadlinePasses
  PROVE  PublishInv'
<1>1. /\ calm' = FALSE /\ faults < MaxFaults /\ faults' = faults + 1 /\ expired' = TRUE
      /\ UNCHANGED <<program, pc, status, answer, tree, late, twice>>
  BY DEF DeadlinePasses
<1>2. PublishTypes /\ Script' = Script /\ ItsRequests' = ItsRequests
  BY <1>1, SameScript DEF PublishInv
<1>3. faults' \in 0..MaxFaults
  BY <1>1, <1>2, ProgramsAssumption DEF PublishTypes
<1>4. PublishTypes'
  BY <1>1, <1>2, <1>3 DEF PublishTypes
<1> QED
  BY <1>1, <1>4 DEF PublishInv

\* A run whose deadline has passed is not calm.
LEMMA ExpiredInv ==
  ASSUME PublishInv, Expired
  PROVE  PublishInv'
<1>1. /\ expired /\ Abandon /\ Proceed(TRUE)
      /\ UNCHANGED <<program, expired, tree, faults, calm, twice>>
  BY DEF Expired
<1>2. PublishTypes /\ program' = program
  BY <1>1 DEF PublishInv
<1>3. /\ pc' \in 1..Len(Script') /\ status' \in {"running", "failed", "done"}
      /\ late' \subseteq ItsRequests'
  BY <1>1, <1>2, ProceedTypes, AbandonTypes
<1>4. PublishTypes'
  BY <1>1, <1>2, <1>3 DEF PublishTypes
<1>5. ~calm
  BY <1>1 DEF PublishInv, CalmRun
<1> QED
  BY <1>1, <1>4, <1>5 DEF PublishInv

\* Nor is it when it is killed.
LEMMA KillInv ==
  ASSUME PublishInv, Kill
  PROVE  PublishInv'
<1>1. /\ calm' = FALSE /\ faults < MaxFaults /\ faults' = faults + 1 /\ status' = "failed"
      /\ Abandon /\ UNCHANGED <<program, pc, answer, expired, tree, twice>>
  BY DEF Kill
<1>2. PublishTypes /\ Script' = Script
  BY <1>1, SameScript DEF PublishInv
<1>3. late' \subseteq ItsRequests'
  BY <1>1, <1>2, AbandonTypes
<1>4. faults' \in 0..MaxFaults
  BY <1>1, <1>2, ProgramsAssumption DEF PublishTypes
<1>5. PublishTypes'
  BY <1>1, <1>2, <1>3, <1>4 DEF PublishTypes
<1> QED
  BY <1>1, <1>5 DEF PublishInv

\* Nothing is late in a calm run.
LEMMA ExecuteLateInv ==
  ASSUME PublishInv, ExecuteLate
  PROVE  PublishInv'
<1>1. PICK r \in late :
        /\ late' = late \ {r}
        /\ tree' \in {tree, Serve(r, tree).tree}
        /\ UNCHANGED <<program, pc, status, answer, expired, faults, calm, twice>>
  BY DEF ExecuteLate
<1>2. PublishTypes /\ Script' = Script /\ ItsRequests' = ItsRequests
  BY <1>1, SameScript DEF PublishInv
<1>3. PICK n \in 1..Len(Script) : r = RequestOf(Script[n].op)
  BY <1>2 DEF PublishTypes, ItsRequests
<1>4. Keeps(Script[n]) /\ tree \in AnyTree
  BY <1>2, CurrentStep DEF PublishTypes
<1>5. tree' \in AnyTree
  BY <1>1, <1>3, <1>4 DEF Keeps
<1>6. PublishTypes'
  BY <1>1, <1>2, <1>5 DEF PublishTypes
<1>7. ~calm
  BY <1>1 DEF PublishInv, CalmRun
<1> QED
  BY <1>1, <1>6, <1>7 DEF PublishInv

\* A run may start from anything an earlier one left behind.
LEMMA RestartInv ==
  ASSUME PublishInv, Restart
  PROVE  PublishInv'
<1>1. /\ pc' = 1 /\ status' = "running" /\ answer' = 0 /\ expired' = FALSE
      /\ calm' = (late = {}) /\ twice' = 0 /\ UNCHANGED <<program, tree, late, faults>>
  BY DEF Restart
<1>2. PublishTypes /\ Script' = Script /\ Stages' = Stages /\ ItsRequests' = ItsRequests
  BY <1>1, SameScript DEF PublishInv
<1>3. 1 \in 1..Len(Script) /\ tree \in Stages[1]
  BY <1>2, CurrentStep DEF PublishTypes
<1>4. PublishTypes'
  BY <1>1, <1>2, <1>3 DEF PublishTypes
<1>5. ASSUME calm'
      PROVE  CalmRun'
  <2>1. late' = {}
    BY <1>1, <1>5
  <2>2. OnCourse'
    BY <1>1, <1>2, <1>3 DEF OnCourse
  <2> QED
    BY <1>1, <2>1, <2>2 DEF CalmRun
<1> QED
  BY <1>4, <1>5 DEF PublishInv

\* Every step keeps the invariant.
LEMMA PublishStepInv ==
  ASSUME PublishInv, [Next]_vars
  PROVE  PublishInv'
<1>1. CASE UNCHANGED vars
  <2>1. UNCHANGED <<program, pc, status, answer, expired, tree, late, faults, calm, twice>>
    BY <1>1 DEF vars
  <2>2. Script' = Script /\ Stages' = Stages /\ ItsRequests' = ItsRequests
    BY <2>1, SameScript
  <2>3. PublishTypes' = PublishTypes /\ OnCourse' = OnCourse
    BY <2>1, <2>2 DEF PublishTypes, OnCourse
  <2> QED
    BY <2>1, <2>3 DEF PublishInv, CalmRun
<1> QED
  BY <1>1, IssueInv, ExecuteInv, AnsweredInv, PublishTimeoutInv, DeadlinePassesInv, ExpiredInv,
     KillInv, ExecuteLateInv, RestartInv DEF Next

-----------------------------------------------------------------------------
(* The theorems. *)

\* Whatever earlier runs left behind and whatever arrives late, the server has only what the
\* programs make, and a run that nothing disturbs finds before each step what it relies on.
THEOREM PublishInductive == Spec => []PublishInv
<1>1. Init => PublishInv
  BY PublishInitInv
<1>2. PublishInv /\ [Next]_vars => PublishInv'
  BY PublishStepInv
<1> QED
  BY <1>1, <1>2, PTL DEF Spec

\* A run that nothing disturbs does not end in an error.
THEOREM CalmRunsSucceed == Spec => []CalmRunSucceeds
<1>1. PublishInv => CalmRunSucceeds
  BY DEF PublishInv, CalmRun, CalmRunSucceeds
<1> QED
  BY <1>1, PublishInductive, PTL

\* It then leaves nothing behind.
THEOREM CalmRunsCleanUp == Spec => []CalmRunCleansUp
<1>1. PublishInv => CalmRunCleansUp
  BY DEF PublishInv, CalmRun, CalmRunCleansUp
<1> QED
  BY <1>1, PublishInductive, PTL

\* The second Create of error-handling is answered with a conflict.
THEOREM DuplicatesConflict == Spec => []DuplicateIsConflict
<1>1. PublishInv => DuplicateIsConflict
  BY DEF PublishInv, CalmRun, DuplicateIsConflict
<1> QED
  BY <1>1, PublishInductive, PTL
=============================================================================
