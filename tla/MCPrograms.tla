------------------------------ MODULE MCPrograms ------------------------------
(***************************************************************************)
(* Programs that use the library from start to end, for TLC: one of the    *)
(* examples (Publish), one that seeds a cache and waits for it (Seeding),  *)
(* or several that edit one document (Documents).  They have no call, no   *)
(* item, no task and no document in common, and the library keeps nothing  *)
(* between calls: a behaviour of all is, for each, one of its own, so it   *)
(* is enough that one of them runs.                                        *)
(***************************************************************************)
EXTENDS Publish, Seeding, Documents

VARIABLE work   \* "example", "seeding" or "editing"

\* No example runs.
Over ==
  /\ program = CHOOSE p \in Programs : TRUE
  /\ pc = 1 /\ status = "done" /\ answer = 0 /\ expired = FALSE /\ tree = {}
  /\ late = {} /\ faults = 0 /\ calm = TRUE /\ twice = 0

\* Nothing was seeded.
NoRequests == \A r \in Requests : req[r] = [Name |-> "", Type |-> ""]

\* No document is edited.
NoDocument ==
  /\ package = CHOOSE c \in Clients : TRUE
  /\ doc = [f \in Fields |-> FALSE]

ProgramsInit ==
  /\ SeedingInit /\ DocumentsInit
  /\ \/ work = "example" /\ Init /\ NoRequests /\ NoDocument
     \/ work = "seeding" /\ Over /\ NoDocument
     \/ work = "editing" /\ Over /\ NoRequests

ProgramsNext ==
  /\ UNCHANGED work
  /\ \/ work = "example" /\ Next /\ UNCHANGED <<seedingVars, documentVars>>
     \/ work = "seeding" /\ SeedingNext /\ UNCHANGED <<vars, documentVars>>
     \/ work = "editing" /\ DocumentsNext /\ UNCHANGED <<vars, seedingVars>>

ProgramsSpec ==
  /\ ProgramsInit /\ [][ProgramsNext]_<<work, vars, seedingVars, documentVars>>
  /\ Fairness /\ SeedingFairness
=============================================================================
