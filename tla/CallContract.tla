----------------------------- MODULE CallContract ------------------------------
(***************************************************************************)
(* What a library call promises its caller, whatever happens between the   *)
(* two: the request takes effect at most once, never when the call fails   *)
(* before sending it, and never any more once the call has returned with   *)
(* an answer of the server.  Only when the caller is told nothing definite *)
(* ("unknown") may the effect still come later.                            *)
(***************************************************************************)
CONSTANT Calls

VARIABLES
  phase,    \* "idle", "pending" or "returned"
  effect,   \* the server performed the request
  verdict   \* what the caller may conclude

vars == <<phase, effect, verdict>>

Verdicts == {"none", "unsent", "performed", "answered", "unknown"}

TypeOK ==
  /\ phase \in [Calls -> {"idle", "pending", "returned"}]
  /\ effect \in [Calls -> BOOLEAN]
  /\ verdict \in [Calls -> Verdicts]

Init ==
  /\ phase = [c \in Calls |-> "idle"]
  /\ effect = [c \in Calls |-> FALSE]
  /\ verdict = [c \in Calls |-> "none"]

\* The call fails before it sends anything.
Refuse(c) ==
  /\ phase[c] = "idle"
  /\ phase' = [phase EXCEPT ![c] = "returned"]
  /\ verdict' = [verdict EXCEPT ![c] = "unsent"]
  /\ UNCHANGED effect

Issue(c) ==
  /\ phase[c] = "idle"
  /\ phase' = [phase EXCEPT ![c] = "pending"]
  /\ UNCHANGED <<effect, verdict>>

\* The request takes effect: while the call runs, or after it gave up.
Perform(c) ==
  /\ phase[c] # "idle"
  /\ verdict[c] \in {"none", "unknown"}
  /\ ~effect[c]
  /\ effect' = [effect EXCEPT ![c] = TRUE]
  /\ UNCHANGED <<phase, verdict>>

\* The call returns; it reports success only for a request that took effect.
Return(c) ==
  /\ phase[c] = "pending"
  /\ phase' = [phase EXCEPT ![c] = "returned"]
  /\ \E v \in {"performed", "answered", "unknown"} :
       /\ v = "performed" => effect[c]
       /\ verdict' = [verdict EXCEPT ![c] = v]
  /\ UNCHANGED effect

Next == \E c \in Calls : Refuse(c) \/ Issue(c) \/ Perform(c) \/ Return(c)

Spec == Init /\ [][Next]_vars
=============================================================================
