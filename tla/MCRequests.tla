------------------------------ MODULE MCRequests ------------------------------
(***************************************************************************)
(* What requests carry, what they address and what becomes of those of the *)
(* Resource API, for TLC: a program builds Clients (Options), makes calls  *)
(* on the sub-clients one at a time (Addressing), or works on the files of *)
(* the data directory (Resources).                                         *)
(***************************************************************************)
EXTENDS Addressing, Resources, Options

VARIABLE work   \* "options", "calls" or "files"

\* No Client is built: the caller has an http.Client without a Transport.
NoHTTPClient == heap["caller"] = [transport |-> <<>>, timeout |-> "none"]

RequestsInit ==
  /\ work \in {"options", "calls", "files"}
  /\ Init /\ ResourcesInit /\ OptionsInit
  /\ work # "options" => NoHTTPClient

RequestsNext ==
  /\ UNCHANGED work
  /\ \/ work = "options" /\ OptionsNext /\ UNCHANGED <<vars, resourceVars>>
     \/ work = "calls" /\ Next /\ UNCHANGED <<resourceVars, optionsVars>>
     \/ work = "files" /\ ResourcesNext /\ UNCHANGED <<vars, optionsVars>>

RequestsSpec == RequestsInit /\ [][RequestsNext]_<<work, vars, resourceVars, optionsVars>>
=============================================================================
