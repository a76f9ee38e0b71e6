------------------------------ MODULE MCTransport ------------------------------
(***************************************************************************)
(* Instances of Transport for TLC.                                         *)
(***************************************************************************)
EXTENDS Transport, TLC

\* Calls are interchangeable; used by the runs without liveness only.
CallSymmetry == Permutations(Calls)
=============================================================================
