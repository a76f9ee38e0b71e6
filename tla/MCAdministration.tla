--------------------------- MODULE MCAdministration ---------------------------
(***************************************************************************)
(* The administration of a server, for TLC: its passwords are rotated      *)
(* (Passwords), files and documents are uploaded (Uploads), access rules   *)
(* are edited (AccessRules), or one document is read and put back          *)
(* (RoundTrip).  The four share no state of the library or the server: a   *)
(* behaviour of all is, for each, one of its own, so it is enough that one *)
(* goes on.                                                                *)
(***************************************************************************)
EXTENDS Passwords, Uploads, AccessRules, RoundTrip

VARIABLE work  \* "passwords", "upload", "rules" or "document"

\* Names with and without a dot, and rules that leave parts out.
Names == {<<>>, <<"a">>}

MCSubjects ==
  [layers |-> Names \X {<<>>} \X {<<>>, <<"w">>}
                \cup {<<"a">>, <<"a", ".", "b">>} \X {<<"x">>} \X {<<"w">>},
   services |-> Names \X {<<>>, <<"GetMap">>},
   rest |-> {<<>>, <<"/**">>, <<"/a">>} \X {<<>>, <<"GET", ",", "PUT">>}]

MCRoleLists == {<<>>, <<"A", "B">>}

\* The rules of a global layer group have two parts.
MCForeign ==
  [layers |-> {<<"g", ".", "r">>, <<"a", ".", "x", ".", "a">>} \X {<<"A">>, <<"*", "B">>},
   services |-> {}, rest |-> {}]

\* Where nothing goes on, one of the initial states will do.
OneIsEnough ==
  /\ work # "upload" => kind = "json"
  /\ work # "rules" => ruleKind = CHOOSE k \in Kinds : TRUE
  /\ work # "document" => type = "text" /\ document = <<CHOOSE t \in Texts : TRUE>>

AdministrationInit ==
  /\ work \in {"passwords", "upload", "rules", "document"}
  /\ Init /\ UploadsInit /\ RulesInit /\ DocumentInit
  /\ OneIsEnough

AdministrationNext ==
  /\ UNCHANGED work
  /\ \/ work = "passwords" /\ Next /\ UNCHANGED <<uploadsVars, rulesVars, documentVars>>
     \/ work = "upload" /\ UploadsNext /\ UNCHANGED <<vars, rulesVars, documentVars>>
     \/ work = "rules" /\ RulesNext /\ UNCHANGED <<vars, uploadsVars, documentVars>>
     \/ work = "document" /\ DocumentNext /\ UNCHANGED <<vars, uploadsVars, rulesVars>>

AdministrationSpec ==
  /\ AdministrationInit
  /\ [][AdministrationNext]_<<work, vars, uploadsVars, rulesVars, documentVars>>

=============================================================================
