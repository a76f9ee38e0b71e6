------------------------------- MODULE Documents -------------------------------
(***************************************************************************)
(* Update of a document GeoServer keeps.  Some sub-clients send a Patch of *)
(* pointer fields, the others ask the caller to Get the document, change   *)
(* it and put it all back.  Several programs edit the same document, calls *)
(* time out, are retried, and may take effect late.  PUT is a merge: the   *)
(* fields in the body replace those of the document (external).            *)
(* The fields are boolean, FALSE standing for any zero value.              *)
(***************************************************************************)
EXTENDS Naturals, FiniteSets

CONSTANTS
  Clients,     \* the sub-clients whose documents are edited
  Fields,      \* of the document
  Editors,     \* programs that edit it
  MaxEdits,    \* edits begun, over all programs
  MaxTimeouts  \* calls that time out

ASSUME DocumentsAssumption == MaxEdits \in Nat /\ MaxTimeouts \in Nat

VARIABLES
  package,  \* the sub-client in use
  doc,      \* the document on the server
  last,     \* for each field, the value the latest executed edit gave it
  editor,   \* each program: where it is and the edit it makes
  pending,  \* timed-out updates the server may still execute
  edits,    \* edits begun
  timeouts  \* timeouts so far

documentVars == <<package, doc, last, editor, pending, edits, timeouts>>

-----------------------------------------------------------------------------
\* Patch{Isolated *bool}, Patch{Enabled *bool, ...}
Patches == {"workspaces", "namespaces", "datastores", "coverageStores"}

\* Structs whose zero-valued fields are left out: `omitempty` on plain types.
OmitEmpty ==
  {"settings", "logging", "layers", "featureTypes", "coverages", "layerGroups", "services"}

\* Structs whose booleans are always sent.
Whole == {"gwcGlobal"}

\* Faulty variant: plain fields with omitempty in place of pointers.
PatchBodyPlain(field, value) == IF value THEN [f \in {field} |-> TRUE] ELSE <<>>

\* A pointer field is sent when the caller set it, also to false.
PatchBody(field, value) == [f \in {field} |-> value]

\* Zero values are dropped.
OmitEmptyBody(d) == [f \in {g \in Fields : d[g]} |-> TRUE]

\* The document the caller puts back.
DocumentBody(d) == IF package \in Whole THEN d ELSE OmitEmptyBody(d)

\* The server.
Merge(d, body) == [f \in Fields |-> IF f \in DOMAIN body THEN body[f] ELSE d[f]]

NoEdit == [pc |-> "idle"]

Busy == \E e \in Editors : editor[e] # NoEdit

-----------------------------------------------------------------------------
DocumentsInit ==
  /\ package \in Clients
  /\ doc \in [Fields -> BOOLEAN]
  /\ last = doc
  /\ editor = [e \in Editors |-> NoEdit]
  /\ pending = {}
  /\ edits = 0
  /\ timeouts = 0

Sending(field, value, body) ==
  [pc |-> "sent", field |-> field, value |-> value, body |-> body]

\* An edit of one field.  Programs that put whole documents back take turns, and
\* wait for updates that timed out: nothing in the library does it for them.
Begin(e) ==
  /\ editor[e] = NoEdit
  /\ edits < MaxEdits
  /\ package \notin Patches => ~Busy /\ pending = {}
  /\ edits' = edits + 1
  /\ \E field \in Fields, value \in BOOLEAN :
       editor' = [editor EXCEPT ![e] =
                    IF package \in Patches
                    THEN Sending(field, value, PatchBody(field, value))
                    ELSE [pc |-> "reading", field |-> field, value |-> value]]
  /\ UNCHANGED <<package, doc, last, pending, timeouts>>

\* Get answers; the program changes the field and calls Update.
Get(e) ==
  /\ editor[e].pc = "reading"
  /\ LET field == editor[e].field
         value == editor[e].value
     IN editor' = [editor EXCEPT ![e] =
                     Sending(field, value, DocumentBody([doc EXCEPT ![field] = value]))]
  /\ UNCHANGED <<package, doc, last, pending, edits, timeouts>>

Write(r) ==
  /\ doc' = Merge(doc, r.body)
  /\ last' = [last EXCEPT ![r.field] = r.value]

\* The server executes the update.
Update(e) ==
  /\ editor[e].pc = "sent"
  /\ Write(editor[e])
  /\ editor' = [editor EXCEPT ![e].pc = "saved"]
  /\ UNCHANGED <<package, pending, edits, timeouts>>

\* Update returns nil.
Saved(e) ==
  /\ editor[e].pc = "saved"
  /\ editor' = [editor EXCEPT ![e] = NoEdit]
  /\ UNCHANGED <<package, doc, last, pending, edits, timeouts>>

\* A call returns an error.  The program gives up, or sends the body again; the
\* update is lost, or still on its way, or was executed.
Fails(e) ==
  /\ editor[e] # NoEdit
  /\ timeouts < MaxTimeouts
  /\ timeouts' = timeouts + 1
  /\ editor' \in {[editor EXCEPT ![e] = NoEdit],
                  [editor EXCEPT ![e].pc = IF @ = "saved" THEN "sent" ELSE @]}
  /\ \/ UNCHANGED pending
     \/ editor[e].pc = "sent" /\ pending' = pending \cup {editor[e]}
  /\ UNCHANGED <<package, doc, last, edits>>

\* A late update reaches the server, or never does.
Late ==
  \E r \in pending :
    /\ pending' = pending \ {r}
    /\ Write(r) \/ UNCHANGED <<doc, last>>
    /\ UNCHANGED <<package, editor, edits, timeouts>>

DocumentsNext ==
  \/ \E e \in Editors : Begin(e) \/ Get(e) \/ Update(e) \/ Saved(e) \/ Fails(e)
  \/ Late

DocumentsSpec == DocumentsInit /\ [][DocumentsNext]_documentVars

-----------------------------------------------------------------------------
Bodies == UNION {[sent -> BOOLEAN] : sent \in SUBSET Fields}

Updates == [pc : {"sent", "saved"}, field : Fields, value : BOOLEAN, body : Bodies]

EditorStates ==
  {NoEdit} \cup [pc : {"reading"}, field : Fields, value : BOOLEAN] \cup Updates

DocumentsTypeOK ==
  /\ package \in Clients
  /\ doc \in [Fields -> BOOLEAN]
  /\ last \in [Fields -> BOOLEAN]
  /\ editor \in [Editors -> EditorStates]
  /\ pending \subseteq Updates
  /\ edits \in 0..MaxEdits
  /\ timeouts \in 0..MaxTimeouts

\* No update is lost: each field has the value of the latest executed edit of
\* that field, whoever edits the other fields meanwhile and however late an
\* abandoned update is executed.  The Patch types send no field the caller did
\* not set; a whole document is safe only for a lone writer.
LatestEditWins == doc = last

\* The updates whose effect, or answer, is still to come.
InFlight == pending \cup {editor[e] : e \in {d \in Editors : editor[d].pc \in {"sent", "saved"}}}

\* Executing the update now would change its own field and no other.
Carries(r) ==
  r.body = IF package \in Patches THEN PatchBody(r.field, r.value)
           ELSE [doc EXCEPT ![r.field] = r.value]

\* With whole documents everything in flight comes from one edit.
Alone ==
  /\ \A d, e \in Editors : editor[d] # NoEdit /\ editor[e] # NoEdit => d = e
  /\ \A e \in Editors : editor[e].pc = "reading" => pending = {}
  /\ \A q, r \in InFlight : q.field = r.field /\ q.value = r.value

\* The inductive invariant behind LatestEditWins, for the packages it holds of.
IInv ==
  /\ DocumentsTypeOK
  /\ LatestEditWins
  /\ \A r \in InFlight : Carries(r)
  /\ package \in Patches => \A e \in Editors : editor[e].pc # "reading"
  /\ package \notin Patches => Alone

\* settings.go:50: "To set a bool to false explicitly, fetch the current
\* settings, mutate the field, and put the document back".
FalseCanBeSet ==
  \A e \in Editors :
    editor[e].pc = "saved" /\ ~editor[e].value => ~doc[editor[e].field]
=============================================================================
