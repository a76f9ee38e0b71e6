---------------------------- MODULE DocumentsProofs ----------------------------
(***************************************************************************)
(* No update is lost, for any fields, editors, edits and timeouts, if the  *)
(* package sends a Patch or the whole document.                            *)
(***************************************************************************)
EXTENDS Documents, TLAPS

-----------------------------------------------------------------------------
(* What is sent, and what executing it does. *)

\* A Patch and a whole document are bodies of an update.
LEMMA BodyType ==
  ASSUME NEW field \in Fields, NEW value \in BOOLEAN, NEW d \in [Fields -> BOOLEAN]
  PROVE  /\ PatchBody(field, value) \in Bodies
         /\ d \in Bodies
         /\ [d EXCEPT ![field] = value] \in [Fields -> BOOLEAN]
<1>1. PatchBody(field, value) \in [{field} -> BOOLEAN]
  BY DEF PatchBody
<1>2. {field} \in SUBSET Fields /\ Fields \in SUBSET Fields
  OBVIOUS
<1> QED
  BY <1>1, <1>2 DEF Bodies

\* A program that puts a document back sends all of it.
LEMMA WholeBody ==
  ASSUME Clients \subseteq Patches \cup Whole, DocumentsTypeOK, package \notin Patches, NEW d
  PROVE  DocumentBody(d) = d
  BY DEF DocumentsTypeOK, DocumentBody

\* An update that would change its own field only does so when it is executed,
\* and that is the latest edit of the field.
LEMMA WriteKeeps ==
  ASSUME DocumentsTypeOK, LatestEditWins,
         NEW r \in Updates, Carries(r), Write(r)
  PROVE  /\ doc' = [doc EXCEPT ![r.field] = r.value]
         /\ last' = doc'
         /\ doc' \in [Fields -> BOOLEAN]
<1>1. /\ r.field \in Fields /\ r.value \in BOOLEAN
      /\ doc \in [Fields -> BOOLEAN]
      /\ doc = last
  BY DEF DocumentsTypeOK, LatestEditWins, Updates
<1> DEFINE edited == [doc EXCEPT ![r.field] = r.value]
<1>2. edited \in [Fields -> BOOLEAN]
  BY <1>1
<1>3. Merge(doc, r.body) = edited
  <2>1. CASE package \in Patches
    <3>1. r.body = [f \in {r.field} |-> r.value]
      BY <2>1 DEF Carries, PatchBody
    <3>2. DOMAIN r.body = {r.field} /\ r.body[r.field] = r.value
      BY <3>1
    <3> QED
      BY <1>1, <3>2 DEF Merge
  <2>2. CASE package \notin Patches
    <3>1. r.body = edited
      BY <2>2 DEF Carries
    <3>2. DOMAIN r.body = Fields
      BY <1>2, <3>1
    <3> QED
      BY <1>2, <3>1, <3>2 DEF Merge
  <2> QED
    BY <2>1, <2>2
<1>4. doc' = edited /\ last' = edited
  BY <1>1, <1>3 DEF Write
<1> QED
  BY <1>2, <1>4

-----------------------------------------------------------------------------
(* What is in flight after a step. *)

\* Where an update in flight is.
LEMMA InFlightType ==
  ASSUME DocumentsTypeOK, NEW r
  PROVE  /\ r \in InFlight <=>
              \/ r \in pending
              \/ \E e \in Editors : editor[e].pc \in {"sent", "saved"} /\ r = editor[e]
         /\ r \in InFlight => r \in Updates
<1>1. r \in InFlight <=>
        \/ r \in pending
        \/ \E e \in Editors : editor[e].pc \in {"sent", "saved"} /\ r = editor[e]
  BY DEF InFlight
<1>2. ASSUME NEW e \in Editors, editor[e].pc \in {"sent", "saved"}
      PROVE  editor[e] \in Updates
  BY <1>2 DEF DocumentsTypeOK, EditorStates, NoEdit
<1> QED
  BY <1>1, <1>2 DEF DocumentsTypeOK

\* The same edit, wherever it is in flight.
SameEdit(q, r) == q.field = r.field /\ q.value = r.value /\ q.body = r.body

\* A step that begins no edit and sends none: only edits that were in flight
\* before are in flight after it, and only for programs that were busy before.
NothingNew ==
  /\ package' = package
  /\ \A q \in InFlight' : \E r \in InFlight : SameEdit(q, r)
  /\ \A e \in Editors :
       /\ editor'[e] # NoEdit => editor[e] # NoEdit
       /\ editor'[e].pc = "reading" => editor[e].pc = "reading" /\ pending' \subseteq pending

\* Such a step keeps what is in flight harmless when it leaves the document alone.
LEMMA NothingNewKeeps ==
  ASSUME IInv, NothingNew, doc' = doc
  PROVE  \A q \in InFlight' : Carries(q)'
<1> SUFFICES ASSUME NEW q \in InFlight'
             PROVE  Carries(q)'
  OBVIOUS
<1>1. PICK r \in InFlight : SameEdit(q, r)
  BY DEF NothingNew
<1>2. Carries(r) /\ package' = package
  BY DEF IInv, NothingNew
<1> QED
  BY <1>1, <1>2 DEF Carries, SameEdit, PatchBody

\* It does so, too, when it executes one of the updates in flight.
LEMMA WriteNothingNewKeeps ==
  ASSUME IInv, NothingNew, NEW w \in InFlight, Write(w)
  PROVE  \A q \in InFlight' : Carries(q)'
<1> SUFFICES ASSUME NEW q \in InFlight'
             PROVE  Carries(q)'
  OBVIOUS
<1>1. PICK r \in InFlight : SameEdit(q, r)
  BY DEF NothingNew
<1>2. Carries(r) /\ Carries(w) /\ package' = package
  BY DEF IInv, NothingNew
<1>3. r \in Updates /\ w \in Updates
  BY InFlightType DEF IInv
<1>4. CASE package \in Patches
  BY <1>1, <1>2, <1>4 DEF Carries, SameEdit, PatchBody
<1>5. CASE package \notin Patches
  <2>1. r.field = w.field /\ r.value = w.value
    BY <1>5 DEF IInv, Alone
  <2>2. /\ doc' = [doc EXCEPT ![w.field] = w.value]
        /\ doc \in [Fields -> BOOLEAN]
    BY <1>2, <1>3, WriteKeeps DEF IInv, DocumentsTypeOK
  <2>3. r.body = doc'
    BY <1>2, <1>5, <2>1, <2>2 DEF Carries
  <2>4. doc' = [doc' EXCEPT ![w.field] = w.value]
    BY <1>3, <2>2 DEF Updates
  <2> QED
    BY <1>1, <1>2, <1>5, <2>1, <2>3, <2>4 DEF Carries, SameEdit
<1> QED
  BY <1>4, <1>5

\* It keeps the edit of a whole document the only one.
LEMMA NothingNewAgrees ==
  ASSUME IInv, NothingNew, package \notin Patches
  PROVE  \A q, r \in InFlight' : q.field = r.field /\ q.value = r.value
<1> SUFFICES ASSUME NEW q \in InFlight', NEW r \in InFlight'
             PROVE  q.field = r.field /\ q.value = r.value
  OBVIOUS
<1>1. PICK a \in InFlight : SameEdit(q, a)
  BY DEF NothingNew
<1>2. PICK b \in InFlight : SameEdit(r, b)
  BY DEF NothingNew
<1>3. a.field = b.field /\ a.value = b.value
  BY DEF IInv, Alone
<1> QED
  BY <1>1, <1>2, <1>3 DEF SameEdit

-----------------------------------------------------------------------------
(* The type invariant. *)

LEMMA DocumentBodyType ==
  ASSUME NEW d \in [Fields -> BOOLEAN]
  PROVE  DocumentBody(d) \in Bodies
<1>1. OmitEmptyBody(d) \in [{g \in Fields : d[g]} -> BOOLEAN]
  BY DEF OmitEmptyBody
<1>2. {g \in Fields : d[g]} \in SUBSET Fields /\ Fields \in SUBSET Fields
  OBVIOUS
<1> QED
  BY <1>1, <1>2 DEF DocumentBody, Bodies

LEMMA WriteType ==
  ASSUME DocumentsTypeOK, NEW r \in Updates, Write(r)
  PROVE  doc' \in [Fields -> BOOLEAN] /\ last' \in [Fields -> BOOLEAN]
<1>1. /\ doc \in [Fields -> BOOLEAN] /\ last \in [Fields -> BOOLEAN]
      /\ r.body \in Bodies /\ r.value \in BOOLEAN
  BY DEF DocumentsTypeOK, Updates
<1>2. PICK sent \in SUBSET Fields : r.body \in [sent -> BOOLEAN]
  BY <1>1 DEF Bodies
<1>3. Merge(doc, r.body) \in [Fields -> BOOLEAN]
  BY <1>1, <1>2 DEF Merge
<1> QED
  BY <1>1, <1>3 DEF Write

\* An editor in the middle of an edit, by where it is.
LEMMA EditorType ==
  ASSUME DocumentsTypeOK, NEW e \in Editors
  PROVE  /\ editor[e].pc \in {"sent", "saved"} => editor[e] \in Updates
         /\ editor[e].pc = "reading" => editor[e].field \in Fields /\ editor[e].value \in BOOLEAN
         /\ editor[e] # NoEdit => editor[e].pc \in {"reading", "sent", "saved"}
         /\ editor[e].pc \in {"reading", "sent", "saved"} => editor[e] # NoEdit
  BY DEF DocumentsTypeOK, EditorStates, Updates, NoEdit

LEMMA InitType == DocumentsInit => DocumentsTypeOK
<1> SUFFICES ASSUME DocumentsInit PROVE DocumentsTypeOK
  OBVIOUS
<1>1. editor \in [Editors -> EditorStates]
  BY DEF DocumentsInit, EditorStates
<1> QED
  BY <1>1, DocumentsAssumption DEF DocumentsInit, DocumentsTypeOK

LEMMA StepType == DocumentsTypeOK /\ [DocumentsNext]_documentVars => DocumentsTypeOK'
<1> SUFFICES ASSUME DocumentsTypeOK, [DocumentsNext]_documentVars PROVE DocumentsTypeOK'
  OBVIOUS
<1> USE DocumentsAssumption
<1>1. ASSUME NEW e \in Editors, Begin(e) PROVE DocumentsTypeOK'
  <2>1. PICK field \in Fields, value \in BOOLEAN :
          editor' = [editor EXCEPT ![e] =
                       IF package \in Patches
                       THEN Sending(field, value, PatchBody(field, value))
                       ELSE [pc |-> "reading", field |-> field, value |-> value]]
    BY <1>1 DEF Begin
  <2>2. PatchBody(field, value) \in Bodies
    BY BodyType DEF DocumentsTypeOK
  <2>3. editor' \in [Editors -> EditorStates]
    BY <2>1, <2>2 DEF DocumentsTypeOK, Sending, EditorStates, Updates
  <2> QED
    BY <1>1, <2>3 DEF Begin, DocumentsTypeOK
<1>2. ASSUME NEW e \in Editors, Get(e) PROVE DocumentsTypeOK'
  <2> DEFINE field == editor[e].field
             value == editor[e].value
             body == DocumentBody([doc EXCEPT ![field] = value])
  <2>1. field \in Fields /\ value \in BOOLEAN
    BY <1>2, EditorType DEF Get
  <2>2. body \in Bodies
    BY <2>1, BodyType, DocumentBodyType DEF DocumentsTypeOK
  <2>3. editor' = [editor EXCEPT ![e] = Sending(field, value, body)]
    BY <1>2 DEF Get
  <2>4. editor' \in [Editors -> EditorStates]
    <3> HIDE DEF field, value, body
    <3> QED
      BY <2>1, <2>2, <2>3 DEF DocumentsTypeOK, Sending, EditorStates, Updates
  <2> QED
    BY <1>2, <2>4 DEF Get, DocumentsTypeOK
<1>3. ASSUME NEW e \in Editors, Update(e) PROVE DocumentsTypeOK'
  <2>1. editor[e] \in Updates
    BY <1>3, EditorType DEF Update
  <2>2. doc' \in [Fields -> BOOLEAN] /\ last' \in [Fields -> BOOLEAN]
    BY <1>3, <2>1, WriteType DEF Update
  <2>3. editor' \in [Editors -> EditorStates]
    BY <1>3, <2>1 DEF Update, DocumentsTypeOK, EditorStates, Updates
  <2> QED
    BY <1>3, <2>2, <2>3 DEF Update, DocumentsTypeOK
<1>4. ASSUME NEW e \in Editors, Saved(e) PROVE DocumentsTypeOK'
  <2>1. editor' \in [Editors -> EditorStates]
    BY <1>4 DEF Saved, DocumentsTypeOK, EditorStates
  <2> QED
    BY <1>4, <2>1 DEF Saved, DocumentsTypeOK
<1>5. ASSUME NEW e \in Editors, Fails(e) PROVE DocumentsTypeOK'
  <2>1. editor' \in [Editors -> EditorStates]
    <3>1. CASE editor' = [editor EXCEPT ![e] = NoEdit]
      BY <3>1 DEF DocumentsTypeOK, EditorStates
    <3>2. CASE editor' = [editor EXCEPT ![e].pc = IF @ = "saved" THEN "sent" ELSE @]
      <4>1. editor[e].pc \in {"reading", "sent", "saved"}
        BY <1>5, EditorType DEF Fails
      <4>2. CASE editor[e].pc = "reading"
        <5>1. editor[e] \in [pc : {"reading"}, field : Fields, value : BOOLEAN]
          BY <4>2 DEF DocumentsTypeOK, EditorStates, Updates, NoEdit
        <5>2. editor' = [editor EXCEPT ![e] = editor[e]]
          BY <3>2, <4>2, <5>1
        <5> QED
          BY <5>2 DEF DocumentsTypeOK
      <4>3. CASE editor[e].pc \in {"sent", "saved"}
        <5>1. editor[e] \in Updates
          BY <4>3, EditorType
        <5> QED
          BY <3>2, <4>3, <5>1 DEF DocumentsTypeOK, EditorStates, Updates
      <4> QED
        BY <4>1, <4>2, <4>3
    <3> QED
      BY <1>5, <3>1, <3>2 DEF Fails
  <2>2. pending' \subseteq Updates
    BY <1>5, EditorType DEF Fails, DocumentsTypeOK
  <2> QED
    BY <1>5, <2>1, <2>2 DEF Fails, DocumentsTypeOK
<1>6. ASSUME Late PROVE DocumentsTypeOK'
  <2>1. PICK r \in pending :
          /\ pending' = pending \ {r}
          /\ Write(r) \/ UNCHANGED <<doc, last>>
          /\ UNCHANGED <<package, editor, edits, timeouts>>
    BY <1>6 DEF Late
  <2>2. doc' \in [Fields -> BOOLEAN] /\ last' \in [Fields -> BOOLEAN]
    BY <2>1, WriteType DEF DocumentsTypeOK
  <2> QED
    BY <2>1, <2>2 DEF DocumentsTypeOK
<1>7. ASSUME UNCHANGED documentVars PROVE DocumentsTypeOK'
  BY <1>7 DEF documentVars, DocumentsTypeOK
<1> QED
  BY <1>1, <1>2, <1>3, <1>4, <1>5, <1>6, <1>7 DEF DocumentsNext

-----------------------------------------------------------------------------
(* The inductive invariant. *)

LEMMA InitInv == DocumentsInit => IInv
<1> SUFFICES ASSUME DocumentsInit PROVE IInv
  OBVIOUS
<1>1. DocumentsTypeOK
  BY InitType
<1>2. \A e \in Editors : editor[e] = NoEdit /\ editor[e].pc = "idle"
  BY DEF DocumentsInit, NoEdit
<1>3. InFlight = {}
  BY <1>2 DEF DocumentsInit, InFlight
<1> QED
  BY <1>1, <1>2, <1>3 DEF DocumentsInit, IInv, LatestEditWins, Alone

\* A step that sends nothing new, and executes at most what was in flight.
LEMMA NothingNewInv ==
  ASSUME IInv, DocumentsTypeOK', NothingNew,
         UNCHANGED <<doc, last>> \/ \E w \in InFlight : Write(w)
  PROVE  IInv'
<1>1. LatestEditWins' /\ \A q \in InFlight' : Carries(q)'
  <2>1. CASE UNCHANGED <<doc, last>>
    BY <2>1, NothingNewKeeps DEF IInv, LatestEditWins
  <2>2. CASE \E w \in InFlight : Write(w)
    <3>1. PICK w \in InFlight : Write(w)
      BY <2>2
    <3>2. w \in Updates /\ Carries(w)
      BY InFlightType DEF IInv
    <3>3. last' = doc'
      BY <3>1, <3>2, WriteKeeps DEF IInv
    <3> QED
      BY <3>1, <3>3, WriteNothingNewKeeps DEF LatestEditWins
  <2> QED
    BY <2>1, <2>2
<1>2. package' \in Patches => \A e \in Editors : editor'[e].pc # "reading"
  BY DEF IInv, NothingNew
<1>3. package' \notin Patches => Alone'
  <2> SUFFICES ASSUME package \notin Patches PROVE Alone'
    BY DEF NothingNew
  <2>1. Alone
    BY DEF IInv
  <2>2. \A d, e \in Editors : editor'[d] # NoEdit /\ editor'[e] # NoEdit => d = e
    BY <2>1 DEF Alone, NothingNew
  <2>3. \A e \in Editors : editor'[e].pc = "reading" => pending' = {}
    BY <2>1 DEF Alone, NothingNew
  <2>4. \A q, r \in InFlight' : q.field = r.field /\ q.value = r.value
    BY NothingNewAgrees
  <2> QED
    BY <2>2, <2>3, <2>4 DEF Alone, NoEdit
<1> QED
  BY <1>1, <1>2, <1>3 DEF IInv

\* A Patch holds the caller's field; a whole document waits for its Get.
LEMMA BeginInv ==
  ASSUME IInv, DocumentsTypeOK', NEW e \in Editors, Begin(e)
  PROVE  IInv'
<1> DEFINE patch(field, value) == Sending(field, value, PatchBody(field, value))
           read(field, value) == [pc |-> "reading", field |-> field, value |-> value]
<1>1. PICK field \in Fields, value \in BOOLEAN :
        editor' = [editor EXCEPT ![e] = IF package \in Patches
                                        THEN patch(field, value) ELSE read(field, value)]
  BY DEF Begin
<1>2. UNCHANGED <<package, doc, last, pending>> /\ editor \in [Editors -> EditorStates]
  BY DEF Begin, IInv, DocumentsTypeOK
<1>3. CASE package \in Patches
  <2>1. editor'[e] = patch(field, value) /\ \A d \in Editors \ {e} : editor'[d] = editor[d]
    BY <1>1, <1>2, <1>3
  <2>2. \A q \in InFlight' : q = patch(field, value) \/ q \in InFlight
    <3> HIDE DEF patch
    <3> QED
      BY <1>2, <2>1 DEF InFlight
  <2>3. \A q \in InFlight' : Carries(q)'
    <3>1. ASSUME NEW q, q = patch(field, value) PROVE Carries(q)'
      <4>1. q.body = PatchBody(q.field, q.value)
        BY <3>1 DEF Sending
      <4> QED
        BY <1>2, <1>3, <4>1 DEF Carries, PatchBody
    <3>2. ASSUME NEW q \in InFlight PROVE Carries(q)'
      BY <1>2, <3>2 DEF IInv, Carries, PatchBody
    <3> QED
      BY <2>2, <3>1, <3>2
  <2>4. \A d \in Editors : editor'[d].pc # "reading"
    BY <1>3, <2>1 DEF IInv, Sending
  <2> QED
    BY <1>2, <1>3, <2>3, <2>4 DEF IInv, LatestEditWins
<1>4. CASE package \notin Patches
  <2>1. editor'[e] = read(field, value) /\ \A d \in Editors \ {e} : editor'[d] = NoEdit
    BY <1>1, <1>2, <1>4 DEF Begin, Busy
  <2>2. \A d \in Editors : editor'[d].pc \notin {"sent", "saved"}
    BY <2>1 DEF NoEdit
  <2>3. InFlight' = {}
    BY <1>2, <1>4, <2>2 DEF InFlight, Begin
  <2>4. Alone'
    BY <1>2, <1>4, <2>1, <2>3 DEF Alone, Begin
  <2> QED
    BY <1>2, <1>4, <2>3, <2>4 DEF IInv, LatestEditWins
<1> QED
  BY <1>3, <1>4

\* The whole document, read when nothing else is in flight, is sent back.
LEMMA GetInv ==
  ASSUME Clients \subseteq Patches \cup Whole,
         IInv, DocumentsTypeOK', NEW e \in Editors, Get(e)
  PROVE  IInv'
<1> DEFINE field == editor[e].field
           value == editor[e].value
           edited == [doc EXCEPT ![field] = value]
           put == Sending(field, value, edited)
<1>1. /\ UNCHANGED <<package, doc, last, pending>>
      /\ editor \in [Editors -> EditorStates] /\ package \notin Patches
      /\ editor[e].pc = "reading" /\ Alone
  BY DEF Get, IInv, DocumentsTypeOK
<1>2. editor' = [editor EXCEPT ![e] = put]
  BY <1>1, WholeBody DEF Get, IInv
<1>3. pending = {} /\ \A d \in Editors \ {e} : editor[d] = NoEdit
  BY <1>1, EditorType DEF Alone, IInv
<1>4. editor'[e] = put /\ \A d \in Editors \ {e} : editor'[d] = NoEdit
  BY <1>1, <1>2, <1>3
<1>5. \A q \in InFlight' : q = put
  <2> HIDE DEF put
  <2> QED
    BY <1>1, <1>3, <1>4 DEF InFlight, NoEdit
<1>6. put.pc = "sent" /\ put.field = field /\ put.value = value /\ put.body = edited
  BY DEF Sending
<1>7. \A q \in InFlight' : Carries(q)'
  BY <1>1, <1>5, <1>6 DEF Carries
<1>8. Alone'
  BY <1>1, <1>3, <1>4, <1>5, <1>6 DEF Alone
<1> QED
  BY <1>1, <1>7, <1>8 DEF IInv, LatestEditWins

LEMMA UpdateInv ==
  ASSUME IInv, DocumentsTypeOK', NEW e \in Editors, Update(e)
  PROVE  IInv'
<1>1. editor[e] \in Updates /\ editor \in [Editors -> EditorStates]
  BY EditorType DEF Update, IInv, DocumentsTypeOK
<1>2. editor[e] \in InFlight
  BY DEF Update, InFlight
<1>3. \A d \in Editors \ {e} : editor'[d] = editor[d]
  BY <1>1 DEF Update
<1>4. editor'[e].pc = "saved" /\ SameEdit(editor'[e], editor[e])
  BY <1>1 DEF Update, SameEdit, Updates
<1>5. \A q \in InFlight' : \E r \in InFlight : SameEdit(q, r)
  <2>1. \A q \in InFlight' : q = editor'[e] \/ q \in InFlight
    BY <1>3 DEF Update, InFlight
  <2> QED
    BY <1>2, <1>4, <2>1 DEF SameEdit
<1>6. editor[e] # NoEdit
  BY EditorType DEF Update, IInv
<1>7. NothingNew
  BY <1>3, <1>4, <1>5, <1>6 DEF Update, NothingNew
<1> QED
  BY <1>2, <1>7, NothingNewInv DEF Update

LEMMA SavedInv ==
  ASSUME IInv, DocumentsTypeOK', NEW e \in Editors, Saved(e)
  PROVE  IInv'
<1>1. editor'[e] = NoEdit /\ \A d \in Editors \ {e} : editor'[d] = editor[d]
  BY DEF Saved, IInv, DocumentsTypeOK
<1>2. \A q \in InFlight' : q \in InFlight
  BY <1>1 DEF Saved, InFlight, NoEdit
<1>3. NothingNew
  BY <1>1, <1>2 DEF Saved, NothingNew, SameEdit, NoEdit
<1> QED
  BY <1>3, NothingNewInv DEF Saved

\* Whatever becomes of a call that fails, its edit was in flight before.
LEMMA FailsInv ==
  ASSUME IInv, DocumentsTypeOK', NEW e \in Editors, Fails(e)
  PROVE  IInv'
<1>1. \A d \in Editors \ {e} : editor'[d] = editor[d]
  BY DEF Fails, IInv, DocumentsTypeOK
<1>2. /\ editor'[e].pc = "reading" => editor[e].pc = "reading"
      /\ editor'[e].pc \in {"sent", "saved"} =>
           editor[e].pc \in {"sent", "saved"} /\ SameEdit(editor'[e], editor[e])
  <2>1. CASE editor' = [editor EXCEPT ![e] = NoEdit]
    BY <2>1 DEF NoEdit, IInv, DocumentsTypeOK
  <2>2. CASE editor' = [editor EXCEPT ![e].pc = IF @ = "saved" THEN "sent" ELSE @]
    <3>1. CASE editor[e].pc = "reading"
      <4>1. editor[e] \in [pc : {"reading"}, field : Fields, value : BOOLEAN]
        BY <3>1 DEF IInv, DocumentsTypeOK, EditorStates, Updates, NoEdit
      <4> QED
        BY <2>2, <3>1, <4>1 DEF IInv, DocumentsTypeOK
    <3>2. CASE editor[e].pc \in {"sent", "saved"}
      <4>1. editor[e] \in Updates
        BY <3>2, EditorType DEF IInv
      <4> QED
        BY <2>2, <3>2, <4>1 DEF IInv, DocumentsTypeOK, Updates, SameEdit
    <3> QED
      BY <3>1, <3>2, EditorType DEF IInv, Fails
  <2> QED
    BY <2>1, <2>2 DEF Fails
<1>3. \A q \in pending' : q \in InFlight
  BY DEF Fails, InFlight
<1>4. \A q \in InFlight' : \E r \in InFlight : SameEdit(q, r)
  BY <1>1, <1>2, <1>3 DEF InFlight, SameEdit
<1>5. \A d \in Editors : editor'[d].pc = "reading" => pending' \subseteq pending
  <2> SUFFICES ASSUME NEW d \in Editors, editor'[d].pc = "reading", editor[e].pc = "sent"
               PROVE  pending' \subseteq pending
    BY DEF Fails
  <2>1. editor[d].pc = "reading" /\ editor[d] # NoEdit
    BY <1>1, <1>2, EditorType DEF IInv
  <2>2. d = e
    BY <2>1 DEF IInv, Alone, Fails
  <2> QED
    BY <2>1, <2>2
<1>6. NothingNew
  BY <1>1, <1>2, <1>4, <1>5 DEF Fails, NothingNew
<1> QED
  BY <1>6, NothingNewInv DEF Fails

LEMMA LateInv ==
  ASSUME IInv, DocumentsTypeOK', Late
  PROVE  IInv'
<1>1. PICK r \in pending :
        /\ pending' = pending \ {r}
        /\ Write(r) \/ UNCHANGED <<doc, last>>
        /\ UNCHANGED <<package, editor, edits, timeouts>>
  BY DEF Late
<1>2. r \in InFlight /\ \A q \in InFlight' : q \in InFlight
  BY <1>1 DEF InFlight
<1>3. NothingNew
  BY <1>1, <1>2 DEF NothingNew, SameEdit
<1> QED
  BY <1>1, <1>2, <1>3, NothingNewInv

LEMMA StutterInv ==
  ASSUME IInv, DocumentsTypeOK', UNCHANGED documentVars
  PROVE  IInv'
<1>1. NothingNew
  BY DEF documentVars, NothingNew, InFlight, SameEdit
<1> QED
  BY <1>1, NothingNewInv DEF documentVars

-----------------------------------------------------------------------------
(* The theorems. *)

\* The document, what each program is doing and the updates still on their way
\* keep their types, in every package: whatever a body leaves out, merging it
\* gives a document.
THEOREM DocumentsTypeCorrect == DocumentsSpec => []DocumentsTypeOK
<1> QED
  BY InitType, StepType, PTL DEF DocumentsSpec

\* For the packages that send a Patch (workspaces/types.go:14, the stores) and
\* for the document whose fields are always sent (gwc/global), every update in
\* flight changes its own field only, and every field has its latest edit.
THEOREM DocumentsInductive ==
  ASSUME Clients \subseteq Patches \cup Whole
  PROVE  DocumentsSpec => []IInv
<1>1. ASSUME IInv, [DocumentsNext]_documentVars PROVE IInv'
  <2>1. DocumentsTypeOK'
    BY <1>1, StepType DEF IInv
  <2> QED
    BY <1>1, <2>1, BeginInv, GetInv, UpdateInv, SavedInv, FailsInv, LateInv, StutterInv
    DEF DocumentsNext
<1> QED
  BY <1>1, InitInv, PTL DEF DocumentsSpec

\* No update is lost: interleaved edits of one document, retries, and updates
\* executed after their call timed out leave every field as its latest edit set
\* it, for any number of fields, programs, edits and timeouts.
THEOREM NoUpdateLost ==
  ASSUME Clients \subseteq Patches \cup Whole
  PROVE  DocumentsSpec => []LatestEditWins
<1>1. IInv => LatestEditWins
  BY DEF IInv
<1> QED
  BY <1>1, DocumentsInductive, PTL
=============================================================================
