------------------------------- MODULE RoundTrip -------------------------------
(***************************************************************************)
(* Get and Update of one document through the codecs of the library: the   *)
(* server writes it in one of the shapes the library's comments and tests  *)
(* tell of, the program reads it, changes some of it, and puts it back.    *)
(* Faults and other programs are the subject of Documents.                 *)
(***************************************************************************)
EXTENDS Codecs

CONSTANTS
  Types,     \* the types in use
  Texts,     \* of elements and fields
  MaxLength  \* of lists

VARIABLES
  type,      \* the type of the document
  document,  \* what is on the server
  asked,     \* the document as the program wants it
  phase,     \* "idle", "served", "read" or "sent"
  json,      \* the last body
  value      \* what the program holds: [ok, doc]

documentVars == <<type, document, asked, phase, json, value>>

-----------------------------------------------------------------------------
Lists == {"versions", "keywords", "filters", "published", "styles"}
Writable == Lists \cup {"crs", "optional", "envelope", "provider", "filter", "quota"}

ReadOnly == {"list", "layerStyles", "providers", "namespace", "text", "task", "entry"}

\* A text is not empty: "" is that of a field that is not set.
ASSUME RoundTripAssumption ==
  /\ Types \subseteq Writable \cup ReadOnly
  /\ "" \notin Texts
  /\ MaxLength \in Nat

Unset == Texts \cup {""}

\* The documents of a type.
Docs ==
  CASE type \in {"versions", "keywords", "filters", "list", "layerStyles", "providers"} ->
         BoundedSeq(Texts, MaxLength)
    [] type = "published" -> BoundedSeq(Texts, MaxLength) \ {<<>>}
    [] type = "styles" -> BoundedSeq(Unset, MaxLength) \ {<<>>}
    [] type = "crs" -> {"", "string", "projected"} \X Texts
    [] type = "optional" -> {<<t>> : t \in Unset}
    [] type = "provider" -> Texts \X (Texts \cup {"C"}) \X Unset
    [] type = "filter" -> (Texts \X (Texts \cup {"C"}) \X Unset) \cup {<<>>}
    [] type = "task" -> [1..5 -> Texts]
    [] type = "entry" -> Texts \X Texts \X Unset
    [] type = "quota" -> {<<t>> : t \in Unset}
    [] OTHER -> {<<t>> : t \in Texts}

-----------------------------------------------------------------------------
\* What the server writes.

Collapsed(items) == {Arr(items)} \cup (IF Len(items) = 1 THEN {items[1]} ELSE {})

Entries(doc, element(_)) == [i \in DOMAIN doc |-> element(doc[i])]

\* A list under a key of an object.
Keyed(doc, key, element(_)) ==
  IF doc = <<>> THEN {Null, Obj(NoFields)}
  ELSE {Obj(One(key, list)) : list \in Collapsed(Entries(doc, element))}

StyleOf(text) == IF text = "" THEN Str("") ELSE NameOf(text)

\* Numbers are written without quotes, or with them.
TextOf(text) == {Str(text)} \cup (IF text = "1" THEN {Num(text)} ELSE {})

Flat(doc) ==
  Obj(Both(One("name", Str(doc[1])), Both(One("className", Str(doc[2])), Omitted("extra", doc[3]))))

ProviderOf(name) == Flat(<<name, "C", "">>)

\* A row of the audit log with any columns before it, as long as it needs to be.
AuditLog(doc) ==
  LET header == <<"Id", "Other", "Path", "ErrorMessage">>
      row == <<doc[1], "x", doc[2], doc[3]>>
      Cut(r) == IF doc[3] = "" THEN SubSeq(r, 1, 3) ELSE r
      Cells(r) == Arr([i \in DOMAIN r |-> Str(r[i])])
  IN {Arr(<<Cells(header), Cells(row)>>), Arr(<<Cells(header), Cells(Cut(row))>>),
      Arr(<<Cells(Reverse(header)), Cells(Reverse(row))>>)}

Shapes(doc) ==
  CASE type = "versions" -> Keyed(doc, VersionsKey, EntryOf)
    [] type = "keywords" -> Keyed(doc, "string", Str)
    [] type = "filters" -> IF doc = <<>> THEN {Null} ELSE Collapsed(Entries(doc, Str))
    [] type = "published" -> Collapsed(Entries(doc, NameOf))
    [] type = "styles" ->
         {Obj(One("style", list)) : list \in Collapsed(Entries(doc, StyleOf))}
           \cup (IF ToSet(doc) = {""} THEN {Str("")} ELSE {})
    [] type \in {"list", "layerStyles"} ->
         IF doc = <<>> THEN {Str("")} ELSE {Obj(One("list", Arr(Entries(doc, NameOf))))}
    [] type = "crs" -> IF doc[1] = "string" THEN {Str(doc[2])}
                       ELSE {Obj(Both(Omitted("@class", doc[1]), One("$", Str(doc[2]))))}
    [] type = "optional" ->
         IF doc = <<"">> THEN {Str(""), Null} ELSE {Obj(One("content", Str(doc[1])))}
    [] type = "envelope" -> {NameOf(doc[1]), Obj(One("global", NameOf(doc[1])))}
    [] type \in {"provider", "filter"} ->
         IF doc = <<>> THEN {Obj(One("null", Str("")))}
         ELSE {Flat(doc)} \cup {Obj(One(key, Flat(doc))) : key \in ClassKeys}
    [] type = "providers" ->
         LET flat == Entries(doc, ProviderOf)
         IN {Arr(flat)}
              \cup (IF Len(doc) = 1 THEN {Obj(One(key, flat[1])) : key \in ClassKeys} ELSE {})
    [] type = "namespace" -> {Obj(One("prefix", Str(doc[1]))), NameOf(doc[1])}
    [] type = "text" -> TextOf(doc[1])
    [] type = "task" -> {Arr([i \in 1..5 |-> Num(doc[i])])}
    [] type = "quota" ->
         {Obj(One("DiskQuotaConfig",
                  Obj(IF doc[1] = "" THEN NoFields
                      ELSE One("globalQuota", Obj(One("bytes", Num(doc[1])))))))}
    [] type = "entry" -> AuditLog(doc)

-----------------------------------------------------------------------------
\* What the server makes of a body.  What is not in it keeps its value.

Present(text, kept) == IF text = "" THEN kept ELSE text
TextAt(j, key) == Field(j, key).text

ElementTexts(list, key) ==
  [i \in DOMAIN list.items |-> IF list.items[i].shape = "object" THEN TextAt(list.items[i], key)
                                ELSE list.items[i].text]

ListIn(j) ==
  CASE type = "versions" -> Field(j, VersionsKey)
    [] type = "keywords" -> Field(j, "string")
    [] type = "styles" -> Field(j, "style")
    [] OTHER -> j

Reads(j) ==
  CASE type \in Lists ->
         IF ListIn(j).shape # "array" THEN document
         ELSE ElementTexts(ListIn(j), IF type = "versions" THEN "version" ELSE "name")
    [] type = "crs" -> IF j.shape = "string" THEN <<"string", j.text>>
                       ELSE <<TextAt(j, "@class"), TextAt(j, "$")>>
    [] type = "optional" -> <<Present(TextAt(j, "content"), document[1])>>
    [] type = "envelope" -> <<TextAt(Field(j, "global"), "name")>>
    [] type \in {"provider", "filter"} ->
         <<TextAt(j, "name"), TextAt(j, "className"), TextAt(j, "extra")>>
    [] type = "quota" ->
         LET quota == Field(j, "globalQuota")
         IN <<IF TextAt(quota, "units") = "B" THEN TextAt(quota, "value") ELSE document[1]>>

-----------------------------------------------------------------------------
DocumentInit ==
  /\ type \in Types
  /\ document \in {d \in Docs : type = "crs" => d[1] # ""}
  /\ asked = document
  /\ phase = "idle"
  /\ json = Null
  /\ value = Decoded(<<>>)

\* GET: the server answers in one of its shapes.
ServeDocument ==
  /\ phase = "idle"
  /\ phase' = "served"
  /\ json' \in Shapes(document)
  /\ asked' = document
  /\ UNCHANGED <<type, document, value>>

\* Get returns.
GetDocument ==
  /\ phase = "served"
  /\ phase' = "read"
  /\ value' = Unmarshal(type, json)
  /\ UNCHANGED <<type, document, asked, json>>

\* The program has a document: it was found, and there was no error.
Holds == phase = "read" /\ value.ok /\ ~(type = "filter" /\ value.doc = <<>>)

EditTexts(i) == IF type = "crs" /\ i = 1 THEN {"", "string", "projected"} ELSE Texts

\* It sets a field or an element, or appends one.
Edit ==
  /\ Holds
  /\ type \in Writable
  /\ \E i \in DOMAIN value.doc : \E text \in EditTexts(i) :
       /\ value' = [value EXCEPT !.doc[i] = text]
       /\ asked' = [asked EXCEPT ![i] = text]
  /\ UNCHANGED <<type, document, phase, json>>

Extend ==
  /\ Holds
  /\ type \in Lists \ {"styles"}
  /\ Len(value.doc) < MaxLength
  /\ \E text \in Texts :
       /\ value' = [value EXCEPT !.doc = Append(@, text)]
       /\ asked' = Append(asked, text)
  /\ UNCHANGED <<type, document, phase, json>>

\* Update sends it.
UpdateDocument ==
  /\ Holds
  /\ type \in Writable
  /\ phase' = "sent"
  /\ json' = Marshal(type, value.doc)
  /\ UNCHANGED <<type, document, asked, value>>

Apply ==
  /\ phase = "sent"
  /\ phase' = "idle"
  /\ document' = Reads(json)
  /\ UNCHANGED <<type, asked, json, value>>

\* The program is done with what it read.
Drop ==
  /\ phase = "read"
  /\ phase' = "idle"
  /\ asked' = document
  /\ UNCHANGED <<type, document, json, value>>

DocumentNext == ServeDocument \/ GetDocument \/ Edit \/ Extend \/ UpdateDocument \/ Apply \/ Drop

DocumentSpec == DocumentInit /\ [][DocumentNext]_documentVars

-----------------------------------------------------------------------------
DocumentTypeOK ==
  /\ document \in Docs /\ asked \in Docs
  /\ phase \in {"idle", "served", "read", "sent"}
  /\ json.shape \in JsonShapes
  /\ value.ok \in BOOLEAN
  /\ value.doc \in Seq(Unset \cup {"string", "projected", "C"})

\* "" for the styles of a layer group: every member has its default.
Same(d, e) == d = e \/ (type = "styles" /\ ToSet(d \o e) = {""})

\* A layer without alternative styles.
NoStyles == type = "layerStyles" /\ asked = <<>>

\* Whatever shape the server chose, Get succeeds, and what it returns is the
\* document there is: no element of a list that collapsed is lost or added, no
\* field behind an envelope, under another name or written as a number.  The one
\* list that does not decode is that of NoStyles.
ReadsAreTrue == phase = "read" => NoStyles \/ (value.ok /\ Same(value.doc, asked))

\* rest/layers/layers.go:153: "An empty list (no alternatives configured) is the
\* common case and returns nil with no error."
NoStylesIsNil == phase = "read" /\ NoStyles => value = Decoded(<<>>)

\* Update of a document that was read puts the program's changes into it, and
\* nothing else changes: what the server reads from the body is what the program
\* holds, in a language that is not always the one it answers in.
WritesAreMeant == phase \in {"idle", "served"} => Same(document, asked)

\* The program holds the document as it wants it, or the server wrote "" for
\* styles that are all the default, which leaves nothing to edit.
HoldsAsked ==
  \/ value.doc = asked
  \/ type = "styles" /\ value.doc = <<>> /\ ToSet(asked) = {""} /\ asked = document

\* What is left out of the body keeps its value: nothing sets a field to "" or
\* empties a list.
UnsetIsKept ==
  asked = <<>> \/ (type \in {"optional", "quota"} /\ asked[1] = "") => asked = document

\* What the last Get returned: a document, or the error of NoStyles.
Returned ==
  \/ value = Decoded(value.doc)
  \/ value = DecodeError /\ type = "layerStyles" /\ (phase = "read" => asked = <<>>)

\* The inductive invariant behind both.
DocumentInv ==
  /\ DocumentTypeOK
  /\ type \in Types
  /\ Returned
  /\ phase \in {"idle", "served"} => asked = document
  /\ phase = "served" => json \in Shapes(document)
  /\ phase \in {"read", "sent"} => HoldsAsked /\ UnsetIsKept
  /\ phase = "sent" =>
       /\ type \in Writable /\ ~(type = "filter" /\ value.doc = <<>>)
       /\ json = Marshal(type, value.doc)
=============================================================================
