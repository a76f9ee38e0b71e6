-------------------------------- MODULE Codecs --------------------------------
(***************************************************************************)
(* The UnmarshalJSON and MarshalJSON methods of the library.  GeoServer    *)
(* writes the same document in several shapes: a list of one as its only   *)
(* element, an empty list as "", an object with or without an envelope, a  *)
(* number for a string.  A document is the sequence of its texts: the      *)
(* elements of a list, or the values of its fields in a fixed order, ""    *)
(* for one that is not set.                                                *)
(***************************************************************************)
EXTENDS Naturals, Sequences, SequencesExt

-----------------------------------------------------------------------------
\* JSON.

\* The fields of an object: none, one, those of two parts.
NoFields == [key \in {} |-> ""]
One(key, j) == [k \in {key} |-> j]
Both(f, g) == [key \in DOMAIN f \cup DOMAIN g |-> IF key \in DOMAIN f THEN f[key] ELSE g[key]]

JsonShapes == {"null", "string", "number", "object", "array"}

Json(shape, text, fields, items) ==
  [shape |-> shape, text |-> text, fields |-> fields, items |-> items]

Null == Json("null", "", NoFields, <<>>)
Str(text) == Json("string", text, NoFields, <<>>)
Num(text) == Json("number", text, NoFields, <<>>)
Obj(fields) == Json("object", "", fields, <<>>)
Arr(items) == Json("array", "", NoFields, items)

\* A field that is missing, or null.
Field(j, key) == IF key \in DOMAIN j.fields THEN j.fields[key] ELSE Null

\* A field tagged omitempty.
Omitted(key, text) == IF text = "" THEN NoFields ELSE One(key, Str(text))

Decoded(doc) == [ok |-> TRUE, doc |-> doc]
DecodeError == [ok |-> FALSE, doc |-> <<>>]

Element(result) == IF result.ok THEN result.doc[1] ELSE ""

\* encoding/json: into a string, into a struct of strings, into a slice.
AsString(j) ==
  CASE j.shape = "string" -> Decoded(<<j.text>>)
    [] j.shape = "null" -> Decoded(<<"">>)
    [] OTHER -> DecodeError

AsStruct(j, keys) ==
  LET parts == [i \in DOMAIN keys |-> AsString(Field(j, keys[i]))]
  IN IF j.shape \in {"object", "null"} /\ \A i \in DOMAIN keys : parts[i].ok
     THEN Decoded([i \in DOMAIN keys |-> Element(parts[i])])
     ELSE DecodeError

AsSlice(j, element(_)) ==
  LET parts == [i \in DOMAIN j.items |-> element(j.items[i])]
  IN IF j.shape = "null" THEN Decoded(<<>>)
     ELSE IF j.shape = "array" /\ \A i \in DOMAIN parts : parts[i].ok
     THEN Decoded([i \in DOMAIN parts |-> Element(parts[i])])
     ELSE DecodeError

-----------------------------------------------------------------------------
\* Lists that collapse to their only element.

VersionsKey == "org.geotools.util.Version"
VersionEntry(j) == AsStruct(j, <<"version">>)

NonEmpty(result) == IF result = Decoded(<<"">>) THEN Decoded(<<>>) ELSE result

\* Versions and Keywords: the list is under a key of an object.
UnmarshalKeyed(j, key, element(_)) ==
  LET list == Field(j, key)
  IN IF j.shape = "null" THEN Decoded(<<>>)
     ELSE IF j.shape # "object" THEN DecodeError
     ELSE CASE list.shape = "null" -> Decoded(<<>>)
            [] list.shape = "array" -> AsSlice(list, element)
            [] OTHER -> NonEmpty(element(list))

UnmarshalVersions(j) == UnmarshalKeyed(j, VersionsKey, VersionEntry)
UnmarshalKeywords(j) == UnmarshalKeyed(j, "string", AsString)

\* An empty list is written as null.
MarshalKeyed(doc, key, element(_)) ==
  IF doc = <<>> THEN Null ELSE Obj(One(key, Arr([i \in DOMAIN doc |-> element(doc[i])])))

EntryOf(text) == Obj(One("version", Str(text)))

MarshalVersions(doc) == MarshalKeyed(doc, VersionsKey, EntryOf)
MarshalKeywords(doc) == MarshalKeyed(doc, "string", Str)

\* Faulty variant: an only filter is not taken for a list.
UnmarshalFilterArray(j) == AsSlice(j, AsString)

\* FilterChain.Filters.
UnmarshalFilter(j) == IF j.shape = "string" THEN AsString(j) ELSE AsSlice(j, AsString)

NamedEntry(j) == AsStruct(j, <<"name">>)

\* Published: layers and groups, by name.  An only one must have something set.
PublishedItem(j) == AsStruct(j, <<"name", "href", "@type">>)

UnmarshalPublished(j) ==
  CASE j.shape = "null" -> Decoded(<<>>)
    [] j.shape = "object" ->
         LET single == PublishedItem(j)
         IN IF single.ok /\ single.doc # <<"", "", "">>
            THEN Decoded(<<single.doc[1]>>) ELSE DecodeError
    [] j.shape = "array" -> AsSlice(j, PublishedItem)
    [] OTHER -> DecodeError

NameOf(text) == Obj(Omitted("name", text))

\* The styles of a layer group: "" for the default style of the member.
UnmarshalStyle(j) ==
  CASE j.shape \in {"string", "null"} -> AsString(j)
    [] OTHER -> AsStruct(j, <<"name">>)

UnmarshalStyles(j) ==
  LET list == Field(j, "style")
  IN IF j.shape \in {"null", "string"} THEN Decoded(<<>>)
     ELSE IF j.shape # "object" THEN DecodeError
     ELSE CASE list.shape = "null" -> Decoded(<<>>)
            [] list.shape \in {"string", "object"} -> UnmarshalStyle(list)
            [] OTHER -> AsSlice(list, UnmarshalStyle)

MarshalStyles(doc) ==
  Obj(IF doc = <<>> THEN NoFields
      ELSE One("style", Arr([i \in DOMAIN doc |-> NameOf(doc[i])])))

\* Lists in an envelope, "" when they are empty.  Layers.ListStyles decodes
\* straight into the struct.
UnmarshalList(j) ==
  IF j.shape \in {"null", "string"} THEN Decoded(<<>>)
  ELSE IF j.shape # "object" THEN DecodeError
  ELSE AsSlice(Field(j, "list"), NamedEntry)

UnmarshalListStyles(j) ==
  IF j.shape = "null" THEN Decoded(<<>>)
  ELSE IF j.shape # "object" THEN DecodeError
  ELSE AsSlice(Field(j, "list"), NamedEntry)

-----------------------------------------------------------------------------
\* Objects.

\* A field that is read if it is a string, and otherwise left as it was.
StringAt(j, key) == IF Field(j, key).shape = "string" THEN Field(j, key).text ELSE ""

\* A CRS is its class and its value, the class "string" for a bare string.
UnmarshalCRS(j) ==
  CASE j.shape = "object" ->
         LET class == StringAt(j, "@class")
             crs == StringAt(j, "$")
         IN IF class = "" /\ crs = "" THEN DecodeError ELSE Decoded(<<class, crs>>)
    [] j.shape = "string" -> Decoded(<<"string", j.text>>)
    [] OTHER -> DecodeError

MarshalCRS(doc) ==
  CASE doc = <<"", "">> -> Str("")
    [] doc[1] = "string" -> Str(doc[2])
    [] OTHER -> Obj(Both(Omitted("@class", doc[1]), Omitted("$", doc[2])))

\* MetadataLink, Contact and JAIExt: "" when nothing is set.
UnmarshalOptional(j) ==
  IF j.shape = "null" \/ j = Str("") THEN Decoded(<<"">>) ELSE AsStruct(j, <<"content">>)

MarshalOptional(doc) == Obj(Omitted("content", doc[1]))

\* gwc.Global, logging.Config, URLCheck, Transform, the cascaded stores and
\* layers: with the envelope or without it.
UnmarshalEnvelope(j, key) ==
  LET wrapped == AsStruct(Field(j, key), <<"name">>)
  IN IF Field(j, key).shape = "object" /\ wrapped.ok THEN wrapped ELSE AsStruct(j, <<"name">>)

\* Faulty variant: the envelope is forgotten.
MarshalEnvelopeFlat(doc, key) == NameOf(doc[1])

MarshalEnvelope(doc, key) == Obj(One(key, NameOf(doc[1])))

\* Keys that look like Java classes: those with a dot.
ClassKeys == {"o.g.PasswordConfig", "o.g.LDAPConfig"}

\* An object with one such key: what is inside, if that is an object.
unwrapClassEnvelope(j) ==
  LET envelopes == {key \in ClassKeys :
                      DOMAIN j.fields = {key} /\ j.fields[key].shape = "object"}
  IN IF j.shape = "object" /\ envelopes # {}
     THEN j.fields[CHOOSE key \in envelopes : TRUE] ELSE j

\* AuthProvider and AuthFilter: the name, the class, and one of the Extras, which
\* are kept whatever they are.
UnmarshalProvider(j) ==
  LET p == unwrapClassEnvelope(j)
  IN IF p.shape \in {"object", "null"}
     THEN Decoded(<<StringAt(p, "name"), StringAt(p, "className"), Field(p, "extra").text>>)
     ELSE DecodeError

\* Faulty variant: the Extras stay behind.
MarshalProviderTyped(doc) == Obj(Both(Omitted("name", doc[1]), Omitted("className", doc[2])))

MarshalProvider(doc) ==
  Obj(Both(Omitted("name", doc[1]), Both(Omitted("className", doc[2]), Omitted("extra", doc[3]))))

\* AuthFilters.Get: without a name there is no such filter.
GetFilter(j) ==
  LET f == UnmarshalProvider(j)
  IN IF f.ok /\ f.doc[1] = "" THEN Decoded(<<>>) ELSE f

\* AuthProviders.List.  An object is ranged over in any order; GeoServer sends
\* one with the only provider.
ListProviders(j) ==
  CASE j.shape = "null" -> Decoded(<<>>)
    [] j.shape = "array" -> AsSlice(j, UnmarshalProvider)
    [] j.shape = "object" ->
         LET keys == SetToSeq(DOMAIN j.fields)
         IN AsSlice(Arr([i \in DOMAIN keys |-> j.fields[keys[i]]]), UnmarshalProvider)
    [] OTHER -> DecodeError

\* Namespaces have a prefix; the entries of their list call it name.
UnmarshalNamespace(j) ==
  LET n == AsStruct(j, <<"prefix", "name">>)
  IN IF n.ok THEN Decoded(<<IF n.doc[1] = "" THEN n.doc[2] ELSE n.doc[1]>>) ELSE n

\* The version of a component, the value of a metric, an attribute of a
\* manifest: the string, or the text of a number.
UnmarshalText(j) ==
  IF j.shape = "null" THEN Decoded(<<"">>) ELSE Decoded(<<j.text>>)

\* A seed task is a row: tiles, total, seconds left, id and status.
UnmarshalTask(j) ==
  LET At(i) == IF i <= Len(j.items) THEN j.items[i].text ELSE "0"
  IN Decoded(<<At(1), At(2), At(3), At(4), At(5)>>)

\* DiskQuota is read as JSON and written as XML, in which it has a unit.
UnmarshalQuota(j) ==
  LET quota == Field(Field(j, "DiskQuotaConfig"), "globalQuota")
  IN Decoded(IF quota.shape = "null" THEN <<"">> ELSE <<Field(quota, "bytes").text>>)

MarshalQuota(doc) ==
  Obj(IF doc[1] = "" THEN NoFields
      ELSE One("globalQuota", Obj(Both(One("value", Num(doc[1])), One("units", Str("B"))))))

\* An entry of the audit log: the columns of the header and of its row.  A row
\* may be shorter, columns that are not known are dropped.
ColumnsOf(j, name) ==
  {i \in DOMAIN j.items[1].items : j.items[1].items[i].text = name}

UnmarshalEntry(j) ==
  LET Cell(i) == IF i <= Len(j.items[2].items) THEN j.items[2].items[i].text ELSE ""
      Value(name) == IF ColumnsOf(j, name) = {} THEN ""
                     ELSE Cell(CHOOSE i \in ColumnsOf(j, name) : TRUE)
  IN Decoded(<<Value("Id"), Value("Path"), Value("ErrorMessage")>>)

-----------------------------------------------------------------------------
\* The methods by type.

Unmarshal(type, j) ==
  CASE type = "versions" -> UnmarshalVersions(j)
    [] type = "keywords" -> UnmarshalKeywords(j)
    [] type = "filters" -> UnmarshalFilter(j)
    [] type = "published" -> UnmarshalPublished(j)
    [] type = "styles" -> UnmarshalStyles(j)
    [] type = "list" -> UnmarshalList(j)
    [] type = "layerStyles" -> UnmarshalListStyles(j)
    [] type = "crs" -> UnmarshalCRS(j)
    [] type = "optional" -> UnmarshalOptional(j)
    [] type = "envelope" -> UnmarshalEnvelope(j, "global")
    [] type = "provider" -> UnmarshalProvider(j)
    [] type = "filter" -> GetFilter(j)
    [] type = "providers" -> ListProviders(j)
    [] type = "namespace" -> UnmarshalNamespace(j)
    [] type = "text" -> UnmarshalText(j)
    [] type = "task" -> UnmarshalTask(j)
    [] type = "quota" -> UnmarshalQuota(j)
    [] type = "entry" -> UnmarshalEntry(j)

Marshal(type, doc) ==
  CASE type = "versions" -> MarshalVersions(doc)
    [] type = "keywords" -> MarshalKeywords(doc)
    [] type = "filters" -> IF doc = <<>> THEN Null ELSE Arr([i \in DOMAIN doc |-> Str(doc[i])])
    [] type = "published" -> IF doc = <<>> THEN Null ELSE Arr([i \in DOMAIN doc |-> NameOf(doc[i])])
    [] type = "styles" -> MarshalStyles(doc)
    [] type = "crs" -> MarshalCRS(doc)
    [] type = "optional" -> MarshalOptional(doc)
    [] type = "envelope" -> MarshalEnvelope(doc, "global")
    [] type \in {"provider", "filter"} -> MarshalProvider(doc)
    [] type = "quota" -> MarshalQuota(doc)
=============================================================================
