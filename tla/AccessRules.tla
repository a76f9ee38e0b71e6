------------------------------ MODULE AccessRules ------------------------------
(***************************************************************************)
(* Access rules of GeoServer (rest/acl) under several administrators.  On  *)
(* the wire the rules are one JSON object whose keys join the parts of a   *)
(* rule and whose values join its roles; an administrator lists the rules, *)
(* picks one and sends it back changed, or deletes it, while the others do *)
(* the same and tools that know other rule forms write theirs.             *)
(* A string is the sequence of its tokens: a separator is a token, what is *)
(* between separators another one.  The name of a role is one token: one   *)
(* with a comma in it, which would be read as two roles, is left out.      *)
(***************************************************************************)
EXTENDS Naturals, Sequences, SequencesExt, FiniteSetsExt

CONSTANTS
  Kinds,      \* the sub-clients in use, of "layers", "services" and "rest"
  Subjects,   \* what administrators write rules about, for each of them
  RoleLists,  \* whom they admit
  Foreign,    \* the rules other tools write, for each of them: keys and roles
  Administrators,
  MaxWrites   \* rules written or deleted, over all administrators and tools

VARIABLES
  ruleKind,  \* the sub-client in use
  rules,     \* the server's table, from keys to joined roles
  said,      \* what writers asked for: from subjects to who has access
  held,      \* what each administrator's last List returned
  writes

rulesVars == <<ruleKind, rules, said, held, writes>>

-----------------------------------------------------------------------------
\* Strings.

EmptyString == <<>>
Star == <<"*">>

\* strings.Split(s, "."), one token at a time.
AddToken(parts, token) ==
  IF token = "." THEN Append(parts, EmptyString)
  ELSE [parts EXCEPT ![Len(parts)] = Append(@, token)]

Split(s) ==
  LET parts[i \in 0..Len(s)] ==
        IF i = 0 THEN <<EmptyString>> ELSE AddToken(parts[i - 1], s[i])
  IN parts[Len(s)]

Separators == {":", ";"}

Places(s, tokens) == {i \in DOMAIN s : s[i] \in tokens}

\* strings.IndexAny and strings.Index: 0 when there is none.
IndexAny(s, tokens) == IF Places(s, tokens) = {} THEN 0 ELSE Min(Places(s, tokens))

LastIndexAny(s, tokens) == IF Places(s, tokens) = {} THEN 0 ELSE Max(Places(s, tokens))

Default(s, value) == IF s = EmptyString THEN value ELSE s

-----------------------------------------------------------------------------
\* A rule is its subject - workspace, layer and operation; service and
\* operation; pattern and methods - and the roles it admits.  The methods of a
\* REST rule are kept joined.

Rule(subject, roles) == [subject |-> subject, roles |-> roles]

Error == [subject |-> <<>>, roles |-> <<>>]

\* What the empty parts of a subject stand for.
Defaults ==
  CASE ruleKind = "layers" -> <<Star, Star, <<"r">>>>
    [] ruleKind = "services" -> <<Star, Star>>
    [] ruleKind = "rest" -> <<<<"/**">>, Star>>

Completed(subject) == [i \in DOMAIN subject |-> Default(subject[i], Defaults[i])]

\* Rule.Encode, ServiceRule.Encode and RESTRule.Encode.
EncodeKey(subject) ==
  LET parts == Completed(subject)
  IN CASE ruleKind = "layers" -> parts[1] \o <<".">> \o parts[2] \o <<".">> \o parts[3]
       [] ruleKind = "services" -> parts[1] \o <<".">> \o parts[2]
       [] ruleKind = "rest" -> parts[1] \o <<":">> \o parts[2]

\* strings.Join(roles, ",") and strings.Split of what it returns.
JoinRoles(roles) ==
  [i \in 1..(2 * Len(roles) - 1) |-> IF i % 2 = 1 THEN roles[(i + 1) \div 2] ELSE ","]

SplitRoles(s) == [i \in 1..((Len(s) + 1) \div 2) |-> s[2 * i - 1]]

\* Faulty variant: one role is sent.
EncodeRolesFirst(roles) == IF roles = <<>> THEN Star ELSE <<roles[1]>>

EncodeRoles(roles) == JoinRoles(IF roles = <<>> THEN Star ELSE roles)

\* Deletes name the rule in the path, with the first colon swapped for ";".
EncodePathSegment(subject) ==
  LET key == EncodeKey(subject)
      colon == IndexAny(key, {":"})
  IN IF colon = 0 THEN key ELSE ReplaceAt(key, colon, ";")

DecodeRoles(s) == IF s \in {EmptyString, Star} THEN <<>> ELSE SplitRoles(s)

\* DecodeRule and DecodeServiceRule.
DecodeRule(key, roles) ==
  LET parts == Split(key)
  IN IF Len(parts) # Len(Defaults) THEN Error ELSE Rule(parts, DecodeRoles(roles))

DecodeRESTRule(key, roles) ==
  LET sep == IndexAny(key, Separators)
  IN IF sep = 0 THEN Error
     ELSE Rule(<<SubSeq(key, 1, sep - 1), SubSeq(key, sep + 1, Len(key))>>,
               DecodeRoles(roles))

Decode(key, roles) ==
  IF ruleKind = "rest" THEN DecodeRESTRule(key, roles) ELSE DecodeRule(key, roles)

-----------------------------------------------------------------------------
\* What is refused before anything is sent.
Refused(subject) ==
  IF ruleKind = "layers" THEN subject[3] = EmptyString
  ELSE subject = <<EmptyString, EmptyString>>

\* The last segment of the URL of Delete.  Layers and services go through
\* BuildURL; a REST rule is appended as it is, and net/url takes what follows a
\* question mark for the query.
DeletePath(subject) ==
  IF ruleKind # "rest" THEN EncodeKey(subject)
  ELSE LET path == EncodePathSegment(subject)
           mark == IndexAny(path, {"?"})
       IN IF mark = 0 THEN path ELSE SubSeq(path, 1, mark - 1)

-----------------------------------------------------------------------------
\* The server.  It reads a key from the right, where no separator can be part
\* of a name: an operation and a method have neither dots nor colons.

ReadsAs(key) ==
  IF ruleKind # "rest" THEN Split(key)
  ELSE LET sep == LastIndexAny(key, Separators)
       IN IF sep = 0 THEN <<key>>
          ELSE <<SubSeq(key, 1, sep - 1), SubSeq(key, sep + 1, Len(key))>>

\* Rejects keys with too many parts: names with dots.
Accepts(key) == Len(ReadsAs(key)) = Len(Defaults)

\* A body and a path may spell the same rule with different separators.
Stored(key) ==
  {k \in DOMAIN rules : ReadsAs(k) = ReadsAs(key)}

Everyone == {"*"}

\* Who has access by a list of roles: an empty one is any role.
Means(roles) == IF roles = <<>> \/ Contains(roles, "*") THEN Everyone ELSE ToSet(roles)

\* Who has access by an entry of the table.
Admits(s) == Means(SplitRoles(s))

With(f, x, y) == [z \in DOMAIN f \cup {x} |-> IF z = x THEN y ELSE f[z]]
Without(f, X) == [z \in DOMAIN f \ X |-> f[z]]

-----------------------------------------------------------------------------
Unread == [ok |-> FALSE, rules |-> {}, table |-> {}]

Table == {<<k, rules[k]>> : k \in DOMAIN rules}

RulesInit ==
  /\ ruleKind \in Kinds
  /\ rules = [k \in {EncodeKey(Defaults)} |-> Star]
  /\ said = [s \in {Defaults} |-> Everyone]
  /\ held = [a \in Administrators |-> Unread]
  /\ writes = 0

\* A call that fails changes nothing.
Fails == UNCHANGED <<rules, said, writes>>

Write ==
  /\ writes < MaxWrites
  /\ writes' = writes + 1

\* Faulty variants: the error of a decode is dropped, or the entry is skipped.
ListUnchecked(a) ==
  /\ held' = [held EXCEPT ![a] =
                [ok |-> TRUE, rules |-> {Decode(e[1], e[2]) : e \in Table}, table |-> Table]]
  /\ UNCHANGED <<ruleKind, rules, said, writes>>

ListSkips(a) ==
  /\ held' = [held EXCEPT ![a] =
                [ok |-> TRUE, rules |-> {Decode(e[1], e[2]) : e \in Table} \ {Error},
                 table |-> Table]]
  /\ UNCHANGED <<ruleKind, rules, said, writes>>

\* List decodes every entry, and fails if one of them does not decode.
List(a) ==
  /\ LET decoded == {Decode(e[1], e[2]) : e \in Table}
     IN held' = [held EXCEPT ![a] =
                   IF Error \in decoded THEN Unread
                   ELSE [ok |-> TRUE, rules |-> decoded, table |-> Table]]
  /\ UNCHANGED <<ruleKind, rules, said, writes>>

\* Add refuses an incomplete rule, the server one it does not accept or has.
Add(subject, roles) ==
  /\ LET key == EncodeKey(subject)
     IN IF Refused(subject) \/ ~Accepts(key) \/ Stored(key) # {}
        THEN Fails
        ELSE /\ Write
             /\ rules' = With(rules, key, EncodeRoles(roles))
             /\ said' = With(said, Completed(subject), Means(roles))
  /\ UNCHANGED <<ruleKind, held>>

\* Update of a listed rule with other roles; 409 if the rule is gone.
UpdateRule(rule, roles) ==
  /\ LET key == EncodeKey(rule.subject)
     IN IF Refused(rule.subject) \/ ~Accepts(key) \/ Stored(key) = {}
        THEN Fails
        ELSE /\ Write
             /\ rules' = With(Without(rules, Stored(key)), key, EncodeRoles(roles))
             /\ said' = With(said, rule.subject, Means(roles))
  /\ UNCHANGED <<ruleKind, held>>

\* Delete of a listed rule; 404 if there is none at that path.
Delete(rule) ==
  /\ LET gone == Stored(DeletePath(rule.subject))
     IN IF Refused(rule.subject) \/ gone = {}
        THEN Fails
        ELSE /\ Write
             /\ rules' = Without(rules, gone)
             /\ said' = Without(said, {rule.subject})
  /\ UNCHANGED <<ruleKind, held>>

\* Another tool writes the files and CatalogClient.Reload makes them effective.
Reload(key, roles) ==
  /\ Write
  /\ rules' = With(rules, key, JoinRoles(roles))
  /\ said' = With(said, ReadsAs(key), Means(roles))
  /\ UNCHANGED <<ruleKind, held>>

RulesNext ==
  \/ \E subject \in Subjects[ruleKind], roles \in RoleLists : Add(subject, roles)
  \/ \E a \in Administrators :
       \/ List(a)
       \/ \E rule \in held[a].rules :
            Delete(rule) \/ \E roles \in RoleLists \cup {rule.roles} : UpdateRule(rule, roles)
  \/ \E entry \in Foreign[ruleKind] : Reload(entry[1], entry[2])

RulesSpec == RulesInit /\ [][RulesNext]_rulesVars

-----------------------------------------------------------------------------
\* Every role that is named.
Roles ==
  {"*"} \cup (UNION {ToSet(roles) : roles \in RoleLists})
        \cup (UNION {ToSet(entry[2]) : entry \in Foreign[ruleKind]})

RulesTypeOK ==
  /\ ruleKind \in Kinds
  /\ \A k \in DOMAIN rules : k # EmptyString /\ rules[k] \in Seq(Roles \cup {","})
  /\ \A s \in DOMAIN said : said[s] \subseteq Roles
  /\ \A a \in Administrators :
       /\ held[a].ok \in BOOLEAN
       /\ Error \notin held[a].rules
       /\ \A e \in held[a].table : e[2] \in Seq(Roles \cup {","})
  /\ writes \in 0..MaxWrites

\* What writers asked for is what the server enforces, after any number of
\* Add, Update and Delete calls by several administrators whose lists are stale:
\* a call that fails changes nothing, and one on a listed rule changes the rule
\* it was listed from, with the roles that were asked for.  An empty role list
\* means any role on both sides.
RulesMeanWhatWasSaid ==
  /\ {ReadsAs(k) : k \in DOMAIN rules} = DOMAIN said
  /\ \A k \in DOMAIN rules : Admits(rules[k]) = said[ReadsAs(k)]

\* A List that succeeds shows every rule there was, and each listed rule sent
\* back unchanged is the entry it came from: no rule of a form the package does
\* not know is left out, and no two become one.
ListIsWhole ==
  \A a \in Administrators :
    held[a].ok =>
      {<<EncodeKey(r.subject), EncodeRoles(r.roles)>> : r \in held[a].rules} = held[a].table
=============================================================================
