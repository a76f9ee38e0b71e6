----------------------------- MODULE OptionsProofs -----------------------------
(***************************************************************************)
(* Proofs about the construction of Clients (Options): for any number of   *)
(* New calls that share one http.Client, and any options, a Client carries *)
(* its own credentials and never changes.                                  *)
(***************************************************************************)
EXTENDS Options, SequenceTheorems, TLAPS

-----------------------------------------------------------------------------
(* The inductive invariant. *)

AuthKinds == {"BasicAuth", "BearerToken"}

\* A header has a value for each key, and a config its fields.
IsHeader(header) == header = [k \in Keys |-> header[k]]

IsConfig(config) ==
  /\ config = [httpClient |-> config.httpClient, transport |-> config.transport,
                timeout |-> config.timeout, logger |-> config.logger,
                userAgent |-> config.userAgent, auth |-> config.auth,
                defaultHeader |-> config.defaultHeader]
  /\ IsHeader(config.defaultHeader)

Types ==
  /\ given \in [Builders -> Seq(Options)]
  /\ cfg = [c \in Builders |-> cfg[c]] /\ \A c \in Builders : IsConfig(cfg[c])
  /\ built \in [Builders -> {"building", "refused", "built"}]
  /\ heap = [a \in Builders \cup {"caller"} |-> heap[a]]

\* A New call that was not refused has in its config what its options said of the
\* credentials.
Follows(options, config) ==
  /\ config.auth = LastOf(AuthKinds, options).value
  /\ config.defaultHeader["Authorization"] = Authorizations(options)

Configured == \A c \in Builders : built[c] # "refused" => Follows(given[c], cfg[c])

\* A Transport that is layered for a config, over one that is not layered.
IsLayered(stack, config) ==
  \E name : stack = <<HeaderLayer(config), AuthLayer(config)>> \o Base(name)

IsBase(stack) == stack = <<>> \/ \E name : stack = Base(name)

\* A Client has an http.Client of its own, whose layers are those of its options.
Owned ==
  /\ pointer = [c \in Builders |-> c]
  /\ IsBase(heap["caller"].transport)
  /\ \A c \in Builders : Built(c) => IsLayered(heap[c].transport, cfg[c])

IInv == Types /\ Configured /\ Owned

-----------------------------------------------------------------------------
(* The options of a call, one by one. *)

\* The loops of RoundTrip and of Authorizations (Recursion).
Sending == INSTANCE Recursion WITH Start <- AcceptRequest, Step <- Pass
Collecting == INSTANCE Recursion WITH Start <- <<>>, Step <- AddAuthorization

\* A set of numbers that goes up to n has a greatest one.
LEMMA GreatestNumber ==
  ASSUME NEW n \in Nat, NEW T, T \subseteq 1..n, NEW e \in T
  PROVE  \E m \in T : \A i \in T : i <= m
<1> DEFINE U == {k \in Nat : \A i \in T : i <= k}
<1>1. n \in U
  OBVIOUS
<1>2. PICK m \in U : \A k \in U : m <= k
  <2>1. U \subseteq Nat /\ U # {}
    BY <1>1
  <2> HIDE DEF U
  <2> QED
    BY <2>1, Sending!LeastNumber
<1>3. m \in Nat /\ \A i \in T : i <= m
  BY <1>2
<1>4. m \in T
  <2> SUFFICES ASSUME m \notin T PROVE FALSE
    OBVIOUS
  <2>1. m # 0
    <3>1. e \in Nat /\ e >= 1 /\ e <= m
      BY <1>3
    <3> QED
      BY ONLY <1>3, <3>1
  <2>2. m - 1 \in Nat /\ ~(m <= m - 1)
    BY ONLY <1>3, <2>1, m \in Nat
  <2>3. \A i \in T : i <= m - 1
    <3> TAKE i \in T
    <3>1. i \in Nat /\ i <= m /\ i # m /\ m \in Nat
      BY <1>3
    <3> QED
      BY ONLY <3>1
  <2>4. m - 1 \in U
    BY <2>2, <2>3
  <2> QED
    BY <1>2, <2>2, <2>4
<1> QED
  BY <1>3, <1>4

\* The greatest element of a set of numbers.
LEMMA MaxIs ==
  ASSUME NEW T, T \subseteq Nat, NEW m \in T, \A i \in T : i <= m
  PROVE  Max(T) = m
<1>1. \A x \in T : (\A y \in T : x >= y) => x = m
  <2> TAKE x \in T
  <2> HAVE \A y \in T : x >= y
  <2>1. x \in Nat /\ m \in Nat /\ x >= m /\ x <= m
    OBVIOUS
  <2> QED
    BY ONLY <2>1
<1>2. \A y \in T : m >= y
  <2> TAKE y \in T
  <2>1. m \in Nat /\ y \in Nat /\ y <= m
    OBVIOUS
  <2> QED
    BY ONLY <2>1
<1> QED
  BY <1>1, <1>2 DEF Max

\* No option, no credentials.
LEMMA LastOfNone ==
  ASSUME NEW kinds
  PROVE  LastOf(kinds, <<>>) = Option("", "", "")
BY DEF LastOf

\* The last option is the last one of its kind.
LEMMA LastOfMore ==
  ASSUME NEW kinds, NEW S, NEW s \in Seq(S), NEW x \in S
  PROVE  LastOf(kinds, Append(s, x)) = IF x.kind \in kinds THEN x ELSE LastOf(kinds, s)
<1>1. PICK n : n = Len(s)
  OBVIOUS
<1>2. PICK w : w = Append(s, x)
  OBVIOUS
<1>3. n \in Nat /\ DOMAIN s = 1..n
  BY <1>1, LenProperties
<1>4. /\ w \in Seq(S) /\ Len(w) = n + 1
      /\ w[n + 1] = x
      /\ \A i \in 1..n : w[i] = s[i]
  BY <1>1, <1>2, AppendProperties, LenProperties
<1>5. DOMAIN w = 1..(n + 1)
  BY <1>4, LenProperties
<1>6. PICK T : T = {i \in DOMAIN s : s[i].kind \in kinds}
  OBVIOUS
<1>7. PICK U : U = {i \in DOMAIN w : w[i].kind \in kinds}
  OBVIOUS
<1>8. /\ \A i \in 1..n : i \in 1..(n + 1) /\ i # n + 1
      /\ \A i \in 1..(n + 1) : i \in 1..n \/ i = n + 1
      /\ n + 1 \in 1..(n + 1) /\ n + 1 \in Nat /\ \A i \in 1..(n + 1) : i <= n + 1 /\ i \in Nat
  BY ONLY <1>3
<1>9. LastOf(kinds, w) = IF U = {} THEN Option("", "", "") ELSE w[Max(U)]
  BY <1>7 DEF LastOf
<1>10. LastOf(kinds, s) = IF T = {} THEN Option("", "", "") ELSE s[Max(T)]
  BY <1>6 DEF LastOf
<1>11. CASE x.kind \in kinds
  <2>1. n + 1 \in U
    BY <1>4, <1>5, <1>7, <1>8, <1>11
  <2>2. U \subseteq Nat /\ \A i \in U : i <= n + 1
    BY <1>5, <1>7, <1>8
  <2>3. Max(U) = n + 1
    BY <2>1, <2>2, MaxIs
  <2> QED
    BY <1>2, <1>4, <1>9, <1>11, <2>1, <2>3
<1>12. CASE x.kind \notin kinds
  <2>1. \A i : i \in U <=> i \in T
    BY <1>3, <1>4, <1>5, <1>6, <1>7, <1>8, <1>12
  <2>2. U = T
    BY <2>1
  <2>3. T # {} => w[Max(T)] = s[Max(T)]
    <3> HAVE T # {}
    <3>1. T \subseteq 1..n
      BY <1>3, <1>6
    <3>2. PICK m \in T : \A i \in T : i <= m
      <4>1. PICK k \in T : TRUE
        OBVIOUS
      <4> QED
        BY <1>3, <3>1, GreatestNumber
    <3>3. T \subseteq Nat
      BY <3>1
    <3>4. Max(T) = m
      BY <3>2, <3>3, MaxIs
    <3> QED
      BY <1>4, <3>1, <3>2, <3>4
  <2> QED
    BY <1>2, <1>9, <1>10, <1>12, <2>2, <2>3
<1> QED
  BY <1>11, <1>12

\* The Authorization values of no option.
LEMMA AuthorizationsNone == Authorizations(<<>>) = <<>>
<1>1. Authorizations(<<>>) = Collecting!Fold(<<>>)
  BY DEF Authorizations, Collecting!Fold
<1> QED
  BY <1>1, Collecting!FoldEmpty

\* And of one more.
LEMMA AuthorizationsMore ==
  ASSUME NEW S, NEW s \in Seq(S), NEW x \in S
  PROVE  Authorizations(Append(s, x)) = AddAuthorization(Authorizations(s), x)
<1>1. /\ Authorizations(Append(s, x)) = Collecting!Fold(Append(s, x))
      /\ Authorizations(s) = Collecting!Fold(s)
  BY DEF Authorizations, Collecting!Fold
<1> QED
  BY <1>1, Collecting!FoldAppend

\* The value of an option is the one it was given.
LEMMA ValueOf ==
  ASSUME NEW kind, NEW key, NEW value
  PROVE  Option(kind, key, value).value = value
BY DEF Option

\* What an option that is accepted looks like.
LEMMA ValidOption ==
  ASSUME NEW option \in Options, Valid(option)
  PROVE  /\ option.value # ""
         /\ \/ option.kind \in {"HTTPClient", "Transport", "Timeout", "Logger", "UserAgent"}
               /\ option.key # "Authorization"
            \/ option.kind \in AuthKinds /\ option.key # "Authorization"
            \/ option.kind = "Header" /\ option.key \in Keys
<1>1. option.value # ""
  BY DEF Valid
<1>2. ASSUME NEW kind, NEW value, option = Option(kind, "", value)
      PROVE  option.kind = kind /\ option.key # "Authorization"
  BY <1>2 DEF Option
<1>3. CASE option \in {Option("HTTPClient", "", v) : v \in {"caller", ""}}
  <2>1. PICK value : option = Option("HTTPClient", "", value)
    BY <1>3
  <2> QED
    BY <1>1, <1>2, <2>1 DEF AuthKinds
<1>4. CASE option \in {Option("Transport", "", v) : v \in {"custom", ""}}
  <2>1. PICK value : option = Option("Transport", "", value)
    BY <1>4
  <2> QED
    BY <1>1, <1>2, <2>1 DEF AuthKinds
<1>5. CASE option \in {Option("Timeout", "", v) : v \in {"none", "5s", ""}}
  <2>1. PICK value : option = Option("Timeout", "", value)
    BY <1>5
  <2> QED
    BY <1>1, <1>2, <2>1 DEF AuthKinds
<1>6. CASE option \in {Option("BasicAuth", "", v) : v \in {"basic-1", "basic-2", ""}}
  <2>1. PICK value : option = Option("BasicAuth", "", value)
    BY <1>6
  <2> QED
    BY <1>1, <1>2, <2>1 DEF AuthKinds
<1>7. CASE option \in {Option("BearerToken", "", v) : v \in {"bearer", ""}}
  <2>1. PICK value : option = Option("BearerToken", "", value)
    BY <1>7
  <2> QED
    BY <1>1, <1>2, <2>1 DEF AuthKinds
<1>8. CASE option \in {Option("Logger", "", v) : v \in {"logger", ""}}
  <2>1. PICK value : option = Option("Logger", "", value)
    BY <1>8
  <2> QED
    BY <1>1, <1>2, <2>1 DEF AuthKinds
<1>9. CASE option \in {Option("UserAgent", "", v) : v \in {"agent", ""}}
  <2>1. PICK value : option = Option("UserAgent", "", value)
    BY <1>9
  <2> QED
    BY <1>1, <1>2, <2>1 DEF AuthKinds
<1>10. CASE option \in {Option("Header", k, "value") : k \in Keys} \cup {Option("Header", "", "")}
  <2>1. option # Option("Header", "", "")
    BY <1>1, ValueOf
  <2>2. PICK k \in Keys : option = Option("Header", k, "value")
    BY <1>10, <2>1
  <2> QED
    BY <1>1, <2>2 DEF Option
<1> QED
  BY <1>3, <1>4, <1>5, <1>6, <1>7, <1>8, <1>9, <1>10 DEF Options

\* An option changes its own field.
LEMMA Applied ==
  ASSUME NEW option \in Options, Valid(option), NEW config, IsConfig(config)
  PROVE  /\ IsConfig(Apply(option, config))
         /\ Apply(option, config).auth =
              IF option.kind \in AuthKinds THEN option.value ELSE config.auth
         /\ Apply(option, config).defaultHeader["Authorization"] =
              AddAuthorization(config.defaultHeader["Authorization"], option)
<1> DEFINE H == config.defaultHeader
<1>1. /\ \/ option.kind \in {"HTTPClient", "Transport", "Timeout", "Logger", "UserAgent"}
            /\ option.key # "Authorization"
         \/ option.kind \in AuthKinds /\ option.key # "Authorization"
         \/ option.kind = "Header" /\ option.key \in Keys
  BY ValidOption
<1>2. IsHeader(H) /\ "Authorization" \in Keys
  BY DEF IsConfig, IsHeader, Keys
<1>3. CASE option.kind \in {"HTTPClient", "Transport", "Timeout", "Logger", "UserAgent"}
  <2>1. option.key # "Authorization" /\ option.kind \notin AuthKinds
    BY <1>1, <1>3 DEF AuthKinds
  <2>2. IsConfig(Apply(option, config))
    BY <1>1, <1>3 DEF Apply, IsConfig
  <2>3. Apply(option, config).auth = config.auth /\ Apply(option, config).defaultHeader = H
    BY <1>1, <1>3 DEF Apply, IsConfig
  <2> QED
    BY <2>1, <2>2, <2>3 DEF AddAuthorization
<1>4. CASE option.kind \in AuthKinds
  <2>1. option.key # "Authorization"
    BY <1>1, <1>4 DEF AuthKinds
  <2>2. IsConfig(Apply(option, config))
    BY <1>1, <1>4 DEF Apply, IsConfig, AuthKinds
  <2>3. Apply(option, config).auth = option.value /\ Apply(option, config).defaultHeader = H
    BY <1>1, <1>4 DEF Apply, IsConfig, AuthKinds
  <2> QED
    BY <1>4, <2>1, <2>2, <2>3 DEF AddAuthorization
<1>5. CASE option.kind = "Header"
  <2>1. option.key \in Keys /\ option.kind \notin AuthKinds
    BY <1>1, <1>5 DEF AuthKinds
  <2>2. PICK G : G = [H EXCEPT ![option.key] = Append(@, option.value)]
    OBVIOUS
  <2>3. IsHeader(G)
    BY <1>2, <2>2 DEF IsHeader
  <2>4. G["Authorization"] = AddAuthorization(H["Authorization"], option)
    BY <1>2, <2>1, <2>2 DEF AddAuthorization, IsHeader
  <2>5. Apply(option, config) = [config EXCEPT !.defaultHeader = G]
    <3>1. Apply(option, config) =
            [config EXCEPT !.defaultHeader[option.key] = Append(@, option.value)]
      BY <1>5 DEF Apply
    <3> QED
      BY <2>2, <3>1 DEF IsConfig
  <2>6. IsConfig(Apply(option, config))
    BY <2>3, <2>5 DEF IsConfig
  <2>7. Apply(option, config).auth = config.auth /\ Apply(option, config).defaultHeader = G
    BY <2>5 DEF IsConfig
  <2> QED
    BY <2>1, <2>4, <2>6, <2>7
<1> QED
  BY <1>1, <1>3, <1>4, <1>5

\* The config goes on following the options.
LEMMA FollowsMore ==
  ASSUME NEW options \in Seq(Options), NEW config, IsConfig(config), Follows(options, config),
         NEW option \in Options, Valid(option)
  PROVE  Follows(Append(options, option), Apply(option, config))
<1>1. LastOf(AuthKinds, Append(options, option)) =
        IF option.kind \in AuthKinds THEN option ELSE LastOf(AuthKinds, options)
  BY LastOfMore
<1>2. Authorizations(Append(options, option)) =
        AddAuthorization(Authorizations(options), option)
  BY AuthorizationsMore
<1> QED
  BY <1>1, <1>2, Applied DEF Follows

-----------------------------------------------------------------------------
(* What the layers make of a request. *)

\* The layers take a request in turn, from the outermost.
LEMMA Layers ==
  ASSUME NEW h, NEW a, NEW b
  PROVE  RoundTrip(<<h, a>> \o <<b>>) = Pass(Pass(Pass(AcceptRequest, h), a), b)
<1>1. PICK S : S = {h, a, b}
  OBVIOUS
<1>2. h \in S /\ a \in S /\ b \in S
  BY <1>1
<1>3. <<>> \in Seq(S) /\ <<h>> \in Seq(S) /\ <<h, a>> \in Seq(S)
  BY <1>2
<1>4. <<h>> = Append(<<>>, h) /\ <<h, a>> = Append(<<h>>, a)
  OBVIOUS
<1>5. <<h, a>> \o <<b>> = Append(<<h, a>>, b)
  BY <1>2, <1>3, AppendIsConcat
<1>6. \A s : RoundTrip(s) = Sending!Fold(s)
  BY DEF RoundTrip, Sending!Fold
<1>7. Sending!Fold(<<>>) = AcceptRequest
  BY Sending!FoldEmpty
<1>8. Sending!Fold(<<h>>) = Pass(AcceptRequest, h)
  BY <1>2, <1>3, <1>4, <1>7, Sending!FoldAppend
<1>9. Sending!Fold(<<h, a>>) = Pass(Pass(AcceptRequest, h), a)
  BY <1>2, <1>3, <1>4, <1>8, Sending!FoldAppend
<1> QED
  BY <1>2, <1>3, <1>5, <1>6, <1>9, Sending!FoldAppend

\* The auth layer is inside: it replaces what the headers layer has put in.
LEMMA LayeredSends ==
  ASSUME NEW config, IsConfig(config), NEW stack, IsLayered(stack, config)
  PROVE  RoundTrip(stack).headers["Authorization"] =
           IF config.auth # "" THEN <<config.auth>> ELSE config.defaultHeader["Authorization"]
<1>1. PICK name : stack = <<HeaderLayer(config), AuthLayer(config)>> \o Base(name)
  BY DEF IsLayered
<1>2. PICK h : h = HeaderLayer(config)
  OBVIOUS
<1>3. PICK a : a = AuthLayer(config)
  OBVIOUS
<1>4. PICK b : b = [layer |-> "base", base |-> name, auth |-> "", headers |-> NoHeaders]
  OBVIOUS
<1>5. RoundTrip(stack) = Pass(Pass(Pass(AcceptRequest, h), a), b)
  <2>1. Base(name) = <<b>>
    BY <1>4 DEF Base
  <2>2. stack = <<h, a>> \o <<b>>
    BY <1>1, <1>2, <1>3, <2>1
  <2> QED
    BY <2>2, Layers
<1>6. PICK r : r = Pass(AcceptRequest, h)
  OBVIOUS
<1>7. /\ r = [headers |-> r.headers, base |-> r.base] /\ IsHeader(r.headers)
      /\ r.headers["Authorization"] = config.defaultHeader["Authorization"]
  <2>1. h.layer = "headers"
    BY <1>2 DEF HeaderLayer
  <2>2. /\ IsHeader(h.headers)
        /\ h.headers["Authorization"] = config.defaultHeader["Authorization"]
    <3>1. IsHeader(config.defaultHeader)
      BY DEF IsConfig
    <3>3. h.headers = [config.defaultHeader EXCEPT !["User-Agent"] = <<config.userAgent>> \o @]
      BY <1>2 DEF HeaderLayer
    <3> QED
      BY <3>1, <3>3 DEF Keys, IsHeader
  <2>3. PICK R : R = [NoHeaders EXCEPT !["Accept"] = <<"json">>]
    OBVIOUS
  <2>4. /\ IsHeader(R) /\ R["Authorization"] = <<>>
        /\ AcceptRequest = [headers |-> R, base |-> ""] /\ AcceptRequest.headers = R
    <3>1. IsHeader(NoHeaders) /\ NoHeaders["Authorization"] = <<>>
      BY DEF NoHeaders, Keys, IsHeader
    <3>3. IsHeader(R)
      BY <2>3, <3>1 DEF IsHeader
    <3>4. R["Authorization"] = <<>>
      BY <2>3, <3>1 DEF Keys, IsHeader
    <3>5. AcceptRequest = [headers |-> R, base |-> ""]
      BY <2>3 DEF AcceptRequest
    <3> QED
      BY <3>3, <3>4, <3>5
  <2>5. r = [AcceptRequest EXCEPT !.headers =
               [k \in Keys |-> IF R[k] # <<>> THEN R[k] ELSE h.headers[k]]]
    BY <1>6, <2>1, <2>4 DEF Pass
  <2>6. PICK Q : Q = [k \in Keys |-> IF R[k] # <<>> THEN R[k] ELSE h.headers[k]]
    OBVIOUS
  <2>7. r = [headers |-> Q, base |-> ""]
    BY <2>4, <2>5, <2>6
  <2>8. IsHeader(Q)
    BY <2>6 DEF IsHeader
  <2>9. Q["Authorization"] = config.defaultHeader["Authorization"]
    BY <2>2, <2>4, <2>6 DEF Keys, IsHeader
  <2> QED
    BY <2>7, <2>8, <2>9
<1>8. PICK q : q = Pass(r, a)
  OBVIOUS
<1>9. /\ q.headers["Authorization"] =
           IF config.auth # "" THEN <<config.auth>> ELSE r.headers["Authorization"]
      /\ q = [headers |-> q.headers, base |-> q.base]
  <2>1. a.layer = "auth" /\ a.auth = config.auth
    BY <1>3 DEF AuthLayer
  <2>2. CASE config.auth # ""
    <3>1. q = [r EXCEPT !.headers["Authorization"] = <<config.auth>>]
      BY <1>8, <2>1, <2>2 DEF Pass
    <3>2. "Authorization" \in Keys
      BY DEF Keys
    <3> QED
      BY <1>7, <2>2, <3>1, <3>2 DEF IsHeader
  <2>3. CASE config.auth = ""
    <3>1. q = r
      BY <1>8, <2>1, <2>3 DEF Pass
    <3> QED
      BY <1>7, <2>3, <3>1
  <2> QED
    BY <2>2, <2>3
<1>10. Pass(q, b).headers = q.headers
  <2>1. b.layer = "base"
    BY <1>4
  <2>2. Pass(q, b) = [q EXCEPT !.base = b.base]
    BY <2>1 DEF Pass
  <2> QED
    BY <1>9, <2>2
<1> QED
  BY <1>5, <1>6, <1>7, <1>8, <1>9, <1>10

-----------------------------------------------------------------------------
(* The steps. *)

\* No New call has been made: no Client, and no option in a config.
LEMMA InitInv ==
  ASSUME OptionsInit
  PROVE  IInv
<1>1. PICK own \in CallerClients :
        heap = [a \in Builders \cup {"caller"} |->
                  IF a = "caller" THEN own ELSE [transport |-> <<>>, timeout |-> "none"]]
  BY DEF OptionsInit
<1>2. given = [c \in Builders |-> <<>>]
  BY DEF OptionsInit
<1>3. given \in [Builders -> Seq(Options)]
  <2>1. <<>> \in Seq(Options)
    BY EmptySeq
  <2> QED
    BY <1>2, <2>1
<1>4. cfg = [c \in Builders |-> defaultConfig]
  BY DEF OptionsInit
<1>5. /\ IsConfig(defaultConfig) /\ defaultConfig.auth = ""
      /\ defaultConfig.defaultHeader["Authorization"] = <<>>
  <2>1. IsHeader(NoHeaders) /\ NoHeaders["Authorization"] = <<>>
    BY DEF IsHeader, NoHeaders, Keys
  <2>2. PICK h : h = NoHeaders
    OBVIOUS
  <2>3. defaultConfig.defaultHeader = h /\ defaultConfig.auth = ""
    BY <2>2 DEF defaultConfig
  <2>4. IsConfig(defaultConfig)
    BY <2>1, <2>3, <2>2 DEF IsConfig, defaultConfig
  <2> QED
    BY <2>1, <2>2, <2>3, <2>4
<1>6. Types
  BY <1>1, <1>3, <1>4, <1>5 DEF OptionsInit, Types
<1>7. Configured
  <2>1. LastOf(AuthKinds, <<>>).value = ""
    <3>1. LastOf(AuthKinds, <<>>) = Option("", "", "")
      BY LastOfNone
    <3>2. Option("", "", "").value = ""
      BY ValueOf
    <3> QED
      BY <3>1, <3>2
  <2>2. Follows(<<>>, defaultConfig)
    BY <1>5, <2>1, AuthorizationsNone DEF Follows
  <2> QED
    BY <1>2, <1>4, <2>2 DEF Configured
<1>8. Owned
  <2>1. heap["caller"] = own
    BY <1>1
  <2>2. own.transport \in {<<>>, Base("caller")}
    BY DEF CallerClients
  <2>3. IsBase(heap["caller"].transport)
    BY <2>1, <2>2 DEF IsBase
  <2> QED
    BY <2>3 DEF OptionsInit, Owned, Built
<1> QED
  BY <1>6, <1>7, <1>8 DEF IInv

\* A New call that is refused for its URL.
LEMMA BadURLInv ==
  ASSUME IInv, NEW c \in Builders, BadURL(c)
  PROVE  IInv'
BY DEF IInv, Types, Configured, Owned, BadURL, Built, Follows

\* An option goes into the config it was given for, or ends the New call.
LEMMA ApplyOptionInv ==
  ASSUME IInv, NEW c \in Builders, ApplyOption(c)
  PROVE  IInv'
<1>1. /\ built[c] = "building"
      /\ pointer' = pointer /\ heap' = heap
  BY DEF ApplyOption
<1>2. PICK option \in Options :
        /\ given' = [given EXCEPT ![c] = Append(@, option)]
        /\ IF Valid(option)
           THEN cfg' = [cfg EXCEPT ![c] = Apply(option, @)] /\ UNCHANGED built
           ELSE built' = [built EXCEPT ![c] = "refused"] /\ UNCHANGED cfg
  BY DEF ApplyOption
<1>3. given' \in [Builders -> Seq(Options)]
  BY <1>2 DEF IInv, Types
<1>4. \A d \in Builders : d # c => given'[d] = given[d]
  BY <1>2 DEF IInv, Types
<1>5. /\ \A d \in Builders : built[d] # "refused" => Follows(given[d], cfg[d])
      /\ \A d \in Builders : IsConfig(cfg[d])
  BY DEF IInv, Types, Configured
<1>6. /\ pointer = [d \in Builders |-> d]
      /\ IsBase(heap["caller"].transport)
      /\ \A d \in Builders : Built(d) => IsLayered(heap[d].transport, cfg[d])
  BY DEF IInv, Owned
<1>7. CASE Valid(option)
  <2>1. cfg' = [cfg EXCEPT ![c] = Apply(option, @)] /\ built' = built
    BY <1>2, <1>7
  <2>2. cfg'[c] = Apply(option, cfg[c]) /\ \A d \in Builders : d # c => cfg'[d] = cfg[d]
    BY <2>1 DEF IInv, Types
  <2>3. IsConfig(cfg'[c])
    BY <1>5, <1>7, <2>2, Applied
  <2>4. Follows(given'[c], cfg'[c])
    <3>1. given'[c] = Append(given[c], option) /\ given[c] \in Seq(Options)
      BY <1>2 DEF IInv, Types
    <3>2. Follows(given[c], cfg[c])
      BY <1>1, <1>5
    <3> QED
      BY <1>5, <1>7, <2>2, <3>1, <3>2, FollowsMore
  <2>5. Types'
    <3>1. cfg' = [d \in Builders |-> cfg'[d]]
      BY <2>1 DEF IInv, Types
    <3>2. \A d \in Builders : IsConfig(cfg'[d])
      BY <1>5, <2>2, <2>3
    <3> QED
      BY <1>1, <1>3, <2>1, <3>1, <3>2 DEF IInv, Types
  <2>6. Configured'
    <3>1. \A d \in Builders : built'[d] # "refused" => Follows(given'[d], cfg'[d])
      BY <1>4, <1>5, <2>1, <2>2, <2>4
    <3> QED
      BY <3>1 DEF Configured
  <2>7. Owned'
    <3>1. \A d \in Builders : built'[d] = "built" => IsLayered(heap'[d].transport, cfg'[d])
      BY <1>1, <1>6, <2>1, <2>2 DEF Built
    <3> QED
      BY <1>1, <1>6, <3>1 DEF Owned, Built
  <2> QED
    BY <2>5, <2>6, <2>7 DEF IInv
<1>8. CASE ~Valid(option)
  <2>1. built' = [built EXCEPT ![c] = "refused"] /\ cfg' = cfg
    BY <1>2, <1>8
  <2>2. /\ built' \in [Builders -> {"building", "refused", "built"}]
        /\ built'[c] = "refused"
        /\ \A d \in Builders : d # c => built'[d] = built[d]
    BY <2>1 DEF IInv, Types
  <2>3. Types'
    BY <1>1, <1>3, <2>1, <2>2 DEF IInv, Types
  <2>4. Configured'
    <3>1. \A d \in Builders : built'[d] # "refused" => Follows(given'[d], cfg'[d])
      BY <1>4, <1>5, <2>1, <2>2
    <3> QED
      BY <3>1 DEF Configured
  <2>5. Owned'
    <3>1. \A d \in Builders : built'[d] = "built" => IsLayered(heap'[d].transport, cfg'[d])
      BY <1>1, <1>6, <2>1, <2>2 DEF Built
    <3> QED
      BY <1>1, <1>6, <3>1 DEF Owned, Built
  <2> QED
    BY <2>3, <2>4, <2>5 DEF IInv
<1> QED
  BY <1>7, <1>8

\* The copy of the caller's http.Client is at an address of its own; it has the layers of
\* this config over what the caller's has at this time, or over a base of its own.
LEMMA NewInv ==
  ASSUME IInv, NEW c \in Builders, New(c)
  PROVE  IInv'
<1>1. /\ built[c] = "building" /\ built' = [built EXCEPT ![c] = "built"]
      /\ pointer' = [pointer EXCEPT ![c] = c]
      /\ heap' = [heap EXCEPT ![c] = HTTPClient(cfg[c], heap)]
      /\ given' = given /\ cfg' = cfg
  BY DEF New, buildHTTPClient
<1>2. "caller" # c /\ \A d \in Builders : "caller" # d
  BY OptionsAssumption
<1>3. PICK h : h = HTTPClient(cfg[c], heap)
  OBVIOUS
<1>4. IsBase(heap["caller"].transport)
  BY DEF IInv, Owned
<1>5. IsLayered(h.transport, cfg[c])
  <2>1. h.transport = Stack(cfg[c], heap)
    BY <1>3 DEF HTTPClient
  <2>2. PICK w : w = <<HeaderLayer(cfg[c]), AuthLayer(cfg[c])>>
    OBVIOUS
  <2>3. Stack(cfg[c], heap) =
          w \o (IF cfg[c].transport # "" THEN Base(cfg[c].transport)
                ELSE IF cfg[c].httpClient # "" /\ heap["caller"].transport # <<>>
                THEN heap["caller"].transport
                ELSE Base("default"))
    BY <2>2 DEF Stack
  <2>4. \E name : Stack(cfg[c], heap) = w \o Base(name)
    <3>1. CASE cfg[c].transport # ""
      BY <2>3, <3>1
    <3>2. CASE /\ ~(cfg[c].transport # "")
               /\ cfg[c].httpClient # "" /\ heap["caller"].transport # <<>>
      <4>1. PICK name : heap["caller"].transport = Base(name)
        BY <1>4, <3>2 DEF IsBase
      <4> QED
        BY <2>3, <3>2, <4>1
    <3>3. CASE /\ ~(cfg[c].transport # "")
               /\ ~(cfg[c].httpClient # "" /\ heap["caller"].transport # <<>>)
      BY <2>3, <3>3
    <3> QED
      BY <3>1, <3>2, <3>3
  <2> QED
    BY <2>1, <2>2, <2>4 DEF IsLayered
<1>6. /\ heap' = [a \in Builders \cup {"caller"} |-> heap'[a]]
      /\ heap'[c] = h
      /\ heap'["caller"] = heap["caller"]
      /\ \A d \in Builders : d # c => heap'[d] = heap[d]
  BY <1>1, <1>2, <1>3 DEF IInv, Types
<1>7. /\ built' \in [Builders -> {"building", "refused", "built"}]
      /\ \A d \in Builders : d # c => built'[d] = built[d]
  BY <1>1 DEF IInv, Types
<1>8. Types'
  BY <1>1, <1>6, <1>7 DEF IInv, Types
<1>9. Configured'
  <2>1. \A d \in Builders : built'[d] # "refused" => Follows(given'[d], cfg'[d])
    <3>1. \A d \in Builders : built[d] # "refused" => Follows(given[d], cfg[d])
      BY DEF IInv, Configured
    <3> QED
      BY <1>1, <1>7, <3>1
  <2> QED
    BY <2>1 DEF Configured
<1>10. Owned'
  <2>1. pointer' = [d \in Builders |-> d]
    BY <1>1 DEF IInv, Owned
  <2>2. IsBase(heap'["caller"].transport)
    BY <1>4, <1>6
  <2>3. \A d \in Builders : built'[d] = "built" => IsLayered(heap'[d].transport, cfg'[d])
    <3>1. \A d \in Builders : built[d] = "built" => IsLayered(heap[d].transport, cfg[d])
      BY DEF IInv, Owned, Built
    <3> QED
      BY <1>1, <1>5, <1>6, <1>7, <3>1
  <2> QED
    BY <2>1, <2>2, <2>3 DEF Owned, Built
<1> QED
  BY <1>8, <1>9, <1>10 DEF IInv

\* The caller's http.Client is at no Client's address.
LEMMA CallerChangesInv ==
  ASSUME IInv, CallerChanges
  PROVE  IInv'
<1>1. PICK own \in CallerClients : heap' = [heap EXCEPT !["caller"] = own]
  BY DEF CallerChanges
<1>2. given' = given /\ cfg' = cfg /\ built' = built /\ pointer' = pointer
  BY DEF CallerChanges
<1>3. /\ heap' = [a \in Builders \cup {"caller"} |-> heap'[a]]
      /\ heap'["caller"] = own
      /\ \A d \in Builders : heap'[d] = heap[d]
  BY <1>1, OptionsAssumption DEF IInv, Types
<1>4. IsBase(own.transport)
  BY DEF CallerClients, IsBase
<1>5. Types' /\ Configured'
  BY <1>2, <1>3 DEF IInv, Types, Configured
<1>6. Owned'
  <2>1. \A d \in Builders : built'[d] = "built" => IsLayered(heap'[d].transport, cfg'[d])
    BY <1>2, <1>3 DEF IInv, Owned, Built
  <2> QED
    BY <1>2, <1>3, <1>4, <2>1 DEF IInv, Owned, Built
<1> QED
  BY <1>5, <1>6 DEF IInv

\* Every step keeps the invariant.
LEMMA NextInv ==
  ASSUME IInv, [OptionsNext]_optionsVars
  PROVE  IInv'
<1>1. CASE UNCHANGED optionsVars
  BY <1>1 DEF optionsVars, IInv, Types, Configured, Owned, Built
<1>2. CASE OptionsNext
  BY <1>2, BadURLInv, ApplyOptionInv, NewInv, CallerChangesInv DEF OptionsNext
<1> QED
  BY <1>1, <1>2

-----------------------------------------------------------------------------
(* The theorems. *)

\* The invariant holds in every state, for any New calls and any number of options.
THEOREM OptionsInductive == OptionsSpec => []IInv
<1>1. OptionsInit => IInv
  BY InitInv
<1>2. IInv /\ [OptionsNext]_optionsVars => IInv'
  BY NextInv
<1> QED
  BY <1>1, <1>2, PTL DEF OptionsSpec

\* Every request of a Client carries the credentials of the last auth option of its own
\* New call, or the Authorization values of its WithHeader options, whatever http.Client
\* it was made from (options.go: WithBasicAuth, WithBearerToken, WithHeader;
\* geoserver.go: buildHTTPClient, applyAuth; auth.go: RoundTrip).
THEOREM CredentialsAreOwn == OptionsSpec => []OwnCredentials
<1>1. IInv => OwnCredentials
  <2> SUFFICES ASSUME IInv, NEW c \in Builders, Built(c)
               PROVE  Sent(c).headers["Authorization"] =
                        IF Valid(LastOf({"BasicAuth", "BearerToken"}, given[c]))
                        THEN <<LastOf({"BasicAuth", "BearerToken"}, given[c]).value>>
                        ELSE Authorizations(given[c])
    BY DEF OwnCredentials
  <2>1. PICK config : config = cfg[c]
    OBVIOUS
  <2>2. IsConfig(config) /\ IsLayered(heap[c].transport, config)
    BY <2>1 DEF IInv, Types, Owned
  <2>3. Follows(given[c], config)
    BY <2>1 DEF IInv, Configured, Built
  <2>4. Sent(c) = RoundTrip(heap[c].transport)
    BY DEF Sent, IInv, Owned
  <2>5. Sent(c).headers["Authorization"] =
          IF config.auth # "" THEN <<config.auth>> ELSE config.defaultHeader["Authorization"]
    BY <2>2, <2>4, LayeredSends
  <2> QED
    BY <2>3, <2>5 DEF Follows, AuthKinds, Valid
<1> QED
  BY <1>1, OptionsInductive, PTL

\* What a Client sends, through which transport and with which timeout, does not change
\* after New returned, whatever the caller does to its http.Client and whatever other
\* New calls share it (geoserver.go: buildHTTPClient copies it).
THEOREM ClientsAreImmutable == OptionsSpec => ImmutableAfterNew
<1>1. IInv /\ [OptionsNext]_optionsVars =>
        [\A c \in Builders :
           Built(c) => Built(c)' /\ Sent(c)' = Sent(c) /\ TimeoutOf(c)' = TimeoutOf(c)]_optionsVars
  <2> SUFFICES ASSUME IInv, [OptionsNext]_optionsVars, NEW c \in Builders, Built(c)
               PROVE  Built(c)' /\ Sent(c)' = Sent(c) /\ TimeoutOf(c)' = TimeoutOf(c)
    OBVIOUS
  <2>1. /\ built'[c] = "built" /\ heap'[c] = heap[c]
        /\ pointer'[c] = pointer[c] /\ pointer[c] = c
    <3>1. CASE UNCHANGED optionsVars
      BY <3>1 DEF optionsVars, IInv, Owned, Built
    <3>2. CASE CallerChanges
      BY <3>2, OptionsAssumption DEF CallerChanges, IInv, Types, Owned, Built
    <3>3. ASSUME NEW d \in Builders, BadURL(d) \/ ApplyOption(d) \/ New(d)
          PROVE  /\ built'[c] = "built" /\ heap'[c] = heap[c]
                 /\ pointer'[c] = pointer[c] /\ pointer[c] = c
      <4>1. d # c
        BY <3>3 DEF BadURL, ApplyOption, New, Built
      <4>2. CASE BadURL(d)
        BY <4>1, <4>2 DEF BadURL, IInv, Types, Owned, Built
      <4>3. CASE ApplyOption(d)
        <5>1. built' = built \/ built' = [built EXCEPT ![d] = "refused"]
          BY <4>3 DEF ApplyOption
        <5>2. pointer' = pointer /\ heap' = heap
          BY <4>3 DEF ApplyOption
        <5> QED
          BY <4>1, <5>1, <5>2 DEF IInv, Types, Owned, Built
      <4>4. CASE New(d)
        <5>1. /\ built' = [built EXCEPT ![d] = "built"]
              /\ pointer' = [pointer EXCEPT ![d] = d]
              /\ heap' = [heap EXCEPT ![d] = HTTPClient(cfg[d], heap)]
          BY <4>4 DEF New, buildHTTPClient
        <5> QED
          BY <4>1, <5>1 DEF IInv, Types, Owned, Built
      <4> QED
        BY <3>3, <4>2, <4>3, <4>4
    <3> QED
      BY <3>1, <3>2, <3>3 DEF OptionsNext
  <2>2. heap'[pointer'[c]] = heap[pointer[c]]
    BY <2>1
  <2> QED
    BY <2>1, <2>2 DEF Built, Sent, TimeoutOf
<1> QED
  BY <1>1, OptionsInductive, PTL DEF OptionsSpec, ImmutableAfterNew
=============================================================================
