-------------------------------- MODULE Options --------------------------------
(***************************************************************************)
(* Building Clients from functional options (options.go, geoserver.New)    *)
(* and what a request then carries through the RoundTripper stack.  The    *)
(* caller may hand the same *http.Client to several New calls and go on    *)
(* changing it: a Client must neither see that nor the other Clients.      *)
(* Header values and durations are names: "none" is a zero duration.       *)
(***************************************************************************)
EXTENDS Naturals, Sequences, SequencesExt

CONSTANTS
  Builders,    \* the New calls the program makes, one Client each
  MaxOptions   \* options given, over all of them

ASSUME OptionsAssumption == MaxOptions \in Nat /\ "caller" \notin Builders

VARIABLES
  given,    \* the options each New call has applied, in order
  cfg,      \* its clientConfig
  built,    \* "building", "refused" (New returned an error) or "built"
  pointer,  \* the http.Client of the Client, an address in heap
  heap      \* the http.Client values, the caller's own one at "caller"

optionsVars == <<given, cfg, built, pointer, heap>>

Keys == {"Authorization", "User-Agent", "Accept"}
NoHeaders == [k \in Keys |-> <<>>]

-----------------------------------------------------------------------------
\* The options; "" stands for the argument each of them refuses: a nil pointer,
\* an empty string or key, a negative duration.
Option(kind, key, value) == [kind |-> kind, key |-> key, value |-> value]

Options ==
  {Option("HTTPClient", "", v) : v \in {"caller", ""}} \cup
  {Option("Transport", "", v) : v \in {"custom", ""}} \cup
  {Option("Timeout", "", v) : v \in {"none", "5s", ""}} \cup
  {Option("BasicAuth", "", v) : v \in {"basic-1", "basic-2", ""}} \cup
  {Option("BearerToken", "", v) : v \in {"bearer", ""}} \cup
  {Option("Logger", "", v) : v \in {"logger", ""}} \cup
  {Option("UserAgent", "", v) : v \in {"agent", ""}} \cup
  {Option("Header", k, "value") : k \in Keys} \cup {Option("Header", "", "")}

defaultConfig ==
  [httpClient |-> "", transport |-> "", timeout |-> "30s", logger |-> "discard",
   userAgent |-> "geoserver-go/v2", auth |-> "", defaultHeader |-> NoHeaders]

Valid(option) == option.value # ""

\* Each option overwrites its field; basic and bearer share one.  WithHeader adds.
Apply(option, config) ==
  CASE option.kind = "HTTPClient" -> [config EXCEPT !.httpClient = option.value]
    [] option.kind = "Transport" -> [config EXCEPT !.transport = option.value]
    [] option.kind = "Timeout" -> [config EXCEPT !.timeout = option.value]
    [] option.kind \in {"BasicAuth", "BearerToken"} -> [config EXCEPT !.auth = option.value]
    [] option.kind = "Logger" -> [config EXCEPT !.logger = option.value]
    [] option.kind = "UserAgent" -> [config EXCEPT !.userAgent = option.value]
    [] option.kind = "Header" ->
         [config EXCEPT !.defaultHeader[option.key] = Append(@, option.value)]

-----------------------------------------------------------------------------
\* A Transport is a stack of layers, outermost first; the empty one is nil.
HeaderLayer(config) ==
  [layer |-> "headers", base |-> "", auth |-> "",
   headers |-> [config.defaultHeader EXCEPT !["User-Agent"] = <<config.userAgent>> \o @]]

AuthLayer(config) ==
  [layer |-> "auth", base |-> "", auth |-> config.auth, headers |-> NoHeaders]

Base(name) == <<[layer |-> "base", base |-> name, auth |-> "", headers |-> NoHeaders]>>

Stack(config, values) ==
  <<HeaderLayer(config), AuthLayer(config)>> \o
    IF config.transport # "" THEN Base(config.transport)
    ELSE IF config.httpClient # "" /\ values["caller"].transport # <<>>
    THEN values["caller"].transport
    ELSE Base("default")

\* The http.Client of the Client built from config.
HTTPClient(config, values) ==
  [transport |-> Stack(config, values),
   timeout |-> IF config.httpClient = "" \/ values["caller"].timeout = "none"
               THEN config.timeout ELSE values["caller"].timeout]

\* Faulty variant: the caller's http.Client is used, not a copy of it.
buildHTTPClientInPlace(config, values, own) ==
  LET at == IF config.httpClient = "" THEN own ELSE "caller"
  IN [at |-> at, values |-> [values EXCEPT ![at] = HTTPClient(config, values)]]

buildHTTPClient(config, values, own) ==
  [at |-> own, values |-> [values EXCEPT ![own] = HTTPClient(config, values)]]

\* A request that sets its own Accept header, and what one layer makes of it.
AcceptRequest == [headers |-> [NoHeaders EXCEPT !["Accept"] = <<"json">>], base |-> ""]

Pass(request, l) ==
  CASE l.layer = "headers" ->
         [request EXCEPT !.headers =
            [k \in Keys |-> IF @[k] # <<>> THEN @[k] ELSE l.headers[k]]]
    [] l.layer = "auth" /\ l.auth # "" ->
         [request EXCEPT !.headers["Authorization"] = <<l.auth>>]
    [] l.layer = "base" -> [request EXCEPT !.base = l.base]
    [] OTHER -> request

RoundTrip(stack) ==
  LET sent[i \in 0..Len(stack)] == IF i = 0 THEN AcceptRequest ELSE Pass(sent[i - 1], stack[i])
  IN sent[Len(stack)]

\* A request of Client c, as it leaves, and how long it may take.
Sent(c) == RoundTrip(heap[pointer[c]].transport)
TimeoutOf(c) == heap[pointer[c]].timeout

-----------------------------------------------------------------------------
\* The caller's http.Client may have a Transport, a Timeout, both or neither.
CallerClients ==
  [transport : {<<>>, Base("caller")}, timeout : {"none", "10s"}]

OptionsInit ==
  /\ given = [c \in Builders |-> <<>>]
  /\ cfg = [c \in Builders |-> defaultConfig]
  /\ built = [c \in Builders |-> "building"]
  /\ pointer = [c \in Builders |-> c]
  /\ \E own \in CallerClients :
       heap = [a \in Builders \cup {"caller"} |->
                 IF a = "caller" THEN own ELSE [transport |-> <<>>, timeout |-> "none"]]

TotalGiven == FoldFunction(LAMBDA options, n : Len(options) + n, 0, given)

\* The server URL is empty, does not parse or is not http(s): no option is applied.
BadURL(c) ==
  /\ built[c] = "building"
  /\ given[c] = <<>>
  /\ built' = [built EXCEPT ![c] = "refused"]
  /\ UNCHANGED <<given, cfg, pointer, heap>>

\* New applies its next option; the first invalid one ends it.
ApplyOption(c) ==
  /\ built[c] = "building"
  /\ TotalGiven < MaxOptions
  /\ \E option \in Options :
       /\ given' = [given EXCEPT ![c] = Append(@, option)]
       /\ IF Valid(option)
          THEN cfg' = [cfg EXCEPT ![c] = Apply(option, @)] /\ UNCHANGED built
          ELSE built' = [built EXCEPT ![c] = "refused"] /\ UNCHANGED cfg
  /\ UNCHANGED <<pointer, heap>>

\* The options are exhausted: New returns the Client.
New(c) ==
  /\ built[c] = "building"
  /\ LET client == buildHTTPClient(cfg[c], heap, c) IN
       /\ pointer' = [pointer EXCEPT ![c] = client.at]
       /\ heap' = client.values
  /\ built' = [built EXCEPT ![c] = "built"]
  /\ UNCHANGED <<given, cfg>>

\* The caller changes the http.Client it passed to New, or is about to pass.
CallerChanges ==
  /\ \E own \in CallerClients : heap' = [heap EXCEPT !["caller"] = own]
  /\ UNCHANGED <<given, cfg, built, pointer>>

OptionsNext ==
  \/ \E c \in Builders : BadURL(c) \/ ApplyOption(c) \/ New(c)
  \/ CallerChanges

OptionsSpec == OptionsInit /\ [][OptionsNext]_optionsVars

-----------------------------------------------------------------------------
Built(c) == built[c] = "built"

\* The last option of these kinds in a sequence, or one with an empty value.
LastOf(kinds, options) ==
  LET these == {i \in DOMAIN options : options[i].kind \in kinds}
  IN IF these = {} THEN Option("", "", "") ELSE options[Max(these)]

\* The values that WithHeader gives the Authorization header, in order.
AddAuthorization(values, option) ==
  IF option.key = "Authorization" THEN Append(values, option.value) ELSE values

Authorizations(options) ==
  LET values[i \in 0..Len(options)] ==
        IF i = 0 THEN <<>> ELSE AddAuthorization(values[i - 1], options[i])
  IN values[Len(options)]

\* Every request of a Client carries the credentials of the last auth option of
\* its own New call and of no other, whatever http.Client it shares with other
\* Clients; an Authorization header from WithHeader only when there is none.
OwnCredentials ==
  \A c \in Builders :
    Built(c) =>
      LET auth == LastOf({"BasicAuth", "BearerToken"}, given[c])
      IN Sent(c).headers["Authorization"] =
           IF Valid(auth) THEN <<auth.value>> ELSE Authorizations(given[c])

\* README.md: "nothing in *Client is mutable after New returns": neither the
\* caller's changes to its http.Client nor another New call alter what a Client
\* sends, through which transport, and with which timeout.
ImmutableAfterNew ==
  [][\A c \in Builders :
       Built(c) => Built(c)' /\ Sent(c)' = Sent(c) /\ TimeoutOf(c)' = TimeoutOf(c)]_optionsVars

\* options.go:45 and 58: WithHTTPClient and WithTransport are "mutually
\* exclusive; later option wins".
LaterOptionWins ==
  \A c \in Builders :
    Built(c) /\ LastOf({"HTTPClient", "Transport"}, given[c]).kind = "HTTPClient" =>
      Sent(c).base # "custom"
=============================================================================
