------------------------------- MODULE Transport -------------------------------
(***************************************************************************)
(* The life of a library call, from coreAdapter.Do / DoRaw / DoXML /       *)
(* DoStream (geoserver.go) through internal/transport to the error the     *)
(* caller sees.  Several goroutines share one immutable Client, so calls   *)
(* meet only in the connection pool of the base http.Transport and at the  *)
(* server.  The server, the network and net/http are the environment:      *)
(* requests and responses are lost, a response body breaks off, a proxy    *)
(* answers for a server that is still working, a redirect turns a write    *)
(* into a GET, and http.Client.Timeout strikes at any point.               *)
(***************************************************************************)
EXTENDS Integers, FiniteSets

CONSTANTS
  Calls,      \* the calls in progress on the shared Client
  Statuses,   \* final HTTP statuses the server answers with
  Redirects,  \* redirect statuses it may answer with first
  MaxHops,    \* redirects net/http follows before it gives up (10 there)
  MaxConns,   \* connections the base transport opens to the host
  MaxBody,    \* longest response body, in units
  JSONCap,    \* bodyReadCap, in the same units
  XMLCap,     \* xmlBodyReadCap
  HasTimeout  \* whether http.Client.Timeout is non-zero

ASSUME CapsAssumption ==
  /\ JSONCap \in Nat \ {0}
  /\ XMLCap \in Nat
  /\ MaxBody \in Nat
  /\ JSONCap <= XMLCap

ASSUME EnvironmentAssumption ==
  /\ MaxConns \in Nat \ {0}
  /\ MaxHops \in Nat
  /\ HasTimeout \in BOOLEAN
  /\ Statuses \subseteq 200..599
  /\ Redirects \subseteq {301, 302, 303, 307, 308}

VARIABLES
  pc,         \* where each call is
  req,        \* its request
  hops,       \* redirects followed so far
  rewritten,  \* a redirect replaced the write by a GET
  flight,     \* the server has the request and has not finished with it
  executed,   \* the server performed the request as the caller issued it
  resp,       \* the response travelling back; status 0 when there is none
  conn,       \* the call holds a pooled connection
  open,       \* the caller owns an unread response body
  result      \* what the call returned

vars == <<pc, req, hops, rewritten, flight, executed, resp, conn, open, result>>

-----------------------------------------------------------------------------
\* entry: the coreAdapter method.  out: a decode target is supplied.  write:
\* the method is not GET.  replay: net/http can rewind the body (GetBody).
\* built: buildHTTPRequest succeeds (marshalling, URL, method).
Requests ==
  [entry : {"json"}, out : BOOLEAN, write : BOOLEAN, replay : {TRUE}, built : BOOLEAN]
    \cup
  [entry : {"raw"}, out : {FALSE}, write : {TRUE}, replay : BOOLEAN, built : BOOLEAN]
    \cup
  [entry : {"xml", "stream"}, out : {TRUE}, write : {FALSE}, replay : {TRUE}, built : BOOLEAN]

NoRequest == [entry |-> "none", out |-> FALSE, write |-> FALSE, replay |-> FALSE, built |-> FALSE]

\* whole: the document the server meant to send decodes into out.
Responses == [status : Statuses \cup Redirects, len : 0..MaxBody, whole : BOOLEAN]

NoResponse == [status |-> 0, len |-> 0, whole |-> FALSE]

Success(status) == status \in 200..299

\* The statuses a proxy sends while the server may still be working.
Gateway == {502, 504}

-----------------------------------------------------------------------------
\* What a call returns.  Only "api" is an *APIError; "build", "transport",
\* "read" and "decode" are plain wrapped errors, "ok" is a nil error.
Kinds == {"none", "ok", "api", "build", "transport", "read", "decode"}

Results == [kind : Kinds, status : 0..599, body : 0..MaxBody]

Result(kind, status, body) == [kind |-> kind, status |-> status, body |-> body]

newAPIError(status, body) ==
  Result("api", status, IF body > JSONCap THEN JSONCap ELSE body)

\* How much of the body the code asks for.
ReadLimit(entry, status) == IF entry = "xml" /\ Success(status) THEN XMLCap ELSE JSONCap

Wanted(entry, p) ==
  LET limit == ReadLimit(entry, p.status) IN IF p.len > limit THEN limit ELSE p.len

\* json.Unmarshal / xml.Unmarshal of the first n units: a document cut short
\* does not parse; nothing is decoded when there is no target or no body.
Decode(r, p, n) ==
  IF ~r.out \/ n = 0 THEN Result("ok", p.status, 0)
  ELSE IF p.whole /\ n = p.len THEN Result("ok", p.status, n)
  ELSE Result("decode", p.status, n)

\* Faulty variant: the body is decoded before the status is looked at.
doRequestNoStatus(r, p, got) ==
  IF got < Wanted(r.entry, p) THEN Result("read", p.status, got) ELSE Decode(r, p, got)

\* doRequest looks at the read error before the status.
doRequest(r, p, got) ==
  IF got < Wanted(r.entry, p) THEN Result("read", p.status, got)
  ELSE IF ~Success(p.status) THEN newAPIError(p.status, got)
  ELSE Decode(r, p, got)

\* DoXML looks at the status first and drops the read error of an error body.
DoXML(r, p, got) ==
  IF ~Success(p.status) THEN newAPIError(p.status, got)
  ELSE IF got < Wanted(r.entry, p) THEN Result("read", p.status, got)
  ELSE Decode(r, p, got)

\* Faulty variant: a failed exchange is dressed up as an *APIError.
TransportErrorAsAPIError == newAPIError(500, 0)

\* doer.Do failed: status 0 and the wrapped error.
TransportError == Result("transport", 0, 0)

-----------------------------------------------------------------------------
Init ==
  /\ pc = [c \in Calls |-> "idle"]
  /\ req = [c \in Calls |-> NoRequest]
  /\ hops = [c \in Calls |-> 0]
  /\ rewritten = [c \in Calls |-> FALSE]
  /\ flight = [c \in Calls |-> FALSE]
  /\ executed = [c \in Calls |-> FALSE]
  /\ resp = [c \in Calls |-> NoResponse]
  /\ conn = [c \in Calls |-> FALSE]
  /\ open = [c \in Calls |-> FALSE]
  /\ result = [c \in Calls |-> Result("none", 0, 0)]

\* The call returns r.
Return(c, r) ==
  /\ pc' = [pc EXCEPT ![c] = "returned"]
  /\ result' = [result EXCEPT ![c] = r]

\* Faulty variant: the body is never closed.
CloseForgotten(c) == UNCHANGED conn

\* resp.Body.Close(), or net/http itself, gives the connection back.
Close(c) == conn' = [conn EXCEPT ![c] = FALSE]

\* buildHTTPRequest fails: nothing is sent.
BuildFails(c) ==
  /\ pc[c] = "idle"
  /\ \E r \in Requests :
       /\ ~r.built
       /\ req' = [req EXCEPT ![c] = r]
  /\ Return(c, Result("build", 0, 0))
  /\ UNCHANGED <<hops, rewritten, flight, executed, resp, conn, open>>

\* The request is built and handed to http.Client.Do.
Start(c) ==
  /\ pc[c] = "idle"
  /\ \E r \in Requests :
       /\ r.built
       /\ req' = [req EXCEPT ![c] = r]
  /\ pc' = [pc EXCEPT ![c] = "dialing"]
  /\ UNCHANGED <<hops, rewritten, flight, executed, resp, conn, open, result>>

\* The base transport finds a connection under its per-host limit and writes
\* the request.
Send(c) ==
  /\ pc[c] = "dialing"
  /\ Cardinality({d \in Calls : conn[d]}) < MaxConns
  /\ pc' = [pc EXCEPT ![c] = "waiting"]
  /\ conn' = [conn EXCEPT ![c] = TRUE]
  /\ flight' = [flight EXCEPT ![c] = TRUE]
  /\ UNCHANGED <<req, hops, rewritten, executed, resp, open, result>>

\* The server finishes the request.  A 2xx answers a request it performed, a
\* 4xx one it did not; a 5xx says nothing.  The response may be lost, and no
\* one may be waiting for it any more.
Serve(c) ==
  /\ flight[c]
  /\ flight' = [flight EXCEPT ![c] = FALSE]
  /\ \E s \in Statuses, len \in 0..MaxBody, whole \in BOOLEAN, done \in BOOLEAN :
       /\ Success(s) => done
       /\ s \in 400..499 => ~done
       /\ whole => Success(s)
       /\ executed' = [executed EXCEPT ![c] = @ \/ (done /\ ~rewritten[c])]
       /\ resp' = [resp EXCEPT ![c] =
                     IF @.status = 0 THEN [status |-> s, len |-> len, whole |-> whole] ELSE @]
  /\ UNCHANGED <<pc, req, hops, rewritten, conn, open, result>>

\* A proxy gives up on the server, which goes on with the request.
ProxyAnswers(c) ==
  /\ flight[c]
  /\ resp[c].status = 0
  /\ \E s \in Gateway \cap Statuses, len \in 0..MaxBody :
       resp' = [resp EXCEPT ![c] = [status |-> s, len |-> len, whole |-> FALSE]]
  /\ UNCHANGED <<pc, req, hops, rewritten, flight, executed, conn, open, result>>

\* net/http follows a 307 or 308 only with a body it can send again.
Followed(c, s) == s \in {307, 308} => req[c].replay \/ rewritten[c]

\* Faulty variant: redirects are followed for ever.
NoHopLimit(c) == TRUE

HopLimit(c) == hops[c] < MaxHops

\* A redirect net/http follows: 301, 302 and 303 turn a write into a GET, 307
\* and 308 send the request again, which needs a body that can be rewound.
Redirect(c) ==
  /\ pc[c] = "waiting"
  /\ flight[c]
  /\ resp[c].status = 0
  /\ HopLimit(c)
  /\ \E s \in Redirects :
       /\ Followed(c, s)
       /\ rewritten' = [rewritten EXCEPT ![c] = @ \/ (req[c].write /\ s \in {301, 302, 303})]
  /\ hops' = [hops EXCEPT ![c] = @ + 1]
  /\ UNCHANGED <<pc, req, flight, executed, resp, conn, open, result>>

\* A redirect it does not follow is handed over as the final response.
RedirectAsIs(c) ==
  /\ flight[c]
  /\ resp[c].status = 0
  /\ \E s \in {s \in Redirects : ~Followed(c, s)}, len \in 0..MaxBody :
       resp' = [resp EXCEPT ![c] = [status |-> s, len |-> len, whole |-> FALSE]]
  /\ flight' = [flight EXCEPT ![c] = FALSE]
  /\ UNCHANGED <<pc, req, hops, rewritten, executed, conn, open, result>>

\* One redirect too many: http.Client.Do returns an error.
TooManyRedirects(c) ==
  /\ pc[c] = "waiting"
  /\ flight[c]
  /\ resp[c].status = 0
  /\ ~HopLimit(c)
  /\ \E s \in Redirects : Followed(c, s)
  /\ flight' = [flight EXCEPT ![c] = FALSE]
  /\ Close(c)
  /\ Return(c, TransportError)
  /\ UNCHANGED <<req, hops, rewritten, executed, resp, open>>

\* Faulty variant: the timer starts only once there is a connection.
GiveUpOnlyConnected(c) ==
  /\ pc[c] = "waiting"
  /\ Close(c)
  /\ Return(c, TransportError)
  /\ UNCHANGED <<req, hops, rewritten, flight, executed, resp, open>>

\* Do gives up before the response headers arrive: http.Client.Timeout or the
\* context ended, or the connection broke.  A request already written may
\* still reach the server.
GiveUp(c) ==
  /\ pc[c] \in {"dialing", "waiting"}
  /\ pc[c] = "dialing" => HasTimeout
  /\ Close(c)
  /\ Return(c, TransportError)
  /\ UNCHANGED <<req, hops, rewritten, flight, executed, resp, open>>

\* The connection breaks before the server has read the request.
RequestLost(c) ==
  /\ pc[c] = "waiting"
  /\ flight[c]
  /\ resp[c].status = 0
  /\ flight' = [flight EXCEPT ![c] = FALSE]
  /\ Close(c)
  /\ Return(c, TransportError)
  /\ UNCHANGED <<req, hops, rewritten, executed, resp, open>>

\* The response headers arrive.
Receive(c) ==
  /\ pc[c] = "waiting"
  /\ resp[c].status # 0
  /\ pc' = [pc EXCEPT ![c] = "reading"]
  /\ UNCHANGED <<req, hops, rewritten, flight, executed, resp, conn, open, result>>

\* doRequest / DoXML read the body, got units of it before it broke off or
\* reached the limit, and return; the deferred Close gives the connection back.
ReadBuffered(c) ==
  /\ pc[c] = "reading"
  /\ req[c].entry # "stream"
  /\ \E got \in 0..Wanted(req[c].entry, resp[c]) :
       Return(c, IF req[c].entry = "xml"
                 THEN DoXML(req[c], resp[c], got)
                 ELSE doRequest(req[c], resp[c], got))
  /\ Close(c)
  /\ UNCHANGED <<req, hops, rewritten, flight, executed, resp, open>>

\* DoStream, 2xx: the open body, and the connection with it, go to the caller.
DoStream(c) ==
  /\ pc[c] = "reading"
  /\ req[c].entry = "stream"
  /\ Success(resp[c].status)
  /\ open' = [open EXCEPT ![c] = TRUE]
  /\ Return(c, Result("ok", resp[c].status, 0))
  /\ UNCHANGED <<req, hops, rewritten, flight, executed, resp, conn>>

\* DoStream, non-2xx: drain up to the cap, close, *APIError.
DoStreamError(c) ==
  /\ pc[c] = "reading"
  /\ req[c].entry = "stream"
  /\ ~Success(resp[c].status)
  /\ \E got \in 0..Wanted("stream", resp[c]) : Return(c, newAPIError(resp[c].status, got))
  /\ Close(c)
  /\ UNCHANGED <<req, hops, rewritten, flight, executed, resp, open>>

\* The owner of a streamed body closes it, or never does.
CloseBody(c) ==
  /\ open[c]
  /\ open' = [open EXCEPT ![c] = FALSE]
  /\ Close(c)
  /\ UNCHANGED <<pc, req, hops, rewritten, flight, executed, resp, result>>

\* Faulty variant: the timer stops when the headers have arrived.
ExpireNever(c) == FALSE /\ UNCHANGED vars

\* http.Client.Timeout also covers a streamed body: when it fires, the request
\* is cancelled and its connection closed under the reader.
Expire(c) ==
  /\ HasTimeout
  /\ open[c]
  /\ conn[c]
  /\ Close(c)
  /\ UNCHANGED <<pc, req, hops, rewritten, flight, executed, resp, open, result>>

Step(c) ==
  \/ BuildFails(c) \/ Start(c) \/ Send(c) \/ Serve(c) \/ ProxyAnswers(c)
  \/ Redirect(c) \/ RedirectAsIs(c) \/ TooManyRedirects(c)
  \/ GiveUp(c) \/ RequestLost(c) \/ Receive(c)
  \/ ReadBuffered(c) \/ DoStream(c) \/ DoStreamError(c) \/ CloseBody(c) \/ Expire(c)

Next == \E c \in Calls : Step(c)

Spec == Init /\ [][Next]_vars

\* The goroutine keeps running and the timer of http.Client.Timeout fires;
\* nothing is assumed of the server, the network or the owner of a stream.
Fairness ==
  \A c \in Calls :
    /\ WF_vars(GiveUp(c) /\ HasTimeout)
    /\ WF_vars(ReadBuffered(c) \/ DoStream(c) \/ DoStreamError(c))
    /\ WF_vars(Expire(c))

FairSpec == Spec /\ Fairness

-----------------------------------------------------------------------------
TypeOK ==
  /\ pc \in [Calls -> {"idle", "dialing", "waiting", "reading", "returned"}]
  /\ req \in [Calls -> Requests \cup {NoRequest}]
  /\ hops \in [Calls -> 0..MaxHops]
  /\ rewritten \in [Calls -> BOOLEAN]
  /\ flight \in [Calls -> BOOLEAN]
  /\ executed \in [Calls -> BOOLEAN]
  /\ resp \in [Calls -> Responses \cup {NoResponse}]
  /\ conn \in [Calls -> BOOLEAN]
  /\ open \in [Calls -> BOOLEAN]
  /\ result \in [Calls -> Results]

\* A connection is held only by a call that is still inside the library or by
\* a streamed body its owner has not closed: no return path of Do, DoRaw,
\* DoXML or DoStream, the error paths included, leaves a response body open.
NoConnectionLeak ==
  \A c \in Calls : conn[c] => pc[c] \in {"waiting", "reading"} \/ open[c]

\* A nil error is never returned for a request the server refused: the call
\* saw a 2xx, and the server performed the request, unless a redirect made
\* net/http send a GET in place of the write.
NilErrorMeansPerformed ==
  \A c \in Calls :
    result[c].kind = "ok" => Success(result[c].status) /\ (executed[c] \/ rewritten[c])

\* What the caller of the real library may conclude from what a call returned.
Verdict(c) ==
  IF result[c].kind = "none" THEN "none"
  ELSE IF result[c].kind = "build" THEN "unsent"
  ELSE IF result[c].status \in {0} \cup Gateway THEN "unknown"
  ELSE IF Success(result[c].status) /\ ~rewritten[c] THEN "performed"
  ELSE "answered"

Phase(c) ==
  IF pc[c] \in {"idle", "returned"} THEN pc[c] ELSE "pending"

Contract == INSTANCE CallContract WITH
  phase <- [c \in Calls |-> Phase(c)],
  effect <- executed,
  verdict <- [c \in Calls |-> Verdict(c)]

\* Every call keeps the contract of CallContract: at most one effect, none
\* after an answer, none for a request that was never sent.
KeepsContract == Contract!Spec

\* The inductive invariant behind the properties above.  A definite response
\* settles the request at the server, and what a call returns repeats the
\* status of its response.
CallInv(c) ==
  /\ pc[c] \in {"idle", "dialing"} =>
       /\ ~flight[c] /\ ~executed[c] /\ ~conn[c]
       /\ resp[c].status = 0
  /\ pc[c] = "reading" => resp[c].status # 0
  /\ result[c].kind = "none" <=> pc[c] # "returned"
  /\ result[c].kind = "none" => result[c].status = 0
  /\ result[c].kind = "build" =>
       /\ ~flight[c] /\ ~executed[c]
       /\ result[c].status = 0
  /\ result[c].kind = "ok" => Success(result[c].status)
  /\ result[c].status # 0 => resp[c].status = result[c].status
  /\ resp[c].status \notin {0} \cup Gateway => ~flight[c]
  /\ Success(resp[c].status) => executed[c] \/ rewritten[c]
  /\ open[c] => pc[c] = "returned"
  /\ conn[c] => pc[c] \in {"waiting", "reading"} \/ open[c]

IInv == TypeOK /\ \A c \in Calls : CallInv(c)

\* With a Client.Timeout every call returns, though connections are limited,
\* the server may never answer and owners of streams may never close them.
EveryCallReturns == \A c \in Calls : pc[c] = "dialing" ~> pc[c] = "returned"

\* With a Client.Timeout a body the owner of a stream forgot does not occupy
\* its connection for ever.
ConnectionsComeBack == \A c \in Calls : conn[c] ~> ~conn[c]

\* errors.go:48: "every wire-level failure surfaces as *APIError"; README and
\* docs/architecture.md: every non-2xx response does.
NonSuccessIsAPIError ==
  \A c \in Calls :
    result[c].status # 0 /\ ~Success(result[c].status) => result[c].kind = "api"

\* transport.go:55, DoJSON: "On success ... out (if non-nil) is filled from the
\* response body. Error is nil."  A 2xx whose document decodes is a success.
SuccessDecodes ==
  \A c \in Calls :
    result[c].kind = "decode" => ~resp[c].whole
=============================================================================
