---------------------------- MODULE TransportProofs ----------------------------
(***************************************************************************)
(* Theorems about Transport, for any number of calls, connections and      *)
(* redirects and for any caps: its invariants, and that it implements      *)
(* CallContract.                                                           *)
(***************************************************************************)
EXTENDS Transport, TLAPS

-----------------------------------------------------------------------------
(* What the readers of a response return. *)

\* A status on the wire is not 0, which stands for "no response".
LEMMA StatusType ==
  ASSUME NEW s \in Statuses \cup Redirects
  PROVE  s \in 0..599 /\ s # 0
<1>1. CASE s \in Statuses
  BY <1>1, EnvironmentAssumption
<1>2. CASE s \in Redirects
  BY <1>2, EnvironmentAssumption
<1> QED
  BY <1>1, <1>2

\* Reading never wants more than there is.
LEMMA WantedType ==
  ASSUME NEW entry, NEW p \in Responses
  PROVE  Wanted(entry, p) \in 0..MaxBody
  BY CapsAssumption DEF Wanted, ReadLimit, Responses

\* An *APIError carries the status and at most what was read of the body.
LEMMA APIErrorType ==
  ASSUME NEW s \in 0..599, NEW b \in 0..MaxBody
  PROVE  /\ newAPIError(s, b) \in Results
         /\ newAPIError(s, b).kind = "api"
         /\ newAPIError(s, b).status = s
  BY CapsAssumption DEF newAPIError, Result, Results, Kinds

\* What the readers of a response body return, whatever part of it they got: a
\* result that carries the status of the response, is never "none" or "build",
\* and is nil only for a 2xx.
LEMMA ReaderResults ==
  ASSUME NEW r, NEW p \in Responses, NEW got \in 0..Wanted(r.entry, p),
         NEW x, x = doRequest(r, p, got) \/ x = DoXML(r, p, got)
  PROVE  /\ x \in Results
         /\ x.status = p.status
         /\ x.kind # "none" /\ x.kind # "build"
         /\ x.kind = "ok" => Success(p.status)
<1>1. /\ Wanted(r.entry, p) \in 0..MaxBody
      /\ got \in 0..MaxBody
      /\ 0 \in 0..MaxBody
  <2>1. Wanted(r.entry, p) \in 0..MaxBody
    BY WantedType
  <2> QED
    BY <2>1, CapsAssumption
<1>2. p.status \in 0..599
  <2>1. p.status \in Statuses \cup Redirects
    BY DEF Responses
  <2> QED
    BY <2>1, StatusType
<1> DEFINE api == newAPIError(p.status, got)
           broken == Result("read", p.status, got)
           decoded == Decode(r, p, got)
<1>3. api \in Results /\ api.kind = "api" /\ api.status = p.status
  BY <1>1, <1>2, APIErrorType
<1>4. broken \in Results /\ broken.kind = "read" /\ broken.status = p.status
  BY <1>1, <1>2 DEF Result, Results, Kinds
<1>5. decoded \in Results /\ decoded.kind \in {"ok", "decode"} /\ decoded.status = p.status
  <2> DEFINE ok(n) == Result("ok", p.status, n)
             bad == Result("decode", p.status, got)
  <2>1. ASSUME NEW n \in 0..MaxBody
        PROVE  ok(n) \in Results /\ ok(n).kind = "ok" /\ ok(n).status = p.status
    BY <1>2 DEF Result, Results, Kinds
  <2>2. bad \in Results /\ bad.kind = "decode" /\ bad.status = p.status
    BY <1>1, <1>2 DEF Result, Results, Kinds
  <2>3. decoded = ok(0) \/ decoded = ok(got) \/ decoded = bad
    BY DEF Decode
  <2> HIDE DEF ok, bad, decoded
  <2> QED
    BY <1>1, <2>1, <2>2, <2>3
<1>6. \/ x = api \/ x = broken
      \/ x = decoded /\ Success(p.status)
  BY DEF doRequest, DoXML
<1> HIDE DEF api, broken, decoded
<1> QED
  BY <1>3, <1>4, <1>5, <1>6

-----------------------------------------------------------------------------
(* Type correctness. *)

\* Each action is one disjunct of Step.
LEMMA NextCases ==
  ASSUME Next
  PROVE  \E c \in Calls :
           \/ BuildFails(c) \/ Start(c) \/ Send(c) \/ Serve(c) \/ ProxyAnswers(c)
           \/ Redirect(c) \/ RedirectAsIs(c) \/ TooManyRedirects(c)
           \/ GiveUp(c) \/ RequestLost(c) \/ Receive(c)
           \/ ReadBuffered(c) \/ DoStream(c) \/ DoStreamError(c) \/ CloseBody(c) \/ Expire(c)
  BY DEF Next, Step

\* The results that do not come from reading a response.
LEMMA ConstantResults ==
  /\ Result("none", 0, 0) \in Results
  /\ Result("build", 0, 0) \in Results
  /\ TransportError \in Results
  /\ \A s \in 0..599 : Result("ok", s, 0) \in Results
  BY CapsAssumption DEF TransportError, Result, Results, Kinds

\* The initial state is well typed.
LEMMA InitType == Init => TypeOK
<1> SUFFICES ASSUME Init PROVE TypeOK
  OBVIOUS
<1>1. 0 \in 0..MaxHops
  BY EnvironmentAssumption
<1> QED
  BY <1>1, ConstantResults DEF Init, TypeOK

\* A call that reads has a response to read.
LEMMA ReadingHasResponse ==
  ASSUME IInv, NEW c \in Calls, pc[c] = "reading"
  PROVE  /\ resp[c] \in Responses
         /\ resp[c].status \in 0..599
         /\ resp[c].status # 0
<1>1. resp[c] \in Responses
  BY DEF IInv, TypeOK, CallInv, NoResponse
<1>2. resp[c].status \in Statuses \cup Redirects
  BY <1>1 DEF Responses
<1> QED
  BY <1>1, <1>2, StatusType

\* x is a nil error only if the response of c is a 2xx.
NilOnlyFor2xx(c, x) == x.kind = "ok" => Success(resp[c].status)

\* What ReadBuffered returns.
LEMMA BufferedResult ==
  ASSUME IInv, NEW c \in Calls, ReadBuffered(c)
  PROVE  \E x \in Results : /\ result' = [result EXCEPT ![c] = x]
                             /\ x.status = resp[c].status
                             /\ x.kind # "none" /\ x.kind # "build"
                             /\ NilOnlyFor2xx(c, x)
<1>1. PICK got \in 0..Wanted(req[c].entry, resp[c]) :
        result' = [result EXCEPT ![c] = IF req[c].entry = "xml"
                                        THEN DoXML(req[c], resp[c], got)
                                        ELSE doRequest(req[c], resp[c], got)]
  BY DEF ReadBuffered, Return
<1>2. PICK x : /\ x = doRequest(req[c], resp[c], got) \/ x = DoXML(req[c], resp[c], got)
               /\ result' = [result EXCEPT ![c] = x]
  BY <1>1
<1>3. resp[c] \in Responses
  BY ReadingHasResponse DEF ReadBuffered
<1>4. /\ x \in Results
      /\ x.status = resp[c].status
      /\ x.kind # "none" /\ x.kind # "build"
      /\ NilOnlyFor2xx(c, x)
  BY <1>2, <1>3, ReaderResults DEF NilOnlyFor2xx
<1> QED
  BY <1>2, <1>4

\* What DoStream returns for a non-2xx.
LEMMA StreamErrorResult ==
  ASSUME IInv, NEW c \in Calls, DoStreamError(c)
  PROVE  \E x \in Results : /\ result' = [result EXCEPT ![c] = x]
                             /\ x.status = resp[c].status
                             /\ x.kind = "api"
<1>1. PICK got \in 0..Wanted("stream", resp[c]) :
        result' = [result EXCEPT ![c] = newAPIError(resp[c].status, got)]
  BY DEF DoStreamError, Return
<1>2. Wanted("stream", resp[c]) \in 0..MaxBody /\ resp[c].status \in 0..599
  BY WantedType, ReadingHasResponse DEF DoStreamError
<1>3. got \in 0..MaxBody
  BY <1>2, CapsAssumption
<1> QED
  BY <1>1, <1>2, <1>3, APIErrorType

\* Every step keeps the state well typed.
LEMMA StepType == IInv /\ [Next]_vars => TypeOK'
<1> SUFFICES ASSUME IInv, [Next]_vars PROVE TypeOK'
  OBVIOUS
<1> TypeOK
  BY DEF IInv
<1>1. CASE UNCHANGED vars
  BY <1>1 DEF TypeOK, vars
<1>2. CASE Next
  <2>1. PICK c \in Calls :
           \/ BuildFails(c) \/ Start(c) \/ Send(c) \/ Serve(c) \/ ProxyAnswers(c)
           \/ Redirect(c) \/ RedirectAsIs(c) \/ TooManyRedirects(c)
           \/ GiveUp(c) \/ RequestLost(c) \/ Receive(c)
           \/ ReadBuffered(c) \/ DoStream(c) \/ DoStreamError(c) \/ CloseBody(c) \/ Expire(c)
    BY <1>2, NextCases
  <2> USE DEF TypeOK, Return, Close
  <2>2. CASE BuildFails(c)
    BY <2>2, ConstantResults DEF BuildFails
  <2>3. CASE Start(c)
    BY <2>3 DEF Start
  <2>4. CASE Send(c)
    BY <2>4 DEF Send
  <2>5. CASE Serve(c)
    BY <2>5 DEF Serve, Responses
  <2>6. CASE ProxyAnswers(c)
    BY <2>6 DEF ProxyAnswers, Responses
  <2>7. CASE Redirect(c)
    BY <2>7, EnvironmentAssumption DEF Redirect, HopLimit
  <2>8. CASE RedirectAsIs(c)
    BY <2>8 DEF RedirectAsIs, Responses
  <2>9. CASE TooManyRedirects(c)
    BY <2>9, ConstantResults DEF TooManyRedirects
  <2>10. CASE GiveUp(c)
    BY <2>10, ConstantResults DEF GiveUp
  <2>11. CASE RequestLost(c)
    BY <2>11, ConstantResults DEF RequestLost
  <2>12. CASE Receive(c)
    BY <2>12 DEF Receive
  <2>13. CASE ReadBuffered(c)
    <3>1. PICK x \in Results : result' = [result EXCEPT ![c] = x]
      BY <2>13, BufferedResult
    <3> QED
      BY <2>13, <3>1 DEF ReadBuffered
  <2>14. CASE DoStream(c)
    <3>1. Result("ok", resp[c].status, 0) \in Results
      BY <2>14, ReadingHasResponse, ConstantResults DEF DoStream
    <3> QED
      BY <2>14, <3>1 DEF DoStream
  <2>15. CASE DoStreamError(c)
    <3>1. PICK x \in Results : result' = [result EXCEPT ![c] = x]
      BY <2>15, StreamErrorResult
    <3> QED
      BY <2>15, <3>1 DEF DoStreamError
  <2>16. CASE CloseBody(c)
    BY <2>16 DEF CloseBody
  <2>17. CASE Expire(c)
    BY <2>17 DEF Expire
  <2> QED
    BY <2>1, <2>2, <2>3, <2>4, <2>5, <2>6, <2>7, <2>8, <2>9, <2>10, <2>11, <2>12,
       <2>13, <2>14, <2>15, <2>16, <2>17
<1> QED
  BY <1>1, <1>2

-----------------------------------------------------------------------------
(* The inductive invariant. *)

\* The invariant holds initially.
LEMMA InitCalls == Init => IInv
<1> SUFFICES ASSUME Init PROVE IInv
  OBVIOUS
<1>1. TypeOK
  BY InitType
<1>2. ASSUME NEW c \in Calls PROVE CallInv(c)
  BY DEF Init, CallInv, Result, NoResponse, Success
<1> QED
  BY <1>1, <1>2 DEF IInv

\* The results of build and transport failures, and of an opened stream.
LEMMA FieldsOfConstantResults ==
  /\ Result("build", 0, 0).kind = "build" /\ Result("build", 0, 0).status = 0
  /\ TransportError.kind = "transport" /\ TransportError.status = 0
  /\ \A s : Result("ok", s, 0).kind = "ok" /\ Result("ok", s, 0).status = s
  BY DEF Result, TransportError

\* Every step preserves what CallInv says of every call.
LEMMA StepCalls == IInv /\ [Next]_vars => \A d \in Calls : CallInv(d)'
<1> SUFFICES ASSUME IInv, [Next]_vars, NEW d \in Calls PROVE CallInv(d)'
  OBVIOUS
<1> TypeOK /\ CallInv(d)
  BY DEF IInv
<1>1. CASE UNCHANGED vars
  BY <1>1 DEF CallInv, vars
<1>2. CASE Next
  <2>1. PICK c \in Calls :
           \/ BuildFails(c) \/ Start(c) \/ Send(c) \/ Serve(c) \/ ProxyAnswers(c)
           \/ Redirect(c) \/ RedirectAsIs(c) \/ TooManyRedirects(c)
           \/ GiveUp(c) \/ RequestLost(c) \/ Receive(c)
           \/ ReadBuffered(c) \/ DoStream(c) \/ DoStreamError(c) \/ CloseBody(c) \/ Expire(c)
    BY <1>2, NextCases
  <2> USE DEF TypeOK, CallInv, Return, Close
  <2>2. CASE BuildFails(c)
    BY <2>2, FieldsOfConstantResults DEF BuildFails
  <2>3. CASE Start(c)
    BY <2>3 DEF Start
  <2>4. CASE Send(c)
    BY <2>4 DEF Send
  <2>5. CASE Serve(c)
    BY <2>5 DEF Serve
  <2>6. CASE ProxyAnswers(c)
    BY <2>6 DEF ProxyAnswers, Gateway, Success
  <2>7. CASE Redirect(c)
    BY <2>7 DEF Redirect
  <2>8. CASE RedirectAsIs(c)
    BY <2>8, EnvironmentAssumption DEF RedirectAsIs, Success
  <2>9. CASE TooManyRedirects(c)
    BY <2>9, FieldsOfConstantResults DEF TooManyRedirects
  <2>10. CASE GiveUp(c)
    BY <2>10, FieldsOfConstantResults DEF GiveUp
  <2>11. CASE RequestLost(c)
    BY <2>11, FieldsOfConstantResults DEF RequestLost
  <2>12. CASE Receive(c)
    BY <2>12 DEF Receive
  <2>13. CASE ReadBuffered(c)
    <3>1. PICK x \in Results : /\ result' = [result EXCEPT ![c] = x]
                               /\ x.status = resp[c].status
                               /\ x.kind # "none" /\ x.kind # "build"
                               /\ NilOnlyFor2xx(c, x)
      BY <2>13, BufferedResult
    <3> QED
      BY <2>13, <3>1, ReadingHasResponse DEF ReadBuffered, NilOnlyFor2xx
  <2>14. CASE DoStream(c)
    BY <2>14, ReadingHasResponse, FieldsOfConstantResults DEF DoStream
  <2>15. CASE DoStreamError(c)
    <3>1. PICK x \in Results : /\ result' = [result EXCEPT ![c] = x]
                               /\ x.status = resp[c].status
                               /\ x.kind = "api"
      BY <2>15, StreamErrorResult
    <3> QED
      BY <2>15, <3>1, ReadingHasResponse DEF DoStreamError
  <2>16. CASE CloseBody(c)
    BY <2>16 DEF CloseBody
  <2>17. CASE Expire(c)
    BY <2>17 DEF Expire
  <2> QED
    BY <2>1, <2>2, <2>3, <2>4, <2>5, <2>6, <2>7, <2>8, <2>9, <2>10, <2>11, <2>12,
       <2>13, <2>14, <2>15, <2>16, <2>17
<1> QED
  BY <1>1, <1>2

LEMMA Invariance == IInv /\ [Next]_vars => IInv'
  BY StepType, StepCalls DEF IInv

-----------------------------------------------------------------------------
(* The theorems. *)

\* The inductive invariant, of which the next three theorems are parts: what
\* every call in progress, and every call that has returned, has in common.
THEOREM Inductive == Spec => []IInv
  BY InitCalls, Invariance, PTL DEF Spec

\* Whatever the calls, the server and the network do, the state of every call
\* stays well formed; in particular net/http's redirect limit bounds hops.
THEOREM TypeCorrect == Spec => []TypeOK
<1>1. IInv => TypeOK
  BY DEF IInv
<1> QED
  BY <1>1, Inductive, PTL

\* No return path of the four entry points leaves a connection occupied, except
\* by a streamed body that its owner has not closed.
THEOREM NoLeak == Spec => []NoConnectionLeak
<1>1. IInv => NoConnectionLeak
  BY DEF IInv, CallInv, NoConnectionLeak
<1> QED
  BY <1>1, Inductive, PTL

\* A nil error is returned only for a 2xx of a server that performed the
\* request, or that answered the GET a redirect put in its place.
THEOREM NilErrorIsEarned == Spec => []NilErrorMeansPerformed
<1>1. IInv => NilErrorMeansPerformed
  <2> SUFFICES ASSUME IInv, NEW c \in Calls, result[c].kind = "ok"
               PROVE  Success(result[c].status) /\ (executed[c] \/ rewritten[c])
    BY DEF NilErrorMeansPerformed
  <2>1. Success(result[c].status) /\ result[c].status # 0
    BY DEF IInv, CallInv, Success
  <2> QED
    BY <2>1 DEF IInv, CallInv
<1> QED
  BY <1>1, Inductive, PTL

-----------------------------------------------------------------------------
(* Transport implements CallContract. *)

\* The initial state maps to the initial state of the contract.
LEMMA InitRefines == Init => Contract!Init
  BY DEF Init, Contract!Init, Phase, Verdict, Result

\* A step that changes no verdict, no phase and no effect is a stutter.
LEMMA Stutter ==
  ASSUME \A d \in Calls : Verdict(d)' = Verdict(d) /\ Phase(d)' = Phase(d),
         executed' = executed
  PROVE  UNCHANGED Contract!vars
  BY DEF Contract!vars

\* What a step of call c leaves alone for every other call.
LEMMA Others ==
  ASSUME TypeOK, NEW c \in Calls, NEW d \in Calls, d # c,
         \E x : pc' = [pc EXCEPT ![c] = x],
         \E x : result' = [result EXCEPT ![c] = x],
         rewritten' = rewritten
  PROVE  Verdict(d)' = Verdict(d) /\ Phase(d)' = Phase(d)
  BY DEF Verdict, Phase, TypeOK

\* A call that returns from inside the library with a result whose verdict it
\* has earned makes the Return step of the contract.
LEMMA ReturnRefines ==
  ASSUME IInv, NEW c \in Calls, NEW x \in Results,
         pc[c] \in {"dialing", "waiting", "reading"},
         pc' = [pc EXCEPT ![c] = "returned"],
         result' = [result EXCEPT ![c] = x],
         x.kind # "none" /\ x.kind # "build",
         Success(x.status) /\ ~rewritten[c] => executed[c],
         UNCHANGED <<executed, rewritten>>
  PROVE  Contract!Return(c)
<1>1. TypeOK
  BY DEF IInv
<1>2. \A d \in Calls : d # c => Verdict(d)' = Verdict(d) /\ Phase(d)' = Phase(d)
  BY <1>1, Others
<1>3. Phase(c) = "pending" /\ Phase(c)' = "returned"
  BY <1>1 DEF Phase, TypeOK
<1>4. result'[c] = x
  BY <1>1 DEF TypeOK
<1>5. /\ Verdict(c)' \in {"performed", "answered", "unknown"}
      /\ Verdict(c)' = "performed" => executed[c]
  BY <1>4 DEF Verdict
<1>6. [d \in Calls |-> Phase(d)]' = [[d \in Calls |-> Phase(d)] EXCEPT ![c] = "returned"]
  BY <1>2, <1>3
<1>7. [d \in Calls |-> Verdict(d)]' = [[d \in Calls |-> Verdict(d)] EXCEPT ![c] = Verdict(c)']
  BY <1>2
<1> QED
  BY <1>3, <1>5, <1>6, <1>7 DEF Contract!Return

\* A request that takes effect does so while nothing definite is known of it.
LEMMA ServeRefines ==
  ASSUME IInv, NEW c \in Calls, Serve(c)
  PROVE  Contract!Perform(c) \/ UNCHANGED Contract!vars
<1> TypeOK /\ CallInv(c)
  BY DEF IInv
<1>1. \A d \in Calls : Verdict(d)' = Verdict(d) /\ Phase(d)' = Phase(d)
  BY DEF Serve, Verdict, Phase
<1>2. CASE executed' = executed
  BY <1>1, <1>2, Stutter
<1>3. CASE executed' # executed
  <2>1. ~executed[c] /\ executed' = [executed EXCEPT ![c] = TRUE]
    <3>1. PICK b \in BOOLEAN :
            /\ executed' = [executed EXCEPT ![c] = b]
            /\ executed[c] => b
      BY DEF Serve, TypeOK
    <3>2. executed \in [Calls -> BOOLEAN]
      BY DEF TypeOK
    <3>3. b # executed[c]
      BY <1>3, <3>1, <3>2
    <3> QED
      BY <3>1, <3>2, <3>3
  <2>2. Phase(c) # "idle"
    BY DEF Serve, CallInv, Phase
  <2>3. Verdict(c) \in {"none", "unknown"}
    <3>1. CASE result[c].kind = "none"
      BY <3>1 DEF Verdict
    <3>2. CASE result[c].kind = "build"
      BY <3>2 DEF CallInv, Serve
    <3>3. CASE result[c].kind \notin {"none", "build"}
      <4>1. result[c].status \in {0} \cup Gateway
        BY DEF CallInv, Serve
      <4> QED
        BY <3>3, <4>1 DEF Verdict
    <3> QED
      BY <3>1, <3>2, <3>3
  <2>4. UNCHANGED <<[d \in Calls |-> Phase(d)], [d \in Calls |-> Verdict(d)]>>
    BY <1>1
  <2> QED
    BY <2>1, <2>2, <2>3, <2>4 DEF Contract!Perform
<1> QED
  BY <1>2, <1>3

\* A call refused before anything is sent.
LEMMA BuildFailsRefines ==
  ASSUME IInv, NEW c \in Calls, BuildFails(c)
  PROVE  Contract!Refuse(c)
<1> TypeOK
  BY DEF IInv
<1> USE DEF BuildFails, Return
<1>1. \A d \in Calls : d # c => Verdict(d)' = Verdict(d) /\ Phase(d)' = Phase(d)
  BY Others
<1>2. Phase(c) = "idle" /\ Phase(c)' = "returned"
  BY DEF Phase, TypeOK
<1>3. result'[c].kind = "build"
  BY FieldsOfConstantResults DEF TypeOK
<1>4. Verdict(c)' = "unsent"
  BY <1>3 DEF Verdict
<1>5. [d \in Calls |-> Phase(d)]' = [[d \in Calls |-> Phase(d)] EXCEPT ![c] = "returned"]
  BY <1>1, <1>2
<1>6. [d \in Calls |-> Verdict(d)]' = [[d \in Calls |-> Verdict(d)] EXCEPT ![c] = "unsent"]
  BY <1>1, <1>4
<1> QED
  BY <1>2, <1>5, <1>6 DEF Contract!Refuse

\* A call that goes out.
LEMMA StartRefines ==
  ASSUME IInv, NEW c \in Calls, Start(c)
  PROVE  Contract!Issue(c)
<1> TypeOK
  BY DEF IInv
<1>1. Phase(c) = "idle" /\ Phase(c)' = "pending"
  BY DEF Start, Phase, TypeOK
<1>2. \A d \in Calls : Verdict(d)' = Verdict(d) /\ (d # c => Phase(d)' = Phase(d))
  BY DEF Start, Verdict, Phase, TypeOK
<1>3. [d \in Calls |-> Phase(d)]' = [[d \in Calls |-> Phase(d)] EXCEPT ![c] = "pending"]
  BY <1>1, <1>2
<1>4. UNCHANGED [d \in Calls |-> Verdict(d)]
  BY <1>2
<1> QED
  BY <1>1, <1>3, <1>4 DEF Start, Contract!Issue

\* Every step of a call is a step of the contract, or none.
LEMMA StepRefines == IInv /\ [Next]_vars => [Contract!Next]_(Contract!vars)
<1> SUFFICES ASSUME IInv, [Next]_vars PROVE Contract!Next \/ UNCHANGED Contract!vars
  OBVIOUS
<1> TypeOK
  BY DEF IInv
<1>1. CASE UNCHANGED vars
  BY <1>1, Stutter DEF vars, Verdict, Phase
<1>2. CASE Next
  <2>1. PICK c \in Calls :
           \/ BuildFails(c) \/ Start(c) \/ Send(c) \/ Serve(c) \/ ProxyAnswers(c)
           \/ Redirect(c) \/ RedirectAsIs(c) \/ TooManyRedirects(c)
           \/ GiveUp(c) \/ RequestLost(c) \/ Receive(c)
           \/ ReadBuffered(c) \/ DoStream(c) \/ DoStreamError(c) \/ CloseBody(c) \/ Expire(c)
    BY <1>2, NextCases
  <2> CallInv(c)
    BY DEF IInv
  <2>2. CASE BuildFails(c)
    BY <2>2, BuildFailsRefines DEF Contract!Next
  <2>3. CASE Start(c)
    BY <2>3, StartRefines DEF Contract!Next
  <2>4. CASE Send(c) \/ Receive(c)
    <3>1. \A d \in Calls : Verdict(d)' = Verdict(d) /\ Phase(d)' = Phase(d)
      BY <2>4 DEF Send, Receive, Verdict, Phase, TypeOK
    <3> QED
      BY <2>4, <3>1, Stutter DEF Send, Receive
  <2>5. CASE Serve(c)
    BY <2>5, ServeRefines DEF Contract!Next
  <2>6. CASE ProxyAnswers(c) \/ RedirectAsIs(c) \/ CloseBody(c) \/ Expire(c)
    BY <2>6, Stutter DEF ProxyAnswers, RedirectAsIs, CloseBody, Expire, Verdict, Phase
  <2>7. CASE Redirect(c)
    <3>1. result[c].kind = "none"
      BY <2>7 DEF Redirect, CallInv
    <3>2. \A d \in Calls : Verdict(d)' = Verdict(d) /\ Phase(d)' = Phase(d)
      BY <2>7, <3>1 DEF Redirect, Verdict, Phase, TypeOK
    <3> QED
      BY <2>7, <3>2, Stutter DEF Redirect
  <2>8. CASE TooManyRedirects(c) \/ GiveUp(c) \/ RequestLost(c)
    <3>1. /\ TransportError \in Results /\ TransportError.kind = "transport"
          /\ ~Success(TransportError.status)
      BY ConstantResults, FieldsOfConstantResults DEF Success
    <3>2. Contract!Return(c)
      BY <2>8, <3>1, ReturnRefines DEF TooManyRedirects, GiveUp, RequestLost, Return
    <3> QED
      BY <3>2 DEF Contract!Next
  <2>9. CASE ReadBuffered(c) \/ DoStream(c) \/ DoStreamError(c)
    <3>1. /\ resp[c] \in Responses
          /\ resp[c].status \in 0..599
      BY <2>9, ReadingHasResponse DEF ReadBuffered, DoStream, DoStreamError
    <3>2. PICK x \in Results : /\ result' = [result EXCEPT ![c] = x]
                               /\ x.status = resp[c].status
                               /\ x.kind # "none" /\ x.kind # "build"
      <4>1. CASE ReadBuffered(c)
        <5>1. PICK x \in Results : /\ result' = [result EXCEPT ![c] = x]
                                   /\ x.status = resp[c].status
                                   /\ x.kind # "none" /\ x.kind # "build"
                                   /\ NilOnlyFor2xx(c, x)
          BY <4>1, BufferedResult
        <5> QED
          BY <5>1
      <4>2. CASE DoStream(c)
        <5> DEFINE x == Result("ok", resp[c].status, 0)
        <5>1. x \in Results /\ x.kind = "ok" /\ x.status = resp[c].status
          BY <3>1, ConstantResults, FieldsOfConstantResults
        <5>2. result' = [result EXCEPT ![c] = x]
          BY <4>2 DEF DoStream, Return
        <5> HIDE DEF x
        <5> QED
          BY <5>1, <5>2
      <4>3. CASE DoStreamError(c)
        <5>1. PICK x \in Results : /\ result' = [result EXCEPT ![c] = x]
                                   /\ x.status = resp[c].status
                                   /\ x.kind = "api"
          BY <4>3, StreamErrorResult
        <5> QED
          BY <5>1
      <4> QED
        BY <2>9, <4>1, <4>2, <4>3
    <3>3. Success(x.status) /\ ~rewritten[c] => executed[c]
      BY <3>2 DEF CallInv
    <3>4. Contract!Return(c)
      BY <2>9, <3>2, <3>3, ReturnRefines DEF ReadBuffered, DoStream, DoStreamError, Return
    <3> QED
      BY <3>4 DEF Contract!Next
  <2> QED
    BY <2>1, <2>2, <2>3, <2>4, <2>5, <2>6, <2>7, <2>8, <2>9
<1> QED
  BY <1>1, <1>2

\* For any number of calls sharing the Client, and whatever the server, the
\* network, proxies and redirects do, every call keeps the contract: its
\* request takes effect only if it was sent, and not after an answer.
THEOREM ImplementsContract == Spec => KeepsContract
<1>1. Init => Contract!Init
  BY InitRefines
<1>2. IInv /\ [Next]_vars => [Contract!Next]_(Contract!vars)
  BY StepRefines
<1> QED
  BY <1>1, <1>2, Inductive, PTL DEF Spec, Contract!Spec, KeepsContract
=============================================================================
