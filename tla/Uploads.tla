------------------------------- MODULE Uploads -------------------------------
(***************************************************************************)
(* The bodies of writes when a retry library is layered below the Client,  *)
(* as README.md:198 invites: "WithTransport is the natural integration     *)
(* point for ... retry libraries".  Do marshals a document for every call, *)
(* DoRaw hands over the caller's io.Reader, which keeps its position:      *)
(* attempts are cut short, answers are lost, the library resends what it   *)
(* can rewind, and the caller may call again with a fresh reader or with   *)
(* the one it has.  A body is the range of units it holds.                 *)
(***************************************************************************)
EXTENDS Naturals

CONSTANTS
  Size,         \* of the file or document, in units
  MaxCalls,     \* calls of the program
  MaxAttempts   \* of the retry library, for each call

ASSUME UploadsAssumption == Size \in Nat \ {0} /\ MaxCalls \in Nat /\ MaxAttempts \in Nat \ {0}

VARIABLES
  kind,      \* "json" for Do; for DoRaw "buffer" (bytes and strings readers) or "stream"
  offset,    \* the position of the caller's reader
  reader,    \* that of the call: "fresh" or "used", when it had been read from
  start,     \* where the body of the call begins
  body,      \* what the attempt reads from: "caller" or "copy"
  pc,        \* "idle", "building", "trying" or "failed" (this attempt)
  attempts, calls,
  stored,    \* what the server accepted last: where it begins and ends
  result

uploadsVars == <<kind, offset, reader, start, body, pc, attempts, calls, stored, result>>

Nothing == [from |-> 0, to |-> 0, reader |-> "fresh"]

-----------------------------------------------------------------------------
\* http.NewRequest sets GetBody for the readers it knows; the body of Do is one.
Rewindable(k) == k \in {"json", "buffer"}

\* Faulty variant: GetBody returns the body itself.
GetBodyShared(k) == "caller"

\* GetBody: a copy of the reader as it was when the request was built.
GetBody(k) == "copy"

UploadsInit ==
  /\ kind \in {"json", "buffer", "stream"}
  /\ offset = 0 /\ reader = "fresh" /\ start = 0 /\ body = "caller"
  /\ pc = "idle" /\ attempts = 0 /\ calls = 0
  /\ stored = Nothing /\ result = "none"

\* The program calls, for the first time or after an error, with a fresh reader
\* or with the one it has, wherever that stands.
Upload ==
  /\ pc = "idle" /\ result # "nil"
  /\ calls < MaxCalls
  /\ calls' = calls + 1
  /\ pc' = "building"
  /\ \/ offset' = 0 /\ reader' = "fresh"
     \/ calls > 0 /\ UNCHANGED offset /\ reader' = IF offset > 0 THEN "used" ELSE "fresh"
  /\ UNCHANGED <<kind, start, body, attempts, stored, result>>

\* buildHTTPRequest: Do's body is marshalled into a reader of its own.
buildHTTPRequest ==
  /\ pc = "building"
  /\ offset' = IF kind = "json" THEN 0 ELSE offset
  /\ start' = offset'
  /\ body' = "caller"
  /\ attempts' = 0
  /\ pc' = "trying"
  /\ UNCHANGED <<kind, reader, calls, stored, result>>

\* Where the attempt reads from.
From == IF body = "copy" THEN start ELSE offset

\* An attempt reads the body to some point; a body cut short is refused, whether
\* its length was announced or its last chunk is missing.
CutShort ==
  /\ pc = "trying"
  /\ \E to \in From..Size : offset' = IF body = "copy" THEN offset ELSE to
  /\ attempts' = attempts + 1
  /\ pc' = "failed"
  /\ UNCHANGED <<kind, reader, start, body, calls, stored, result>>

\* It reads the body to its end and the server takes it; the answer may be lost.
Accepted ==
  /\ pc = "trying"
  /\ offset' = IF body = "copy" THEN offset ELSE Size
  /\ attempts' = attempts + 1
  /\ stored' = [from |-> From, to |-> Size, reader |-> reader]
  /\ \/ pc' = "idle" /\ result' = "nil"
     \/ pc' = "failed" /\ UNCHANGED result
  /\ UNCHANGED <<kind, reader, start, body, calls>>

\* The library sends the body again if it can be rewound.
Retry ==
  /\ pc = "failed"
  /\ Rewindable(kind) /\ attempts < MaxAttempts
  /\ body' = GetBody(kind)
  /\ pc' = "trying"
  /\ UNCHANGED <<kind, offset, reader, start, attempts, calls, stored, result>>

\* It gives up and the call returns the error.
GiveUp ==
  /\ pc = "failed"
  /\ ~Rewindable(kind) \/ attempts >= MaxAttempts
  /\ pc' = "idle"
  /\ result' = "error"
  /\ UNCHANGED <<kind, offset, reader, start, body, attempts, calls, stored>>

UploadsNext ==
  Upload \/ buildHTTPRequest \/ CutShort \/ Accepted \/ Retry \/ GiveUp

UploadsSpec == UploadsInit /\ [][UploadsNext]_uploadsVars

-----------------------------------------------------------------------------
\* Whatever attempt of whatever call the server took, it has the whole body: only
\* a reader that the caller handed to DoRaw a second time leaves less.  Documents
\* of Do are whole in any case, and so is an upload the library sent again.
StoredIsWhole ==
  kind = "json" \/ stored.reader = "fresh" => stored.from = 0
=============================================================================
