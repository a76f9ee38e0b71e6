------------------------------ MODULE Passwords ------------------------------
(***************************************************************************)
(* The rotation of GeoServer's passwords (rest/security): the master       *)
(* password, replaced by a caller who names the current one, and the login *)
(* password, replaced by a caller the Client authenticates.  Admins share  *)
(* one account, each through a Client whose credentials never change after *)
(* New.  Calls time out, their requests arrive late, their answers are     *)
(* lost or a proxy answers in the server's place.                          *)
(* A password is a number; the admins draw new ones and never use one      *)
(* again.                                                                  *)
(***************************************************************************)
EXTENDS Naturals, FiniteSets

CONSTANTS
  Admins,
  MaxPasswords,   \* passwords ever drawn
  MaxFaults,      \* answers that do not come from the server
  Mismatch        \* the answer to a wrong master password: "unprocessable"
                  \* (422) or "unauthorized" (401), "depending on version"

ASSUME PasswordsAssumption ==
  /\ Admins # {}
  /\ MaxPasswords \in Nat \ {0} /\ MaxFaults \in Nat
  /\ Mismatch \in {"unprocessable", "unauthorized"}

VARIABLES
  master,   \* the master password of the server
  login,    \* the login password of the account
  client,   \* the password each admin's Client was built with
  call,     \* the call each admin makes, or made last
  seen,     \* the master password each admin learnt last
  keys,     \* the login passwords an admin keeps as possibly the right ones
  late,     \* requests whose caller no longer waits
  won,      \* Updates that returned nil
  worked,   \* the admins of whose present Client a call has succeeded
  drawn, faults

vars == <<master, login, client, call, seen, keys, late, won, worked, drawn, faults>>

Empty == 0
Passwords == 1..MaxPasswords

-----------------------------------------------------------------------------
\* Faulty variants: the fields change places; the old password is not the
\* caller's but read again.
ChangeRequestSwapped(old, new) == [OldMasterPassword |-> new, NewMasterPassword |-> old]
ChangeRequestReread(old, new) == [OldMasterPassword |-> master, NewMasterPassword |-> new]

\* masterPasswordChangeRequest
ChangeRequest(old, new) == [OldMasterPassword |-> old, NewMasterPassword |-> new]

\* What a goroutine's call is made of; auth is what the RoundTripper adds.
Call(kind, a, old, new) ==
  [kind |-> kind, by |-> a, auth |-> client[a], named |-> old,
   body |-> ChangeRequest(old, new), new |-> new,
   pc |-> "sent", err |-> "none", value |-> Empty]

Idle == [kind |-> "none", by |-> CHOOSE a \in Admins : TRUE, auth |-> Empty, named |-> Empty,
         body |-> [OldMasterPassword |-> Empty, NewMasterPassword |-> Empty], new |-> Empty,
         pc |-> "idle", err |-> "none", value |-> Empty]

\* Faulty variant: a failed exchange is told as a refusal of the server.
ErrorOfAsAPIError(answer) == IF answer \in {"transport", "gateway"} THEN "bad request" ELSE answer

\* The sentinel of an *APIError by its status, or the plain error of a failed
\* exchange.
ErrorOf(answer) == answer

\* The errors that say the server did not do it.
Definite == {"unauthorized", "unprocessable", "bad request"}

Init ==
  /\ master = 1 /\ login = 1 /\ drawn = 1
  /\ client = [a \in Admins |-> 1]
  /\ call = [a \in Admins |-> Idle]
  /\ seen = [a \in Admins |-> Empty]
  /\ keys = [a \in Admins |-> {1}]
  /\ late = {} /\ won = {} /\ worked = {}
  /\ faults = 0

Begin(a, c) == call[a].pc = "idle" /\ call' = [call EXCEPT ![a] = c]

\* New passwords are drawn in order; the empty one is always at hand.
Draw(new) ==
  \/ new = Empty /\ UNCHANGED drawn
  \/ new = drawn + 1 /\ new \in Passwords /\ drawn' = new

-----------------------------------------------------------------------------
\* MasterPassword.Get
Get(a) ==
  /\ Begin(a, Call("get", a, Empty, Empty))
  /\ UNCHANGED <<master, login, client, seen, keys, late, won, worked, drawn, faults>>

\* Faulty variant: the new password may be empty.
ArgumentsOldOnly(old, new) == old # Empty

Arguments(old, new) == old # Empty /\ new # Empty

\* MasterPassword.Update(ctx, old, new), old being what the caller learnt last.
Update(a, new) ==
  /\ Draw(new)
  /\ LET c == Call("update", a, seen[a], new)
     IN Begin(a, IF Arguments(seen[a], new) THEN c ELSE [c EXCEPT !.pc = "idle", !.err = "empty"])
  /\ UNCHANGED <<master, login, client, seen, keys, late, won, worked, faults>>

\* SelfPassword.Change(ctx, new).  The caller notes the password beforehand.
Change(a, new) ==
  /\ Draw(new)
  /\ LET c == Call("change", a, Empty, new)
     IN Begin(a, IF new # Empty THEN c ELSE [c EXCEPT !.pc = "idle", !.err = "empty"])
  /\ keys' = [keys EXCEPT ![a] = IF new = Empty THEN @ ELSE @ \cup {new}]
  /\ UNCHANGED <<master, login, client, seen, late, won, worked, faults>>

\* The caller builds another Client, with a password it kept.
New(a) ==
  /\ call[a].pc = "idle"
  /\ \E key \in keys[a] : client' = [client EXCEPT ![a] = key]
  /\ worked' = worked \ {a}
  /\ UNCHANGED <<master, login, call, seen, keys, late, won, drawn, faults>>

-----------------------------------------------------------------------------
\* The server.
Answer(m) ==
  IF m.auth # login THEN "unauthorized"
  ELSE IF m.kind = "update" /\ m.body.OldMasterPassword # master THEN Mismatch
  ELSE "nil"

Handle(m) ==
  /\ master' = IF m.kind = "update" /\ Answer(m) = "nil" THEN m.body.NewMasterPassword ELSE master
  /\ login' = IF m.kind = "change" /\ Answer(m) = "nil" THEN m.new ELSE login

\* The request is handled; the answer is on its way, or a proxy has spoken.
Serve(a) ==
  /\ call[a].pc = "sent"
  /\ Handle(call[a])
  /\ call' = [call EXCEPT ![a].pc = "answered", ![a].err = ErrorOf(Answer(call[a])),
                          ![a].value = master]
  /\ UNCHANGED <<client, seen, keys, late, won, worked, drawn, faults>>

\* The policy refuses a new login password.
ServePolicy(a) ==
  /\ call[a].pc = "sent" /\ call[a].kind = "change" /\ call[a].auth = login
  /\ call' = [call EXCEPT ![a].pc = "answered", ![a].err = ErrorOf("bad request")]
  /\ UNCHANGED <<master, login, client, seen, keys, late, won, worked, drawn, faults>>

\* The caller gives up, or gets the proxy's 502 or 504: before the request
\* arrives or after it was handled.
Fail(a) ==
  /\ call[a].pc \in {"sent", "answered"}
  /\ faults < MaxFaults
  /\ faults' = faults + 1
  /\ \E answer \in {"transport", "gateway"} :
       call' = [call EXCEPT ![a].pc = "answered", ![a].err = ErrorOf(answer), ![a].value = Empty]
  /\ late' = IF call[a].pc = "sent" THEN late \cup {call[a]} ELSE late
  /\ UNCHANGED <<master, login, client, seen, keys, won, worked, drawn>>

Arrive(m) ==
  /\ Handle(m)
  /\ late' = late \ {m}
  /\ UNCHANGED <<client, call, seen, keys, won, worked, drawn, faults>>

\* The call returns and the caller draws its conclusions.
Return(a) ==
  LET c == call[a]
  IN /\ c.pc = "answered"
     /\ call' = [call EXCEPT ![a].pc = "idle"]
     /\ seen' = [seen EXCEPT ![a] =
                   IF c.err # "nil" THEN @
                   ELSE CASE c.kind = "get" -> c.value [] c.kind = "update" -> c.new [] OTHER -> @]
     /\ keys' = [keys EXCEPT ![a] =
                   IF c.kind # "change" THEN @
                   ELSE IF c.err = "nil" THEN {c.new}
                   ELSE IF c.err \in Definite THEN @ \ {c.new} ELSE @]
     /\ won' = IF c.kind = "update" /\ c.err = "nil" THEN won \cup {c} ELSE won
     /\ worked' = IF c.err = "nil" THEN worked \cup {a} ELSE worked
     /\ UNCHANGED <<master, login, client, late, drawn, faults>>

Next ==
  \/ \E a \in Admins :
       \/ Get(a) \/ New(a) \/ Serve(a) \/ ServePolicy(a) \/ Fail(a) \/ Return(a)
       \/ \E new \in Passwords \cup {Empty} : Update(a, new) \/ Change(a, new)
  \/ \E m \in late : Arrive(m)

Spec == Init /\ [][Next]_vars

-----------------------------------------------------------------------------
TypeOK ==
  /\ master \in Passwords /\ login \in Passwords /\ drawn \in Passwords
  /\ client \in [Admins -> Passwords]
  /\ seen \in [Admins -> Passwords \cup {Empty}]
  /\ keys \in [Admins -> SUBSET Passwords]
  /\ \A a \in Admins :
       /\ call[a].pc \in {"idle", "sent", "answered"}
       /\ call[a].err \in Definite \cup {"none", "empty", "nil", "transport", "gateway"}
  /\ Cardinality(late) <= faults /\ faults <= MaxFaults

\* Of the admins that learnt the same master password and replaced it, at most
\* one was told that it did: the others' passwords are not silently lost.
OneWinner == \A x, y \in won : x.named = y.named => x.new = y.new

\* Once its caller has learnt another master password than the one it named, an
\* Update whose outcome was unknown will not take effect any more: whoever
\* Gets before naming a password again never has a rotation undone by an old one.
StaleUpdateIsDead ==
  \A m \in late :
    m.kind = "update" /\ seen[m.by] # m.named
      => m.body.OldMasterPassword # master

\* A refusal is for good, whichever of the two statuses the server chose: the
\* password of a Client that has worked, or the master password the call named,
\* will never be right again.
RefusedForGood ==
  \A a \in Admins :
    LET c == call[a]
    IN c.pc = "idle" /\ a \in worked /\ c.err \in {"unprocessable", "unauthorized"}
         => c.auth # login \/ (c.kind = "update" /\ c.named # master)

\* The admins never lose the account: one of them always keeps the login
\* password, though it may be one whose Change timed out, or failed at a proxy.
NotLockedOut == \E a \in Admins : login \in keys[a]
=============================================================================
