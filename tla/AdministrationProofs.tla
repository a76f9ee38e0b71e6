-------------------------- MODULE AdministrationProofs --------------------------
(***************************************************************************)
(* Proofs about two tasks of an administrator: rotating passwords          *)
(* (Passwords) and uploading files (Uploads).                              *)
(*                                                                         *)
(* The rotation of passwords is sound for any number of administrators,    *)
(* passwords and faults.  New passwords are drawn in order, so the master  *)
(* and the login password only grow: what was refused, or was current when *)
(* somebody read it, is past for good once it is no longer current.        *)
(*                                                                         *)
(* What the server accepts of an upload is whole, for any size of body and *)
(* any number of calls and attempts.                                       *)
(***************************************************************************)
EXTENDS Passwords, Uploads, FiniteSetTheorems, TLAPS

-----------------------------------------------------------------------------
(* The inductive invariant. *)

Refusals == {"unprocessable", "unauthorized"}
Errors == Definite \cup {"none", "empty", "nil", "transport", "gateway"}

Known == Passwords \cup {Empty}

Calls ==
  [kind : {"none", "get", "update", "change"}, by : Admins, auth : Known, named : Known,
   body : [OldMasterPassword : Known, NewMasterPassword : Known], new : Known,
   pc : {"idle", "sent", "answered"}, err : Errors, value : Known]

Types ==
  /\ master \in Passwords /\ login \in Passwords /\ drawn \in Passwords
  /\ client \in [Admins -> Passwords]
  /\ call \in [Admins -> Calls]
  /\ seen \in [Admins -> Known]
  /\ keys \in [Admins -> SUBSET Passwords]
  /\ late \subseteq Calls
  /\ won \subseteq Calls
  /\ faults \in Nat

\* A password names a time: everything there is was drawn, and what an admin has
\* learnt was the master password at some time.
Bounds ==
  /\ master <= drawn /\ login <= drawn
  /\ \A a \in Admins :
       /\ client[a] <= drawn
       /\ seen[a] <= master
       /\ \A k \in keys[a] : k <= drawn

\* A request names and carries passwords older than the new one.
Message(m) ==
  /\ m.auth \in Passwords /\ m.auth <= drawn
  /\ m.kind = "update" =>
       /\ m.body.OldMasterPassword = m.named /\ m.body.NewMasterPassword = m.new
       /\ m.named \in Passwords /\ m.new \in Passwords
       /\ m.named < m.new /\ m.new <= drawn
  /\ m.kind = "change" =>
       m.new \in Passwords /\ m.auth < m.new /\ m.new <= drawn

Busy(a) == call[a].pc # "idle"
Nil(a) == call[a].pc = "answered" /\ call[a].err = "nil"

InFlight ==
  /\ \A m \in late : Message(m)
  /\ \A a \in Admins : Busy(a) =>
       /\ Message(call[a])
       /\ call[a].by = a
       /\ call[a].auth = client[a]
       /\ call[a].kind = "update" => call[a].named = seen[a]

\* Whoever was told of success was right, and what was named is past.
Told ==
  /\ \A a \in Admins : Nil(a) =>
       /\ call[a].auth <= login
       /\ call[a].kind = "update" => call[a].named < master /\ call[a].new <= master
       /\ call[a].kind = "get" =>
            call[a].value \in Passwords /\ seen[a] <= call[a].value /\ call[a].value <= master
  /\ \A a \in worked : a \in Admins /\ client[a] <= login
  /\ \A m \in late : m.kind = "update" => m.named <= seen[m.by]

\* A refused call of a Client that has worked named a password of the past.
Refused ==
  \A a \in worked :
    call[a].err \in Refusals =>
      call[a].auth < login \/ (call[a].kind = "update" /\ call[a].named < master)

\* Each rotation was told to one caller.
Winners ==
  /\ \A x \in won : x.named < master
  /\ \A x, y \in won : x.named = y.named => x = y
  /\ \A a \in Admins : Nil(a) /\ call[a].kind = "update" =>
       /\ \A x \in won : x.named # call[a].named
       /\ \A b \in Admins :
            Nil(b) /\ call[b].kind = "update" /\ call[b].named = call[a].named => b = a

Changing(a) == Busy(a) /\ call[a].kind = "change"

\* Its new password has not been set, and will not be by anybody else.
Unset(a) == call[a].pc = "sent" \/ call[a].err \in Definite

\* The new login password of a call is its caller's alone until it returns.
Own ==
  \A a \in Admins : Changing(a) =>
    /\ call[a].new \in keys[a]
    /\ \A b \in Admins : client[b] # call[a].new /\ (call[a].new \in keys[b] => b = a)
    /\ \A m \in late : m.auth # call[a].new /\ (m.by = a => m.auth < call[a].new)
    /\ Nil(a) => login = call[a].new
    /\ Unset(a) =>
         /\ login # call[a].new
         /\ \A m \in late : m.kind = "change" => m.new # call[a].new

\* A late Change that can still take effect is noted by its caller.
Noted ==
  \A m \in late : m.kind = "change" => m.new \in keys[m.by] \/ m.auth < login

Counted == IsFiniteSet(late) /\ Cardinality(late) <= faults /\ faults <= MaxFaults

IInv ==
  /\ Types /\ Bounds /\ InFlight /\ Told /\ Refused /\ Winners
  /\ Own /\ Noted /\ NotLockedOut /\ Counted

-----------------------------------------------------------------------------
(* Passwords, calls and what the server makes of them. *)

\* Passwords are numbers, and the empty one comes before them all.
LEMMA Numbers ==
  /\ Passwords \subseteq Nat /\ Known \subseteq Nat /\ Empty = 0
  /\ Passwords \subseteq Known /\ Empty \in Known /\ Empty \notin Passwords
  /\ 1 \in Passwords
BY PasswordsAssumption DEF Passwords, Known, Empty

\* A call is well typed and begins with what its caller gave it.
LEMMA CallType ==
  ASSUME Types, NEW a \in Admins, NEW verb \in {"get", "update", "change"},
         NEW old \in Known, NEW new \in Known, NEW c, c = Call(verb, a, old, new)
  PROVE  /\ c \in Calls
         /\ c.kind = verb /\ c.by = a /\ c.auth = client[a]
         /\ c.named = old /\ c.new = new
         /\ c.body.OldMasterPassword = old /\ c.body.NewMasterPassword = new
         /\ c.pc = "sent" /\ c.err = "none"
<1>1. client[a] \in Known
  BY Numbers DEF Types
<1> QED
  BY <1>1, Numbers DEF Call, ChangeRequest, Calls, Errors

\* A call that its method refuses.
LEMMA EmptyCallType ==
  ASSUME NEW c \in Calls, NEW d, d = [c EXCEPT !.pc = "idle", !.err = "empty"]
  PROVE  d \in Calls /\ d.pc = "idle" /\ d.err = "empty"
BY DEF Calls, Errors

\* What the server does with a request, in numbers.
LEMMA HandleFacts ==
  ASSUME Types, Bounds, NEW m \in Calls, Message(m), Handle(m)
  PROVE  /\ master' \in Passwords /\ master <= master' /\ master' <= drawn
         /\ login' \in Passwords /\ login <= login' /\ login' <= drawn
         /\ master' # master => m.kind = "update" /\ m.named = master /\ master' = m.new
         /\ login' # login => m.kind = "change" /\ m.auth = login /\ login' = m.new
<1>1. /\ master \in Nat /\ login \in Nat /\ drawn \in Nat
      /\ master <= drawn /\ login <= drawn
      /\ master \in Passwords /\ login \in Passwords
  BY Numbers DEF Types, Bounds
<1>2. CASE UNCHANGED <<master, login>>
  BY <1>1, <1>2
<1>3. CASE Answer(m) = "nil" /\ m.kind = "update"
  <2>1. m.auth = login /\ m.body.OldMasterPassword = master
    BY <1>3, PasswordsAssumption DEF Answer
  <2>2. /\ m.body.OldMasterPassword = m.named /\ m.body.NewMasterPassword = m.new
        /\ m.new \in Passwords /\ m.named < m.new /\ m.new <= drawn
    BY <1>3 DEF Message
  <2>3. master' = m.new /\ login' = login
    BY <1>3, <2>2 DEF Handle
  <2>4. m.new \in Nat
    BY <2>2, Numbers
  <2> QED
    BY <1>1, <1>3, <2>1, <2>2, <2>3, <2>4
<1>4. CASE Answer(m) = "nil" /\ m.kind = "change"
  <2>1. m.auth = login
    BY <1>4, PasswordsAssumption DEF Answer
  <2>2. m.new \in Passwords /\ m.auth < m.new /\ m.new <= drawn
    BY <1>4 DEF Message
  <2>3. master' = master /\ login' = m.new
    BY <1>4 DEF Handle
  <2>4. m.new \in Nat
    BY <2>2, Numbers
  <2> QED
    BY <1>1, <1>4, <2>1, <2>2, <2>3, <2>4
<1>5. UNCHANGED <<master, login>> \/ (Answer(m) = "nil" /\ m.kind \in {"update", "change"})
  BY DEF Handle
<1> QED
  BY <1>2, <1>3, <1>4, <1>5

\* What the server's answer says of the request.
LEMMA AnswerFacts ==
  ASSUME Types, Bounds, NEW m \in Calls, Message(m), Handle(m)
  PROVE  /\ Answer(m) \in {"nil"} \cup Refusals
         /\ Answer(m) = "nil" =>
              /\ m.auth = login
              /\ m.kind = "update" => m.named = master /\ master' = m.new
              /\ m.kind = "change" => login' = m.new
         /\ Answer(m) # "nil" =>
              /\ UNCHANGED <<master, login>>
              /\ m.auth # login \/ (m.kind = "update" /\ m.named # master)
BY PasswordsAssumption DEF Answer, Handle, Message, Refusals

\* The other calls stay as they are when one is changed.
LEMMA OthersUnchanged ==
  ASSUME Types, NEW a \in Admins, NEW c \in Calls, call' = [call EXCEPT ![a] = c]
  PROVE  /\ call' \in [Admins -> Calls]
         /\ call'[a] = c
         /\ \A b \in Admins : b # a => call'[b] = call[b]
BY DEF Types

\* Everything compared is a number.
LEMMA CallFields ==
  ASSUME NEW c \in Calls
  PROVE  /\ c.kind \in {"none", "get", "update", "change"} /\ c.by \in Admins
         /\ c.auth \in Nat /\ c.named \in Nat /\ c.new \in Nat /\ c.value \in Nat
         /\ c.pc \in {"idle", "sent", "answered"} /\ c.err \in Errors
BY Numbers DEF Calls

LEMMA Naturals ==
  ASSUME Types
  PROVE  /\ master \in Nat /\ login \in Nat /\ drawn \in Nat
         /\ \A a \in Admins : client[a] \in Nat /\ seen[a] \in Nat /\ call[a] \in Calls
         /\ \A a \in Admins : \A k \in keys[a] : k \in Nat
         /\ \A m \in late : m \in Calls
         /\ \A x \in won : x \in Calls
BY Numbers DEF Types

\* A request stays what it is while passwords are drawn.
LEMMA MessageStays ==
  ASSUME drawn \in Nat, drawn' \in Nat, drawn <= drawn', NEW m \in Calls, Message(m)
  PROVE  Message(m)'
BY CallFields DEF Message

-----------------------------------------------------------------------------
(* The actions. *)

\* A method begins, or refuses its arguments.
LEMMA BeginInv ==
  ASSUME IInv, NEW a \in Admins, NEW c \in Calls,
         call[a].pc = "idle", call' = [call EXCEPT ![a] = c],
         c.pc \in {"idle", "sent"}, c.err \in {"none", "empty"},
         UNCHANGED <<master, login, client, seen, late, won, worked, faults>>,
         drawn' \in Passwords, drawn <= drawn',
         keys' \in [Admins -> SUBSET Passwords],
         \A b \in Admins : keys[b] \subseteq keys'[b],
         \A b \in Admins : \A k \in keys'[b] :
           k \in keys[b] \/ (b = a /\ k = drawn' /\ drawn < drawn'),
         c.pc = "sent" =>
           /\ Message(c)' /\ c.by = a /\ c.auth = client[a]
           /\ c.kind = "update" => c.named = seen[a]
           /\ c.kind = "change" => c.new = drawn' /\ drawn < drawn' /\ c.new \in keys'[a]
  PROVE  IInv'
<1> USE DEF IInv
<1>1. /\ call' \in [Admins -> Calls] /\ call'[a] = c
      /\ \A b \in Admins : b # a => call'[b] = call[b]
  BY OthersUnchanged
<1>2. /\ master \in Nat /\ login \in Nat /\ drawn \in Nat /\ drawn' \in Nat
      /\ master <= drawn /\ login <= drawn
      /\ \A b \in Admins : client[b] \in Nat /\ seen[b] \in Nat
      /\ \A b \in Admins : \A k \in keys[b] : k \in Nat
      /\ \A b \in Admins : \A k \in keys'[b] : k \in Nat
      /\ \A m \in late : m \in Calls
  BY Naturals, Numbers DEF Bounds
<1>3. \A b \in Admins : Busy(b)' => (b = a /\ c.pc = "sent") \/ (b # a /\ Busy(b))
  BY <1>1 DEF Busy
<1>4. \A b \in Admins : Nil(b)' => b # a /\ Nil(b) /\ call'[b] = call[b]
  BY <1>1 DEF Nil
<1>5. Types'
  BY <1>1 DEF Types
<1>6. Bounds'
  <2>1. \A b \in Admins : client[b] <= drawn /\ seen[b] <= master
    BY DEF Bounds
  <2>2. \A b \in Admins : \A k \in keys'[b] : k <= drawn'
    BY <1>2 DEF Bounds
  <2> QED
    BY <1>2, <2>1, <2>2 DEF Bounds
<1>7. InFlight'
  <2>1. \A m \in late : Message(m)'
    BY <1>2, MessageStays DEF InFlight
  <2>2. ASSUME NEW b \in Admins, Busy(b)'
        PROVE  /\ Message(call[b])' /\ call'[b].by = b /\ call'[b].auth = client[b]
               /\ call'[b].kind = "update" => call'[b].named = seen[b]
    <3>1. CASE b = a
      BY <1>1, <1>3, <2>2, <3>1 DEF Message
    <3>2. CASE b # a
      <4>1. Message(call[b]) /\ call[b] \in Calls /\ call'[b] = call[b]
        BY <1>1, <1>3, <2>2, <3>2 DEF InFlight, Types
      <4>2. Message(call[b])'
        BY <1>2, <4>1, CallFields DEF Message
      <4> QED
        BY <1>3, <2>2, <3>2, <4>1, <4>2 DEF InFlight
    <3> QED
      BY <3>1, <3>2
  <2> QED
    BY <2>1, <2>2 DEF InFlight
<1>8. Told'
  BY <1>4 DEF Told
<1>9. Refused'
  <2>1. \A b \in worked : b \in Admins
    BY DEF Told
  <2> QED
    BY <1>1, <2>1 DEF Refused, Refusals
<1>10. Winners'
  BY <1>4 DEF Winners
<1>11. Own'
  <2> SUFFICES ASSUME NEW b \in Admins, Changing(b)'
               PROVE  /\ call'[b].new \in keys'[b]
                      /\ \A d \in Admins : client[d] # call'[b].new
                                         /\ (call'[b].new \in keys'[d] => d = b)
                      /\ \A m \in late : m.auth # call'[b].new
                                       /\ (m.by = b => m.auth < call'[b].new)
                      /\ Nil(b)' => login = call'[b].new
                      /\ Unset(b)' =>
                           /\ login # call'[b].new
                           /\ \A m \in late : m.kind = "change" => m.new # call'[b].new
    BY DEF Own
  <2>1. CASE b = a
    <3>1. call'[b].new = drawn' /\ drawn < drawn' /\ drawn' \in keys'[a]
      BY <1>1, <1>3, <2>1 DEF Changing
    <3>2. \A d \in Admins : client[d] <= drawn
      BY DEF Bounds
    <3>3. \A d \in Admins : drawn' \in keys'[d] => d = a
      BY <1>2, <3>1 DEF Bounds
    <3>4. \A m \in late : /\ m.auth \in Nat /\ m.new \in Nat /\ m.auth <= drawn
                          /\ m.kind = "change" => m.new <= drawn
      BY <1>2, CallFields DEF InFlight, Message
    <3>5. ~Nil(b)'
      BY <1>4, <2>1
    <3> QED
      BY <1>2, <2>1, <3>1, <3>2, <3>3, <3>4, <3>5
  <2>2. CASE b # a
    <3>1. call'[b] = call[b] /\ Changing(b) /\ (Nil(b)' => Nil(b)) /\ (Unset(b)' => Unset(b))
      BY <1>1, <1>3, <1>4, <2>2 DEF Changing, Unset
    <3>2. call[b].new <= drawn /\ call[b].new \in Nat
      BY <3>1, Naturals, CallFields DEF InFlight, Message, Changing
    <3>3. call[b].new # drawn' \/ ~(drawn < drawn')
      BY <1>2, <3>2
    <3>4. \A d \in Admins : call[b].new \in keys'[d] => d = b
      BY <3>1, <3>3 DEF Own
    <3> QED
      BY <3>1, <3>4 DEF Own
  <2> QED
    BY <2>1, <2>2
<1>12. Noted'
  <2>1. \A m \in late : m.by \in Admins
    BY <1>2, CallFields
  <2> QED
    BY <2>1 DEF Noted
<1>13. NotLockedOut' /\ Counted'
  BY DEF NotLockedOut, Counted
<1> QED
  BY <1>5, <1>6, <1>7, <1>8, <1>9, <1>10, <1>11, <1>12, <1>13

\* MasterPasswordClient.Get sends a request that names no password.
LEMMA GetInv ==
  ASSUME IInv, NEW a \in Admins, Get(a)
  PROVE  IInv'
<1>0. PICK c : c = Call("get", a, Empty, Empty)
  OBVIOUS
<1>1. /\ c \in Calls /\ c.kind = "get" /\ c.by = a /\ c.auth = client[a]
      /\ c.pc = "sent" /\ c.err = "none"
  BY <1>0, CallType, Numbers DEF IInv
<1>2. drawn \in Passwords /\ drawn \in Nat /\ keys \in [Admins -> SUBSET Passwords]
      /\ client[a] \in Passwords /\ client[a] <= drawn
  BY Numbers DEF IInv, Types, Bounds
<1>3. Message(c)'
  BY <1>1, <1>2 DEF Message, Get
<1>4. call[a].pc = "idle" /\ call' = [call EXCEPT ![a] = c]
  BY <1>0 DEF Get, Begin
<1>5. /\ keys' \in [Admins -> SUBSET Passwords]
      /\ \A b \in Admins : keys[b] \subseteq keys'[b]
      /\ \A b \in Admins : \A k \in keys'[b] :
           k \in keys[b] \/ (b = a /\ k = drawn' /\ drawn < drawn')
      /\ drawn' \in Passwords /\ drawn <= drawn'
      /\ UNCHANGED <<master, login, client, seen, late, won, worked, faults>>
  BY <1>2 DEF Get
<1> QED
  BY <1>1, <1>3, <1>4, <1>5, BeginInv

\* The passwords that may be drawn.
LEMMA DrawFacts ==
  ASSUME Types, Bounds, NEW new, Draw(new)
  PROVE  /\ new \in Known /\ drawn' \in Passwords /\ drawn <= drawn'
         /\ new # Empty => new = drawn' /\ new \in Passwords /\ drawn < drawn'
BY Numbers DEF Draw, Types

\* MasterPasswordClient.Update names what its caller last learnt, or is refused.
LEMMA UpdateInv ==
  ASSUME IInv, NEW a \in Admins, NEW new, Update(a, new)
  PROVE  IInv'
<1>c. PICK c : c = Call("update", a, seen[a], new)
  OBVIOUS
<1>d. PICK d : d = [c EXCEPT !.pc = "idle", !.err = "empty"]
  OBVIOUS
<1>1. Types /\ Bounds /\ seen[a] \in Known /\ keys \in [Admins -> SUBSET Passwords]
  BY DEF IInv, Types
<1>2. /\ new \in Known /\ drawn' \in Passwords /\ drawn <= drawn'
      /\ new # Empty => new = drawn' /\ new \in Passwords /\ drawn < drawn'
  BY <1>1, DrawFacts DEF Update
<1>3. /\ c \in Calls /\ c.kind = "update" /\ c.by = a /\ c.auth = client[a]
      /\ c.named = seen[a] /\ c.new = new
      /\ c.body.OldMasterPassword = seen[a] /\ c.body.NewMasterPassword = new
      /\ c.pc = "sent" /\ c.err = "none"
  BY <1>c, <1>1, <1>2, CallType
<1>4. d \in Calls /\ d.pc = "idle" /\ d.err = "empty"
  BY <1>d, <1>3, EmptyCallType
<1>5. /\ keys' \in [Admins -> SUBSET Passwords]
      /\ \A b \in Admins : keys[b] \subseteq keys'[b]
      /\ \A b \in Admins : \A k \in keys'[b] :
           k \in keys[b] \/ (b = a /\ k = drawn' /\ drawn < drawn')
      /\ UNCHANGED <<master, login, client, seen, late, won, worked, faults>>
  BY <1>1 DEF Update
<1>6. CASE Arguments(seen[a], new)
  <2>1. /\ client[a] \in Passwords /\ client[a] <= drawn /\ client[a] \in Nat
        /\ seen[a] \in Passwords /\ seen[a] \in Nat /\ seen[a] <= drawn
        /\ drawn \in Nat /\ drawn' \in Nat
    <3>1. seen[a] \in Passwords
      BY <1>1, <1>6 DEF Arguments, Known
    <3>2. client[a] \in Passwords /\ client[a] <= drawn /\ seen[a] <= master /\ master <= drawn
      BY <1>1 DEF Types, Bounds
    <3>3. /\ master \in Nat /\ seen[a] \in Nat /\ client[a] \in Nat
          /\ drawn \in Nat /\ drawn' \in Nat
      BY <1>1, <1>2, <3>1, <3>2, Numbers DEF Types
    <3> QED
      BY <3>1, <3>2, <3>3
  <2>2. Message(c)'
    BY <1>2, <1>3, <1>6, <2>1 DEF Message, Arguments
  <2>3. call[a].pc = "idle" /\ call' = [call EXCEPT ![a] = c]
    BY <1>c, <1>6 DEF Update, Begin
  <2> QED
    BY <1>c, <1>2, <1>3, <1>5, <2>2, <2>3, BeginInv
<1>7. CASE ~Arguments(seen[a], new)
  <2>1. call[a].pc = "idle" /\ call' = [call EXCEPT ![a] = d]
    BY <1>c, <1>d, <1>7 DEF Update, Begin
  <2> QED
    BY <1>2, <1>4, <1>5, <2>1, BeginInv
<1> QED
  BY <1>6, <1>7

\* SelfPasswordClient.Change notes its new password before it sends it, or is refused.
LEMMA ChangeInv ==
  ASSUME IInv, NEW a \in Admins, NEW new, Change(a, new)
  PROVE  IInv'
<1>c. PICK c : c = Call("change", a, Empty, new)
  OBVIOUS
<1>d. PICK d : d = [c EXCEPT !.pc = "idle", !.err = "empty"]
  OBVIOUS
<1>1. Types /\ Bounds /\ keys \in [Admins -> SUBSET Passwords]
  BY DEF IInv, Types
<1>2. /\ new \in Known /\ drawn' \in Passwords /\ drawn <= drawn'
      /\ new # Empty => new = drawn' /\ new \in Passwords /\ drawn < drawn'
  BY <1>1, DrawFacts DEF Change
<1>3. /\ c \in Calls /\ c.kind = "change" /\ c.by = a /\ c.auth = client[a]
      /\ c.new = new /\ c.pc = "sent" /\ c.err = "none"
  BY <1>c, <1>1, <1>2, CallType, Numbers
<1>4. d \in Calls /\ d.pc = "idle" /\ d.err = "empty"
  BY <1>d, <1>3, EmptyCallType
<1>5. /\ keys' \in [Admins -> SUBSET Passwords]
      /\ \A b \in Admins : keys[b] \subseteq keys'[b]
      /\ \A b \in Admins : \A k \in keys'[b] :
           k \in keys[b] \/ (b = a /\ k = drawn' /\ drawn < drawn')
      /\ new # Empty => new \in keys'[a]
  <2>1. CASE new = Empty
    BY <1>1, <2>1 DEF Change
  <2>2. CASE new # Empty
    <3>1. keys' = [keys EXCEPT ![a] = keys[a] \cup {new}]
      BY <1>1, <2>2 DEF Change
    <3> QED
      BY <1>1, <1>2, <2>2, <3>1
  <2> QED
    BY <2>1, <2>2
<1>6. CASE new # Empty
  <2>1. /\ client[a] \in Passwords /\ client[a] <= drawn /\ client[a] \in Nat
        /\ drawn \in Nat /\ drawn' \in Nat
    BY <1>1, <1>2, Numbers DEF Types, Bounds
  <2>2. Message(c)'
    BY <1>2, <1>3, <1>6, <2>1 DEF Message
  <2>3. call[a].pc = "idle" /\ call' = [call EXCEPT ![a] = c]
    BY <1>c, <1>6 DEF Change, Begin
  <2> QED
    BY <1>2, <1>3, <1>5, <1>6, <2>2, <2>3, BeginInv DEF Change
<1>7. CASE new = Empty
  <2>1. call[a].pc = "idle" /\ call' = [call EXCEPT ![a] = d]
    BY <1>c, <1>d, <1>7 DEF Change, Begin
  <2> QED
    BY <1>2, <1>4, <1>5, <2>1, BeginInv DEF Change
<1> QED
  BY <1>6, <1>7

\* A Client with a password its caller kept is nobody's new password.
LEMMA NewInv ==
  ASSUME IInv, NEW a \in Admins, New(a)
  PROVE  IInv'
<1> USE DEF IInv
<1>1. PICK key \in keys[a] : client' = [client EXCEPT ![a] = key]
  BY DEF New
<1>2. key \in Passwords /\ client' \in [Admins -> Passwords] /\ client'[a] = key
      /\ key <= drawn /\ \A b \in Admins : b # a => client'[b] = client[b]
  BY <1>1 DEF Types, Bounds
<1>3. ~Busy(a) /\ worked' = worked \ {a}
  BY DEF New, Busy
<1>4. UNCHANGED <<master, login, call, seen, keys, late, won, drawn, faults>>
  BY DEF New
<1>5. Types' /\ Bounds'
  BY <1>2, <1>4 DEF Types, Bounds
<1>6. InFlight'
  <2>1. \A b \in Admins : Busy(b)' => Busy(b) /\ b # a
    BY <1>3, <1>4 DEF Busy
  <2>2. \A m : Message(m)' = Message(m)
    BY <1>4 DEF Message
  <2>3. \A b \in Admins : Message(call[b])' = Message(call[b])
    BY <1>4 DEF Message
  <2> QED
    BY <1>2, <1>4, <2>1, <2>2, <2>3 DEF InFlight
<1>7. Told' /\ Refused' /\ Winners'
  BY <1>2, <1>3, <1>4 DEF Told, Refused, Winners, Nil
<1>8. Own'
  <2>1. ASSUME NEW b \in Admins, Changing(b)
        PROVE  \A d \in Admins : client'[d] # call[b].new
    <3>1. b # a /\ key # call[b].new
      BY <1>3, <2>1 DEF Own, Changing
    <3> QED
      BY <1>2, <2>1, <3>1 DEF Own
  <2> QED
    BY <1>4, <2>1 DEF Own, Changing, Busy, Nil, Unset
<1>9. Noted' /\ NotLockedOut' /\ Counted'
  BY <1>4 DEF Noted, NotLockedOut, Counted
<1> QED
  BY <1>5, <1>6, <1>7, <1>8, <1>9

\* A request that is handled leaves what was known of the others, unless one of
\* them waits for the password it sets.
LEMMA HandledInv ==
  ASSUME IInv, NEW m \in Calls, Message(m), Handle(m), drawn' = drawn,
         UNCHANGED <<client, seen, keys, won, worked>>
  PROVE  /\ Bounds'
         /\ \A b \in Admins : Nil(b) =>
              /\ call[b].auth <= login'
              /\ call[b].kind = "update" => call[b].named < master' /\ call[b].new <= master'
              /\ call[b].kind = "get" => call[b].value <= master'
         /\ \A b \in worked : b \in Admins /\ client[b] <= login'
         /\ \A b \in worked :
              call[b].err \in Refusals =>
                call[b].auth < login' \/ (call[b].kind = "update" /\ call[b].named < master')
         /\ \A x \in won : x.named < master'
         /\ \A n \in late : n.kind = "change" => n.new \in keys[n.by] \/ n.auth < login'
<1> USE DEF IInv
<1>1. /\ master \in Nat /\ login \in Nat /\ drawn \in Nat /\ master' \in Nat /\ login' \in Nat
      /\ master <= master' /\ login <= login' /\ master' <= drawn /\ login' <= drawn
  BY HandleFacts, Naturals, Numbers
<1>2. \A b \in Admins : /\ call[b].auth \in Nat /\ call[b].named \in Nat
                        /\ call[b].new \in Nat /\ call[b].value \in Nat
                        /\ client[b] \in Nat /\ seen[b] \in Nat
  BY Naturals, CallFields
<1>3. Bounds'
  <2>1. \A b \in Admins : seen[b] <= master'
    BY <1>1, <1>2 DEF Bounds
  <2> QED
    BY <1>1, <2>1 DEF Bounds
<1>4. \A b \in Admins : Nil(b) =>
        /\ call[b].auth <= login'
        /\ call[b].kind = "update" => call[b].named < master' /\ call[b].new <= master'
        /\ call[b].kind = "get" => call[b].value <= master'
  BY <1>1, <1>2 DEF Told
<1>5. \A b \in worked : b \in Admins /\ client[b] <= login'
  BY <1>1, <1>2 DEF Told
<1>6. \A b \in worked :
        call[b].err \in Refusals =>
          call[b].auth < login' \/ (call[b].kind = "update" /\ call[b].named < master')
  BY <1>1, <1>2, <1>5 DEF Refused
<1>7. \A x \in won : x.named < master'
  <2>1. \A x \in won : x.named \in Nat
    BY Naturals, CallFields
  <2> QED
    BY <1>1, <2>1 DEF Winners
<1>8. \A n \in late : n.kind = "change" => n.new \in keys[n.by] \/ n.auth < login'
  <2>1. \A n \in late : n.auth \in Nat
    BY Naturals, CallFields
  <2> QED
    BY <1>1, <2>1 DEF Noted
<1> QED
  BY <1>3, <1>4, <1>5, <1>6, <1>7, <1>8

\* The request of one that waits is handled.
LEMMA ServeInv ==
  ASSUME IInv, NEW a \in Admins, Serve(a)
  PROVE  IInv'
<1> USE DEF IInv
<1>1. PICK m : m = call[a]
  OBVIOUS
<1>2. PICK d : d = [m EXCEPT !.pc = "answered", !.err = Answer(m), !.value = master]
  OBVIOUS
<1>3. /\ m \in Calls /\ m.pc = "sent" /\ Message(m) /\ Handle(m)
      /\ m.by = a /\ m.auth = client[a] /\ (m.kind = "update" => m.named = seen[a])
  BY <1>1 DEF Serve, InFlight, Busy, Types
<1>4. /\ master' \in Passwords /\ master <= master' /\ master' <= drawn
      /\ login' \in Passwords /\ login <= login' /\ login' <= drawn
      /\ master' # master => m.kind = "update" /\ m.named = master /\ master' = m.new
      /\ login' # login => m.kind = "change" /\ m.auth = login /\ login' = m.new
  BY <1>3, HandleFacts
<1>5. /\ Answer(m) \in {"nil"} \cup Refusals
      /\ Answer(m) = "nil" =>
           /\ m.auth = login
           /\ m.kind = "update" => m.named = master /\ master' = m.new
           /\ m.kind = "change" => login' = m.new
      /\ Answer(m) # "nil" =>
           /\ UNCHANGED <<master, login>>
           /\ m.auth # login \/ (m.kind = "update" /\ m.named # master)
  BY <1>3, AnswerFacts
<1>6. master \in Known /\ Answer(m) \in Errors
  BY <1>5, Numbers DEF Types, Errors, Refusals, Definite
<1>7. /\ d \in Calls /\ d.pc = "answered" /\ d.err = Answer(m) /\ d.value = master
      /\ d.kind = m.kind /\ d.by = m.by /\ d.auth = m.auth /\ d.named = m.named
      /\ d.body = m.body /\ d.new = m.new
  <2>1. PICK e \in Errors : e = Answer(m)
    BY <1>6
  <2>2. PICK v \in Known : v = master
    BY <1>6
  <2>3. d = [m EXCEPT !.pc = "answered", !.err = e, !.value = v]
    BY <1>2, <2>1, <2>2
  <2>4. /\ d \in Calls /\ d.pc = "answered" /\ d.err = e /\ d.value = v
        /\ d.kind = m.kind /\ d.by = m.by /\ d.auth = m.auth /\ d.named = m.named
        /\ d.body = m.body /\ d.new = m.new
    <3>1. m \in Calls
      BY <1>3
    <3> QED
      BY <2>3, <3>1 DEF Calls
  <2> QED
    BY <2>1, <2>2, <2>4
<1>8. call' = [call EXCEPT ![a] = d]
  BY <1>1, <1>2 DEF Serve, ErrorOf, Types
<1>9. /\ call' \in [Admins -> Calls] /\ call'[a] = d
      /\ \A b \in Admins : b # a => call'[b] = call[b]
  BY <1>7, <1>8, OthersUnchanged
<1>10. UNCHANGED <<client, seen, keys, late, won, worked, drawn, faults>>
  BY DEF Serve
<1>11. /\ Bounds'
       /\ \A b \in Admins : Nil(b) =>
            /\ call[b].auth <= login'
            /\ call[b].kind = "update" => call[b].named < master' /\ call[b].new <= master'
            /\ call[b].kind = "get" => call[b].value <= master'
       /\ \A b \in worked : b \in Admins /\ client[b] <= login'
       /\ \A b \in worked :
            call[b].err \in Refusals =>
              call[b].auth < login' \/ (call[b].kind = "update" /\ call[b].named < master')
       /\ \A x \in won : x.named < master'
       /\ \A n \in late : n.kind = "change" => n.new \in keys[n.by] \/ n.auth < login'
  BY <1>3, <1>10, HandledInv
<1>12. /\ master \in Nat /\ login \in Nat /\ drawn \in Nat /\ master' \in Nat /\ login' \in Nat
       /\ m.auth \in Nat /\ m.named \in Nat /\ m.new \in Nat
       /\ seen[a] \in Nat /\ seen[a] <= master /\ master \in Passwords
  BY <1>3, <1>4, Naturals, CallFields, Numbers DEF Bounds, Types
<1>13. \A b \in Admins : b # a => (Nil(b)' <=> Nil(b)) /\ (Busy(b)' <=> Busy(b))
  BY <1>9 DEF Nil, Busy
<1>14. Nil(a)' => Answer(m) = "nil"
  BY <1>7, <1>9 DEF Nil
<1>15. Types'
  BY <1>4, <1>9, <1>10 DEF Types
<1>16. InFlight'
  <2>1. \A n : Message(n)' <=> Message(n)
    BY <1>10 DEF Message
  <2>2. Message(call[a])'
    BY <1>3, <1>7, <1>9, <1>10 DEF Message
  <2>3. \A b \in Admins : b # a => (Message(call[b])' <=> Message(call[b]))
    BY <1>9, <1>10 DEF Message
  <2> QED
    BY <1>3, <1>7, <1>9, <1>10, <1>13, <2>1, <2>2, <2>3 DEF InFlight
<1>17. Told'
  <2>1. Nil(a)' =>
          /\ d.auth <= login'
          /\ d.kind = "update" => d.named < master' /\ d.new <= master'
          /\ d.kind = "get" => d.value \in Passwords /\ seen[a] <= d.value /\ d.value <= master'
    <3> SUFFICES ASSUME Nil(a)'
                 PROVE  /\ d.auth <= login'
                        /\ d.kind = "update" => d.named < master' /\ d.new <= master'
                        /\ d.kind = "get" =>
                             d.value \in Passwords /\ seen[a] <= d.value /\ d.value <= master'
      OBVIOUS
    <3>1. d.auth <= login' /\ d.value <= master'
      BY <1>4, <1>5, <1>7, <1>12, <1>14
    <3>2. d.kind = "update" => d.named < master' /\ d.new <= master'
      BY <1>3, <1>5, <1>7, <1>12, <1>14 DEF Message
    <3> QED
      BY <1>7, <1>12, <3>1, <3>2
  <2>2. \A b \in Admins : Nil(b)' =>
          /\ call'[b].auth <= login'
          /\ call'[b].kind = "update" => call'[b].named < master' /\ call'[b].new <= master'
          /\ call'[b].kind = "get" =>
               /\ call'[b].value \in Passwords
               /\ seen[b] <= call'[b].value /\ call'[b].value <= master'
    BY <1>9, <1>11, <1>13, <2>1 DEF Told
  <2> QED
    BY <1>10, <1>11, <2>2 DEF Told
<1>18. Refused'
  <2>1. a \in worked /\ d.err \in Refusals =>
          d.auth < login' \/ (d.kind = "update" /\ d.named < master')
    <3>1. a \in worked => m.auth <= login
      BY <1>3 DEF Told
    <3>2. m.kind = "update" => m.named <= master
      BY <1>3, <1>12
    <3>3. d.err \in Refusals => Answer(m) # "nil"
      BY <1>7 DEF Refusals
    <3> QED
      BY <1>5, <1>7, <1>12, <3>1, <3>2, <3>3
  <2> QED
    BY <1>9, <1>10, <1>11, <2>1 DEF Refused
<1>19. Winners'
  <2>1. \A b \in Admins : b # a /\ Nil(b) /\ call[b].kind = "update" => call[b].named < master
    BY DEF Told
  <2>2. \A x \in won : x.named < master /\ x.named \in Nat
    BY Naturals, CallFields DEF Winners
  <2>3. \A b \in Admins : call[b].named \in Nat
    BY Naturals, CallFields
  <2>4. Nil(a)' /\ d.kind = "update" => d.named = master
    BY <1>5, <1>7, <1>14
  <2>5. ASSUME NEW b \in Admins, Nil(b)', call'[b].kind = "update"
        PROVE  /\ \A x \in won : x.named # call'[b].named
               /\ \A e \in Admins :
                    Nil(e)' /\ call'[e].kind = "update" /\ call'[e].named = call'[b].named => e = b
    <3>1. CASE b = a
      BY <1>9, <1>12, <1>13, <2>1, <2>2, <2>3, <2>4, <2>5, <3>1
    <3>2. CASE b # a
      BY <1>9, <1>12, <1>13, <2>1, <2>2, <2>3, <2>4, <2>5, <3>2 DEF Winners
    <3> QED
      BY <3>1, <3>2
  <2> QED
    BY <1>10, <1>11, <2>5 DEF Winners
<1>20. Own'
  <2> SUFFICES ASSUME NEW b \in Admins, Changing(b)'
               PROVE  /\ call'[b].new \in keys[b]
                      /\ \A e \in Admins : client[e] # call'[b].new
                                         /\ (call'[b].new \in keys[e] => e = b)
                      /\ \A n \in late : n.auth # call'[b].new
                                       /\ (n.by = b => n.auth < call'[b].new)
                      /\ Nil(b)' => login' = call'[b].new
                      /\ Unset(b)' =>
                           /\ login' # call'[b].new
                           /\ \A n \in late : n.kind = "change" => n.new # call'[b].new
    BY <1>10 DEF Own
  <2>1. CASE b = a
    <3>1. Changing(a) /\ Unset(a) /\ d.new = call[a].new /\ m.kind = "change"
      BY <1>1, <1>3, <1>7, <1>9, <2>1 DEF Changing, Busy, Unset
    <3>2. Nil(a)' => login' = d.new
      BY <1>5, <1>7, <1>14, <3>1
    <3>3. Unset(a)' => login' = login
      BY <1>5, <1>7, <1>9 DEF Unset, Definite
    <3> QED
      BY <1>9, <2>1, <3>1, <3>2, <3>3 DEF Own
  <2>2. CASE b # a
    <3>1. /\ call'[b] = call[b] /\ Changing(b)
          /\ (Nil(b)' <=> Nil(b)) /\ (Unset(b)' <=> Unset(b))
      BY <1>9, <1>13, <2>2 DEF Changing, Unset
    <3>2. m.auth # call[b].new
      BY <1>3, <3>1 DEF Own
    <3>3. m.kind = "change" => m.new # call[b].new
      <4>1. m.kind = "change" => m.new \in keys[a]
        BY <1>1, <1>3 DEF Own, Changing, Busy
      <4> QED
        BY <2>2, <3>1, <4>1 DEF Own
    <3>4. Nil(b) => login' = call[b].new
      BY <1>4, <3>1, <3>2 DEF Own
    <3>5. Unset(b) => login' # call[b].new
      BY <1>4, <3>1, <3>3 DEF Own
    <3> QED
      BY <3>1, <3>4, <3>5 DEF Own
  <2> QED
    BY <2>1, <2>2
<1>21. Noted'
  <2>1. \A n \in late : n.kind = "change" => n.new \in keys'[n.by] \/ n.auth < login'
    BY <1>10, <1>11
  <2> QED
    BY <1>10, <2>1 DEF Noted
<1>22. NotLockedOut'
  <2>1. m.kind = "change" => m.new \in keys[a]
    BY <1>1, <1>3 DEF Own, Changing, Busy
  <2> QED
    BY <1>4, <1>10, <2>1 DEF NotLockedOut
<1>23. Counted'
  BY <1>10 DEF Counted
<1> QED
  BY <1>11, <1>15, <1>16, <1>17, <1>18, <1>19, <1>20, <1>21, <1>22, <1>23

\* What an admin has learnt is a number.
LEMMA SeenIsNumber == Types => \A a \in Admins : seen[a] <= seen[a]
BY Naturals

\* A call that fails: refused by the policy, given up, or answered by a proxy, in
\* which case the request may still be underway.
LEMMA FailedInv ==
  ASSUME IInv, NEW a \in Admins, NEW m, m = call[a], NEW d \in Calls,
         call' = [call EXCEPT ![a] = d], Busy(a),
         d.pc = "answered", d.err \in {"bad request", "transport", "gateway"},
         d.err = "bad request" => m.pc = "sent",
         d.kind = m.kind, d.by = m.by, d.auth = m.auth, d.named = m.named,
         d.body = m.body, d.new = m.new,
         UNCHANGED <<master, login, client, seen, keys, won, worked, drawn>>,
         faults' \in Nat, Counted',
         late' = late \/ (late' = late \cup {m} /\ d.err # "bad request")
  PROVE  IInv'
<1> USE DEF IInv
<1>1. /\ call' \in [Admins -> Calls] /\ call'[a] = d
      /\ \A b \in Admins : b # a => call'[b] = call[b]
  BY OthersUnchanged
<1>2. /\ m \in Calls /\ Message(m) /\ m.by = a /\ m.auth = client[a]
      /\ m.kind = "update" => m.named = seen[a]
  BY DEF InFlight, Types
<1>3. \A b \in Admins : /\ Nil(b)' => b # a /\ Nil(b)
                        /\ Busy(b)' <=> Busy(b)
  BY <1>1 DEF Nil, Busy
<1>4. \A n \in late' : n \in late \/ (n = m /\ d.err # "bad request")
  OBVIOUS
<1>5. Types'
  BY <1>1, <1>2 DEF Types
<1>6. Bounds'
  BY DEF Bounds
<1>7. InFlight'
  <2>1. \A n : Message(n)' <=> Message(n)
    BY DEF Message
  <2>2. Message(call[a])'
    BY <1>1, <1>2 DEF Message
  <2>3. \A b \in Admins : b # a => (Message(call[b])' <=> Message(call[b]))
    BY <1>1 DEF Message
  <2> QED
    BY <1>1, <1>2, <1>3, <1>4, <2>1, <2>2, <2>3 DEF InFlight
<1>8. Told'
  <2>1. seen[a] <= seen[a]
    BY SeenIsNumber
  <2>2. m.kind = "update" => m.named <= seen[m.by]
    BY <1>2, <2>1, Zenon
  <2> QED
    BY <1>1, <1>3, <1>4, <2>2 DEF Told
<1>9. Refused'
  BY <1>1 DEF Refused, Told, Refusals
<1>10. Winners'
  BY <1>1, <1>3 DEF Winners
<1>11. Own'
  <2> SUFFICES ASSUME NEW b \in Admins, Changing(b)'
               PROVE  /\ call'[b].new \in keys[b]
                      /\ \A e \in Admins : client[e] # call'[b].new
                                         /\ (call'[b].new \in keys[e] => e = b)
                      /\ \A n \in late' : n.auth # call'[b].new
                                        /\ (n.by = b => n.auth < call'[b].new)
                      /\ Nil(b)' => login = call'[b].new
                      /\ Unset(b)' =>
                           /\ login # call'[b].new
                           /\ \A n \in late' : n.kind = "change" => n.new # call'[b].new
    BY DEF Own
  <2>1. Changing(b) /\ call'[b].new = call[b].new
    BY <1>1, <1>3 DEF Changing
  <2>2. m.auth # call[b].new /\ (a = b => m.auth < call[b].new)
    <3>1. client[a] # call[b].new
      BY <2>1 DEF Own
    <3>2. a = b => m.kind = "change"
      BY <2>1 DEF Changing
    <3> QED
      BY <1>2, <3>1, <3>2 DEF Message
  <2>3. Unset(b)' => Unset(b)
    BY <1>1 DEF Unset, Definite
  <2>4. Unset(b)' /\ m \in late' /\ m \notin late /\ m.kind = "change" => m.new # call[b].new
    <3>1. b = a /\ Unset(b)' => d.err = "bad request"
      BY <1>1 DEF Unset, Definite
    <3>2. m.kind = "change" => m.new \in keys[a]
      BY DEF Own, Changing
    <3>3. b # a /\ m.kind = "change" => m.new # call[b].new
      BY <2>1, <3>2 DEF Own
    <3> QED
      BY <1>4, <3>1, <3>3
  <2>5. /\ call[b].new \in keys[b]
        /\ \A e \in Admins : client[e] # call[b].new /\ (call[b].new \in keys[e] => e = b)
        /\ \A n \in late : n.auth # call[b].new /\ (n.by = b => n.auth < call[b].new)
        /\ Nil(b) => login = call[b].new
        /\ Unset(b) =>
             /\ login # call[b].new
             /\ \A n \in late : n.kind = "change" => n.new # call[b].new
    BY <2>1 DEF Own
  <2>6. \A n \in late' : n.auth # call[b].new /\ (n.by = b => n.auth < call[b].new)
    BY <1>2, <1>4, <2>2, <2>5
  <2>7. Unset(b)' => \A n \in late' : n.kind = "change" => n.new # call[b].new
    BY <1>4, <2>3, <2>4, <2>5
  <2> QED
    BY <1>3, <2>1, <2>3, <2>5, <2>6, <2>7
<1>12. Noted'
  <2>1. m.kind = "change" => m.new \in keys[m.by]
    BY <1>2 DEF Own, Changing
  <2> QED
    BY <1>4, <2>1 DEF Noted
<1>13. NotLockedOut'
  BY DEF NotLockedOut
<1> QED
  BY <1>5, <1>6, <1>7, <1>8, <1>9, <1>10, <1>11, <1>12, <1>13

\* A new password the server's policy refuses changes nothing.
LEMMA ServePolicyInv ==
  ASSUME IInv, NEW a \in Admins, ServePolicy(a)
  PROVE  IInv'
<1>1. PICK m : m = call[a]
  OBVIOUS
<1>2. PICK d : d = [m EXCEPT !.pc = "answered", !.err = "bad request"]
  OBVIOUS
<1>3. m \in Calls /\ m.pc = "sent" /\ Busy(a)
  BY <1>1 DEF IInv, Types, ServePolicy, Busy
<1>4. /\ d \in Calls /\ d.pc = "answered" /\ d.err = "bad request"
      /\ d.kind = m.kind /\ d.by = m.by /\ d.auth = m.auth /\ d.named = m.named
      /\ d.body = m.body /\ d.new = m.new
  BY <1>2, <1>3 DEF Calls, Errors, Definite
<1>5. call' = [call EXCEPT ![a] = d]
  BY <1>1, <1>2 DEF ServePolicy, ErrorOf, IInv, Types
<1>6. UNCHANGED <<master, login, client, seen, keys, late, won, worked, drawn, faults>>
  BY DEF ServePolicy
<1>7. faults' \in Nat /\ Counted'
  BY <1>6 DEF IInv, Types, Counted
<1> QED
  BY <1>1, <1>3, <1>4, <1>5, <1>6, <1>7, FailedInv

\* A call that is given up, or answered by a proxy, may leave its request behind.
LEMMA FailInv ==
  ASSUME IInv, NEW a \in Admins, Fail(a)
  PROVE  IInv'
<1>1. PICK m : m = call[a]
  OBVIOUS
<1>2. PICK answer \in {"transport", "gateway"} :
        call' = [call EXCEPT ![a].pc = "answered", ![a].err = ErrorOf(answer), ![a].value = Empty]
  BY DEF Fail
<1>3. PICK d : d = [m EXCEPT !.pc = "answered", !.err = answer, !.value = Empty]
  OBVIOUS
<1>4. m \in Calls /\ Busy(a)
  BY <1>1 DEF IInv, Types, Fail, Busy
<1>5. /\ d \in Calls /\ d.pc = "answered" /\ d.err = answer
      /\ d.kind = m.kind /\ d.by = m.by /\ d.auth = m.auth /\ d.named = m.named
      /\ d.body = m.body /\ d.new = m.new
  BY <1>3, <1>4, Numbers DEF Calls, Errors
<1>6. call' = [call EXCEPT ![a] = d]
  BY <1>1, <1>2, <1>3 DEF ErrorOf, IInv, Types
<1>7. /\ UNCHANGED <<master, login, client, seen, keys, won, worked, drawn>>
      /\ faults < MaxFaults /\ faults' = faults + 1
      /\ late' = late \/ late' = late \cup {m}
  BY <1>1 DEF Fail
<1>8. faults' \in Nat /\ Counted'
  <2>1. /\ faults \in Nat /\ MaxFaults \in Nat /\ IsFiniteSet(late)
        /\ Cardinality(late) \in Nat /\ Cardinality(late) <= faults
    BY PasswordsAssumption, FS_CardinalityType DEF IInv, Types, Counted
  <2>2. /\ IsFiniteSet(late') /\ Cardinality(late') \in Nat
        /\ Cardinality(late') <= Cardinality(late) + 1
    <3>1. /\ IsFiniteSet(late \cup {m}) /\ Cardinality(late \cup {m}) \in Nat
          /\ Cardinality(late \cup {m}) <= Cardinality(late) + 1
      <4>1. IsFiniteSet(late \cup {m})
        BY <2>1, FS_AddElement
      <4>2. Cardinality(late \cup {m}) =
              IF m \in late THEN Cardinality(late) ELSE Cardinality(late) + 1
        BY <2>1, FS_AddElement
      <4> QED
        BY <2>1, <4>1, <4>2
    <3> QED
      BY <1>7, <2>1, <3>1
  <2> QED
    BY <1>7, <2>1, <2>2 DEF Counted
<1> QED
  BY <1>1, <1>4, <1>5, <1>6, <1>7, <1>8, FailedInv

\* A request arrives after its caller has stopped waiting.
LEMMA ArriveInv ==
  ASSUME IInv, NEW m \in late, Arrive(m)
  PROVE  IInv'
<1> USE DEF IInv
<1>1. m \in Calls /\ Message(m) /\ Handle(m) /\ m.by \in Admins
  BY CallFields DEF Types, InFlight, Arrive
<1>2. /\ master' \in Passwords /\ login' \in Passwords
      /\ login' # login => m.kind = "change" /\ m.auth = login /\ login' = m.new
  BY <1>1, HandleFacts
<1>3. late' = late \ {m} /\ UNCHANGED <<client, call, seen, keys, won, worked, drawn, faults>>
  BY DEF Arrive
<1>4. /\ Bounds'
      /\ \A b \in Admins : Nil(b) =>
           /\ call[b].auth <= login'
           /\ call[b].kind = "update" => call[b].named < master' /\ call[b].new <= master'
           /\ call[b].kind = "get" => call[b].value <= master'
      /\ \A b \in worked : b \in Admins /\ client[b] <= login'
      /\ \A b \in worked :
           call[b].err \in Refusals =>
             call[b].auth < login' \/ (call[b].kind = "update" /\ call[b].named < master')
      /\ \A x \in won : x.named < master'
      /\ \A n \in late : n.kind = "change" => n.new \in keys[n.by] \/ n.auth < login'
  BY <1>1, <1>3, HandledInv
<1>5. \A b \in Admins : (Nil(b)' <=> Nil(b)) /\ (Busy(b)' <=> Busy(b)) /\ (Unset(b)' <=> Unset(b))
  BY <1>3 DEF Nil, Busy, Unset
<1>6. Types'
  BY <1>2, <1>3 DEF Types
<1>7. InFlight'
  <2>1. \A n : Message(n)' <=> Message(n)
    BY <1>3 DEF Message
  <2>2. \A b \in Admins : Message(call[b])' <=> Message(call[b])
    BY <1>3 DEF Message
  <2> QED
    BY <1>3, <1>5, <2>1, <2>2 DEF InFlight
<1>8. Told'
  <2>1. \A b \in Admins : Nil(b) /\ call[b].kind = "get" =>
          call[b].value \in Passwords /\ seen[b] <= call[b].value
    BY DEF Told
  <2>2. \A n \in late' : n.kind = "update" => n.named <= seen[n.by]
    BY <1>3 DEF Told
  <2> QED
    BY <1>3, <1>4, <1>5, <2>1, <2>2 DEF Told
<1>9. Refused'
  BY <1>3, <1>4 DEF Refused
<1>10. Winners'
  BY <1>3, <1>4, <1>5 DEF Winners
<1>11. Own'
  <2>1. ASSUME NEW b \in Admins, Changing(b)
        PROVE  (Nil(b) => login' = call[b].new) /\ (Unset(b) => login' # call[b].new)
    BY <1>2, <2>1 DEF Own
  <2>2. \A b \in Admins : Changing(b)' <=> Changing(b)
    BY <1>3, <1>5 DEF Changing
  <2>3. \A n \in late' : n \in late
    BY <1>3
  <2> QED
    BY <1>3, <1>5, <2>1, <2>2, <2>3 DEF Own
<1>12. Noted'
  <2>1. \A n \in late' : n.kind = "change" => n.new \in keys'[n.by] \/ n.auth < login'
    BY <1>3, <1>4
  <2> QED
    BY <2>1 DEF Noted
<1>13. NotLockedOut'
  <2>1. login' # login => m.new \in keys[m.by] \/ m.auth < login
    BY <1>2 DEF Noted
  <2>2. ~(login < login)
    BY Naturals
  <2>3. login' # login => m.new \in keys[m.by]
    BY <1>2, <2>1, <2>2
  <2> QED
    BY <1>1, <1>2, <1>3, <2>3 DEF NotLockedOut
<1>14. Counted'
  <2>1. /\ IsFiniteSet(late) /\ Cardinality(late) \in Nat
        /\ Cardinality(late) <= faults /\ faults <= MaxFaults
    BY FS_CardinalityType DEF Counted
  <2>2. IsFiniteSet(late \ {m}) /\ Cardinality(late \ {m}) = Cardinality(late) - 1
    BY <2>1, FS_RemoveElement
  <2>3. faults \in Nat
    BY DEF Types
  <2> QED
    BY <1>3, <2>1, <2>2, <2>3 DEF Counted
<1> QED
  BY <1>4, <1>6, <1>7, <1>8, <1>9, <1>10, <1>11, <1>12, <1>13, <1>14

\* A call returns, and its caller draws the conclusions.
LEMMA ReturnInv ==
  ASSUME IInv, NEW a \in Admins, Return(a)
  PROVE  IInv'
<1> USE DEF IInv
<1>1. PICK c : c = call[a]
  OBVIOUS
<1>2. PICK d : d = [c EXCEPT !.pc = "idle"]
  OBVIOUS
<1>3. /\ c \in Calls /\ c.pc = "answered" /\ Busy(a) /\ Message(c)
      /\ c.by = a /\ c.auth = client[a] /\ (c.kind = "update" => c.named = seen[a])
      /\ Nil(a) <=> c.err = "nil"
  BY <1>1 DEF Return, InFlight, Busy, Nil, Types
<1>4. /\ d \in Calls /\ d.pc = "idle" /\ d.err = c.err
      /\ d.kind = c.kind /\ d.auth = c.auth /\ d.named = c.named
  BY <1>2, <1>3 DEF Calls
<1>5. call' = [call EXCEPT ![a] = d]
  BY <1>1, <1>2 DEF Return
<1>6. /\ call' \in [Admins -> Calls] /\ call'[a] = d
      /\ \A b \in Admins : b # a => call'[b] = call[b]
  BY <1>4, <1>5, OthersUnchanged
<1>7. UNCHANGED <<master, login, client, late, drawn, faults>>
  BY DEF Return
<1>8. \A b \in Admins : /\ Nil(b)' => b # a /\ Nil(b)
                        /\ Busy(b)' => b # a /\ Busy(b)
  BY <1>4, <1>6 DEF Nil, Busy
<1>9. /\ c.err = "nil" =>
           /\ c.auth <= login
           /\ c.kind = "update" => c.named < master /\ c.new <= master
           /\ c.kind = "get" => c.value \in Passwords /\ seen[a] <= c.value /\ c.value <= master
  BY <1>1, <1>3 DEF Told
<1>10. c.kind = "change" =>
         /\ c.new \in Passwords /\ c.new <= drawn /\ c.new \in keys[a]
         /\ \A n \in late : n.by = a => n.auth < c.new
         /\ c.err = "nil" => login = c.new
         /\ c.err \in Definite =>
              login # c.new /\ \A n \in late : n.kind = "change" => n.new # c.new
  BY <1>1, <1>3 DEF Own, Changing, Unset, Message
<1>11. /\ \A b \in Admins : b # a => seen'[b] = seen[b] /\ keys'[b] = keys[b]
       /\ seen' \in [Admins -> Known] /\ seen[a] <= seen'[a] /\ seen'[a] <= master
  <2>1. CASE c.err = "nil" /\ c.kind = "get"
    <3>1. seen' = [seen EXCEPT ![a] = c.value]
      BY <1>1, <2>1 DEF Return
    <3> QED
      BY <1>9, <2>1, <3>1, Numbers DEF Types, Return
  <2>2. CASE c.err = "nil" /\ c.kind = "update"
    <3>1. seen' = [seen EXCEPT ![a] = c.new]
      BY <1>1, <2>2 DEF Return
    <3>2. c.new \in Passwords /\ c.new \in Nat /\ c.named \in Nat /\ c.named < c.new
      BY <1>3, <2>2, CallFields DEF Message
    <3> QED
      BY <1>3, <1>9, <2>2, <3>1, <3>2, Numbers DEF Types, Return
  <2>3. CASE c.err # "nil" \/ c.kind \notin {"get", "update"}
    <3>1. seen' = [seen EXCEPT ![a] = seen[a]]
      BY <1>1, <2>3 DEF Return
    <3>2. seen[a] <= seen[a] /\ seen[a] <= master
      BY SeenIsNumber DEF Bounds
    <3> QED
      BY <3>1, <3>2 DEF Types, Return
  <2> QED
    BY <2>1, <2>2, <2>3
<1>12. /\ keys' \in [Admins -> SUBSET Passwords]
       /\ \A b \in Admins : keys'[b] \subseteq keys[b]
       /\ login \in keys[a] => login \in keys'[a]
       /\ \A n \in late : n.kind = "change" /\ n.by = a /\ n.new \in keys[a] =>
            n.new \in keys'[a] \/ n.auth < login
  <2>1. CASE c.kind = "change" /\ c.err = "nil"
    <3>1. keys' = [keys EXCEPT ![a] = {c.new}]
      BY <1>1, <2>1 DEF Return
    <3> QED
      BY <1>10, <2>1, <3>1 DEF Types
  <2>2. CASE c.kind = "change" /\ c.err \in Definite
    <3>1. keys' = [keys EXCEPT ![a] = keys[a] \ {c.new}]
      BY <1>1, <2>2 DEF Return, Definite
    <3> QED
      BY <1>10, <2>2, <3>1 DEF Types
  <2>3. CASE c.kind # "change" \/ (c.err # "nil" /\ c.err \notin Definite)
    <3>1. keys' = [keys EXCEPT ![a] = keys[a]]
      BY <1>1, <2>3 DEF Return
    <3> QED
      BY <3>1 DEF Types
  <2> QED
    BY <2>1, <2>2, <2>3
<1>13. /\ won' = won \/ (won' = won \cup {c} /\ c.kind = "update" /\ c.err = "nil")
       /\ worked' = worked \/ (worked' = worked \cup {a} /\ c.err = "nil")
  BY <1>1 DEF Return
<1>14. Types'
  BY <1>3, <1>6, <1>7, <1>11, <1>12, <1>13 DEF Types
<1>15. Bounds'
  BY <1>7, <1>11, <1>12 DEF Bounds
<1>16. InFlight'
  <2>1. \A n : Message(n)' <=> Message(n)
    BY <1>7 DEF Message
  <2>2. \A b \in Admins : b # a => (Message(call[b])' <=> Message(call[b]))
    BY <1>6, <1>7 DEF Message
  <2> QED
    BY <1>6, <1>7, <1>8, <1>11, <2>1, <2>2 DEF InFlight
<1>17. Told'
  <2>1. \A b \in worked' : b \in Admins /\ client[b] <= login
    BY <1>3, <1>9, <1>13 DEF Told
  <2>2. \A n \in late : n.kind = "update" => n.named <= seen'[n.by]
    <3> SUFFICES ASSUME NEW n \in late, n.kind = "update" PROVE n.named <= seen'[n.by]
      OBVIOUS
    <3>1. n \in Calls /\ n.named \in Nat /\ n.by \in Admins /\ n.named <= seen[n.by]
      BY Naturals, CallFields DEF Told
    <3>2. seen[n.by] \in Nat /\ seen'[a] \in Nat /\ seen[a] \in Nat
      BY <1>11, <3>1, Naturals, Numbers
    <3> QED
      BY <1>11, <3>1, <3>2
  <2> QED
    BY <1>6, <1>7, <1>8, <1>11, <2>1, <2>2 DEF Told
<1>18. Refused'
  BY <1>1, <1>4, <1>6, <1>7, <1>13 DEF Refused, Refusals, Told
<1>19. Winners'
  <2>1. c.kind = "update" /\ c.err = "nil" =>
          /\ c.named < master
          /\ \A x \in won : x.named # c.named
          /\ \A b \in Admins :
               Nil(b) /\ call[b].kind = "update" /\ call[b].named = c.named => b = a
    BY <1>1, <1>3, <1>9 DEF Winners
  <2>2. /\ \A x \in won' : x.named < master
        /\ \A x, y \in won' : x.named = y.named => x = y
    BY <1>13, <2>1 DEF Winners
  <2>3. \A b \in Admins : Nil(b)' /\ call'[b].kind = "update" =>
          /\ \A x \in won' : x.named # call'[b].named
          /\ \A e \in Admins :
               Nil(e)' /\ call'[e].kind = "update" /\ call'[e].named = call'[b].named => e = b
    BY <1>6, <1>8, <1>13, <2>1 DEF Winners
  <2> QED
    BY <1>7, <2>2, <2>3 DEF Winners
<1>20. Own'
  <2> SUFFICES ASSUME NEW b \in Admins, Changing(b)'
               PROVE  /\ call'[b].new \in keys'[b]
                      /\ \A e \in Admins : client[e] # call'[b].new
                                         /\ (call'[b].new \in keys'[e] => e = b)
                      /\ \A n \in late : n.auth # call'[b].new
                                       /\ (n.by = b => n.auth < call'[b].new)
                      /\ Nil(b)' => login = call'[b].new
                      /\ Unset(b)' =>
                           /\ login # call'[b].new
                           /\ \A n \in late : n.kind = "change" => n.new # call'[b].new
    BY <1>7 DEF Own
  <2>1. b # a /\ call'[b] = call[b] /\ Changing(b) /\ keys'[b] = keys[b]
    BY <1>6, <1>8, <1>11 DEF Changing
  <2>2. (Nil(b)' => Nil(b)) /\ (Unset(b)' => Unset(b))
    BY <1>8, <2>1 DEF Unset
  <2>3. \A e \in Admins : call[b].new \in keys'[e] => e = b
    BY <1>12, <2>1 DEF Own
  <2> QED
    BY <2>1, <2>2, <2>3 DEF Own
<1>21. Noted'
  <2>1. ASSUME NEW n \in late, n.kind = "change" PROVE n.new \in keys'[n.by] \/ n.auth < login
    <3>1. n.by \in Admins /\ (n.new \in keys[n.by] \/ n.auth < login)
      BY <2>1, Naturals, CallFields DEF Noted
    <3> QED
      BY <1>11, <1>12, <2>1, <3>1
  <2> QED
    BY <1>7, <2>1 DEF Noted
<1>22. NotLockedOut'
  BY <1>7, <1>11, <1>12 DEF NotLockedOut
<1>23. Counted'
  BY <1>7 DEF Counted
<1> QED
  BY <1>14, <1>15, <1>16, <1>17, <1>18, <1>19, <1>20, <1>21, <1>22, <1>23

-----------------------------------------------------------------------------
(* The invariant. *)

\* Nobody has called yet.
LEMMA InitInv == Init => IInv
<1> SUFFICES ASSUME Init PROVE IInv
  OBVIOUS
<1>1. 1 \in Passwords /\ Empty \in Known /\ Empty = 0
  BY Numbers
<1>2. Idle \in Calls /\ Idle.pc = "idle" /\ Idle.err = "none"
  <2>1. (CHOOSE a \in Admins : TRUE) \in Admins
    BY PasswordsAssumption
  <2> QED
    BY <1>1, <2>1 DEF Idle, Calls, Errors
<1>3. Types
  BY <1>1, <1>2 DEF Init, Types
<1>4. Bounds
  BY <1>1 DEF Init, Bounds
<1>5. \A a \in Admins : ~Busy(a) /\ ~Nil(a)
  BY <1>2 DEF Init, Busy, Nil
<1>6. late = {} /\ won = {} /\ worked = {}
  BY DEF Init
<1>7. InFlight /\ Told /\ Refused /\ Winners /\ Own /\ Noted
  BY <1>5, <1>6 DEF InFlight, Told, Refused, Winners, Own, Changing, Noted
<1>8. NotLockedOut
  BY PasswordsAssumption DEF Init, NotLockedOut
<1>9. Counted
  <2>1. IsFiniteSet({}) /\ Cardinality({}) = 0
    BY FS_EmptySet
  <2> QED
    BY <1>6, <2>1, PasswordsAssumption DEF Init, Counted
<1> QED
  BY <1>3, <1>4, <1>7, <1>8, <1>9 DEF IInv

\* A step of somebody else.
LEMMA StutterInv == IInv /\ UNCHANGED vars => IInv'
<1> SUFFICES ASSUME IInv, UNCHANGED vars PROVE IInv'
  OBVIOUS
<1> USE DEF vars
<1>1. Types' /\ Bounds' /\ NotLockedOut' /\ Counted' /\ Noted'
  BY DEF IInv, Types, Bounds, NotLockedOut, Counted, Noted
<1>2. InFlight' /\ Told' /\ Refused'
  BY DEF IInv, InFlight, Message, Busy, Nil, Told, Refused
<1>3. Winners' /\ Own'
  BY DEF IInv, Winners, Own, Changing, Unset, Busy, Nil
<1> QED
  BY <1>1, <1>2, <1>3 DEF IInv

\* One case per action.
LEMMA StepInv == IInv /\ [Next]_vars => IInv'
<1> SUFFICES ASSUME IInv, [Next]_vars PROVE IInv'
  OBVIOUS
<1>1. ASSUME NEW a \in Admins, Get(a) PROVE IInv'
  BY <1>1, GetInv
<1>2. ASSUME NEW a \in Admins, New(a) PROVE IInv'
  BY <1>2, NewInv
<1>3. ASSUME NEW a \in Admins, Serve(a) PROVE IInv'
  BY <1>3, ServeInv
<1>4. ASSUME NEW a \in Admins, ServePolicy(a) PROVE IInv'
  BY <1>4, ServePolicyInv
<1>5. ASSUME NEW a \in Admins, Fail(a) PROVE IInv'
  BY <1>5, FailInv
<1>6. ASSUME NEW a \in Admins, Return(a) PROVE IInv'
  BY <1>6, ReturnInv
<1>7. ASSUME NEW a \in Admins, NEW new, Update(a, new) PROVE IInv'
  BY <1>7, UpdateInv
<1>8. ASSUME NEW a \in Admins, NEW new, Change(a, new) PROVE IInv'
  BY <1>8, ChangeInv
<1>9. ASSUME NEW m \in late, Arrive(m) PROVE IInv'
  BY <1>9, ArriveInv
<1>10. CASE UNCHANGED vars
  BY <1>10, StutterInv
<1> QED
  BY <1>1, <1>2, <1>3, <1>4, <1>5, <1>6, <1>7, <1>8, <1>9, <1>10 DEF Next

-----------------------------------------------------------------------------
(* The theorems. *)

\* The invariant holds of every rotation, for any number of admins, passwords
\* and faults and either answer to a wrong master password.
THEOREM PasswordsInductive == Spec => []IInv
BY InitInv, StepInv, PTL DEF Spec

\* Every variable keeps its type, and no more requests are underway than faults.
THEOREM PasswordsTypeCorrect == Spec => []TypeOK
<1>1. IInv => TypeOK
  <2> SUFFICES ASSUME IInv PROVE TypeOK
    OBVIOUS
  <2>1. \A a \in Admins : /\ call[a].pc \in {"idle", "sent", "answered"}
                          /\ call[a].err \in Errors
    BY CallFields DEF IInv, Types
  <2> QED
    BY <2>1 DEF IInv, Types, Counted, TypeOK, Errors, Known
<1> QED
  BY <1>1, PasswordsInductive, PTL

\* Of the Updates that named one master password, at most one was told that it
\* set its own (MasterPasswordClient.Update).
THEOREM RotationIsToldOnce == Spec => []OneWinner
<1>1. IInv => OneWinner
  BY DEF IInv, Winners, OneWinner
<1> QED
  BY <1>1, PasswordsInductive, PTL

\* A late Update whose caller has learnt another master password since will not
\* take effect: it names a password of the past.
THEOREM StaleUpdatesAreDead == Spec => []StaleUpdateIsDead
<1>1. IInv => StaleUpdateIsDead
  <2> SUFFICES ASSUME IInv, NEW m \in late, m.kind = "update", seen[m.by] # m.named
               PROVE  m.body.OldMasterPassword # master
    BY DEF StaleUpdateIsDead
  <2>1. m \in Calls /\ m.named \in Nat /\ m.by \in Admins
    BY Naturals, CallFields DEF IInv
  <2>2. seen[m.by] \in Nat /\ master \in Nat /\ seen[m.by] <= master
    BY <2>1, Naturals DEF IInv, Bounds
  <2>3. m.named <= seen[m.by] /\ m.body.OldMasterPassword = m.named
    BY DEF IInv, Told, InFlight, Message
  <2> QED
    BY <2>1, <2>2, <2>3
<1> QED
  BY <1>1, PasswordsInductive, PTL

\* A 401 or 422 of a Client that has worked is for good: it logs in with, or
\* names, a password of the past.
THEOREM RefusalsAreFinal == Spec => []RefusedForGood
<1>1. IInv => RefusedForGood
  <2> SUFFICES ASSUME IInv, NEW a \in Admins, a \in worked, call[a].err \in Refusals
               PROVE  \/ call[a].auth # login
                      \/ call[a].kind = "update" /\ call[a].named # master
    BY DEF RefusedForGood, Refusals
  <2>1. call[a].auth < login \/ (call[a].kind = "update" /\ call[a].named < master)
    BY DEF IInv, Refused
  <2>2. call[a].auth \in Nat /\ call[a].named \in Nat /\ login \in Nat /\ master \in Nat
    BY Naturals, CallFields DEF IInv
  <2> QED
    BY <2>1, <2>2
<1> QED
  BY <1>1, PasswordsInductive, PTL

\* Somebody always keeps the login password, whatever Change was answered, or not
\* (SelfPasswordClient.Change).
THEOREM AccountIsKept == Spec => []NotLockedOut
<1>1. IInv => NotLockedOut
  BY DEF IInv
<1> QED
  BY <1>1, PasswordsInductive, PTL

-----------------------------------------------------------------------------
(* Uploads: the inductive invariant. *)

UploadTypes ==
  /\ kind \in {"json", "buffer", "stream"}
  /\ offset \in 0..Size /\ start \in 0..Size
  /\ reader \in {"fresh", "used"}
  /\ body \in {"caller", "copy"}
  /\ pc \in {"idle", "building", "trying", "failed"}
  /\ attempts \in Nat /\ calls \in Nat
  /\ stored \in [from : 0..Size, to : 0..Size, reader : {"fresh", "used"}]
  /\ result \in {"none", "nil", "error"}

\* A body that should be whole.
ShouldBeWhole == kind = "json" \/ reader = "fresh"

\* A fresh reader stands at its beginning until an attempt reads from it; the
\* copies begin where the reader stood when the request was built.  A second
\* attempt never reads from the caller's reader.
Positions ==
  /\ pc = "building" /\ reader = "fresh" => offset = 0
  /\ pc \in {"trying", "failed"} /\ ShouldBeWhole => start = 0
  /\ pc = "trying" /\ body = "caller" => offset = start

UploadInv == UploadTypes /\ Positions /\ StoredIsWhole

-----------------------------------------------------------------------------
\* Nothing is stored.
LEMMA UploadInitInv == UploadsInit => UploadInv
<1> SUFFICES ASSUME UploadsInit PROVE UploadInv
  OBVIOUS
<1>1. stored = [from |-> 0, to |-> 0, reader |-> "fresh"]
  BY DEF UploadsInit, Nothing
<1>2. stored.from = 0
  BY <1>1
<1>3. 0 \in 0..Size
  BY UploadsAssumption
<1>4. stored \in [from : 0..Size, to : 0..Size, reader : {"fresh", "used"}]
  BY <1>1, <1>3
<1>5. UploadTypes
  BY <1>3, <1>4 DEF UploadsInit, UploadTypes
<1> QED
  BY <1>2, <1>5 DEF UploadsInit, UploadInv, Positions, ShouldBeWhole, StoredIsWhole

\* A call starts with a fresh reader, or with the one its caller has used.
LEMMA UploadCallInv == UploadInv /\ Upload => UploadInv'
<1> SUFFICES ASSUME UploadInv, Upload PROVE UploadInv'
  OBVIOUS
<1>1. /\ offset' \in 0..Size
      /\ reader' \in {"fresh", "used"}
      /\ reader' = "fresh" => offset' = 0
  <2>1. offset \in 0..Size /\ Size \in Nat
    BY UploadsAssumption DEF UploadInv, UploadTypes
  <2> QED
    BY <2>1 DEF Upload
<1>2. calls' \in Nat
  BY DEF Upload, UploadInv, UploadTypes
<1>3. UploadTypes'
  BY <1>1, <1>2 DEF Upload, UploadInv, UploadTypes
<1>4. Positions' /\ StoredIsWhole'
  BY <1>1 DEF Upload, UploadInv, Positions, StoredIsWhole
<1> QED
  BY <1>3, <1>4 DEF UploadInv

\* Building the request puts a document or a buffer aside, or passes the reader on.
LEMMA UploadBuildInv == UploadInv /\ buildHTTPRequest => UploadInv'
  BY UploadsAssumption
  DEF buildHTTPRequest, UploadInv, UploadTypes, Positions, ShouldBeWhole, StoredIsWhole

\* A reader that an attempt has read from is used; a copy is not.
LEMMA UploadCutShortInv == UploadInv /\ CutShort => UploadInv'
  BY UploadsAssumption
  DEF CutShort, From, UploadInv, UploadTypes, Positions, ShouldBeWhole, StoredIsWhole

\* The attempt reads from the start of the call's body, from a copy or not.
LEMMA UploadAcceptedInv == UploadInv /\ Accepted => UploadInv'
<1> SUFFICES ASSUME UploadInv, Accepted PROVE UploadInv'
  OBVIOUS
<1>1. From = start
  BY DEF Accepted, From, UploadInv, UploadTypes, Positions
<1>2. stored' = [from |-> start, to |-> Size, reader |-> reader]
  BY <1>1 DEF Accepted
<1>3. stored'.from = start /\ stored'.reader = reader
  BY <1>2
<1>4. StoredIsWhole'
  BY <1>3 DEF Accepted, UploadInv, Positions, ShouldBeWhole, StoredIsWhole
<1>5. UploadTypes'
  BY <1>2, UploadsAssumption DEF Accepted, UploadInv, UploadTypes
<1>6. Positions'
  BY DEF Accepted, UploadInv, Positions, ShouldBeWhole
<1> QED
  BY <1>4, <1>5, <1>6 DEF UploadInv

\* Only a body that can be rewound is sent again.
LEMMA UploadRetryInv == UploadInv /\ Retry => UploadInv'
  BY UploadsAssumption
  DEF Retry, GetBody, UploadInv, UploadTypes, Positions, ShouldBeWhole, StoredIsWhole

\* The call returns its error.
LEMMA UploadGiveUpInv == UploadInv /\ GiveUp => UploadInv'
  BY UploadsAssumption
  DEF GiveUp, UploadInv, UploadTypes, Positions, ShouldBeWhole, StoredIsWhole

-----------------------------------------------------------------------------
\* Whatever attempt of whatever call the server took, it has the whole body,
\* unless the caller of DoRaw (transport.go:137) handed over a reader it had used:
\* for any size, any number of calls and attempts, and any cut.
THEOREM UploadsAreWhole == UploadsSpec => []StoredIsWhole
<1>1. UploadInv /\ [UploadsNext]_uploadsVars => UploadInv'
  <2> SUFFICES ASSUME UploadInv, [UploadsNext]_uploadsVars PROVE UploadInv'
    OBVIOUS
  <2>1. CASE UNCHANGED uploadsVars
    BY <2>1 DEF uploadsVars, UploadInv, UploadTypes, Positions, ShouldBeWhole, StoredIsWhole
  <2> QED
    BY <2>1, UploadCallInv, UploadBuildInv, UploadCutShortInv, UploadAcceptedInv,
       UploadRetryInv, UploadGiveUpInv
    DEF UploadsNext
<1>2. UploadInv => StoredIsWhole
  BY DEF UploadInv
<1> QED
  BY <1>1, <1>2, UploadInitInv, PTL DEF UploadsSpec
=============================================================================
