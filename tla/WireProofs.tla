------------------------------ MODULE WireProofs ------------------------------
(***************************************************************************)
(* Proofs about what goes over the wire: the keys of access rules          *)
(* (AccessRules) and the bodies of documents (RoundTrip).                  *)
(*                                                                         *)
(* Access rules: for any strings, any lists of roles and any number of     *)
(* administrators and tools, what was asked for is what the server         *)
(* enforces, and a list that succeeds is a whole table.                    *)
(*                                                                         *)
(* The argument is about keys.  Splitting at the dots loses nothing        *)
(* (SplitInjective, by induction along the string), and a string split     *)
(* into as many parts as were joined gives those parts back (TwoParts,     *)
(* ThreeParts); a REST key has one separator, found from either side       *)
(* (MarkIs).  So a key that the server accepts reads as the subject it was *)
(* made from (FullKey), no two keys read alike (KeysDiffer), and what List *)
(* decodes encodes to the entry it came from (DecodedEntry).               *)
(*                                                                         *)
(* Documents: for any texts and lists of any length, Get returns the       *)
(* document whatever shape the server chose, and Update puts the program's *)
(* changes into it and nothing else.                                       *)
(*                                                                         *)
(* The argument goes type by type through the two languages: every shape   *)
(* the server writes of a document decodes to it (ListsServed,             *)
(* ObjectsServed), and what the program writes of a document the server    *)
(* reads as the same (ListWritten, ObjectWritten), except that what is     *)
(* left out of a body keeps its value (EmptyListWritten).  The invariant   *)
(* DocumentInv says that nothing is left out but what was not set before.  *)
(***************************************************************************)
EXTENDS AccessRules, RoundTrip, SequenceTheorems, FiniteSetTheorems, TLAPS

CONSTANTS
  Tokens,    \* of strings
  RoleNames

-----------------------------------------------------------------------------
(* Splitting a string at its dots, one token at a time. *)

Splitting == INSTANCE Recursion WITH Start <- <<EmptyString>>, Step <- AddToken

\* The empty string has one part, which is empty.
LEMMA SplitNone == Split(<<>>) = <<EmptyString>>
<1>1. Split(<<>>) = Splitting!Fold(<<>>)
  BY DEF Split, Splitting!Fold
<1> QED
  BY <1>1, Splitting!FoldEmpty

\* Split takes a string token by token.
LEMMA SplitMore ==
  ASSUME NEW S, NEW s \in Seq(S), NEW x \in S
  PROVE  Split(Append(s, x)) = AddToken(Split(s), x)
<1>1. Split(Append(s, x)) = Splitting!Fold(Append(s, x)) /\ Split(s) = Splitting!Fold(s)
  BY DEF Split, Splitting!Fold
<1> QED
  BY <1>1, Splitting!FoldAppend

\* A dot begins a part, any other token ends the last one.
Adds(parts, x, q) ==
  /\ x = "." => /\ Len(q) = Len(parts) + 1 /\ q[Len(q)] = <<>>
                /\ \A i \in 1..Len(parts) : q[i] = parts[i]
  /\ x # "." => /\ Len(q) = Len(parts)
                /\ q[Len(q)] = Append(parts[Len(parts)], x)
                /\ \A i \in 1..Len(parts) : i # Len(parts) => q[i] = parts[i]

\* What a token does to the parts there are.
LEMMA AddTokenIs ==
  ASSUME NEW S, NEW parts \in Seq(Seq(S)), parts # <<>>, NEW x, x = "." \/ x \in S,
         NEW q, q = AddToken(parts, x)
  PROVE  /\ q \in Seq(Seq(S)) /\ q # <<>> /\ Len(q) \in Nat \ {0}
         /\ Adds(parts, x, q)
<1>1. Len(parts) \in Nat /\ Len(parts) # 0 /\ Len(parts) \in 1..Len(parts)
  <2>1. Len(parts) \in Nat \ {0}
    BY EmptySeq
  <2> QED
    BY ONLY <2>1
<1>2. <<>> \in Seq(S) /\ parts[Len(parts)] \in Seq(S)
  BY <1>1, EmptySeq, ElementOfSeq
<1>3. CASE x = "."
  <2>1. q = Append(parts, <<>>)
    BY <1>3 DEF AddToken, EmptyString
  <2>2. /\ q \in Seq(Seq(S)) /\ q # <<>> /\ Len(q) = Len(parts) + 1
        /\ \A i \in 1..Len(parts) : q[i] = parts[i]
        /\ q[Len(parts) + 1] = <<>>
    BY <1>2, <2>1, AppendProperties
  <2>3. q[Len(q)] = <<>>
    BY <2>2
  <2>4. Len(q) \in Nat \ {0}
    BY ONLY <1>1, <2>2
  <2>5. Adds(parts, x, q)
    BY <1>3, <2>2, <2>3 DEF Adds
  <2> QED
    BY <2>2, <2>4, <2>5
<1>4. CASE x # "."
  <2>1. PICK last : last = Append(parts[Len(parts)], x)
    OBVIOUS
  <2>2. last \in Seq(S)
    BY <1>2, <1>4, <2>1, AppendProperties
  <2>3. q = [parts EXCEPT ![Len(parts)] = last]
    BY <1>4, <2>1 DEF AddToken
  <2>4. /\ q \in Seq(Seq(S)) /\ Len(q) = Len(parts)
        /\ \A j \in 1..Len(parts) : q[j] = IF j = Len(parts) THEN last ELSE parts[j]
    BY <1>1, <2>2, <2>3, ExceptSeq
  <2>5. q # <<>>
    BY <1>1, <2>4
  <2>6. q[Len(q)] = last
    BY <1>1, <2>4
  <2>7. Adds(parts, x, q)
    BY <1>4, <2>1, <2>4, <2>6 DEF Adds
  <2>8. Len(q) \in Nat \ {0}
    BY ONLY <1>1, <2>4
  <2> QED
    BY <2>4, <2>5, <2>7, <2>8
<1> QED
  BY <1>3, <1>4

\* A split leaves at least one part, and no part has a dot.
LEMMA SplitType ==
  ASSUME NEW S, NEW s \in Seq(S), NEW U, U = S \ {"."}
  PROVE  Split(s) \in Seq(Seq(U)) /\ Split(s) # <<>> /\ Len(Split(s)) \in Nat \ {0}
<1> DEFINE A == {q \in Seq(Seq(U)) : q # <<>>}
<1>1. <<EmptyString>> \in A
  BY EmptySeq DEF EmptyString
<1>2. ASSUME NEW q \in A, NEW x \in S
      PROVE  AddToken(q, x) \in A
  <2>1. x = "." \/ x \in U
    OBVIOUS
  <2> QED
    BY <2>1, AddTokenIs
<1>3. Split(s) = Splitting!Fold(s)
  BY DEF Split, Splitting!Fold
<1> HIDE DEF A
<1>4. Splitting!Fold(s) \in A
  BY <1>1, <1>2, Splitting!FoldType
<1> QED
  BY <1>3, <1>4, EmptySeq DEF A

\* A string without a dot is its only part.
LEMMA SplitUndotted ==
  ASSUME NEW U, "." \notin U, NEW s \in Seq(U)
  PROVE  Split(s) = <<s>>
<1> DEFINE T == {r \in Seq(U) : Split(r) = <<r>>}
<1>1. <<>> \in T
  BY EmptySeq, SplitNone DEF EmptyString
<1>2. ASSUME NEW r \in Seq(U), NEW x \in U, r \in T
      PROVE  Append(r, x) \in T
  <2>1. Append(r, x) \in Seq(U) /\ Split(Append(r, x)) = AddToken(<<r>>, x)
    BY <1>2, SplitMore, AppendProperties
  <2>2. x # "."
    OBVIOUS
  <2>3. AddToken(<<r>>, x) = [<<r>> EXCEPT ![1] = Append(r, x)]
    BY <2>2 DEF AddToken
  <2>4. [<<r>> EXCEPT ![1] = Append(r, x)] = <<Append(r, x)>>
    OBVIOUS
  <2> QED
    BY <2>1, <2>3, <2>4
<1> HIDE DEF T
<1>3. Seq(U) \subseteq T
  BY <1>1, <1>2, Splitting!SeqInduction
<1> QED
  BY <1>3 DEF T

\* A token is added to the last part, whatever is before it.
LEMMA AddTokenConcat ==
  ASSUME NEW S, NEW a \in Seq(Seq(S)), NEW b \in Seq(Seq(S)), b # <<>>, NEW x \in S
  PROVE  AddToken(a \o b, x) = a \o AddToken(b, x)
<1>1. PICK c : c = a \o b
  OBVIOUS
<1>2. PICK q : q = AddToken(b, x)
  OBVIOUS
<1>3. PICK u : u = AddToken(c, x)
  OBVIOUS
<1>4. PICK v : v = a \o q
  OBVIOUS
<1>5. Len(a) \in Nat /\ Len(b) \in Nat \ {0}
  BY LenProperties, EmptySeq
<1>6. /\ c \in Seq(Seq(S)) /\ Len(c) = Len(a) + Len(b)
      /\ \A i \in 1..Len(a) + Len(b) : c[i] = IF i <= Len(a) THEN a[i] ELSE b[i - Len(a)]
  BY <1>1, ConcatProperties
<1>7. c # <<>>
  BY <1>5, <1>6
<1>8. q \in Seq(Seq(S)) /\ Len(q) \in Nat \ {0} /\ Adds(b, x, q)
  BY <1>2, AddTokenIs
<1>9. u \in Seq(Seq(S)) /\ Len(u) \in Nat \ {0} /\ Adds(c, x, u)
  BY <1>3, <1>6, <1>7, AddTokenIs
<1>10. /\ v \in Seq(Seq(S)) /\ Len(v) = Len(a) + Len(q)
       /\ \A i \in 1..Len(a) + Len(q) : v[i] = IF i <= Len(a) THEN a[i] ELSE q[i - Len(a)]
  BY <1>4, <1>8, ConcatProperties
<1>l. /\ Len(a) \in Nat /\ Len(b) \in Nat \ {0} /\ Len(c) = Len(a) + Len(b)
      /\ Len(v) = Len(a) + Len(q)
      /\ x = "." => Len(q) = Len(b) + 1 /\ Len(u) = Len(c) + 1
      /\ x # "." => Len(q) = Len(b) /\ Len(u) = Len(c)
  BY <1>5, <1>6, <1>8, <1>9, <1>10 DEF Adds
<1>11. Len(u) = Len(v)
  BY ONLY <1>l
<1>12. ASSUME NEW i \in 1..Len(u)
       PROVE  u[i] = v[i]
  <2>1. CASE x = "."
    <3>l. /\ Len(a) \in Nat /\ Len(b) \in Nat /\ Len(c) = Len(a) + Len(b)
          /\ Len(q) = Len(b) + 1 /\ Len(u) = Len(c) + 1 /\ i \in 1..Len(u)
      BY <2>1, <1>l
    <3>1. CASE i = Len(u)
      <4>1. i - Len(a) = Len(q) /\ ~(i <= Len(a)) /\ i \in 1..Len(a) + Len(q)
        BY ONLY <3>1, <3>l
      <4> QED
        BY <4>1, <3>1, <2>1, <1>8, <1>9, <1>10 DEF Adds
    <3>2. CASE i # Len(u)
      <4>1. i \in 1..Len(c) /\ i \in 1..Len(a) + Len(b) /\ i \in 1..Len(a) + Len(q)
        BY ONLY <3>2, <3>l
      <4>2. ~(i <= Len(a)) => i - Len(a) \in 1..Len(b)
        BY ONLY <4>1, <1>5
      <4>3. u[i] = c[i]
        BY <4>1, <2>1, <1>9 DEF Adds
      <4> QED
        BY <4>1, <4>2, <4>3, <2>1, <1>6, <1>8, <1>10 DEF Adds
    <3> QED
      BY <3>1, <3>2
  <2>2. CASE x # "."
    <3>l. /\ Len(a) \in Nat /\ Len(b) \in Nat \ {0} /\ Len(c) = Len(a) + Len(b)
          /\ Len(q) = Len(b) /\ Len(u) = Len(c) /\ i \in 1..Len(u)
      BY <2>2, <1>l
    <3>1. i \in 1..Len(c) /\ i \in 1..Len(a) + Len(b) /\ i \in 1..Len(a) + Len(q)
      BY ONLY <3>l
    <3>2. CASE i = Len(u)
      <4>1. i - Len(a) = Len(b) /\ ~(i <= Len(a)) /\ i = Len(c) /\ Len(q) = Len(b)
        BY ONLY <3>2, <3>l
      <4>2. c[i] = b[Len(b)]
        BY <4>1, <3>1, <1>6
      <4>3. v[i] = q[Len(q)]
        BY <4>1, <3>1, <1>10
      <4> QED
        BY <4>1, <4>2, <4>3, <3>2, <2>2, <1>8, <1>9 DEF Adds
    <3>3. CASE i # Len(u)
      <4>1. i # Len(c)
        BY <3>3, <2>2, <1>9 DEF Adds
      <4>2. ~(i <= Len(a)) => i - Len(a) \in 1..Len(b) /\ i - Len(a) # Len(b)
        BY ONLY <4>1, <3>1, <1>5, <1>6
      <4>3. u[i] = c[i]
        BY <4>1, <3>1, <2>2, <1>9 DEF Adds
      <4> QED
        BY <4>2, <4>3, <3>1, <2>2, <1>6, <1>8, <1>10 DEF Adds
    <3> QED
      BY <3>2, <3>3
  <2> QED
    BY <2>1, <2>2
<1>13. u = v
  BY <1>9, <1>10, <1>11, <1>12, SeqEqual
<1> QED
  BY <1>1, <1>2, <1>3, <1>4, <1>13

\* The parts of two strings with a dot between them.
LEMMA SplitConcat ==
  ASSUME NEW S, "." \in S, NEW s \in Seq(S), NEW t \in Seq(S)
  PROVE  Split(s \o <<".">> \o t) = Split(s) \o Split(t)
<1>1. PICK d : d = s \o <<".">>
  OBVIOUS
<1>2. d \in Seq(S) /\ d = Append(s, ".")
  BY <1>1, AppendIsConcat, AppendProperties
<1>3. \A r \in Seq(S) : Split(r) \in Seq(Seq(S)) /\ Split(r) # <<>>
  <2> TAKE r \in Seq(S)
  <2>1. PICK U : U = S \ {"."}
    OBVIOUS
  <2>2. Split(r) \in Seq(Seq(U)) /\ Split(r) # <<>>
    BY <2>1, SplitType
  <2>3. Seq(U) \subseteq Seq(S)
    BY <2>1, SeqMonotonic
  <2>4. Seq(Seq(U)) \subseteq Seq(Seq(S))
    BY <2>3, SeqMonotonic
  <2> QED
    BY <2>2, <2>4
<1> DEFINE T == {r \in Seq(S) : Split(d \o r) = Split(s) \o Split(r)}
<1>4. <<>> \in T
  <2>1. d \o <<>> = d
    BY <1>2, ConcatEmptySeq
  <2>2. Split(d) = AddToken(Split(s), ".")
    BY <1>2, SplitMore
  <2>3. AddToken(Split(s), ".") = Append(Split(s), EmptyString)
    BY DEF AddToken
  <2>4. EmptyString \in Seq(S)
    BY EmptySeq DEF EmptyString
  <2>5. Append(Split(s), EmptyString) = Split(s) \o <<EmptyString>>
    BY <1>3, <2>4, AppendIsConcat
  <2> QED
    BY <2>1, <2>2, <2>3, <2>5, SplitNone, EmptySeq
<1>5. ASSUME NEW r \in Seq(S), NEW x \in S, r \in T
      PROVE  Append(r, x) \in T
  <2>1. Append(r, x) \in Seq(S) /\ Split(Append(r, x)) = AddToken(Split(r), x)
    BY SplitMore, AppendProperties
  <2>2. d \o r \in Seq(S)
    BY <1>2, ConcatProperties
  <2>3. d \o Append(r, x) = Append(d \o r, x)
    <3>1. Append(r, x) = r \o <<x>> /\ Append(d \o r, x) = (d \o r) \o <<x>>
      BY <2>2, AppendIsConcat
    <3>2. <<x>> \in Seq(S)
      OBVIOUS
    <3>3. (d \o r) \o <<x>> = d \o (r \o <<x>>)
      BY <1>2, <3>2, ConcatAssociative
    <3> QED
      BY <3>1, <3>3
  <2>4. Split(Append(d \o r, x)) = AddToken(Split(d \o r), x)
    BY <2>2, SplitMore
  <2>5. Split(d \o r) = Split(s) \o Split(r)
    BY <1>5
  <2>6. AddToken(Split(s) \o Split(r), x) = Split(s) \o AddToken(Split(r), x)
    <3>1. PICK a : a = Split(s)
      OBVIOUS
    <3>2. PICK b : b = Split(r)
      OBVIOUS
    <3>3. a \in Seq(Seq(S)) /\ b \in Seq(Seq(S)) /\ b # <<>>
      BY <1>3, <3>1, <3>2
    <3>4. AddToken(a \o b, x) = a \o AddToken(b, x)
      BY <3>3, AddTokenConcat
    <3> QED
      BY <3>1, <3>2, <3>4
  <2> QED
    BY <2>1, <2>3, <2>4, <2>5, <2>6
<1> HIDE DEF T
<1>6. Seq(S) \subseteq T
  BY <1>4, <1>5, Splitting!SeqInduction
<1>7. Split(d \o t) = Split(s) \o Split(t)
  BY <1>6 DEF T
<1> QED
  BY <1>1, <1>7

\* Unless x is a dot, the last part is not empty.
EndsWith(x, q) == x # "." => q[Len(q)] # <<>>

\* After a dot the last part is empty, and only then.
LEMMA LastPart ==
  ASSUME NEW S, NEW s \in Seq(S), NEW x \in S, NEW p, p = Split(s),
         NEW q, q = Split(Append(s, x))
  PROVE  /\ p \in Seq(Seq(S)) /\ Len(p) \in Nat \ {0} /\ p # <<>>
         /\ q \in Seq(Seq(S)) /\ Len(q) \in Nat \ {0}
         /\ Adds(p, x, q)
         /\ EndsWith(x, q)
<1>1. PICK U : U = S \ {"."}
  OBVIOUS
<1>2. p \in Seq(Seq(U)) /\ p # <<>> /\ Len(p) \in Nat \ {0}
  BY <1>1, SplitType
<1>3. x = "." \/ x \in U
  BY <1>1
<1>4. q = AddToken(p, x)
  BY SplitMore
<1>5. q \in Seq(Seq(U)) /\ Len(q) \in Nat \ {0} /\ Adds(p, x, q)
  BY <1>2, <1>3, <1>4, AddTokenIs
<1>6. Seq(Seq(U)) \subseteq Seq(Seq(S))
  <2>1. Seq(U) \subseteq Seq(S)
    BY <1>1, SeqMonotonic
  <2> QED
    BY <2>1, SeqMonotonic
<1>7. x # "." => q[Len(q)] # <<>>
  <2>1. Len(p) \in 1..Len(p)
    BY ONLY <1>2
  <2>2. p[Len(p)] \in Seq(U)
    BY <1>2, <2>1, ElementOfSeq
  <2>3. x # "." => Append(p[Len(p)], x) # <<>>
    BY <1>3, <2>2, AppendProperties
  <2> QED
    BY <1>5, <2>3 DEF Adds
<1> QED
  BY <1>2, <1>5, <1>6, <1>7 DEF EndsWith

\* The parts tell what the string is: no two strings have the same.
THEOREM SplitInjective ==
  ASSUME NEW S, NEW s \in Seq(S), NEW t \in Seq(S), Split(s) = Split(t)
  PROVE  s = t
<1> DEFINE T == {r \in Seq(S) : \A w \in Seq(S) : Split(r) = Split(w) => r = w}
<1>n. ASSUME NEW w \in Seq(S), NEW x \in S, Split(Append(w, x)) = <<EmptyString>>
      PROVE  FALSE
  <2>1. PICK p : p = Split(w)
    OBVIOUS
  <2>2. PICK q : q = Split(Append(w, x))
    OBVIOUS
  <2>3. /\ Len(p) \in Nat \ {0} /\ Adds(p, x, q)
        /\ EndsWith(x, q)
    BY <2>1, <2>2, LastPart
  <2>4. q = <<EmptyString>> /\ Len(q) = 1 /\ q[1] = <<>>
    BY <1>n, <2>2 DEF EmptyString
  <2>5. x = "."
    BY <2>3, <2>4 DEF EndsWith
  <2>6. Len(q) = Len(p) + 1
    BY <2>3, <2>5 DEF Adds
  <2> QED
    BY ONLY <2>3, <2>4, <2>6
<1>1. <<>> \in T
  <2>1. ASSUME NEW w \in Seq(S), Split(<<>>) = Split(w), w # <<>>
        PROVE  FALSE
    <3>1. PICK v \in Seq(S), x \in S : w = Append(v, x)
      BY <2>1, SequenceEmptyOrAppend
    <3> QED
      BY <2>1, <3>1, <1>n, SplitNone
  <2> QED
    BY <2>1, EmptySeq
<1>2. ASSUME NEW r \in Seq(S), NEW x \in S, r \in T
      PROVE  Append(r, x) \in T
  <2>1. ASSUME NEW w \in Seq(S), Split(Append(r, x)) = Split(w)
        PROVE  Append(r, x) = w
    <3>1. w # <<>>
      BY <2>1, <1>n, SplitNone
    <3>2. PICK v \in Seq(S), y \in S : w = Append(v, y)
      BY <3>1, SequenceEmptyOrAppend
    <3>3. PICK p : p = Split(r)
      OBVIOUS
    <3>4. PICK q : q = Split(w)
      OBVIOUS
    <3>5. PICK o : o = Split(v)
      OBVIOUS
    <3>6. /\ p \in Seq(Seq(S)) /\ Len(p) \in Nat \ {0}
          /\ Adds(p, x, q)
          /\ EndsWith(x, q)
      BY <2>1, <3>3, <3>4, LastPart
    <3>7. /\ o \in Seq(Seq(S)) /\ Len(o) \in Nat \ {0}
          /\ Adds(o, y, q)
          /\ EndsWith(y, q)
      <4>1. q = Split(Append(v, y))
        BY <3>2, <3>4
      <4>2. o = Split(v) /\ v \in Seq(S) /\ y \in S
        BY <3>2, <3>5
      <4>3. o \in Seq(Seq(S)) /\ Len(o) \in Nat \ {0}
        BY <4>1, <4>2, LastPart
      <4>4. Adds(o, y, q)
        BY <4>1, <4>2, LastPart
      <4>5. EndsWith(y, q)
        BY <4>1, <4>2, LastPart
      <4> QED
        BY <4>3, <4>4, <4>5
    <3>8. p = o /\ x = y
      <4>1. CASE x = "."
        <5>1. y = "."
          BY <4>1, <3>6, <3>7 DEF Adds, EndsWith
        <5>2. /\ Len(q) = Len(p) + 1 /\ Len(q) = Len(o) + 1
              /\ \A i \in 1..Len(p) : q[i] = p[i]
              /\ \A i \in 1..Len(o) : q[i] = o[i]
          BY <4>1, <5>1, <3>6, <3>7 DEF Adds
        <5>3. Len(p) = Len(o)
          BY ONLY <5>2, <3>6, <3>7
        <5>4. \A i \in 1..Len(p) : p[i] = o[i]
          BY <5>2, <5>3
        <5>5. p = o
          BY <5>3, <5>4, <3>6, <3>7, SeqEqual
        <5> QED
          BY <4>1, <5>1, <5>5
      <4>2. CASE x # "."
        <5>1. y # "."
          BY <4>2, <3>6, <3>7 DEF Adds, EndsWith
        <5>2. /\ Len(q) = Len(p) /\ Len(q) = Len(o)
              /\ q[Len(q)] = Append(p[Len(p)], x)
              /\ q[Len(q)] = Append(o[Len(o)], y)
              /\ \A i \in 1..Len(p) : i # Len(p) => q[i] = p[i]
              /\ \A i \in 1..Len(o) : i # Len(o) => q[i] = o[i]
          BY <4>2, <5>1, <3>6, <3>7 DEF Adds
        <5>3. p[Len(p)] \in Seq(S) /\ o[Len(o)] \in Seq(S)
          <6>1. Len(p) \in 1..Len(p) /\ Len(o) \in 1..Len(o)
            BY ONLY <3>6, <3>7
          <6> QED
            BY <6>1, <3>6, <3>7, ElementOfSeq
        <5>4. p[Len(p)] = o[Len(o)] /\ x = y
          <6>1. PICK g : g = p[Len(p)]
            OBVIOUS
          <6>2. PICK h : h = o[Len(o)]
            OBVIOUS
          <6>3. Append(g, x) = Append(h, y) /\ g \in Seq(S) /\ h \in Seq(S)
            BY <6>1, <6>2, <5>2, <5>3
          <6>4. g = h /\ x = y
            BY <6>3, AppendInjective
          <6> QED
            BY <6>1, <6>2, <6>4
        <5>5. \A i \in 1..Len(p) : p[i] = o[i]
          BY <5>2, <5>4
        <5>6. p = o
          BY <5>2, <5>5, <3>6, <3>7, SeqEqual
        <5> QED
          BY <5>4, <5>6
      <4> QED
        BY <4>1, <4>2
    <3>9. r = v
      BY <1>2, <3>3, <3>5, <3>8
    <3> QED
      BY <3>2, <3>8, <3>9
  <2>2. Append(r, x) \in Seq(S)
    BY AppendProperties
  <2> QED
    BY <2>1, <2>2
<1> HIDE DEF T
<1>3. Seq(S) \subseteq T
  BY <1>1, <1>2, Splitting!SeqInduction
<1> QED
  BY <1>3 DEF T

\* A string of one part is that part.
LEMMA OnePart ==
  ASSUME NEW S, NEW s \in Seq(S), Len(Split(s)) = 1
  PROVE  Split(s) = <<s>>
<1>1. PICK U : U = S \ {"."}
  OBVIOUS
<1>2. PICK q : q = Split(s)
  OBVIOUS
<1>3. q \in Seq(Seq(U)) /\ Len(q) = 1
  BY <1>1, <1>2, SplitType
<1>4. PICK x : x = q[1]
  OBVIOUS
<1>5. x \in Seq(U)
  BY <1>3, <1>4, ElementOfSeq
<1>6. q = <<x>>
  BY <1>3, <1>4
<1>7. Split(x) = <<x>>
  BY <1>1, <1>5, SplitUndotted
<1>8. x \in Seq(S)
  BY <1>1, <1>5, SeqMonotonic
<1>9. Split(x) = Split(s)
  BY <1>2, <1>6, <1>7
<1>10. x = s
  BY <1>8, <1>9, SplitInjective
<1> QED
  BY <1>2, <1>6, <1>10

\* A part has no dots of its own.
LEMMA PartIsOne ==
  ASSUME NEW S, NEW s \in Seq(S), NEW i \in 1..Len(Split(s))
  PROVE  Split(s)[i] \in Seq(S) /\ Split(Split(s)[i]) = <<Split(s)[i]>>
<1>1. PICK U : U = S \ {"."}
  OBVIOUS
<1>2. PICK q : q = Split(s)
  OBVIOUS
<1>3. q \in Seq(Seq(U)) /\ i \in 1..Len(q)
  BY <1>1, <1>2, SplitType
<1>4. q[i] \in Seq(U)
  BY <1>3, ElementOfSeq
<1>5. Split(q[i]) = <<q[i]>>
  BY <1>1, <1>4, SplitUndotted
<1>6. q[i] \in Seq(S)
  BY <1>1, <1>4, SeqMonotonic
<1> QED
  BY <1>2, <1>5, <1>6

\* Tuples as concatenations.
LEMMA TupleOfTwo ==
  ASSUME NEW a, NEW b
  PROVE  <<a>> \o <<b>> = <<a, b>>
<1>1. PICK A : A = {a, b}
  OBVIOUS
<1>2. <<a>> \in Seq(A) /\ b \in A
  BY <1>1
<1>3. <<a, b>> = Append(<<a>>, b)
  OBVIOUS
<1> QED
  BY <1>2, <1>3, AppendIsConcat

\* A pair and one more.
LEMMA TupleOfThree ==
  ASSUME NEW a, NEW b, NEW c
  PROVE  <<a, b>> \o <<c>> = <<a, b, c>>
<1>1. PICK A : A = {a, b, c}
  OBVIOUS
<1>2. <<a, b>> \in Seq(A) /\ c \in A
  BY <1>1
<1>3. <<a, b, c>> = Append(<<a, b>>, c)
  OBVIOUS
<1> QED
  BY <1>2, <1>3, AppendIsConcat

\* Parts that are two, or three, in all are one each.
LEMMA OneEach ==
  ASSUME NEW m \in Nat \ {0}, NEW n \in Nat \ {0}
  PROVE  m + n = 2 => m = 1 /\ n = 1
OBVIOUS

\* Three lists that have three elements between them, and each at least one, have
\* one each.
LEMMA OneEachOfThree ==
  ASSUME NEW m \in Nat \ {0}, NEW n \in Nat \ {0}, NEW k \in Nat \ {0}
  PROVE  m + n + k = 3 => m = 1 /\ n = 1 /\ k = 1
OBVIOUS

\* Two strings with a dot between them, if there is no other dot.
LEMMA TwoParts ==
  ASSUME NEW S, "." \in S, NEW a \in Seq(S), NEW b \in Seq(S),
         Len(Split(a \o <<".">> \o b)) = 2
  PROVE  Split(a \o <<".">> \o b) = <<a, b>>
<1>1. PICK p : p = Split(a)
  OBVIOUS
<1>2. PICK q : q = Split(b)
  OBVIOUS
<1>3. PICK U : U = S \ {"."}
  OBVIOUS
<1>4. /\ p \in Seq(Seq(U)) /\ Len(p) \in Nat \ {0}
      /\ q \in Seq(Seq(U)) /\ Len(q) \in Nat \ {0}
  BY <1>1, <1>2, <1>3, SplitType
<1>5. Split(a \o <<".">> \o b) = p \o q
  BY <1>1, <1>2, SplitConcat
<1>6. Len(p \o q) = Len(p) + Len(q)
  BY <1>4, ConcatProperties
<1>7. Len(p) + Len(q) = 2
  BY <1>5, <1>6
<1>l. Len(p) \in Nat \ {0} /\ Len(q) \in Nat \ {0}
  BY <1>4
<1>8. Len(p) = 1 /\ Len(q) = 1
  BY <1>l, <1>7, OneEach
<1>9. p = <<a>> /\ q = <<b>>
  BY <1>1, <1>2, <1>8, OnePart
<1> QED
  BY <1>5, <1>9, TupleOfTwo

\* Three strings with dots between them, if there are no other dots.
LEMMA ThreeParts ==
  ASSUME NEW S, "." \in S, NEW a \in Seq(S), NEW b \in Seq(S), NEW c \in Seq(S),
         Len(Split(a \o <<".">> \o b \o <<".">> \o c)) = 3
  PROVE  Split(a \o <<".">> \o b \o <<".">> \o c) = <<a, b, c>>
<1>1. PICK d : d = a \o <<".">> \o b
  OBVIOUS
<1>2. PICK p : p = Split(a)
  OBVIOUS
<1>3. PICK q : q = Split(b)
  OBVIOUS
<1>4. PICK r : r = Split(c)
  OBVIOUS
<1>5. PICK U : U = S \ {"."}
  OBVIOUS
<1>6. /\ p \in Seq(Seq(U)) /\ Len(p) \in Nat \ {0}
      /\ q \in Seq(Seq(U)) /\ Len(q) \in Nat \ {0}
      /\ r \in Seq(Seq(U)) /\ Len(r) \in Nat \ {0}
  BY <1>2, <1>3, <1>4, <1>5, SplitType
<1>7. d \in Seq(S)
  <2>1. <<".">> \in Seq(S)
    OBVIOUS
  <2>2. a \o <<".">> \in Seq(S)
    BY <2>1, ConcatProperties
  <2> QED
    BY <1>1, <2>2, ConcatProperties
<1>8. Split(d) = p \o q
  BY <1>1, <1>2, <1>3, SplitConcat
<1>9. Split(d \o <<".">> \o c) = Split(d) \o r
  BY <1>4, <1>7, SplitConcat
<1>10. p \o q \in Seq(Seq(U)) /\ Len(p \o q) = Len(p) + Len(q)
  BY <1>6, ConcatProperties
<1>11. Len((p \o q) \o r) = Len(p \o q) + Len(r)
  BY <1>6, <1>10, ConcatProperties
<1>12. Len((p \o q) \o r) = 3
  BY <1>1, <1>8, <1>9
<1>l. /\ Len(p) \in Nat \ {0} /\ Len(q) \in Nat \ {0} /\ Len(r) \in Nat \ {0}
      /\ Len(p) + Len(q) + Len(r) = 3
  BY <1>6, <1>10, <1>11, <1>12
<1>13. Len(p) = 1 /\ Len(q) = 1 /\ Len(r) = 1
  BY <1>l, OneEachOfThree
<1>14. p = <<a>> /\ q = <<b>> /\ r = <<c>>
  BY <1>2, <1>3, <1>4, <1>13, OnePart
<1> QED
  BY <1>1, <1>8, <1>9, <1>14, TupleOfTwo, TupleOfThree

\* The parts of a string of two, with the dot between them, are the string.
LEMMA TwoBack ==
  ASSUME NEW S, "." \in S, NEW s \in Seq(S), NEW a, NEW b, Split(s) = <<a, b>>
  PROVE  a \in Seq(S) /\ b \in Seq(S) /\ a \o <<".">> \o b = s
<1>1. Len(Split(s)) = 2 /\ Split(s)[1] = a /\ Split(s)[2] = b
  OBVIOUS
<1>2. 1 \in 1..Len(Split(s)) /\ 2 \in 1..Len(Split(s))
  BY <1>1
<1>3. /\ a \in Seq(S) /\ Split(a) = <<a>>
      /\ b \in Seq(S) /\ Split(b) = <<b>>
  BY <1>1, <1>2, PartIsOne
<1>4. PICK w : w = a \o <<".">> \o b
  OBVIOUS
<1>5. w \in Seq(S)
  <2>1. <<".">> \in Seq(S)
    OBVIOUS
  <2>2. a \o <<".">> \in Seq(S)
    BY <1>3, <2>1, ConcatProperties
  <2> QED
    BY <1>3, <1>4, <2>2, ConcatProperties
<1>6. Split(w) = <<a>> \o <<b>>
  BY <1>3, <1>4, SplitConcat, ZenonT(30)
<1>7. Split(w) = Split(s)
  BY <1>6, TupleOfTwo
<1>8. w = s
  BY <1>5, <1>7, SplitInjective
<1> QED
  BY <1>3, <1>4, <1>8

\* The same for a string of three parts.
Dotted(a, b, c) == a \o <<".">> \o b \o <<".">> \o c

\* Joined with dots, three parts are the key they were split from.
LEMMA ThreeBack ==
  ASSUME NEW S, "." \in S, NEW s \in Seq(S), NEW a, NEW b, NEW c, Split(s) = <<a, b, c>>
  PROVE  /\ a \in Seq(S) /\ b \in Seq(S) /\ c \in Seq(S)
         /\ Dotted(a, b, c) = s
<1>1. Len(Split(s)) = 3 /\ Split(s)[1] = a /\ Split(s)[2] = b /\ Split(s)[3] = c
  OBVIOUS
<1>2. 1 \in 1..Len(Split(s)) /\ 2 \in 1..Len(Split(s)) /\ 3 \in 1..Len(Split(s))
  BY <1>1
<1>3. /\ a \in Seq(S) /\ Split(a) = <<a>>
      /\ b \in Seq(S) /\ Split(b) = <<b>>
      /\ c \in Seq(S) /\ Split(c) = <<c>>
  BY <1>1, <1>2, PartIsOne
<1>4. PICK d : d = a \o <<".">> \o b
  OBVIOUS
<1>5. PICK w : w = d \o <<".">> \o c
  OBVIOUS
<1>6. d \in Seq(S) /\ w \in Seq(S)
  <2>1. <<".">> \in Seq(S)
    OBVIOUS
  <2>2. a \o <<".">> \in Seq(S)
    BY <1>3, <2>1, ConcatProperties
  <2>3. d \in Seq(S)
    BY <1>3, <1>4, <2>2, ConcatProperties
  <2>4. d \o <<".">> \in Seq(S)
    BY <2>1, <2>3, ConcatProperties
  <2> QED
    BY <1>3, <1>5, <2>3, <2>4, ConcatProperties
<1>7. Split(d) = <<a>> \o <<b>>
  BY <1>3, <1>4, SplitConcat, ZenonT(30)
<1>8. Split(w) = Split(d) \o <<c>>
  BY <1>3, <1>5, <1>6, SplitConcat
<1>9. Split(w) = Split(s)
  BY <1>7, <1>8, TupleOfTwo, TupleOfThree
<1>10. w = s
  BY <1>6, <1>9, SplitInjective
<1> QED
  BY <1>3, <1>4, <1>5, <1>10 DEF Dotted

-----------------------------------------------------------------------------
(* Cutting a string at its only separator. *)

\* k is p and m with one separator between them, which is found from either side.
IsMarked(p, m, k, tokens) ==
  /\ IndexAny(k, tokens) = Len(p) + 1
  /\ LastIndexAny(k, tokens) = Len(p) + 1
  /\ SubSeq(k, 1, Len(p) + 1 - 1) = p
  /\ SubSeq(k, Len(p) + 1 + 1, Len(k)) = m

\* One separator, from the left and from the right.
LEMMA OneMark ==
  ASSUME NEW s, NEW tokens, NEW n \in Nat \ {0}, Places(s, tokens) = {n}
  PROVE  IndexAny(s, tokens) = n /\ LastIndexAny(s, tokens) = n
<1>1. Min({n}) = n /\ Max({n}) = n
  BY DEF Min, Max
<1> QED
  BY <1>1 DEF IndexAny, LastIndexAny

\* A string with a separator in it, element by element.
LEMMA AroundMark ==
  ASSUME NEW S, NEW p \in Seq(S), NEW m \in Seq(S), NEW c, NEW k, k = p \o <<c>> \o m
  PROVE  /\ k \in Seq(S \cup {c})
         /\ Len(p) \in Nat /\ Len(m) \in Nat /\ Len(k) = Len(p) + 1 + Len(m)
         /\ \A i \in 1..Len(p) : k[i] = p[i]
         /\ k[Len(p) + 1] = c
         /\ \A i \in 1..Len(m) : k[Len(p) + 1 + i] = m[i]
<1>1. PICK U : U = S \cup {c}
  OBVIOUS
<1>2. p \in Seq(U) /\ m \in Seq(U) /\ <<c>> \in Seq(U)
  BY <1>1, SeqMonotonic
<1>3. PICK d : d = p \o <<c>>
  OBVIOUS
<1>4. d \in Seq(U) /\ d = Append(p, c)
  BY <1>1, <1>2, <1>3, ConcatProperties, AppendIsConcat
<1>5. Len(d) = Len(p) + 1 /\ d[Len(p) + 1] = c /\ \A i \in 1..Len(p) : d[i] = p[i]
  BY <1>1, <1>2, <1>4, AppendProperties
<1>6. /\ k \in Seq(U) /\ Len(k) = Len(d) + Len(m)
      /\ \A i \in 1..Len(d) + Len(m) : k[i] = IF i <= Len(d) THEN d[i] ELSE m[i - Len(d)]
  BY <1>2, <1>3, <1>4, ConcatProperties
<1>7. Len(p) \in Nat /\ Len(m) \in Nat
  BY LenProperties
<1>8. \A i \in 1..Len(p) : k[i] = p[i]
  <2> TAKE i \in 1..Len(p)
  <2>1. i \in 1..Len(d) + Len(m) /\ i <= Len(d)
    BY <1>5, <1>7
  <2> QED
    BY <2>1, <1>5, <1>6
<1>9. k[Len(p) + 1] = c
  <2>1. Len(p) + 1 \in 1..Len(d) + Len(m) /\ Len(p) + 1 <= Len(d)
    BY <1>5, <1>7
  <2> QED
    BY <2>1, <1>5, <1>6
<1>10. \A i \in 1..Len(m) : k[Len(p) + 1 + i] = m[i]
  <2> TAKE i \in 1..Len(m)
  <2>1. PICK j : j = Len(p) + 1 + i
    OBVIOUS
  <2>2. j \in 1..Len(d) + Len(m) /\ ~(j <= Len(d)) /\ j - Len(d) = i
    BY <2>1, <1>5, <1>7
  <2>3. k[j] = m[i]
    BY <2>2, <1>6
  <2> QED
    BY <2>1, <2>3
<1> QED
  BY <1>1, <1>5, <1>6, <1>7, <1>8, <1>9, <1>10

\* The parts on either side of it have no separator of their own.
LEMMA MarkIs ==
  ASSUME NEW S, NEW tokens, S \cap tokens = {}, NEW p \in Seq(S), NEW m \in Seq(S),
         NEW c \in tokens, NEW k, k = p \o <<c>> \o m
  PROVE  IsMarked(p, m, k, tokens)
<1>1. /\ k \in Seq(S \cup {c})
      /\ Len(p) \in Nat /\ Len(m) \in Nat /\ Len(k) = Len(p) + 1 + Len(m)
  BY AroundMark
<1>2. \A i \in 1..Len(p) : k[i] = p[i]
  BY AroundMark
<1>3. k[Len(p) + 1] = c
  BY AroundMark
<1>4. \A i \in 1..Len(m) : k[Len(p) + 1 + i] = m[i]
  BY AroundMark
<1>5. DOMAIN k = 1..Len(k)
  BY <1>1, LenProperties
<1>6. \A i \in 1..Len(k) : k[i] \in tokens <=> i = Len(p) + 1
  <2> TAKE i \in 1..Len(k)
  <2>1. CASE i = Len(p) + 1
    BY <2>1, <1>3
  <2>2. CASE i <= Len(p)
    <3>1. i \in 1..Len(p) /\ i # Len(p) + 1
      BY <2>2, <1>1
    <3>2. k[i] \in S
      BY <3>1, <1>2, ElementOfSeq
    <3> QED
      BY <3>1, <3>2
  <2>3. CASE ~(i <= Len(p)) /\ i # Len(p) + 1
    <3>1. PICK j : j = i - (Len(p) + 1)
      OBVIOUS
    <3>2. j \in 1..Len(m) /\ i = Len(p) + 1 + j
      BY <2>3, <3>1, <1>1
    <3>3. k[i] = m[j] /\ m[j] \in S
      BY <3>2, <1>4, ElementOfSeq
    <3> QED
      BY <2>3, <3>3
  <2> QED
    BY <2>1, <2>2, <2>3
<1>7. Places(k, tokens) = {Len(p) + 1}
  <2>1. Len(p) + 1 \in 1..Len(k)
    BY <1>1
  <2> QED
    BY <2>1, <1>5, <1>6 DEF Places
<1>8. Len(p) + 1 \in Nat \ {0}
  BY <1>1
<1>9. IndexAny(k, tokens) = Len(p) + 1 /\ LastIndexAny(k, tokens) = Len(p) + 1
  BY <1>7, <1>8, OneMark
<1>10. SubSeq(k, 1, Len(p)) = p
  <2>1. PICK u : u = SubSeq(k, 1, Len(p))
    OBVIOUS
  <2>2. 1 \in Int /\ Len(p) \in Int /\ \A i \in 1..Len(p) : k[i] \in S
    BY <1>1, <1>2, ElementOfSeq
  <2>3. /\ u \in Seq(S) /\ Len(u) = IF 1 <= Len(p) THEN Len(p) - 1 + 1 ELSE 0
        /\ \A i \in 1..Len(p) - 1 + 1 : u[i] = k[1 + i - 1]
    BY <2>1, <2>2, SubSeqProperties
  <2>4. Len(u) = Len(p)
    BY <2>3, <1>1
  <2>5. \A i \in 1..Len(u) : u[i] = p[i]
    <3> TAKE i \in 1..Len(u)
    <3>1. i \in 1..Len(p) /\ i \in 1..Len(p) - 1 + 1 /\ 1 + i - 1 = i
      BY <2>4, <1>1
    <3>2. u[i] = k[1 + i - 1]
      BY <3>1, <2>3
    <3> QED
      BY <3>1, <3>2, <1>2
  <2>6. u = p
    BY <2>3, <2>4, <2>5, SeqEqual
  <2> QED
    BY <2>1, <2>6
<1>11. SubSeq(k, Len(p) + 1 + 1, Len(k)) = m
  <2>l. PICK a : a = Len(p) + 1 + 1
    OBVIOUS
  <2>r. PICK b : b = Len(k)
    OBVIOUS
  <2>a. a = Len(p) + 1 + 1 /\ b = Len(p) + 1 + Len(m) /\ b = Len(k)
    BY <1>1, <2>l, <2>r
  <2>1. PICK u : u = SubSeq(k, a, b)
    OBVIOUS
  <2>2. a \in Int /\ b \in Int
    BY <2>a, <1>1
  <2>3. \A i \in a..b : k[i] \in S
    <3> TAKE i \in a..b
    <3>1. PICK j : j = i - (Len(p) + 1)
      OBVIOUS
    <3>2. j \in 1..Len(m) /\ i = Len(p) + 1 + j
      BY <2>a, <3>1, <1>1
    <3>3. k[i] = m[j] /\ m[j] \in S
      BY <3>2, <1>4, ElementOfSeq
    <3> QED
      BY <3>3
  <2>4. /\ u \in Seq(S) /\ Len(u) = IF a <= b THEN b - a + 1 ELSE 0
        /\ \A i \in 1..b - a + 1 : u[i] = k[a + i - 1]
    <3>1. u \in Seq(S)
      BY <2>1, <2>2, <2>3, SubSeqProperties
    <3>2. Len(u) = IF a <= b THEN b - a + 1 ELSE 0
      BY <2>1, <2>2, <2>3, SubSeqProperties
    <3>3. \A i \in 1..b - a + 1 : u[i] = k[a + i - 1]
      <4>1. \A i \in 1..b - a + 1 : SubSeq(k, a, b)[i] = k[a + i - 1]
        BY ONLY <2>2, <2>3, SubSeqProperties
      <4> QED
        BY <2>1, <4>1
    <3> QED
      BY <3>1, <3>2, <3>3
  <2>5. Len(u) = Len(m)
    BY <2>4, <2>a, <1>1
  <2>6. \A i \in 1..Len(u) : u[i] = m[i]
    <3> TAKE i \in 1..Len(u)
    <3>1. i \in 1..Len(m) /\ i \in 1..b - a + 1 /\ a + i - 1 = Len(p) + 1 + i
      BY <2>5, <2>a, <1>1
    <3>2. u[i] = k[a + i - 1]
      BY <3>1, <2>4
    <3> QED
      BY <3>1, <3>2, <1>4
  <2>7. u = m
    BY <2>4, <2>5, <2>6, SeqEqual
  <2> QED
    BY <2>1, <2>7, <2>a
<1>12. Len(p) + 1 - 1 = Len(p)
  BY <1>1
<1> QED
  BY <1>9, <1>10, <1>11, <1>12 DEF IsMarked

\* Another separator in its place.
Swaps(p, m, c, d) == ReplaceAt(p \o <<c>> \o m, Len(p) + 1, d) = p \o <<d>> \o m

\* The separator is swapped for another one, and nothing else changes.
LEMMA MarkReplaced ==
  ASSUME NEW S, NEW p \in Seq(S), NEW m \in Seq(S), NEW c, NEW d
  PROVE  Swaps(p, m, c, d)
<1>0. PICK k : k = p \o <<c>> \o m
  OBVIOUS
<1>1. PICK w : w = p \o <<d>> \o m
  OBVIOUS
<1>2. PICK U : U = S \cup {c, d}
  OBVIOUS
<1>3. PICK v : v = ReplaceAt(k, Len(p) + 1, d)
  OBVIOUS
<1>4. /\ k \in Seq(S \cup {c})
      /\ Len(p) \in Nat /\ Len(m) \in Nat /\ Len(k) = Len(p) + 1 + Len(m)
  BY <1>0, AroundMark
<1>5. \A i \in 1..Len(p) : k[i] = p[i]
  BY <1>0, AroundMark
<1>6. \A i \in 1..Len(m) : k[Len(p) + 1 + i] = m[i]
  BY <1>0, AroundMark
<1>7. w \in Seq(S \cup {d}) /\ Len(w) = Len(p) + 1 + Len(m)
  BY <1>1, AroundMark
<1>8. \A i \in 1..Len(p) : w[i] = p[i]
  BY <1>1, AroundMark
<1>9. \A i \in 1..Len(m) : w[Len(p) + 1 + i] = m[i]
  BY <1>1, AroundMark
<1>10. w[Len(p) + 1] = d
  BY <1>1, AroundMark
<1>11. k \in Seq(U) /\ w \in Seq(U) /\ d \in U
  BY <1>2, <1>4, <1>7, SeqMonotonic
<1>12. Len(p) + 1 \in 1..Len(k)
  BY <1>4
<1>13. /\ v \in Seq(U) /\ Len(v) = Len(k)
       /\ \A i \in 1..Len(k) : v[i] = IF i = Len(p) + 1 THEN d ELSE k[i]
  <2>1. PICK n : n = Len(p) + 1
    OBVIOUS
  <2>2. n \in 1..Len(k) /\ v = [k EXCEPT ![n] = d]
    BY <1>3, <1>12, <2>1 DEF ReplaceAt
  <2>3. /\ v \in Seq(U) /\ Len(v) = Len(k)
        /\ \A i \in 1..Len(k) : v[i] = IF i = n THEN d ELSE k[i]
    <3>1. k \in Seq(U) /\ n \in 1..Len(k) /\ d \in U
      BY <1>11, <2>2
    <3>2. [k EXCEPT ![n] = d] \in Seq(U)
      BY <3>1, ExceptSeq
    <3>3. Len([k EXCEPT ![n] = d]) = Len(k)
      BY <3>1, ExceptSeq
    <3>4. \A i \in 1..Len(k) : [k EXCEPT ![n] = d][i] = IF i = n THEN d ELSE k[i]
      BY <3>1, LenProperties
    <3> QED
      BY <2>2, <3>2, <3>3, <3>4
  <2> QED
    BY <2>1, <2>3
<1>14. \A i \in 1..Len(v) : v[i] = w[i]
  <2> TAKE i \in 1..Len(v)
  <2>0. i \in 1..Len(k)
    BY <1>13
  <2>1. CASE i = Len(p) + 1
    BY <2>0, <2>1, <1>10, <1>13
  <2>2. CASE i <= Len(p)
    <3>1. i \in 1..Len(p) /\ i # Len(p) + 1
      BY <2>0, <2>2, <1>4
    <3> QED
      BY <2>0, <3>1, <1>5, <1>8, <1>13
  <2>3. CASE ~(i <= Len(p)) /\ i # Len(p) + 1
    <3>1. PICK j : j = i - (Len(p) + 1)
      OBVIOUS
    <3>2. j \in 1..Len(m) /\ i = Len(p) + 1 + j
      BY <2>0, <2>3, <3>1, <1>4
    <3> QED
      BY <2>0, <2>3, <3>2, <1>6, <1>9, <1>13
  <2> QED
    BY <2>1, <2>2, <2>3
<1>15. v = w
  <2>1. v \in Seq(U) /\ w \in Seq(U) /\ Len(v) = Len(w)
    BY <1>4, <1>7, <1>11, <1>13
  <2> QED
    BY ONLY <2>1, <1>14, SeqEqual
<1> QED
  BY <1>0, <1>1, <1>3, <1>15 DEF Swaps

\* Nothing to cut at.
LEMMA NoMark ==
  ASSUME NEW S, NEW s \in Seq(S), NEW tokens, S \cap tokens = {}
  PROVE  IndexAny(s, tokens) = 0
<1>1. \A i \in DOMAIN s : s[i] \in S
  BY LenProperties, ElementOfSeq
<1>2. Places(s, tokens) = {}
  BY <1>1 DEF Places
<1> QED
  BY <1>2 DEF IndexAny

-----------------------------------------------------------------------------
(* Keys and subjects. *)

String == Seq(Tokens)

\* A REST pattern, or the methods of a REST rule: a colon or a semicolon would be
\* taken for the separator, a question mark for the end of the path of a Delete.
Plain == Seq(Tokens \ {":", ";", "?"})

SubjectsOf(k) ==
  CASE k = "layers" -> String \X String \X String
    [] k = "services" -> String \X String
    [] k = "rest" -> Plain \X Plain

\* A key with no empty part.
IsKeyOf(k, key) ==
  IF k = "rest" THEN \E p, m \in Plain \ {EmptyString} : key = p \o <<":">> \o m
  ELSE key \in String /\ \A i \in 1..Len(Split(key)) : Split(key)[i] # EmptyString

\* What is written: subjects of any strings, any lists of roles, and by the other
\* tools any keys that have no empty part.
Inputs ==
  /\ Kinds \subseteq {"layers", "services", "rest"}
  /\ MaxWrites \in Nat
  /\ {"*", "r", "/**", "."} \subseteq Tokens
  /\ RoleLists \subseteq Seq(RoleNames)
  /\ \A k \in Kinds :
       /\ Subjects[k] \subseteq SubjectsOf(k)
       /\ \A entry \in Foreign[k] :
            IsKeyOf(k, entry[1]) /\ entry[2] \in Seq(RoleNames) \ {<<>>}

IsKey(key) == IsKeyOf(ruleKind, key)

KindOK == ruleKind \in {"layers", "services", "rest"} /\ {"*", "r", "/**", "."} \subseteq Tokens

\* A subject no part of which is left out.
IsFull(subject) ==
  /\ subject \in SubjectsOf(ruleKind)
  /\ subject[1] # EmptyString /\ subject[2] # EmptyString
  /\ ruleKind = "layers" => subject[3] # EmptyString

\* The key of a subject with no part left out.
KeyOf(subject) ==
  CASE ruleKind = "layers" -> subject[1] \o <<".">> \o subject[2] \o <<".">> \o subject[3]
    [] ruleKind = "services" -> subject[1] \o <<".">> \o subject[2]
    [] ruleKind = "rest" -> subject[1] \o <<":">> \o subject[2]

\* Strings of one token.
LEMMA ShortStrings ==
  ASSUME KindOK
  PROVE  /\ Star \in String /\ Star # EmptyString
         /\ <<"r">> \in String /\ <<"r">> # EmptyString
         /\ Star \in Plain /\ <<"/**">> \in Plain /\ <<"/**">> # EmptyString
<1>1. "*" \in Tokens /\ "r" \in Tokens /\ "/**" \in Tokens
  BY DEF KindOK
<1>2. "*" \in Tokens \ {":", ";", "?"} /\ "/**" \in Tokens \ {":", ";", "?"}
  BY <1>1
<1>3. \A S, x : x \in S => <<x>> \in Seq(S) /\ <<x>> # <<>>
  OBVIOUS
<1> QED
  BY <1>1, <1>2, <1>3 DEF Star, EmptyString, String, Plain

\* A part that is left out is its default.
LEMMA DefaultIs ==
  ASSUME NEW S, NEW a \in Seq(S), NEW d \in Seq(S), d # EmptyString
  PROVE  /\ Default(a, d) \in Seq(S) /\ Default(a, d) # EmptyString
         /\ a # EmptyString => Default(a, d) = a
BY DEF Default

\* Completing, part by part.
LEMMA CompletedThree ==
  ASSUME ruleKind = "layers", NEW a, NEW b, NEW c
  PROVE  Completed(<<a, b, c>>) = <<Default(a, Star), Default(b, Star), Default(c, <<"r">>)>>
<1>1. PICK s : s = <<a, b, c>>
  OBVIOUS
<1>2. DOMAIN s = 1..3 /\ s[1] = a /\ s[2] = b /\ s[3] = c
  BY <1>1
<1>3. PICK d : d = Defaults
  OBVIOUS
<1>4. d = <<Star, Star, <<"r">>>>
  BY <1>3 DEF Defaults
<1>5. d[1] = Star /\ d[2] = Star /\ d[3] = <<"r">>
  BY <1>4
<1>6. Completed(s) = [i \in 1..3 |-> Default(s[i], d[i])]
  BY <1>2, <1>3 DEF Completed
<1>7. [i \in 1..3 |-> Default(s[i], d[i])] =
        <<Default(s[1], d[1]), Default(s[2], d[2]), Default(s[3], d[3])>>
  OBVIOUS
<1> QED
  BY <1>1, <1>2, <1>5, <1>6, <1>7

\* The two parts of a service rule.
LEMMA CompletedTwo ==
  ASSUME ruleKind = "services", NEW a, NEW b
  PROVE  Completed(<<a, b>>) = <<Default(a, Star), Default(b, Star)>>
<1>1. PICK s : s = <<a, b>>
  OBVIOUS
<1>2. DOMAIN s = 1..2 /\ s[1] = a /\ s[2] = b
  BY <1>1
<1>3. PICK d : d = Defaults
  OBVIOUS
<1>4. d = <<Star, Star>>
  BY <1>3 DEF Defaults
<1>5. d[1] = Star /\ d[2] = Star
  BY <1>4
<1>6. Completed(s) = [i \in 1..2 |-> Default(s[i], d[i])]
  BY <1>2, <1>3 DEF Completed
<1>7. [i \in 1..2 |-> Default(s[i], d[i])] = <<Default(s[1], d[1]), Default(s[2], d[2])>>
  OBVIOUS
<1> QED
  BY <1>1, <1>2, <1>5, <1>6, <1>7

\* The pattern and the methods of a REST rule.
LEMMA CompletedREST ==
  ASSUME ruleKind = "rest", NEW a, NEW b
  PROVE  Completed(<<a, b>>) = <<Default(a, <<"/**">>), Default(b, Star)>>
<1>1. PICK s : s = <<a, b>>
  OBVIOUS
<1>2. DOMAIN s = 1..2 /\ s[1] = a /\ s[2] = b
  BY <1>1
<1>3. PICK d : d = Defaults
  OBVIOUS
<1>4. d = <<<<"/**">>, Star>>
  BY <1>3 DEF Defaults
<1>5. d[1] = <<"/**">> /\ d[2] = Star
  BY <1>4
<1>6. Completed(s) = [i \in 1..2 |-> Default(s[i], d[i])]
  BY <1>2, <1>3 DEF Completed
<1>7. [i \in 1..2 |-> Default(s[i], d[i])] = <<Default(s[1], d[1]), Default(s[2], d[2])>>
  OBVIOUS
<1> QED
  BY <1>1, <1>2, <1>5, <1>6, <1>7

\* Completing leaves no part out, and what is there it leaves alone.
LEMMA CompletedIsFull ==
  ASSUME KindOK, NEW s \in SubjectsOf(ruleKind)
  PROVE  /\ IsFull(Completed(s))
         /\ IsFull(s) => Completed(s) = s
<1>1. CASE ruleKind = "layers"
  <2>1. PICK a \in String, b \in String, c \in String : s = <<a, b, c>>
    BY <1>1 DEF SubjectsOf
  <2>2. PICK x : x = Default(a, Star)
    OBVIOUS
  <2>3. PICK y : y = Default(b, Star)
    OBVIOUS
  <2>4. PICK z : z = Default(c, <<"r">>)
    OBVIOUS
  <2>5. /\ x \in String /\ x # EmptyString /\ (a # EmptyString => x = a)
        /\ y \in String /\ y # EmptyString /\ (b # EmptyString => y = b)
        /\ z \in String /\ z # EmptyString /\ (c # EmptyString => z = c)
    BY <2>2, <2>3, <2>4, ShortStrings, DefaultIs DEF String
  <2>6. Completed(s) = <<x, y, z>>
    BY <1>1, <2>1, <2>2, <2>3, <2>4, CompletedThree
  <2>7. IsFull(<<x, y, z>>)
    BY <1>1, <2>5 DEF IsFull, SubjectsOf
  <2>8. IsFull(s) => a # EmptyString /\ b # EmptyString /\ c # EmptyString
    BY <1>1, <2>1 DEF IsFull
  <2> QED
    BY <2>1, <2>5, <2>6, <2>7, <2>8
<1>2. CASE ruleKind = "services"
  <2>1. PICK a \in String, b \in String : s = <<a, b>>
    BY <1>2 DEF SubjectsOf
  <2>2. PICK x : x = Default(a, Star)
    OBVIOUS
  <2>3. PICK y : y = Default(b, Star)
    OBVIOUS
  <2>5. /\ x \in String /\ x # EmptyString /\ (a # EmptyString => x = a)
        /\ y \in String /\ y # EmptyString /\ (b # EmptyString => y = b)
    BY <2>2, <2>3, ShortStrings, DefaultIs DEF String
  <2>6. Completed(s) = <<x, y>>
    BY <1>2, <2>1, <2>2, <2>3, CompletedTwo
  <2>7. IsFull(<<x, y>>)
    BY <1>2, <2>5 DEF IsFull, SubjectsOf
  <2>8. IsFull(s) => a # EmptyString /\ b # EmptyString
    BY <1>2, <2>1 DEF IsFull
  <2> QED
    BY <2>1, <2>5, <2>6, <2>7, <2>8
<1>3. CASE ruleKind = "rest"
  <2>1. PICK a \in Plain, b \in Plain : s = <<a, b>>
    BY <1>3 DEF SubjectsOf
  <2>2. PICK x : x = Default(a, <<"/**">>)
    OBVIOUS
  <2>3. PICK y : y = Default(b, Star)
    OBVIOUS
  <2>5. /\ x \in Plain /\ x # EmptyString /\ (a # EmptyString => x = a)
        /\ y \in Plain /\ y # EmptyString /\ (b # EmptyString => y = b)
    BY <2>2, <2>3, ShortStrings, DefaultIs DEF Plain
  <2>6. Completed(s) = <<x, y>>
    BY <1>3, <2>1, <2>2, <2>3, CompletedREST
  <2>7. IsFull(<<x, y>>)
    BY <1>3, <2>5 DEF IsFull, SubjectsOf
  <2>8. IsFull(s) => a # EmptyString /\ b # EmptyString
    BY <1>3, <2>1 DEF IsFull
  <2> QED
    BY <2>1, <2>5, <2>6, <2>7, <2>8
<1> QED
  BY <1>1, <1>2, <1>3 DEF KindOK

\* The key of a rule is the key of its completed subject.
LEMMA EncodedKey ==
  ASSUME KindOK, NEW s
  PROVE  EncodeKey(s) = KeyOf(Completed(s))
BY DEF EncodeKey, KeyOf, KindOK

\* Two plain strings and a separator between them.
LEMMA PlainMark ==
  ASSUME NEW p \in Plain, NEW m \in Plain
  PROVE  /\ IsMarked(p, m, p \o <<":">> \o m, Separators)
         /\ IsMarked(p, m, p \o <<":">> \o m, {":"})
         /\ IsMarked(p, m, p \o <<";">> \o m, Separators)
         /\ ReplaceAt(p \o <<":">> \o m, Len(p) + 1, ";") = p \o <<";">> \o m
         /\ IndexAny(p \o <<";">> \o m, {"?"}) = 0
<1>1. PICK S : S = Tokens \ {":", ";", "?"}
  OBVIOUS
<1>2. p \in Seq(S) /\ m \in Seq(S)
  BY <1>1 DEF Plain
<1>3. S \cap Separators = {} /\ S \cap {":"} = {}
  BY <1>1 DEF Separators
<1>4. ":" \in Separators /\ ";" \in Separators /\ ":" \in {":"}
  BY DEF Separators
<1>5. /\ IsMarked(p, m, p \o <<":">> \o m, Separators)
      /\ IsMarked(p, m, p \o <<":">> \o m, {":"})
      /\ IsMarked(p, m, p \o <<";">> \o m, Separators)
  BY <1>2, <1>3, <1>4, MarkIs
<1>6. ReplaceAt(p \o <<":">> \o m, Len(p) + 1, ";") = p \o <<";">> \o m
  <2>1. Swaps(p, m, ":", ";")
    BY <1>2, MarkReplaced
  <2> QED
    BY <2>1 DEF Swaps
<1>7. IndexAny(p \o <<";">> \o m, {"?"}) = 0
  <2>1. PICK w : w = p \o <<";">> \o m
    OBVIOUS
  <2>2. w \in Seq(S \cup {";"})
    BY <1>2, <2>1, AroundMark
  <2>3. (S \cup {";"}) \cap {"?"} = {}
    BY <1>1
  <2>4. IndexAny(w, {"?"}) = 0
    BY <2>2, <2>3, NoMark
  <2> QED
    BY <2>1, <2>4
<1> QED
  BY <1>5, <1>6, <1>7

\* How the server and the package read the key of a REST rule.
LEMMA PlainReads ==
  ASSUME ruleKind = "rest", NEW p \in Plain, NEW m \in Plain
  PROVE  /\ ReadsAs(p \o <<":">> \o m) = <<p, m>>
         /\ ReadsAs(p \o <<";">> \o m) = <<p, m>>
<1>1. \A k : IsMarked(p, m, k, Separators) => ReadsAs(k) = <<p, m>>
  <2> TAKE k
  <2> HAVE IsMarked(p, m, k, Separators)
  <2>1. Len(p) \in Nat
    BY LenProperties DEF Plain
  <2>2. PICK n : n = Len(p) + 1
    OBVIOUS
  <2>3. n # 0
    BY <2>1, <2>2
  <2>4. LastIndexAny(k, Separators) = n /\ SubSeq(k, 1, n - 1) = p /\ SubSeq(k, n + 1, Len(k)) = m
    BY <2>2 DEF IsMarked
  <2> QED
    BY <2>3, <2>4 DEF ReadsAs
<1> QED
  BY <1>1, PlainMark

\* Two strings with a token between them.
LEMMA Between ==
  ASSUME NEW S, NEW a \in Seq(S), NEW b \in Seq(S), NEW x \in S
  PROVE  a \o <<x>> \o b \in Seq(S)
<1>1. <<x>> \in Seq(S)
  OBVIOUS
<1>2. a \o <<x>> \in Seq(S)
  BY <1>1, ConcatProperties
<1> QED
  BY <1>2, ConcatProperties

\* The key of a full subject, if the server accepts it, reads as that subject: no
\* name in it has a dot.
LEMMA FullKey ==
  ASSUME KindOK, NEW c, IsFull(c), NEW key, key = KeyOf(c), Accepts(key)
  PROVE  IsKey(key) /\ ReadsAs(key) = c
<1>0. "." \in Tokens
  BY DEF KindOK
<1>1. CASE ruleKind = "layers"
  <2>1. PICK a \in String, b \in String, d \in String : c = <<a, b, d>>
    BY <1>1 DEF IsFull, SubjectsOf
  <2>2. a # EmptyString /\ b # EmptyString /\ d # EmptyString
    BY <1>1, <2>1 DEF IsFull
  <2>3. key = a \o <<".">> \o b \o <<".">> \o d
    BY <1>1, <2>1 DEF KeyOf
  <2>4. key \in String
    BY <1>0, <2>3, Between DEF String
  <2>5. Len(Defaults) = 3
    BY <1>1 DEF Defaults
  <2>6. ReadsAs(key) = Split(key)
    BY <1>1 DEF ReadsAs
  <2>7. Len(Split(key)) = 3
    BY <2>5, <2>6 DEF Accepts
  <2>8. Split(key) = <<a, b, d>>
    BY <1>0, <2>3, <2>7, ThreeParts DEF String
  <2>9. \A i \in 1..Len(Split(key)) : Split(key)[i] # EmptyString
    BY <2>2, <2>8
  <2>10. IsKey(key)
    BY <1>1, <2>4, <2>9 DEF IsKey, IsKeyOf
  <2> QED
    BY <2>1, <2>6, <2>8, <2>10
<1>2. CASE ruleKind = "services"
  <2>1. PICK a \in String, b \in String : c = <<a, b>>
    BY <1>2 DEF IsFull, SubjectsOf
  <2>2. a # EmptyString /\ b # EmptyString
    BY <1>2, <2>1 DEF IsFull
  <2>3. key = a \o <<".">> \o b
    BY <1>2, <2>1 DEF KeyOf
  <2>4. key \in String
    BY <1>0, <2>3, Between DEF String
  <2>5. Len(Defaults) = 2
    BY <1>2 DEF Defaults
  <2>6. ReadsAs(key) = Split(key)
    BY <1>2 DEF ReadsAs
  <2>7. Len(Split(key)) = 2
    BY <2>5, <2>6 DEF Accepts
  <2>8. Split(key) = <<a, b>>
    BY <1>0, <2>3, <2>7, TwoParts DEF String
  <2>9. \A i \in 1..Len(Split(key)) : Split(key)[i] # EmptyString
    BY <2>2, <2>8
  <2>10. IsKey(key)
    BY <1>2, <2>4, <2>9 DEF IsKey, IsKeyOf
  <2> QED
    BY <2>1, <2>6, <2>8, <2>10
<1>3. CASE ruleKind = "rest"
  <2>1. PICK p \in Plain, m \in Plain : c = <<p, m>>
    BY <1>3 DEF IsFull, SubjectsOf
  <2>2. p # EmptyString /\ m # EmptyString
    BY <1>3, <2>1 DEF IsFull
  <2>3. key = p \o <<":">> \o m
    BY <1>3, <2>1 DEF KeyOf
  <2>4. IsKey(key)
    BY <1>3, <2>2, <2>3 DEF IsKey, IsKeyOf
  <2>5. ReadsAs(key) = <<p, m>>
    BY <1>3, <2>3, PlainReads
  <2> QED
    BY <2>1, <2>4, <2>5
<1> QED
  BY <1>1, <1>2, <1>3 DEF KindOK

\* A key is read as one subject, and no other key is.
LEMMA KeysDiffer ==
  ASSUME KindOK, NEW k, NEW h, IsKey(k), IsKey(h), ReadsAs(k) = ReadsAs(h)
  PROVE  k = h
<1>1. CASE ruleKind = "rest"
  <2>1. PICK p, m \in Plain : k = p \o <<":">> \o m
    BY <1>1 DEF IsKey, IsKeyOf
  <2>2. PICK q, n \in Plain : h = q \o <<":">> \o n
    BY <1>1 DEF IsKey, IsKeyOf
  <2>3. ReadsAs(k) = <<p, m>> /\ ReadsAs(h) = <<q, n>>
    BY <1>1, <2>1, <2>2, PlainReads
  <2>4. <<p, m>> = <<q, n>>
    BY <2>3
  <2>5. p = q /\ m = n
    BY <2>4
  <2> QED
    BY <2>1, <2>2, <2>5
<1>2. CASE ruleKind # "rest"
  <2>1. k \in Seq(Tokens) /\ h \in Seq(Tokens)
    BY <1>2 DEF IsKey, IsKeyOf, String
  <2>2. Split(k) = Split(h)
    BY <1>2 DEF ReadsAs
  <2> QED
    BY <2>1, <2>2, SplitInjective
<1> QED
  BY <1>1, <1>2

\* A key is not empty.
LEMMA KeyNotEmpty ==
  ASSUME NEW k, IsKey(k)
  PROVE  k # EmptyString
<1>1. CASE ruleKind = "rest"
  <2>1. PICK p, m \in Plain : k = p \o <<":">> \o m
    BY <1>1 DEF IsKey, IsKeyOf
  <2>2. Len(p) \in Nat /\ Len(m) \in Nat /\ Len(k) = Len(p) + 1 + Len(m)
    <3>1. PICK c : c = ":"
      OBVIOUS
    <3>2. PICK S : S = Tokens \ {":", ";", "?"}
      OBVIOUS
    <3>3. p \in Seq(S) /\ m \in Seq(S) /\ k = p \o <<c>> \o m
      BY <2>1, <3>1, <3>2 DEF Plain
    <3> QED
      BY <3>3, AroundMark
  <2>3. Len(k) # 0
    BY ONLY <2>2
  <2> QED
    BY <2>3 DEF EmptyString
<1>2. CASE ruleKind # "rest"
  <2>1. \A i \in 1..Len(Split(k)) : Split(k)[i] # EmptyString
    BY <1>2 DEF IsKey, IsKeyOf
  <2>2. k = EmptyString => Split(k) = <<EmptyString>>
    BY SplitNone DEF EmptyString
  <2>3. Len(<<EmptyString>>) = 1 /\ <<EmptyString>>[1] = EmptyString /\ 1 \in 1..1
    OBVIOUS
  <2> QED
    BY <2>1, <2>2, <2>3
<1> QED
  BY <1>1, <1>2

\* A listed rule is the entry it came from.
IsEntry(key, roles, rule) ==
  /\ IsFull(rule.subject)
  /\ EncodeKey(rule.subject) = key
  /\ ReadsAs(key) = rule.subject
  /\ ReadsAs(DeletePath(rule.subject)) = rule.subject
  /\ rule.roles = DecodeRoles(roles)
  /\ Completed(rule.subject) = rule.subject

\* The subject that the parts of a dotted key are.
LEMMA DottedSubject ==
  ASSUME KindOK, ruleKind # "rest", NEW key, IsKey(key), Len(Split(key)) = Len(Defaults)
  PROVE  IsFull(Split(key)) /\ KeyOf(Split(key)) = key
<1>0. "." \in Tokens /\ key \in Seq(Tokens)
  BY DEF KindOK, IsKey, IsKeyOf, String
<1>1. PICK s : s = Split(key)
  OBVIOUS
<1>2. \A i \in 1..Len(s) : s[i] # EmptyString
  BY <1>1 DEF IsKey, IsKeyOf
<1>3. s \in Seq(Seq(Tokens \ {"."}))
  BY <1>0, <1>1, SplitType
<1>4. CASE ruleKind = "layers"
  <2>1. Len(s) = 3
    BY <1>1, <1>4 DEF Defaults
  <2>2. PICK a, b, c : s = <<a, b, c>>
    BY <1>3, <2>1
  <2>3. /\ a \in Seq(Tokens) /\ b \in Seq(Tokens) /\ c \in Seq(Tokens)
        /\ a \o <<".">> \o b \o <<".">> \o c = key
    <3>1. Split(key) = <<a, b, c>>
      BY <1>1, <2>2
    <3>2. a \in Seq(Tokens) /\ b \in Seq(Tokens) /\ c \in Seq(Tokens)
      BY <1>0, <3>1, ThreeBack
    <3>3. Dotted(a, b, c) = key
      BY <1>0, <3>1, ThreeBack
    <3> QED
      BY <3>2, <3>3 DEF Dotted
  <2>4. a # EmptyString /\ b # EmptyString /\ c # EmptyString
    BY <1>2, <2>2
  <2>5. IsFull(s)
    BY <1>4, <2>2, <2>3, <2>4 DEF IsFull, SubjectsOf, String
  <2>6. KeyOf(s) = key
    BY <1>4, <2>2, <2>3 DEF KeyOf
  <2> QED
    BY <1>1, <2>5, <2>6
<1>5. CASE ruleKind = "services"
  <2>1. Len(s) = 2
    BY <1>1, <1>5 DEF Defaults
  <2>2. PICK a, b : s = <<a, b>>
    BY <1>3, <2>1
  <2>3. a \in Seq(Tokens) /\ b \in Seq(Tokens) /\ a \o <<".">> \o b = key
    BY <1>0, <1>1, <2>2, TwoBack
  <2>4. a # EmptyString /\ b # EmptyString
    BY <1>2, <2>2
  <2>5. IsFull(s)
    BY <1>5, <2>2, <2>3, <2>4 DEF IsFull, SubjectsOf, String
  <2>6. KeyOf(s) = key
    BY <1>5, <2>2, <2>3 DEF KeyOf
  <2> QED
    BY <1>1, <2>5, <2>6
<1> QED
  BY <1>4, <1>5 DEF KindOK

\* What List makes of an entry of the table.
LEMMA DecodedEntry ==
  ASSUME KindOK, NEW key, IsKey(key), NEW roles, NEW rule, rule = Decode(key, roles),
         rule # Error
  PROVE  IsEntry(key, roles, rule)
<1>1. CASE ruleKind # "rest"
  <2>1. rule = DecodeRule(key, roles)
    BY <1>1 DEF Decode
  <2>2. Len(Split(key)) = Len(Defaults) /\ rule = Rule(Split(key), DecodeRoles(roles))
    BY <2>1 DEF DecodeRule
  <2>3. rule.subject = Split(key) /\ rule.roles = DecodeRoles(roles)
    BY <2>2 DEF Rule
  <2>4. PICK s : s = rule.subject
    OBVIOUS
  <2>5. IsFull(s) /\ KeyOf(s) = key
    BY <1>1, <2>2, <2>3, <2>4, DottedSubject
  <2>6. s \in SubjectsOf(ruleKind)
    BY <2>5 DEF IsFull
  <2>7. Completed(s) = s
    BY <2>5, <2>6, CompletedIsFull
  <2>8. EncodeKey(s) = key
    BY <2>5, <2>7, EncodedKey
  <2>9. DeletePath(s) = key
    BY <1>1, <2>8 DEF DeletePath
  <2>10. ReadsAs(key) = s
    BY <1>1, <2>3, <2>4 DEF ReadsAs
  <2> QED
    BY <2>3, <2>4, <2>5, <2>7, <2>8, <2>9, <2>10 DEF IsEntry
<1>2. CASE ruleKind = "rest"
  <2>1. PICK p, m \in Plain \ {EmptyString} : key = p \o <<":">> \o m
    BY <1>2 DEF IsKey, IsKeyOf
  <2>2. PICK path : path = p \o <<";">> \o m
    OBVIOUS
  <2>3. /\ IsMarked(p, m, key, Separators) /\ IsMarked(p, m, key, {":"})
        /\ ReplaceAt(key, Len(p) + 1, ";") = path
        /\ IndexAny(path, {"?"}) = 0
    BY <2>1, <2>2, PlainMark
  <2>4. PICK n : n = Len(p) + 1
    OBVIOUS
  <2>5. n # 0
    <3>1. Len(p) \in Nat
      BY LenProperties DEF Plain
    <3> QED
      BY <2>4, <3>1
  <2>6. /\ IndexAny(key, Separators) = n /\ IndexAny(key, {":"}) = n
        /\ SubSeq(key, 1, n - 1) = p /\ SubSeq(key, n + 1, Len(key)) = m
    <3>1. IndexAny(key, {":"}) = n
      BY <2>3, <2>4 DEF IsMarked
    <3>2. IsMarked(p, m, key, Separators)
      BY <2>3
    <3>3. IndexAny(key, Separators) = n
      BY <2>4, <3>2 DEF IsMarked
    <3>4. SubSeq(key, 1, n - 1) = p
      BY <2>4, <3>2 DEF IsMarked
    <3>5. SubSeq(key, n + 1, Len(key)) = m
      BY <2>4, <3>2 DEF IsMarked
    <3> QED
      BY <3>1, <3>3, <3>4, <3>5
  <2>7. rule = DecodeRESTRule(key, roles)
    BY <1>2 DEF Decode
  <2>8. rule = Rule(<<p, m>>, DecodeRoles(roles))
    BY <2>5, <2>6, <2>7 DEF DecodeRESTRule
  <2>9. rule.subject = <<p, m>> /\ rule.roles = DecodeRoles(roles)
    BY <2>8 DEF Rule
  <2>10. PICK s : s = <<p, m>>
    OBVIOUS
  <2>11. IsFull(s)
    BY <1>2, <2>1, <2>10 DEF IsFull, SubjectsOf
  <2>12. Completed(s) = s
    <3>1. s \in SubjectsOf(ruleKind)
      BY <2>11 DEF IsFull
    <3> QED
      BY <2>11, <3>1, CompletedIsFull
  <2>13. KeyOf(s) = key
    BY <1>2, <2>1, <2>10 DEF KeyOf
  <2>14. EncodeKey(s) = key
    BY <2>12, <2>13, EncodedKey
  <2>15. EncodePathSegment(s) = path
    BY <2>3, <2>4, <2>5, <2>6, <2>14 DEF EncodePathSegment
  <2>16. DeletePath(s) = path
    BY <1>2, <2>3, <2>15 DEF DeletePath
  <2>17. ReadsAs(key) = s /\ ReadsAs(path) = s
    BY <1>2, <2>1, <2>2, <2>10, PlainReads
  <2> QED
    BY <2>9, <2>10, <2>11, <2>12, <2>14, <2>16, <2>17 DEF IsEntry
<1> QED
  BY <1>1, <1>2

-----------------------------------------------------------------------------
(* The invariant. *)

RoleStrings == {JoinRoles(roles) : roles \in Seq(Roles) \ {<<>>}}

\* An entry of the table: a key the package could have written, or one of another
\* tool, and roles.
IsRow(e) == e = <<e[1], e[2]>> /\ IsKey(e[1]) /\ e[2] \in RoleStrings

TableOK == \A k \in DOMAIN rules : IsKey(k) /\ rules[k] \in RoleStrings

\* What an administrator holds is the decoded form of a whole table of the past.
HeldOK ==
  /\ held = [a \in Administrators |-> held[a]]
  /\ \A a \in Administrators :
       /\ held[a].ok \in BOOLEAN
       /\ \A e \in held[a].table : IsRow(e) /\ Decode(e[1], e[2]) # Error
       /\ held[a].rules = {Decode(e[1], e[2]) : e \in held[a].table}

IInv ==
  /\ ruleKind \in Kinds /\ writes \in 0..MaxWrites
  /\ TableOK
  /\ RulesMeanWhatWasSaid
  /\ HeldOK

\* The sub-client in use is one of the three.
LEMMA KindIsOK ==
  ASSUME Inputs, ruleKind \in Kinds
  PROVE  KindOK
BY DEF Inputs, KindOK

\* The sub-client in use stays the same, and with it what keys and roles mean.
LEMMA SameKind ==
  ASSUME ruleKind' = ruleKind
  PROVE  /\ \A k : IsKey(k)' <=> IsKey(k)
         /\ \A k : ReadsAs(k)' = ReadsAs(k)
         /\ \A k, r : Decode(k, r)' = Decode(k, r)
         /\ RoleStrings' = RoleStrings
         /\ \A e : IsRow(e)' <=> IsRow(e)
<1>1. \A k : IsKey(k)' <=> IsKey(k)
  BY DEF IsKey, IsKeyOf
<1>2. \A k : ReadsAs(k)' = ReadsAs(k)
  BY DEF ReadsAs
<1>3. \A k, r : Decode(k, r)' = Decode(k, r)
  BY DEF Decode, DecodeRule, DecodeRESTRule, Defaults
<1>4. RoleStrings' = RoleStrings
  BY DEF RoleStrings, Roles
<1>5. \A e : IsRow(e)' <=> IsRow(e)
  BY <1>1, <1>4 DEF IsRow
<1> QED
  BY <1>1, <1>2, <1>3, <1>4, <1>5

-----------------------------------------------------------------------------
(* Roles. *)

\* What was joined splits into what it was joined from.
LEMMA JoinedRoles ==
  ASSUME NEW roles \in Seq(Roles), roles # <<>>
  PROVE  /\ SplitRoles(JoinRoles(roles)) = roles
         /\ JoinRoles(roles) \in Seq(Roles \cup {","})
         /\ JoinRoles(roles) \in RoleStrings
<1>1. PICK n : n = Len(roles)
  OBVIOUS
<1>2. n \in Nat /\ n >= 1 /\ DOMAIN roles = 1..n /\ \A i \in 1..n : roles[i] \in Roles
  BY <1>1
<1>3. PICK s : s = JoinRoles(roles)
  OBVIOUS
<1>4. s = [i \in 1..(2 * n - 1) |-> IF i % 2 = 1 THEN roles[(i + 1) \div 2] ELSE ","]
  BY <1>1, <1>3 DEF JoinRoles
<1>5. \A i \in 1..(2 * n - 1) : i % 2 = 1 => (i + 1) \div 2 \in 1..n
  BY ONLY <1>2
<1>6. s \in [1..(2 * n - 1) -> Roles \cup {","}]
  BY <1>2, <1>4, <1>5
<1>7. s \in Seq(Roles \cup {","}) /\ Len(s) = 2 * n - 1
  <2>1. PICK m : m = 2 * n - 1
    OBVIOUS
  <2>2. m \in Nat
    BY <1>2, <2>1
  <2>3. s \in [1..m -> Roles \cup {","}]
    BY <1>6, <2>1
  <2>4. PICK S : S = Roles \cup {","}
    OBVIOUS
  <2>5. s \in [1..m -> S]
    BY ONLY <2>3, <2>4
  <2>6. s \in Seq(S) /\ Len(s) = m
    BY ONLY <2>2, <2>5
  <2> QED
    BY ONLY <2>1, <2>4, <2>6
<1>8. (Len(s) + 1) \div 2 = n
  <2>1. n \in Nat /\ Len(s) = 2 * n - 1
    BY <1>2, <1>7
  <2>2. (2 * n - 1 + 1) \div 2 = n
    BY ONLY <2>1
  <2> QED
    BY ONLY <2>1, <2>2
<1>9. \A i \in 1..n : s[2 * i - 1] = roles[i]
  <2> TAKE i \in 1..n
  <2>1. /\ 2 * i - 1 \in 1..(2 * n - 1)
        /\ (2 * i - 1) % 2 = 1
        /\ (2 * i - 1 + 1) \div 2 = i
    BY ONLY <1>2, i \in 1..n
  <2> QED
    BY <1>4, <2>1
<1>10. SplitRoles(s) = [i \in 1..n |-> s[2 * i - 1]]
  BY <1>8 DEF SplitRoles
<1>11. SplitRoles(s) = roles
  BY <1>2, <1>9, <1>10
<1> QED
  BY <1>3, <1>7, <1>11 DEF RoleStrings

\* The list of any role.
LEMMA StarRoles ==
  /\ Star \in Seq(Roles) /\ Star # <<>>
  /\ JoinRoles(Star) = Star
  /\ Means(Star) = Everyone
<1>1. "*" \in Roles
  BY DEF Roles
<1>2. PICK star : star = Star
  OBVIOUS
<1>3. star \in Seq(Roles) /\ star # <<>> /\ Len(star) = 1 /\ star[1] = "*" /\ 1 \in 1..1
  BY <1>1, <1>2 DEF Star
<1>4. Contains(star, "*")
  BY <1>3 DEF Contains
<1>5. Means(star) = Everyone
  BY <1>4 DEF Means
<1>6. JoinRoles(star) = [i \in 1..1 |-> IF i % 2 = 1 THEN star[(i + 1) \div 2] ELSE ","]
  BY <1>3 DEF JoinRoles
<1>7. JoinRoles(star) = [i \in 1..1 |-> "*"]
  <2>1. 1 % 2 = 1 /\ (1 + 1) \div 2 = 1
    OBVIOUS
  <2>2. \A i \in 1..1 : (IF i % 2 = 1 THEN star[(i + 1) \div 2] ELSE ",") = "*"
    BY <1>3, <2>1
  <2> QED
    BY ONLY <1>6, <2>2
<1>8. star = [i \in 1..1 |-> "*"]
  BY <1>2 DEF Star
<1> QED
  BY <1>2, <1>3, <1>5, <1>7, <1>8

\* "*" alone, for an empty list.
LEMMA EncodedRoles ==
  ASSUME NEW roles \in Seq(Roles)
  PROVE  /\ EncodeRoles(roles) \in RoleStrings
         /\ Admits(EncodeRoles(roles)) = Means(roles)
<1>1. PICK list : list = IF roles = <<>> THEN Star ELSE roles
  OBVIOUS
<1>2. list \in Seq(Roles) /\ list # <<>> /\ Means(list) = Means(roles)
  <2>1. Means(<<>>) = Everyone
    BY DEF Means
  <2> QED
    BY <1>1, <2>1, StarRoles
<1>3. EncodeRoles(roles) = JoinRoles(list)
  BY <1>1 DEF EncodeRoles
<1> QED
  BY <1>2, <1>3, JoinedRoles DEF Admits

\* Decoding stored roles and encoding them again gives what was stored.
LEMMA DecodedRoles ==
  ASSUME NEW s \in RoleStrings
  PROVE  /\ DecodeRoles(s) \in Seq(Roles)
         /\ EncodeRoles(DecodeRoles(s)) = s
<1>1. PICK roles \in Seq(Roles) \ {<<>>} : s = JoinRoles(roles)
  BY DEF RoleStrings
<1>2. SplitRoles(s) = roles
  BY <1>1, JoinedRoles
<1>3. s # EmptyString
  <2>1. SplitRoles(<<>>) = <<>>
    <3>1. Len(<<>>) = 0 /\ (0 + 1) \div 2 = 0
      OBVIOUS
    <3>2. SplitRoles(<<>>) = [i \in 1..0 |-> <<>>[2 * i - 1]]
      BY <3>1 DEF SplitRoles
    <3> QED
      BY ONLY <3>2
  <2> QED
    BY <1>1, <1>2, <2>1 DEF EmptyString
<1>4. CASE s = Star
  <2>1. DecodeRoles(s) = <<>> /\ <<>> \in Seq(Roles)
    BY <1>4, EmptySeq DEF DecodeRoles
  <2> QED
    BY <1>4, <2>1, StarRoles DEF EncodeRoles
<1>5. CASE s # Star
  <2>1. DecodeRoles(s) = roles
    BY <1>2, <1>3, <1>5 DEF DecodeRoles
  <2> QED
    BY <1>1, <2>1 DEF EncodeRoles
<1> QED
  BY <1>4, <1>5

\* Those a list admits are roles, and so are the tokens of what is stored.
LEMMA AdmitsRoles ==
  ASSUME NEW s \in RoleStrings
  PROVE  /\ Admits(s) \subseteq Roles
         /\ s \in Seq(Roles \cup {","})
<1>1. "*" \in Roles
  BY DEF Roles
<1>2. PICK roles \in Seq(Roles) \ {<<>>} : s = JoinRoles(roles)
  BY DEF RoleStrings
<1>3. SplitRoles(s) = roles /\ s \in Seq(Roles \cup {","})
  BY <1>2, JoinedRoles
<1>4. \A i \in DOMAIN roles : roles[i] \in Roles
  BY <1>2, LenProperties, ElementOfSeq
<1> QED
  BY <1>1, <1>3, <1>4 DEF Admits, Means, Everyone, ToSet

\* The roles that writers use.
LEMMA WrittenRoles ==
  ASSUME Inputs, ruleKind \in Kinds
  PROVE  /\ RoleLists \subseteq Seq(Roles)
         /\ \A entry \in Foreign[ruleKind] :
              IsKey(entry[1]) /\ entry[2] \in Seq(Roles) /\ entry[2] # <<>>
<1>1. \A r \in Seq(RoleNames) : ToSet(r) \subseteq Roles => r \in Seq(Roles)
  <2> TAKE r \in Seq(RoleNames)
  <2> HAVE ToSet(r) \subseteq Roles
  <2>1. Len(r) \in Nat /\ DOMAIN r = 1..Len(r)
    BY LenProperties
  <2>2. \A i \in 1..Len(r) : r[i] \in Roles
    BY <2>1 DEF ToSet
  <2>3. r \in [1..Len(r) -> Roles]
    BY <2>1, <2>2, LenProperties
  <2> QED
    BY <2>1, <2>3
<1>2. \A r \in RoleLists : r \in Seq(RoleNames) /\ ToSet(r) \subseteq Roles
  BY DEF Inputs, Roles
<1>3. \A entry \in Foreign[ruleKind] :
        /\ IsKey(entry[1])
        /\ entry[2] \in Seq(RoleNames) /\ entry[2] # <<>>
        /\ ToSet(entry[2]) \subseteq Roles
  <2> TAKE entry \in Foreign[ruleKind]
  <2>1. IsKeyOf(ruleKind, entry[1]) /\ entry[2] \in Seq(RoleNames) \ {<<>>}
    BY DEF Inputs
  <2>2. ToSet(entry[2]) \subseteq Roles
    <3>1. PICK F : F = {ToSet(e[2]) : e \in Foreign[ruleKind]}
      OBVIOUS
    <3>2. PICK R : R = {"*"} \cup UNION {ToSet(l) : l \in RoleLists}
      OBVIOUS
    <3>3. Roles = R \cup UNION F
      BY <3>1, <3>2 DEF Roles
    <3>4. ToSet(entry[2]) \in F
      BY <3>1
    <3> QED
      BY <3>3, <3>4
  <2> QED
    BY <2>1, <2>2 DEF IsKey
<1> QED
  BY <1>1, <1>2, <1>3

-----------------------------------------------------------------------------
(* Writing the table. *)

\* One entry is written, new or in the place of the one of the same key.
LEMMA WriteMeans ==
  ASSUME KindOK, ruleKind' = ruleKind, TableOK, RulesMeanWhatWasSaid,
         NEW key, IsKey(key), NEW v \in RoleStrings, NEW s, s = ReadsAs(key),
         rules' = With(rules, key, v), said' = With(said, s, Admits(v))
  PROVE  TableOK' /\ RulesMeanWhatWasSaid'
<1>1. /\ \A k : IsKey(k)' <=> IsKey(k)
      /\ \A k : ReadsAs(k)' = ReadsAs(k)
      /\ RoleStrings' = RoleStrings
  BY SameKind
<1>2. /\ DOMAIN rules' = DOMAIN rules \cup {key}
      /\ rules'[key] = v
      /\ \A k \in DOMAIN rules : k # key => rules'[k] = rules[k]
  BY DEF With
<1>3. /\ DOMAIN said' = DOMAIN said \cup {s}
      /\ said'[s] = Admits(v)
      /\ \A t \in DOMAIN said : t # s => said'[t] = said[t]
  BY DEF With
<1>4. \A k \in DOMAIN rules : IsKey(k) /\ rules[k] \in RoleStrings
  BY DEF TableOK
<1>5. \A k \in DOMAIN rules' : IsKey(k) /\ rules'[k] \in RoleStrings
  BY <1>2, <1>4
<1>6. TableOK'
  BY <1>1, <1>5 DEF TableOK
<1>7. {ReadsAs(k) : k \in DOMAIN rules} = DOMAIN said
  BY DEF RulesMeanWhatWasSaid
<1>8. \A k \in DOMAIN rules : Admits(rules[k]) = said[ReadsAs(k)]
  BY DEF RulesMeanWhatWasSaid
<1>9. {ReadsAs(k) : k \in DOMAIN rules'} = DOMAIN said'
  BY <1>2, <1>3, <1>7
<1>10. \A k \in DOMAIN rules' : Admits(rules'[k]) = said'[ReadsAs(k)]
  <2> TAKE k \in DOMAIN rules'
  <2>1. CASE k = key
    BY <2>1, <1>2, <1>3
  <2>2. CASE k # key
    <3>1. k \in DOMAIN rules
      BY <2>2, <1>2
    <3>2. ReadsAs(k) # s
      BY <3>1, <2>2, <1>4, KeysDiffer
    <3>3. ReadsAs(k) \in DOMAIN said
      BY <3>1, <1>7
    <3> QED
      BY <3>1, <3>2, <3>3, <2>2, <1>2, <1>3, <1>8
  <2> QED
    BY <2>1, <2>2
<1>11. RulesMeanWhatWasSaid'
  <2>1. {ReadsAs(k)' : k \in DOMAIN rules'} = {ReadsAs(k) : k \in DOMAIN rules'}
    BY <1>1
  <2>2. {ReadsAs(k)' : k \in DOMAIN rules'} = DOMAIN said'
    BY <1>9, <2>1
  <2>3. \A k \in DOMAIN rules' : Admits(rules'[k]) = said'[ReadsAs(k)']
    BY <1>1, <1>10
  <2>4. \A k \in DOMAIN rules' : Admits(rules[k])' = Admits(rules'[k])
    BY DEF Admits, Everyone
  <2> QED
    BY <2>2, <2>3, <2>4 DEF RulesMeanWhatWasSaid
<1> QED
  BY <1>6, <1>11

\* An entry is removed, by the subject it is read as.
LEMMA RemovalMeans ==
  ASSUME ruleKind' = ruleKind, TableOK, RulesMeanWhatWasSaid, NEW s,
         rules' = Without(rules, {k \in DOMAIN rules : ReadsAs(k) = s}),
         said' = Without(said, {s})
  PROVE  TableOK' /\ RulesMeanWhatWasSaid'
<1>1. /\ \A k : IsKey(k)' <=> IsKey(k)
      /\ \A k : ReadsAs(k)' = ReadsAs(k)
      /\ RoleStrings' = RoleStrings
  BY SameKind
<1>2. /\ DOMAIN rules' = {k \in DOMAIN rules : ReadsAs(k) # s}
      /\ \A k \in DOMAIN rules' : rules'[k] = rules[k]
  BY DEF Without
<1>3. /\ DOMAIN said' = DOMAIN said \ {s}
      /\ \A t \in DOMAIN said' : said'[t] = said[t]
  BY DEF Without
<1>4. \A k \in DOMAIN rules' : IsKey(k) /\ rules'[k] \in RoleStrings
  BY <1>2 DEF TableOK
<1>5. TableOK'
  BY <1>1, <1>4 DEF TableOK
<1>6. {ReadsAs(k) : k \in DOMAIN rules} = DOMAIN said
  BY DEF RulesMeanWhatWasSaid
<1>7. {ReadsAs(k) : k \in DOMAIN rules'} = DOMAIN said'
  BY <1>2, <1>3, <1>6
<1>8. \A k \in DOMAIN rules' : Admits(rules'[k]) = said'[ReadsAs(k)]
  <2> TAKE k \in DOMAIN rules'
  <2>1. k \in DOMAIN rules /\ ReadsAs(k) # s /\ rules'[k] = rules[k]
    BY <1>2
  <2>2. said'[ReadsAs(k)] = said[ReadsAs(k)]
    BY <2>1, <1>3, <1>6
  <2> QED
    BY <2>1, <2>2 DEF RulesMeanWhatWasSaid
<1>9. RulesMeanWhatWasSaid'
  <2>1. {ReadsAs(k)' : k \in DOMAIN rules'} = {ReadsAs(k) : k \in DOMAIN rules'}
    BY <1>1
  <2>2. {ReadsAs(k)' : k \in DOMAIN rules'} = DOMAIN said'
    BY <1>7, <2>1
  <2>3. \A k \in DOMAIN rules' : Admits(rules'[k]) = said'[ReadsAs(k)']
    BY <1>1, <1>8
  <2>4. \A k \in DOMAIN rules' : Admits(rules[k])' = Admits(rules'[k])
    BY DEF Admits, Everyone
  <2> QED
    BY <2>2, <2>3, <2>4 DEF RulesMeanWhatWasSaid
<1> QED
  BY <1>5, <1>9

\* Only the entry of that key is stored under it.
LEMMA StoredIs ==
  ASSUME KindOK, TableOK, NEW key, IsKey(key)
  PROVE  Stored(key) \subseteq {key}
<1>1. \A k \in DOMAIN rules : IsKey(k)
  BY DEF TableOK
<1>2. \A k \in DOMAIN rules : ReadsAs(k) = ReadsAs(key) => k = key
  BY <1>1, KeysDiffer
<1> QED
  BY <1>2 DEF Stored

\* Replacing an entry, or writing over it.
LEMMA WithWithout ==
  ASSUME NEW f, NEW x, NEW y, NEW X, X \subseteq {x}
  PROVE  With(Without(f, X), x, y) = With(f, x, y)
<1>1. PICK g : g = Without(f, X)
  OBVIOUS
<1>2. DOMAIN g = DOMAIN f \ X /\ \A z \in DOMAIN f \ X : g[z] = f[z]
  BY <1>1 DEF Without
<1>3. DOMAIN g \cup {x} = DOMAIN f \cup {x}
  BY <1>2
<1>4. \A z \in DOMAIN f \cup {x} : z # x => g[z] = f[z]
  BY <1>2
<1>5. [z \in DOMAIN g \cup {x} |-> IF z = x THEN y ELSE g[z]] =
        [z \in DOMAIN f \cup {x} |-> IF z = x THEN y ELSE f[z]]
  BY <1>3, <1>4
<1> QED
  BY <1>1, <1>5 DEF With

\* What the table and the lists say stays, when neither they nor the tables that
\* were listed change.
LEMMA HeldStays ==
  ASSUME ruleKind' = ruleKind, held' = held, HeldOK
  PROVE  HeldOK'
<1>1. /\ \A k, r : Decode(k, r)' = Decode(k, r)
      /\ \A e : IsRow(e)' <=> IsRow(e)
  BY SameKind
<1>2. \A a \in Administrators :
        /\ held[a].ok \in BOOLEAN
        /\ \A e \in held[a].table : IsRow(e) /\ Decode(e[1], e[2]) # Error
        /\ held[a].rules = {Decode(e[1], e[2]) : e \in held[a].table}
  BY DEF HeldOK
<1>3. held' = [a \in Administrators |-> held'[a]]
  BY DEF HeldOK
<1>4. \A a \in Administrators :
        /\ held'[a].ok \in BOOLEAN
        /\ \A e \in held'[a].table : IsRow(e)' /\ Decode(e[1], e[2])' # Error
        /\ held'[a].rules = {Decode(e[1], e[2])' : e \in held'[a].table}
  BY <1>1, <1>2
<1> QED
  BY <1>3, <1>4 DEF HeldOK, Error

\* Nothing changes.
LEMMA TableStays ==
  ASSUME ruleKind' = ruleKind, rules' = rules, said' = said, TableOK, RulesMeanWhatWasSaid
  PROVE  TableOK' /\ RulesMeanWhatWasSaid'
<1>1. /\ \A k : IsKey(k)' <=> IsKey(k)
      /\ \A k : ReadsAs(k)' = ReadsAs(k)
      /\ RoleStrings' = RoleStrings
  BY SameKind
<1>2. TableOK'
  BY <1>1 DEF TableOK
<1>3. RulesMeanWhatWasSaid'
  BY <1>1 DEF RulesMeanWhatWasSaid, Admits, Everyone
<1> QED
  BY <1>2, <1>3

-----------------------------------------------------------------------------
(* The operations. *)

\* One rule: any role may do what has no rule of its own.
LEMMA InitInv ==
  ASSUME Inputs, RulesInit
  PROVE  IInv
<1>1. ruleKind \in Kinds /\ KindOK
  BY KindIsOK DEF RulesInit
<1>2. PICK d : d = Defaults
  OBVIOUS
<1>3. IsFull(d)
  BY <1>1, <1>2, ShortStrings DEF IsFull, SubjectsOf, Defaults, KindOK
<1>4. EncodeKey(d) = KeyOf(d)
  <2>1. d \in SubjectsOf(ruleKind)
    BY <1>3 DEF IsFull
  <2>2. Completed(d) = d
    BY <1>1, <1>3, <2>1, CompletedIsFull
  <2> QED
    BY <1>1, <2>2, EncodedKey
<1>5. PICK key : key = KeyOf(d)
  OBVIOUS
<1>6. Accepts(key)
  <2>0. "." \in Tokens
    BY <1>1 DEF KindOK
  <2>1. CASE ruleKind = "layers"
    <3>1. Star \in String /\ <<"r">> \in String
      BY <1>1, ShortStrings
    <3>2. d = <<Star, Star, <<"r">>>> /\ d[1] = Star /\ d[2] = Star /\ d[3] = <<"r">>
      BY <1>2, <2>1 DEF Defaults
    <3>3. key = Star \o <<".">> \o Star \o <<".">> \o <<"r">>
      BY <1>5, <2>1, <3>2 DEF KeyOf
    <3>4. Star \o <<".">> \o Star \in Seq(Tokens)
      BY <2>0, <3>1, Between DEF String
    <3>5. Split(key) = Split(Star \o <<".">> \o Star) \o Split(<<"r">>)
      BY <2>0, <3>1, <3>3, <3>4, SplitConcat DEF String
    <3>6. Split(Star \o <<".">> \o Star) = Split(Star) \o Split(Star)
      BY <2>0, <3>1, SplitConcat DEF String
    <3>7. Split(Star) = <<Star>> /\ Split(<<"r">>) = <<<<"r">>>>
      <4>1. PICK U : U = {"*", "r"}
        OBVIOUS
      <4>2. "." \notin U /\ Star \in Seq(U) /\ <<"r">> \in Seq(U)
        BY <4>1 DEF Star
      <4> QED
        BY <4>2, SplitUndotted
    <3>8. Split(key) = <<Star, Star, <<"r">>>>
      <4>1. PICK r : r = <<"r">>
        OBVIOUS
      <4>2. Split(key) = (<<Star>> \o <<Star>>) \o <<r>>
        BY <3>5, <3>6, <3>7, <4>1
      <4>3. Split(key) = <<Star, Star>> \o <<r>>
        BY <4>2, TupleOfTwo
      <4>4. Split(key) = <<Star, Star, r>>
        BY <4>3, TupleOfThree
      <4> QED
        BY <4>1, <4>4
    <3>9. ReadsAs(key) = Split(key)
      BY <2>1 DEF ReadsAs
    <3> QED
      BY <1>2, <3>2, <3>8, <3>9 DEF Accepts
  <2>2. CASE ruleKind = "services"
    <3>1. Star \in String
      BY <1>1, ShortStrings
    <3>2. d = <<Star, Star>> /\ d[1] = Star /\ d[2] = Star
      BY <1>2, <2>2 DEF Defaults
    <3>3. key = Star \o <<".">> \o Star
      BY <1>5, <2>2, <3>2 DEF KeyOf
    <3>6. Split(Star \o <<".">> \o Star) = Split(Star) \o Split(Star)
      BY <2>0, <3>1, SplitConcat DEF String
    <3>7. Split(Star) = <<Star>>
      <4>1. PICK U : U = {"*", "r"}
        OBVIOUS
      <4>2. "." \notin U /\ Star \in Seq(U)
        BY <4>1 DEF Star
      <4> QED
        BY <4>2, SplitUndotted
    <3>8. Split(key) = <<Star, Star>>
      BY <3>3, <3>6, <3>7, TupleOfTwo
    <3>9. ReadsAs(key) = Split(key)
      BY <2>2 DEF ReadsAs
    <3> QED
      BY <1>2, <3>2, <3>8, <3>9 DEF Accepts
  <2>3. CASE ruleKind = "rest"
    <3>1. <<"/**">> \in Plain /\ Star \in Plain
      BY <1>1, ShortStrings
    <3>2. d = <<<<"/**">>, Star>> /\ d[1] = <<"/**">> /\ d[2] = Star
      BY <1>2, <2>3 DEF Defaults
    <3>3. key = <<"/**">> \o <<":">> \o Star
      BY <1>5, <2>3, <3>2 DEF KeyOf
    <3>4. ReadsAs(key) = <<<<"/**">>, Star>>
      BY <2>3, <3>1, <3>3, PlainReads
    <3> QED
      BY <1>2, <3>2, <3>4 DEF Accepts
  <2> QED
    BY <1>1, <2>1, <2>2, <2>3 DEF KindOK
<1>7. IsKey(key) /\ ReadsAs(key) = d
  BY <1>1, <1>3, <1>5, <1>6, FullKey
<1>8. PICK star : star = Star
  OBVIOUS
<1>9. star \in RoleStrings /\ Admits(star) = Everyone
  BY <1>8, StarRoles, JoinedRoles DEF Admits
<1>10. rules = [k \in {key} |-> star] /\ said = [s \in {d} |-> Everyone]
  BY <1>2, <1>4, <1>5, <1>8 DEF RulesInit
<1>11. TableOK
  BY <1>7, <1>9, <1>10 DEF TableOK
<1>12. RulesMeanWhatWasSaid
  BY <1>7, <1>9, <1>10 DEF RulesMeanWhatWasSaid
<1>13. HeldOK
  BY DEF RulesInit, HeldOK, Unread
<1>14. writes \in 0..MaxWrites
  BY DEF RulesInit, Inputs
<1> QED
  BY <1>1, <1>11, <1>12, <1>13, <1>14 DEF IInv

\* A call that does not write.
LEMMA StaysInv ==
  ASSUME IInv, ruleKind' = ruleKind, held' = held, Fails
  PROVE  IInv'
<1>1. TableOK' /\ RulesMeanWhatWasSaid' /\ HeldOK'
  BY TableStays, HeldStays DEF IInv, Fails
<1> QED
  BY <1>1 DEF IInv, Fails

\* A call that writes.
LEMMA WritesInv ==
  ASSUME Inputs, IInv, ruleKind' = ruleKind, held' = held, Write, TableOK', RulesMeanWhatWasSaid'
  PROVE  IInv'
<1>1. HeldOK'
  BY HeldStays DEF IInv
<1>2. writes' \in 0..MaxWrites
  BY DEF IInv, Write, Inputs
<1> QED
  BY <1>1, <1>2 DEF IInv

\* Add: refused, or a new entry under the key of the completed subject, which the
\* server reads back as that subject.
LEMMA AddInv ==
  ASSUME Inputs, IInv, NEW subject \in Subjects[ruleKind], NEW roles \in RoleLists,
         Add(subject, roles)
  PROVE  IInv'
<1>1. ruleKind' = ruleKind /\ held' = held /\ KindOK /\ ruleKind \in Kinds
  BY KindIsOK DEF Add, IInv
<1>2. PICK key : key = EncodeKey(subject)
  OBVIOUS
<1>3. CASE Refused(subject) \/ ~Accepts(key) \/ Stored(key) # {}
  <2>1. Fails
    BY <1>2, <1>3 DEF Add
  <2> QED
    BY <1>1, <2>1, StaysInv
<1>4. CASE ~(Refused(subject) \/ ~Accepts(key) \/ Stored(key) # {})
  <2>1. /\ Write
        /\ rules' = With(rules, key, EncodeRoles(roles))
        /\ said' = With(said, Completed(subject), Means(roles))
    BY <1>2, <1>4 DEF Add
  <2>2. PICK c : c = Completed(subject)
    OBVIOUS
  <2>3. IsFull(c)
    <3>1. subject \in SubjectsOf(ruleKind)
      BY <1>1 DEF Inputs
    <3> QED
      BY <1>1, <2>2, <3>1, CompletedIsFull
  <2>4. key = KeyOf(c)
    BY <1>1, <1>2, <2>2, EncodedKey
  <2>5. IsKey(key) /\ ReadsAs(key) = c
    BY <1>1, <1>4, <2>3, <2>4, FullKey
  <2>6. PICK v : v = EncodeRoles(roles)
    OBVIOUS
  <2>7. v \in RoleStrings /\ Admits(v) = Means(roles)
    BY <1>1, <2>6, WrittenRoles, EncodedRoles
  <2>8. TableOK' /\ RulesMeanWhatWasSaid'
    <3>1. rules' = With(rules, key, v) /\ said' = With(said, c, Admits(v))
      BY <2>1, <2>2, <2>6, <2>7
    <3>2. TableOK /\ RulesMeanWhatWasSaid
      BY DEF IInv
    <3> QED
      BY <1>1, <2>5, <2>7, <3>1, <3>2, WriteMeans
  <2> QED
    BY <1>1, <2>1, <2>8, WritesInv
<1> QED
  BY <1>3, <1>4

\* Reload: another tool's entry, with the access its roles give.
LEMMA ReloadInv ==
  ASSUME Inputs, IInv, NEW entry \in Foreign[ruleKind], Reload(entry[1], entry[2])
  PROVE  IInv'
<1>1. ruleKind' = ruleKind /\ held' = held /\ KindOK /\ ruleKind \in Kinds
  BY KindIsOK DEF Reload, IInv
<1>2. PICK key : key = entry[1]
  OBVIOUS
<1>3. PICK v : v = JoinRoles(entry[2])
  OBVIOUS
<1>4. IsKey(key) /\ v \in RoleStrings /\ Admits(v) = Means(entry[2])
  <2>1. IsKey(key) /\ entry[2] \in Seq(Roles) /\ entry[2] # <<>>
    BY <1>1, <1>2, WrittenRoles
  <2> QED
    BY <1>3, <2>1, JoinedRoles DEF Admits
<1>5. /\ Write
      /\ rules' = With(rules, key, v)
      /\ said' = With(said, ReadsAs(key), Admits(v))
  BY <1>2, <1>3, <1>4 DEF Reload
<1>6. TableOK' /\ RulesMeanWhatWasSaid'
  <2>1. TableOK /\ RulesMeanWhatWasSaid
    BY DEF IInv
  <2> QED
    BY <1>1, <1>4, <1>5, <2>1, WriteMeans
<1> QED
  BY <1>1, <1>5, <1>6, WritesInv

\* What an administrator sends back is an entry of a table there was.
LEMMA HeldRule ==
  ASSUME IInv, KindOK, NEW a \in Administrators, NEW rule \in held[a].rules
  PROVE  \E e : /\ IsKey(e[1]) /\ e[2] \in RoleStrings
                /\ IsEntry(e[1], e[2], rule)
<1>1. PICK e \in held[a].table : rule = Decode(e[1], e[2])
  BY DEF IInv, HeldOK
<1>2. IsRow(e) /\ Decode(e[1], e[2]) # Error
  BY DEF IInv, HeldOK
<1>3. IsKey(e[1]) /\ e[2] \in RoleStrings
  BY <1>2 DEF IsRow
<1>4. IsEntry(e[1], e[2], rule)
  BY <1>1, <1>2, <1>3, DecodedEntry
<1> QED
  BY <1>3, <1>4

\* Update of a listed rule: its key is the key it was listed from, however stale the
\* list, so that one entry is replaced; the roles are new ones, or those listed.
LEMMA UpdateInv ==
  ASSUME Inputs, IInv, NEW a \in Administrators, NEW rule \in held[a].rules,
         NEW roles \in RoleLists \cup {rule.roles}, UpdateRule(rule, roles)
  PROVE  IInv'
<1>1. ruleKind' = ruleKind /\ held' = held /\ KindOK /\ ruleKind \in Kinds
  BY KindIsOK DEF UpdateRule, IInv
<1>2. PICK key : key = EncodeKey(rule.subject)
  OBVIOUS
<1>3. CASE Refused(rule.subject) \/ ~Accepts(key) \/ Stored(key) = {}
  <2>1. Fails
    BY <1>2, <1>3 DEF UpdateRule
  <2> QED
    BY <1>1, <2>1, StaysInv
<1>4. CASE ~(Refused(rule.subject) \/ ~Accepts(key) \/ Stored(key) = {})
  <2>1. /\ Write
        /\ rules' = With(Without(rules, Stored(key)), key, EncodeRoles(roles))
        /\ said' = With(said, rule.subject, Means(roles))
    BY <1>2, <1>4 DEF UpdateRule
  <2>2. PICK e : IsKey(e[1]) /\ e[2] \in RoleStrings /\ IsEntry(e[1], e[2], rule)
    BY <1>1, HeldRule
  <2>3. IsKey(key) /\ ReadsAs(key) = rule.subject /\ rule.roles = DecodeRoles(e[2])
    BY <1>2, <2>2 DEF IsEntry
  <2>4. roles \in Seq(Roles)
    <3>1. rule.roles \in Seq(Roles)
      BY <2>2, <2>3, DecodedRoles
    <3>2. RoleLists \subseteq Seq(Roles)
      BY <1>1, WrittenRoles
    <3> QED
      BY <3>1, <3>2
  <2>5. PICK v : v = EncodeRoles(roles)
    OBVIOUS
  <2>6. v \in RoleStrings /\ Admits(v) = Means(roles)
    BY <2>4, <2>5, EncodedRoles
  <2>7. TableOK /\ RulesMeanWhatWasSaid
    BY DEF IInv
  <2>8. rules' = With(rules, key, v)
    <3>1. Stored(key) \subseteq {key}
      BY <1>1, <2>3, <2>7, StoredIs
    <3> QED
      BY <2>1, <2>5, <3>1, WithWithout
  <2>9. TableOK' /\ RulesMeanWhatWasSaid'
    BY <1>1, <2>1, <2>3, <2>6, <2>7, <2>8, WriteMeans
  <2> QED
    BY <1>1, <2>1, <2>9, WritesInv
<1> QED
  BY <1>3, <1>4

\* Delete of a listed rule: the path names the entry it was listed from, and no other.
LEMMA DeleteInv ==
  ASSUME Inputs, IInv, NEW a \in Administrators, NEW rule \in held[a].rules, Delete(rule)
  PROVE  IInv'
<1>1. ruleKind' = ruleKind /\ held' = held /\ KindOK
  BY KindIsOK DEF Delete, IInv
<1>2. PICK gone : gone = Stored(DeletePath(rule.subject))
  OBVIOUS
<1>3. CASE Refused(rule.subject) \/ gone = {}
  <2>1. Fails
    BY <1>2, <1>3 DEF Delete
  <2> QED
    BY <1>1, <2>1, StaysInv
<1>4. CASE ~(Refused(rule.subject) \/ gone = {})
  <2>1. PICK s : s = rule.subject
    OBVIOUS
  <2>2. Write /\ rules' = Without(rules, gone) /\ said' = Without(said, {s})
    BY <1>2, <1>4, <2>1 DEF Delete
  <2>3. PICK e : IsKey(e[1]) /\ e[2] \in RoleStrings /\ IsEntry(e[1], e[2], rule)
    BY <1>1, HeldRule
  <2>4. ReadsAs(DeletePath(s)) = s
    BY <2>1, <2>3 DEF IsEntry
  <2>5. gone = {k \in DOMAIN rules : ReadsAs(k) = s}
    BY <1>2, <2>1, <2>4 DEF Stored
  <2>6. TableOK' /\ RulesMeanWhatWasSaid'
    BY <1>1, <2>2, <2>5, RemovalMeans DEF IInv
  <2> QED
    BY <1>1, <2>2, <2>6, WritesInv
<1> QED
  BY <1>3, <1>4

\* List: nothing, or the decoded form of the whole table.
LEMMA ListInv ==
  ASSUME Inputs, IInv, NEW a \in Administrators, List(a)
  PROVE  IInv'
<1>1. ruleKind' = ruleKind /\ rules' = rules /\ said' = said /\ writes' = writes
  BY DEF List
<1>2. TableOK' /\ RulesMeanWhatWasSaid'
  BY <1>1, TableStays DEF IInv
<1>3. PICK decoded : decoded = {Decode(e[1], e[2]) : e \in Table}
  OBVIOUS
<1>4. PICK h : h = IF Error \in decoded THEN Unread
                   ELSE [ok |-> TRUE, rules |-> decoded, table |-> Table]
  OBVIOUS
<1>5. held' = [held EXCEPT ![a] = h]
  BY <1>3, <1>4 DEF List
<1>6. held = [b \in Administrators |-> held[b]]
  BY DEF IInv, HeldOK
<1>7. \A e \in Table : IsRow(e)
  <2> TAKE e \in Table
  <2>1. PICK k \in DOMAIN rules : e = <<k, rules[k]>>
    BY DEF Table
  <2>2. IsKey(k) /\ rules[k] \in RoleStrings
    BY DEF IInv, TableOK
  <2> QED
    BY <2>1, <2>2 DEF IsRow
<1>8. /\ h.ok \in BOOLEAN
      /\ \A e \in h.table : IsRow(e) /\ Decode(e[1], e[2]) # Error
      /\ h.rules = {Decode(e[1], e[2]) : e \in h.table}
  <2>1. CASE Error \in decoded
    BY <1>4, <2>1 DEF Unread
  <2>2. CASE Error \notin decoded
    <3>1. h.ok = TRUE /\ h.rules = decoded /\ h.table = Table
      BY <1>4, <2>2
    <3>2. \A e \in Table : Decode(e[1], e[2]) # Error
      BY <1>3, <2>2
    <3> QED
      BY <1>3, <1>7, <3>1, <3>2
  <2> QED
    BY <2>1, <2>2
<1>9. \A b \in Administrators :
        /\ held'[b].ok \in BOOLEAN
        /\ \A e \in held'[b].table : IsRow(e) /\ Decode(e[1], e[2]) # Error
        /\ held'[b].rules = {Decode(e[1], e[2]) : e \in held'[b].table}
  <2> TAKE b \in Administrators
  <2>1. CASE b = a
    <3>1. held'[b] = h
      BY <1>5, <1>6, <2>1
    <3> QED
      BY <1>8, <3>1
  <2>2. CASE b # a
    <3>1. held'[b] = held[b]
      BY <1>5, <1>6, <2>2
    <3> QED
      BY <3>1 DEF IInv, HeldOK
  <2> QED
    BY <2>1, <2>2
<1>10. HeldOK'
  <2>1. /\ \A k, r : Decode(k, r)' = Decode(k, r)
        /\ \A e : IsRow(e)' <=> IsRow(e)
    BY <1>1, SameKind
  <2>2. held' = [b \in Administrators |-> held'[b]]
    BY <1>5, <1>6
  <2>3. \A b \in Administrators :
          /\ held'[b].ok \in BOOLEAN
          /\ \A e \in held'[b].table : IsRow(e)' /\ Decode(e[1], e[2])' # Error
          /\ held'[b].rules = {Decode(e[1], e[2])' : e \in held'[b].table}
    BY <1>9, <2>1
  <2> QED
    BY <2>2, <2>3 DEF HeldOK, Error
<1> QED
  BY <1>1, <1>2, <1>10 DEF IInv

\* Every step keeps the invariant.
LEMMA NextInv ==
  ASSUME Inputs, IInv, [RulesNext]_rulesVars
  PROVE  IInv'
<1>1. CASE UNCHANGED rulesVars
  BY <1>1, StaysInv DEF rulesVars, Fails
<1>2. CASE RulesNext
  BY <1>2, AddInv, ListInv, DeleteInv, UpdateInv, ReloadInv DEF RulesNext
<1> QED
  BY <1>1, <1>2

-----------------------------------------------------------------------------
(* The theorems. *)

\* The invariant holds in every state, for any sub-clients, subjects, role lists,
\* administrators and other tools.
THEOREM RulesInductive ==
  ASSUME Inputs
  PROVE  RulesSpec => []IInv
<1>1. RulesInit => IInv
  BY InitInv
<1>2. IInv /\ [RulesNext]_rulesVars => IInv'
  BY NextInv
<1> QED
  BY <1>1, <1>2, PTL DEF RulesSpec

\* What writers asked for is what the server enforces, after any calls of any
\* administrators whose lists are stale (acl.go, services.go, rest.go: Add, Update,
\* Delete; types.go: Encode, DecodeRule, DecodeRESTRule).
THEOREM RulesMean ==
  ASSUME Inputs
  PROVE  RulesSpec => []RulesMeanWhatWasSaid
<1>1. IInv => RulesMeanWhatWasSaid
  BY DEF IInv
<1> QED
  BY <1>1, RulesInductive, PTL

\* The list of an administrator, rule by rule.
LEMMA HeldIsWhole ==
  ASSUME IInv, KindOK, NEW a \in Administrators
  PROVE  {<<EncodeKey(r.subject), EncodeRoles(r.roles)>> : r \in held[a].rules} = held[a].table
<1>1. PICK T : T = held[a].table
  OBVIOUS
<1>2. held[a].rules = {Decode(e[1], e[2]) : e \in T}
  BY <1>1 DEF IInv, HeldOK
<1>3. \A e \in T :
        <<EncodeKey(Decode(e[1], e[2]).subject), EncodeRoles(Decode(e[1], e[2]).roles)>> = e
  <2> TAKE e \in T
  <2>1. IsRow(e) /\ Decode(e[1], e[2]) # Error
    BY <1>1 DEF IInv, HeldOK
  <2>2. e = <<e[1], e[2]>> /\ IsKey(e[1]) /\ e[2] \in RoleStrings
    BY <2>1 DEF IsRow
  <2>3. PICK r : r = Decode(e[1], e[2])
    OBVIOUS
  <2>4. IsEntry(e[1], e[2], r)
    BY <2>1, <2>2, <2>3, DecodedEntry
  <2>5. EncodeKey(r.subject) = e[1] /\ EncodeRoles(r.roles) = e[2]
    BY <2>2, <2>4, DecodedRoles DEF IsEntry
  <2> QED
    BY <2>2, <2>3, <2>5
<1>4. PICK W : W = {<<EncodeKey(r.subject), EncodeRoles(r.roles)>> : r \in held[a].rules}
  OBVIOUS
<1>5. W \subseteq T
  BY <1>2, <1>3, <1>4
<1>6. T \subseteq W
  BY <1>2, <1>3, <1>4
<1> QED
  BY <1>1, <1>4, <1>5, <1>6

\* A List that succeeds shows every rule there was, and each rule sent back unchanged
\* is the entry it came from (types.go: DecodeRule, DecodeServiceRule, DecodeRESTRule,
\* decodeRoles, encodeRoles).
THEOREM ListsAreWhole ==
  ASSUME Inputs
  PROVE  RulesSpec => []ListIsWhole
<1>1. IInv => ListIsWhole
  <2> HAVE IInv
  <2>1. KindOK
    BY KindIsOK DEF IInv
  <2> QED
    BY <2>1, HeldIsWhole DEF ListIsWhole
<1> QED
  BY <1>1, RulesInductive, PTL

\* The table, what was said and the lists keep their types; no List returns a rule
\* that did not decode.
THEOREM RulesTypes ==
  ASSUME Inputs
  PROVE  RulesSpec => []RulesTypeOK
<1>1. IInv => RulesTypeOK
  <2> HAVE IInv
  <2>1. KindOK
    BY KindIsOK DEF IInv
  <2>2. \A k \in DOMAIN rules : k # EmptyString /\ rules[k] \in Seq(Roles \cup {","})
    BY KeyNotEmpty, AdmitsRoles DEF IInv, TableOK
  <2>3. \A s \in DOMAIN said : said[s] \subseteq Roles
    <3> TAKE s \in DOMAIN said
    <3>1. PICK k \in DOMAIN rules : s = ReadsAs(k)
      BY DEF IInv, RulesMeanWhatWasSaid
    <3>2. rules[k] \in RoleStrings /\ said[s] = Admits(rules[k])
      BY <3>1 DEF IInv, RulesMeanWhatWasSaid, TableOK
    <3> QED
      BY <3>2, AdmitsRoles
  <2>4. \A a \in Administrators :
          /\ held[a].ok \in BOOLEAN
          /\ Error \notin held[a].rules
          /\ \A e \in held[a].table : e[2] \in Seq(Roles \cup {","})
    <3> TAKE a \in Administrators
    <3>1. /\ held[a].ok \in BOOLEAN
          /\ \A e \in held[a].table : IsRow(e) /\ Decode(e[1], e[2]) # Error
          /\ held[a].rules = {Decode(e[1], e[2]) : e \in held[a].table}
      BY DEF IInv, HeldOK
    <3>2. \A e \in held[a].table : e[2] \in RoleStrings
      BY ONLY <3>1 DEF IsRow
    <3>3. Error \notin held[a].rules
      BY ONLY <3>1
    <3> QED
      BY <3>1, <3>2, <3>3, AdmitsRoles
  <2> QED
    BY <2>2, <2>3, <2>4 DEF IInv, RulesTypeOK
<1> QED
  BY <1>1, RulesInductive, PTL

-----------------------------------------------------------------------------
(* JSON. *)

\* What a value of JSON is made of.
LEMMA JsonIs ==
  /\ Null.shape = "null" /\ Null.text = "" /\ Null.fields = NoFields /\ Null.items = <<>>
  /\ \A text : /\ Str(text).shape = "string" /\ Str(text).text = text
               /\ Str(text).fields = NoFields /\ Str(text).items = <<>>
  /\ \A text : Num(text).shape = "number" /\ Num(text).text = text
  /\ \A fields : Obj(fields).shape = "object" /\ Obj(fields).fields = fields /\ Obj(fields).text = ""
  /\ \A items : Arr(items).shape = "array" /\ Arr(items).items = items /\ Arr(items).fields = NoFields
  BY DEF Null, Str, Num, Obj, Arr, Json

\* The fields of the objects that are put together.
LEMMA FieldsAre ==
  /\ DOMAIN NoFields = {}
  /\ \A key, j : DOMAIN One(key, j) = {key} /\ One(key, j)[key] = j
  /\ \A f, g : DOMAIN Both(f, g) = DOMAIN f \cup DOMAIN g
  BY DEF NoFields, One, Both

\* The value of a field of two parts.
LEMMA BothIs ==
  ASSUME NEW f, NEW g, NEW key \in DOMAIN f \cup DOMAIN g
  PROVE  Both(f, g)[key] = IF key \in DOMAIN f THEN f[key] ELSE g[key]
  BY DEF Both

\* A field is what its object says.
LEMMA FieldOf ==
  ASSUME NEW f, NEW key
  PROVE  Field(Obj(f), key) = IF key \in DOMAIN f THEN f[key] ELSE Null
<1>1. Obj(f).fields = f
  BY JsonIs
<1> QED
  BY ONLY <1>1 DEF Field

\* What Field finds in the values that are written.
LEMMA FieldIs ==
  /\ \A key : Field(Null, key) = Null
  /\ \A key, text : Field(Str(text), key) = Null
  /\ \A key : Field(Obj(NoFields), key) = Null
  /\ \A key, j : Field(Obj(One(key, j)), key) = j
  /\ \A key, j, other : other # key => Field(Obj(One(key, j)), other) = Null
<1>1. ASSUME NEW key
      PROVE  Field(Null, key) = Null
  BY JsonIs, FieldsAre DEF Field
<1>2. ASSUME NEW key, NEW text
      PROVE  Field(Str(text), key) = Null
  BY JsonIs, FieldsAre DEF Field
<1>3. ASSUME NEW key
      PROVE  Field(Obj(NoFields), key) = Null
  BY FieldOf, FieldsAre
<1>4. ASSUME NEW key, NEW j, NEW other
      PROVE  Field(Obj(One(key, j)), other) = IF other = key THEN j ELSE Null
  <2>1. Field(Obj(One(key, j)), other) =
          IF other \in DOMAIN One(key, j) THEN One(key, j)[other] ELSE Null
    BY FieldOf
  <2>2. DOMAIN One(key, j) = {key} /\ One(key, j)[key] = j
    BY FieldsAre
  <2>3. CASE other = key
    BY ONLY <2>1, <2>2, <2>3
  <2>4. CASE other # key
    BY ONLY <2>1, <2>2, <2>4
  <2> QED
    BY <2>3, <2>4
<1> QED
  BY <1>1, <1>2, <1>3, <1>4

\* An object of one field.
LEMMA ObjectOfOne ==
  ASSUME NEW key, NEW j
  PROVE  Obj(One(key, j)).shape = "object" /\ Field(Obj(One(key, j)), key) = j
<1>1. Obj(One(key, j)).shape = "object"
  BY JsonIs
<1>2. Field(Obj(One(key, j)), key) = j
  BY FieldIs
<1> QED
  BY <1>1, <1>2

\* An object of one field has no other.
LEMMA NoOtherField ==
  ASSUME NEW key, NEW j, NEW other, other # key
  PROVE  Field(Obj(One(key, j)), other) = Null
  BY FieldIs

\* A field of two parts is that of the first which has it.
LEMMA FieldOfBoth ==
  ASSUME NEW f, NEW g, NEW key
  PROVE  Field(Obj(Both(f, g)), key) =
           IF key \in DOMAIN f THEN Field(Obj(f), key) ELSE Field(Obj(g), key)
<1>1. /\ Field(Obj(f), key) = IF key \in DOMAIN f THEN f[key] ELSE Null
      /\ Field(Obj(g), key) = IF key \in DOMAIN g THEN g[key] ELSE Null
      /\ Field(Obj(Both(f, g)), key) =
           IF key \in DOMAIN Both(f, g) THEN Both(f, g)[key] ELSE Null
  BY FieldOf
<1>2. DOMAIN Both(f, g) = DOMAIN f \cup DOMAIN g
  BY FieldsAre
<1>3. CASE key \in DOMAIN f \cup DOMAIN g
  BY <1>1, <1>2, <1>3, BothIs
<1>4. CASE key \notin DOMAIN f \cup DOMAIN g
  BY <1>1, <1>2, <1>4
<1> QED
  BY <1>3, <1>4

\* A field tagged omitempty decodes as its text, set or not.
LEMMA OmittedIs ==
  ASSUME NEW key, NEW text
  PROVE  /\ DOMAIN Omitted(key, text) = IF text = "" THEN {} ELSE {key}
         /\ Field(Obj(Omitted(key, text)), key) = IF text = "" THEN Null ELSE Str(text)
         /\ \A other : other # key => Field(Obj(Omitted(key, text)), other) = Null
<1>1. CASE text = ""
  BY <1>1, FieldIs, FieldsAre DEF Omitted
<1>2. CASE text # ""
  <2>1. Omitted(key, text) = One(key, Str(text))
    BY <1>2 DEF Omitted
  <2>2. DOMAIN One(key, Str(text)) = {key}
    BY FieldsAre
  <2>3. /\ Field(Obj(One(key, Str(text))), key) = Str(text)
        /\ \A other : other # key => Field(Obj(One(key, Str(text))), other) = Null
    BY FieldIs
  <2> QED
    BY ONLY <1>2, <2>1, <2>2, <2>3
<1> QED
  BY <1>1, <1>2

\* A field that may be left out is no other field.
LEMMA NotOmitted ==
  ASSUME NEW key, NEW text, NEW other, other # key
  PROVE  /\ other \notin DOMAIN Omitted(key, text)
         /\ Field(Obj(Omitted(key, text)), other) = Null
<1>1. Field(Obj(Omitted(key, text)), other) = Null
  <2>1. Field(Obj(One(key, Str(text))), other) = Null
    BY NoOtherField
  <2>2. Field(Obj(NoFields), other) = Null
    BY FieldIs
  <2> QED
    BY ONLY <2>1, <2>2 DEF Omitted
<1>2. DOMAIN Omitted(key, text) = IF text = "" THEN {} ELSE {key}
  BY OmittedIs
<1> QED
  BY ONLY <1>1, <1>2, other # key

-----------------------------------------------------------------------------
(* encoding/json. *)

\* A success has its document.
LEMMA DecodedIs == \A d : Decoded(d).ok = TRUE /\ Decoded(d).doc = d
  BY DEF Decoded

\* A failure, and the empty document with it.
LEMMA FailureIs == DecodeError.ok = FALSE /\ DecodeError.doc = <<>>
  BY DEF DecodeError

\* Two successes differ only in their documents.
LEMMA DecodedAlike == \A d, e : Decoded(d) = Decoded(e) <=> d = e
  BY DecodedIs

\* The element of a success of one text.
LEMMA ElementIs == \A text : Element(Decoded(<<text>>)) = text
<1> SUFFICES ASSUME NEW text
             PROVE  Element(Decoded(<<text>>)) = text
  OBVIOUS
<1>1. Decoded(<<text>>).ok /\ Decoded(<<text>>).doc = <<text>>
  BY DecodedIs
<1> QED
  BY <1>1 DEF Element

\* A string and null decode as strings.
LEMMA StringIs ==
  /\ \A text : AsString(Str(text)) = Decoded(<<text>>)
  /\ AsString(Null) = Decoded(<<"">>)
  BY JsonIs DEF AsString

\* A struct of one, two or three strings.
LEMMA StructOfOne ==
  ASSUME NEW j, NEW key, NEW text, j.shape \in {"object", "null"},
         AsString(Field(j, key)) = Decoded(<<text>>)
  PROVE  AsStruct(j, <<key>>) = Decoded(<<text>>)
<1> DEFINE keys == <<key>>
           parts == [i \in DOMAIN keys |-> AsString(Field(j, keys[i]))]
<1>1. DOMAIN keys = 1..1 /\ keys[1] = key
  OBVIOUS
<1>2. \A i \in DOMAIN keys : parts[i] = Decoded(<<text>>)
  BY <1>1
<1>3. \A i \in DOMAIN keys : parts[i].ok
  BY <1>2, DecodedIs
<1>4. [i \in DOMAIN keys |-> Element(parts[i])] = [i \in 1..1 |-> text]
  BY <1>1, <1>2, ElementIs
<1>5. [i \in 1..1 |-> text] = <<text>>
  OBVIOUS
<1>6. AsStruct(j, keys) = Decoded([i \in DOMAIN keys |-> Element(parts[i])])
  BY <1>3 DEF AsStruct
<1> QED
  BY <1>4, <1>5, <1>6

\* Two strings.
LEMMA StructOfTwo ==
  ASSUME NEW j, NEW key1, NEW key2, NEW text1, NEW text2, j.shape \in {"object", "null"},
         AsString(Field(j, key1)) = Decoded(<<text1>>),
         AsString(Field(j, key2)) = Decoded(<<text2>>)
  PROVE  AsStruct(j, <<key1, key2>>) = Decoded(<<text1, text2>>)
<1> DEFINE keys == <<key1, key2>>
           doc == <<text1, text2>>
           parts == [i \in DOMAIN keys |-> AsString(Field(j, keys[i]))]
<1>1. DOMAIN keys = 1..2 /\ keys[1] = key1 /\ keys[2] = key2
  OBVIOUS
<1>2. parts[1] = Decoded(<<text1>>) /\ parts[2] = Decoded(<<text2>>)
  BY <1>1
<1>3. \A i \in DOMAIN keys : i = 1 \/ i = 2
  BY <1>1
<1>4. \A i \in DOMAIN keys : parts[i].ok /\ Element(parts[i]) = doc[i]
  BY <1>2, <1>3, DecodedIs, ElementIs
<1>5. [i \in DOMAIN keys |-> Element(parts[i])] = [i \in 1..2 |-> doc[i]]
  BY <1>1, <1>4
<1>6. [i \in 1..2 |-> doc[i]] = doc
  OBVIOUS
<1>7. AsStruct(j, keys) = Decoded([i \in DOMAIN keys |-> Element(parts[i])])
  BY <1>4 DEF AsStruct
<1> QED
  BY <1>5, <1>6, <1>7

\* Three strings.
LEMMA StructOfThree ==
  ASSUME NEW j, NEW key1, NEW key2, NEW key3, NEW text1, NEW text2, NEW text3,
         j.shape \in {"object", "null"},
         AsString(Field(j, key1)) = Decoded(<<text1>>),
         AsString(Field(j, key2)) = Decoded(<<text2>>),
         AsString(Field(j, key3)) = Decoded(<<text3>>)
  PROVE  AsStruct(j, <<key1, key2, key3>>) = Decoded(<<text1, text2, text3>>)
<1> DEFINE keys == <<key1, key2, key3>>
           doc == <<text1, text2, text3>>
           parts == [i \in DOMAIN keys |-> AsString(Field(j, keys[i]))]
<1>1. DOMAIN keys = 1..3 /\ keys[1] = key1 /\ keys[2] = key2 /\ keys[3] = key3
  OBVIOUS
<1>2. /\ parts[1] = Decoded(<<text1>>) /\ parts[2] = Decoded(<<text2>>)
      /\ parts[3] = Decoded(<<text3>>)
  BY <1>1
<1>3. \A i \in DOMAIN keys : i = 1 \/ i = 2 \/ i = 3
  BY <1>1
<1>4. \A i \in DOMAIN keys : parts[i].ok /\ Element(parts[i]) = doc[i]
  BY <1>2, <1>3, DecodedIs, ElementIs
<1>5. [i \in DOMAIN keys |-> Element(parts[i])] = [i \in 1..3 |-> doc[i]]
  BY <1>1, <1>4
<1>6. [i \in 1..3 |-> doc[i]] = doc
  OBVIOUS
<1>7. AsStruct(j, keys) = Decoded([i \in DOMAIN keys |-> Element(parts[i])])
  BY <1>4 DEF AsStruct
<1> QED
  BY <1>5, <1>6, <1>7

\* The name of an item, missing or not.
LEMMA NamedEntryOf == \A text : NamedEntry(NameOf(text)) = Decoded(<<text>>)
<1> SUFFICES ASSUME NEW text
             PROVE  AsStruct(NameOf(text), <<"name">>) = Decoded(<<text>>)
  BY DEF NamedEntry
<1>1. AsString(Field(NameOf(text), "name")) = Decoded(<<text>>)
  BY OmittedIs, StringIs DEF NameOf
<1>2. NameOf(text).shape = "object"
  BY JsonIs DEF NameOf
<1> QED
  BY <1>1, <1>2, StructOfOne

\* The version of an entry.
LEMMA VersionEntryOf == \A text : VersionEntry(EntryOf(text)) = Decoded(<<text>>)
<1> SUFFICES ASSUME NEW text
             PROVE  AsStruct(EntryOf(text), <<"version">>) = Decoded(<<text>>)
  BY DEF VersionEntry
<1>1. AsString(Field(EntryOf(text), "version")) = Decoded(<<text>>)
  BY FieldIs, StringIs DEF EntryOf
<1>2. EntryOf(text).shape = "object"
  BY JsonIs DEF EntryOf
<1> QED
  BY <1>1, <1>2, StructOfOne

\* The style of a member of a layer group, "" or with a name.
LEMMA StyleDecoded == \A text : UnmarshalStyle(StyleOf(text)) = Decoded(<<text>>)
<1> SUFFICES ASSUME NEW text
             PROVE  UnmarshalStyle(StyleOf(text)) = Decoded(<<text>>)
  OBVIOUS
<1>1. CASE text = ""
  BY <1>1, JsonIs, StringIs DEF UnmarshalStyle, StyleOf
<1>2. CASE text # ""
  <2>1. NameOf(text).shape = "object"
    BY JsonIs DEF NameOf
  <2> QED
    BY <1>2, <2>1, NamedEntryOf DEF UnmarshalStyle, StyleOf, NamedEntry
<1> QED
  BY <1>1, <1>2

-----------------------------------------------------------------------------
(* Lists. *)

\* The lists of a bounded length.
LEMMA BoundedSeqIs ==
  ASSUME NEW S, NEW n \in Nat, NEW d
  PROVE  d \in BoundedSeq(S, n) <=> d \in Seq(S) /\ Len(d) <= n
<1>1. BoundedSeq(S, n) = UNION {[1..m -> S] : m \in 0..n}
  BY DEF BoundedSeq, SeqOf
<1>2. ASSUME d \in BoundedSeq(S, n)
      PROVE  d \in Seq(S) /\ Len(d) <= n
  <2>1. PICK m \in 0..n : d \in [1..m -> S]
    BY <1>1, <1>2
  <2> QED
    BY <2>1
<1>3. ASSUME d \in Seq(S), Len(d) <= n
      PROVE  d \in BoundedSeq(S, n)
  <2>1. Len(d) \in 0..n /\ d \in [1..Len(d) -> S]
    BY <1>3
  <2> QED
    BY <1>1, <2>1
<1> QED
  BY <1>2, <1>3

\* A slice whose parts decode is the list of what they decode to.
LEMMA SliceOf ==
  ASSUME NEW S, NEW d \in Seq(S), NEW parts, DOMAIN parts = DOMAIN d,
         \A i \in DOMAIN d : parts[i].ok /\ Element(parts[i]) = d[i]
  PROVE  /\ \A i \in DOMAIN parts : parts[i].ok
         /\ [i \in DOMAIN parts |-> Element(parts[i])] = d
<1>1. d = [i \in DOMAIN d |-> d[i]]
  OBVIOUS
<1>2. [i \in DOMAIN parts |-> Element(parts[i])] = [i \in DOMAIN d |-> d[i]]
  OBVIOUS
<1> QED
  BY <1>1, <1>2

\* A list of versions.
LEMMA VersionsSlice ==
  ASSUME NEW S, NEW d \in Seq(S)
  PROVE  AsSlice(Arr([i \in DOMAIN d |-> EntryOf(d[i])]), VersionEntry) = Decoded(d)
<1> DEFINE items == [i \in DOMAIN d |-> EntryOf(d[i])]
           j == Arr(items)
           parts == [i \in DOMAIN j.items |-> VersionEntry(j.items[i])]
<1>0. j.shape = "array" /\ j.items = items
  BY JsonIs
<1> HIDE DEF j
<1>1. \A i \in DOMAIN d : parts[i] = Decoded(<<d[i]>>)
  BY <1>0, VersionEntryOf
<1>2. \A i \in DOMAIN d : parts[i].ok /\ Element(parts[i]) = d[i]
  BY <1>1, DecodedIs, ElementIs
<1>3. DOMAIN parts = DOMAIN d
  BY <1>0
<1> HIDE DEF parts
<1>4. /\ \A i \in DOMAIN parts : parts[i].ok
      /\ [i \in DOMAIN parts |-> Element(parts[i])] = d
  BY <1>2, <1>3, SliceOf
<1>5. AsSlice(j, VersionEntry) = Decoded([i \in DOMAIN parts |-> Element(parts[i])])
  BY <1>0, <1>4 DEF AsSlice, parts
<1> QED
  BY <1>4, <1>5 DEF j

\* A list of strings.
LEMMA StringsSlice ==
  ASSUME NEW S, NEW d \in Seq(S)
  PROVE  AsSlice(Arr([i \in DOMAIN d |-> Str(d[i])]), AsString) = Decoded(d)
<1> DEFINE items == [i \in DOMAIN d |-> Str(d[i])]
           j == Arr(items)
           parts == [i \in DOMAIN j.items |-> AsString(j.items[i])]
<1>0. j.shape = "array" /\ j.items = items
  BY JsonIs
<1> HIDE DEF j
<1>1. \A i \in DOMAIN d : parts[i] = Decoded(<<d[i]>>)
  BY <1>0, StringIs
<1>2. \A i \in DOMAIN d : parts[i].ok /\ Element(parts[i]) = d[i]
  BY <1>1, DecodedIs, ElementIs
<1>3. DOMAIN parts = DOMAIN d
  BY <1>0
<1> HIDE DEF parts
<1>4. /\ \A i \in DOMAIN parts : parts[i].ok
      /\ [i \in DOMAIN parts |-> Element(parts[i])] = d
  BY <1>2, <1>3, SliceOf
<1>5. AsSlice(j, AsString) = Decoded([i \in DOMAIN parts |-> Element(parts[i])])
  BY <1>0, <1>4 DEF AsSlice, parts
<1> QED
  BY <1>4, <1>5 DEF j

\* A list of items with names.
LEMMA NamedSlice ==
  ASSUME NEW S, NEW d \in Seq(S)
  PROVE  AsSlice(Arr([i \in DOMAIN d |-> NameOf(d[i])]), NamedEntry) = Decoded(d)
<1> DEFINE items == [i \in DOMAIN d |-> NameOf(d[i])]
           j == Arr(items)
           parts == [i \in DOMAIN j.items |-> NamedEntry(j.items[i])]
<1>0. j.shape = "array" /\ j.items = items
  BY JsonIs
<1> HIDE DEF j
<1>1. \A i \in DOMAIN d : parts[i] = Decoded(<<d[i]>>)
  BY <1>0, NamedEntryOf
<1>2. \A i \in DOMAIN d : parts[i].ok /\ Element(parts[i]) = d[i]
  BY <1>1, DecodedIs, ElementIs
<1>3. DOMAIN parts = DOMAIN d
  BY <1>0
<1> HIDE DEF parts
<1>4. /\ \A i \in DOMAIN parts : parts[i].ok
      /\ [i \in DOMAIN parts |-> Element(parts[i])] = d
  BY <1>2, <1>3, SliceOf
<1>5. AsSlice(j, NamedEntry) = Decoded([i \in DOMAIN parts |-> Element(parts[i])])
  BY <1>0, <1>4 DEF AsSlice, parts
<1> QED
  BY <1>4, <1>5 DEF j

\* An item of a layer group, by its name.
LEMMA PublishedItemOf ==
  ASSUME NEW text
  PROVE  PublishedItem(NameOf(text)) = Decoded(<<text, "", "">>)
<1>1. PICK none : none = ""
  OBVIOUS
<1>2. NameOf(text).shape \in {"object", "null"}
  BY JsonIs DEF NameOf
<1>3. AsString(Field(NameOf(text), "name")) = Decoded(<<text>>)
  BY OmittedIs, StringIs DEF NameOf
<1>4. Field(NameOf(text), "href") = Null /\ Field(NameOf(text), "@type") = Null
  BY NotOmitted DEF NameOf
<1>5. AsString(Null) = Decoded(<<none>>)
  BY <1>1, StringIs
<1>6. AsStruct(NameOf(text), <<"name", "href", "@type">>) = Decoded(<<text, none, none>>)
  BY ONLY <1>2, <1>3, <1>4, <1>5, StructOfThree
<1> QED
  BY ONLY <1>1, <1>6 DEF PublishedItem

\* A list of items of a layer group.
LEMMA ItemSlice ==
  ASSUME NEW S, NEW d \in Seq(S)
  PROVE  AsSlice(Arr([i \in DOMAIN d |-> NameOf(d[i])]), PublishedItem) = Decoded(d)
<1> DEFINE items == [i \in DOMAIN d |-> NameOf(d[i])]
           j == Arr(items)
           parts == [i \in DOMAIN j.items |-> PublishedItem(j.items[i])]
<1>0. j.shape = "array" /\ j.items = items
  BY JsonIs
<1> HIDE DEF j
<1>2. \A i \in DOMAIN d : parts[i].ok /\ Element(parts[i]) = d[i]
  <2> SUFFICES ASSUME NEW i \in DOMAIN d
               PROVE  parts[i].ok /\ Element(parts[i]) = d[i]
    OBVIOUS
  <2>1. PICK name : name = d[i]
    OBVIOUS
  <2>2. PublishedItem(NameOf(name)) = Decoded(<<name, "", "">>)
    BY PublishedItemOf
  <2>3. parts[i] = PublishedItem(NameOf(name))
    BY <1>0, <2>1
  <2>4. PICK e : e = <<name, "", "">>
    OBVIOUS
  <2>5. e[1] = name /\ Decoded(e).ok /\ Decoded(e).doc = e
    BY <2>4, DecodedIs
  <2>6. parts[i] = Decoded(e)
    BY ONLY <2>2, <2>3, <2>4
  <2> HIDE DEF parts
  <2> QED
    BY ONLY <2>1, <2>5, <2>6 DEF Element
<1>3. DOMAIN parts = DOMAIN d
  BY <1>0
<1> HIDE DEF parts
<1>4. /\ \A i \in DOMAIN parts : parts[i].ok
      /\ [i \in DOMAIN parts |-> Element(parts[i])] = d
  BY <1>2, <1>3, SliceOf
<1>5. AsSlice(j, PublishedItem) = Decoded([i \in DOMAIN parts |-> Element(parts[i])])
  BY <1>0, <1>4 DEF AsSlice, parts
<1> QED
  BY <1>4, <1>5 DEF j

\* A list of styles.
LEMMA StyleSlice ==
  ASSUME NEW S, NEW d \in Seq(S)
  PROVE  AsSlice(Arr([i \in DOMAIN d |-> StyleOf(d[i])]), UnmarshalStyle) = Decoded(d)
<1> DEFINE items == [i \in DOMAIN d |-> StyleOf(d[i])]
           j == Arr(items)
           parts == [i \in DOMAIN j.items |-> UnmarshalStyle(j.items[i])]
<1>0. j.shape = "array" /\ j.items = items
  BY JsonIs
<1> HIDE DEF j
<1>1. \A i \in DOMAIN d : parts[i] = Decoded(<<d[i]>>)
  BY <1>0, StyleDecoded
<1>2. \A i \in DOMAIN d : parts[i].ok /\ Element(parts[i]) = d[i]
  BY <1>1, DecodedIs, ElementIs
<1>3. DOMAIN parts = DOMAIN d
  BY <1>0
<1> HIDE DEF parts
<1>4. /\ \A i \in DOMAIN parts : parts[i].ok
      /\ [i \in DOMAIN parts |-> Element(parts[i])] = d
  BY <1>2, <1>3, SliceOf
<1>5. AsSlice(j, UnmarshalStyle) = Decoded([i \in DOMAIN parts |-> Element(parts[i])])
  BY <1>0, <1>4 DEF AsSlice, parts
<1> QED
  BY <1>4, <1>5 DEF j

\* A list of one is its only text.
LEMMA OneText ==
  ASSUME NEW S, NEW d \in Seq(S), Len(d) = 1
  PROVE  d = <<d[1]>> /\ d[1] \in S /\ DOMAIN d = {1}
  OBVIOUS

\* A list comes as it is, or is its only element.
LEMMA CollapsedIs ==
  ASSUME NEW S, NEW d \in Seq(S),
         NEW items, items = [i \in DOMAIN d |-> items[i]],
         NEW list \in Collapsed(items)
  PROVE  list = Arr(items) \/ (Len(d) = 1 /\ 1 \in DOMAIN d /\ d[1] \in S /\ d = <<d[1]>> /\ list = items[1])
<1>1. items \in Seq({items[i] : i \in DOMAIN d}) /\ Len(items) = Len(d)
  OBVIOUS
<1>2. CASE Len(items) = 1
  BY <1>1, <1>2, OneText DEF Collapsed
<1>3. CASE Len(items) # 1
  BY <1>3 DEF Collapsed
<1> QED
  BY <1>2, <1>3

\* A text that is not empty stays.
LEMMA NonEmptyIs == \A text : text # "" => NonEmpty(Decoded(<<text>>)) = Decoded(<<text>>)
<1> SUFFICES ASSUME NEW text, text # ""
             PROVE  NonEmpty(Decoded(<<text>>)) = Decoded(<<text>>)
  OBVIOUS
<1>1. <<text>> # <<"">>
  OBVIOUS
<1> QED
  BY <1>1, DecodedAlike DEF NonEmpty

\* Versions, under a key of an object.
LEMMA VersionsRead ==
  ASSUME NEW S, "" \notin S, NEW d \in Seq(S),
         NEW j, j \in IF d = <<>> THEN {Null, Obj(NoFields)}
                     ELSE {Obj(One(VersionsKey, list)) :
                             list \in Collapsed([i \in DOMAIN d |-> EntryOf(d[i])])}
  PROVE  UnmarshalVersions(j) = Decoded(d) /\ j.shape \in JsonShapes
<1>1. CASE d = <<>>
  <2>1. j = Null \/ j = Obj(NoFields)
    BY <1>1
  <2>2. Null.shape = "null" /\ Obj(NoFields).shape = "object" /\ Field(Obj(NoFields), VersionsKey) = Null
    <3>1. Null.shape = "null" /\ Obj(NoFields).shape = "object"
      BY JsonIs
    <3> QED
      BY <3>1, FieldIs
  <2> QED
    BY <1>1, <2>1, <2>2 DEF UnmarshalVersions, UnmarshalKeyed, JsonShapes
<1>2. CASE d # <<>>
  <2> DEFINE items == [i \in DOMAIN d |-> EntryOf(d[i])]
  <2>0. j \in {Obj(One(VersionsKey, list)) : list \in Collapsed(items)}
    BY <1>2
  <2>1. PICK list : list \in Collapsed(items) /\ j = Obj(One(VersionsKey, list))
    BY <2>0
  <2>2. j.shape = "object" /\ Field(j, VersionsKey) = list
    BY <2>1, ObjectOfOne
  <2>3. items = [i \in DOMAIN d |-> items[i]]
    OBVIOUS
  <2>4. \/ list = Arr(items)
        \/ 1 \in DOMAIN d /\ d[1] \in S /\ d = <<d[1]>> /\ list = items[1]
    <3>1. d \in Seq(S) /\ list \in Collapsed(items)
      BY <2>1
    <3> HIDE DEF items
    <3> QED
      BY ONLY <3>1, <2>3, CollapsedIs
  <2>5. CASE list = Arr(items)
    <3>1. list.shape = "array"
      BY <2>5, JsonIs
    <3>2. AsSlice(list, VersionEntry) = Decoded(d)
      BY <2>5, VersionsSlice
    <3> QED
      BY <2>2, <3>1, <3>2 DEF UnmarshalVersions, UnmarshalKeyed, JsonShapes
  <2>6. CASE 1 \in DOMAIN d /\ d[1] \in S /\ d = <<d[1]>> /\ list = items[1]
    <3>1. list = EntryOf(d[1]) /\ d[1] # ""
      BY <2>6
    <3>2. list.shape = "object"
      BY <3>1, JsonIs DEF EntryOf
    <3>3. VersionEntry(list) = Decoded(<<d[1]>>)
      BY <3>1, VersionEntryOf
    <3>4. NonEmpty(VersionEntry(list)) = Decoded(d)
      BY <2>6, <3>1, <3>3, NonEmptyIs
    <3> QED
      BY <2>2, <3>2, <3>4 DEF UnmarshalVersions, UnmarshalKeyed, JsonShapes
  <2> QED
    BY <2>4, <2>5, <2>6
<1> QED
  BY <1>1, <1>2

\* Keywords, under a key of an object.
LEMMA KeywordsRead ==
  ASSUME NEW S, "" \notin S, NEW d \in Seq(S),
         NEW j, j \in IF d = <<>> THEN {Null, Obj(NoFields)}
                     ELSE {Obj(One("string", list)) :
                             list \in Collapsed([i \in DOMAIN d |-> Str(d[i])])}
  PROVE  UnmarshalKeywords(j) = Decoded(d) /\ j.shape \in JsonShapes
<1>1. CASE d = <<>>
  <2>1. j = Null \/ j = Obj(NoFields)
    BY <1>1
  <2>2. Null.shape = "null" /\ Obj(NoFields).shape = "object" /\ Field(Obj(NoFields), "string") = Null
    <3>1. Null.shape = "null" /\ Obj(NoFields).shape = "object"
      BY JsonIs
    <3> QED
      BY <3>1, FieldIs
  <2> QED
    BY <1>1, <2>1, <2>2 DEF UnmarshalKeywords, UnmarshalKeyed, JsonShapes
<1>2. CASE d # <<>>
  <2> DEFINE items == [i \in DOMAIN d |-> Str(d[i])]
  <2>0. j \in {Obj(One("string", list)) : list \in Collapsed(items)}
    BY <1>2
  <2>1. PICK list : list \in Collapsed(items) /\ j = Obj(One("string", list))
    BY <2>0
  <2>2. j.shape = "object" /\ Field(j, "string") = list
    BY <2>1, ObjectOfOne
  <2>3. items = [i \in DOMAIN d |-> items[i]]
    OBVIOUS
  <2>4. \/ list = Arr(items)
        \/ 1 \in DOMAIN d /\ d[1] \in S /\ d = <<d[1]>> /\ list = items[1]
    <3>1. d \in Seq(S) /\ list \in Collapsed(items)
      BY <2>1
    <3> HIDE DEF items
    <3> QED
      BY ONLY <3>1, <2>3, CollapsedIs
  <2>5. CASE list = Arr(items)
    <3>1. list.shape = "array"
      BY <2>5, JsonIs
    <3>2. AsSlice(list, AsString) = Decoded(d)
      BY <2>5, StringsSlice
    <3> QED
      BY <2>2, <3>1, <3>2 DEF UnmarshalKeywords, UnmarshalKeyed, JsonShapes
  <2>6. CASE 1 \in DOMAIN d /\ d[1] \in S /\ d = <<d[1]>> /\ list = items[1]
    <3>1. list = Str(d[1]) /\ d[1] # ""
      BY <2>6
    <3>2. list.shape = "string"
      BY <3>1, JsonIs
    <3>3. AsString(list) = Decoded(<<d[1]>>)
      BY <3>1, StringIs
    <3>4. NonEmpty(AsString(list)) = Decoded(d)
      BY <2>6, <3>1, <3>3, NonEmptyIs
    <3> QED
      BY <2>2, <3>2, <3>4 DEF UnmarshalKeywords, UnmarshalKeyed, JsonShapes
  <2> QED
    BY <2>4, <2>5, <2>6
<1> QED
  BY <1>1, <1>2

\* The filters of a chain.
LEMMA FiltersRead ==
  ASSUME NEW S, NEW d \in Seq(S),
         NEW j, j \in (IF d = <<>> THEN {Null} ELSE Collapsed([i \in DOMAIN d |-> Str(d[i])]))
  PROVE  UnmarshalFilter(j) = Decoded(d) /\ j.shape \in JsonShapes
<1>1. CASE d = <<>>
  <2>1. j.shape = "null"
    BY <1>1, JsonIs
  <2> QED
    BY <1>1, <2>1 DEF UnmarshalFilter, AsSlice, JsonShapes
<1>2. CASE d # <<>>
  <2> DEFINE items == [i \in DOMAIN d |-> Str(d[i])]
  <2>1. j \in Collapsed(items)
    BY <1>2
  <2>2. items = [i \in DOMAIN d |-> items[i]]
    OBVIOUS
  <2>3. \/ j = Arr(items)
        \/ 1 \in DOMAIN d /\ d[1] \in S /\ d = <<d[1]>> /\ j = items[1]
    <3> HIDE DEF items
    <3> QED
      BY <2>1, <2>2, CollapsedIs
  <2>4. CASE j = Arr(items)
    <3>1. j.shape = "array"
      BY <2>4, JsonIs
    <3>2. AsSlice(j, AsString) = Decoded(d)
      BY <2>4, StringsSlice
    <3> QED
      BY <3>1, <3>2 DEF UnmarshalFilter, JsonShapes
  <2>5. CASE 1 \in DOMAIN d /\ d[1] \in S /\ d = <<d[1]>> /\ j = items[1]
    <3>1. j = Str(d[1])
      BY <2>5
    <3>2. j.shape = "string" /\ AsString(j) = Decoded(<<d[1]>>)
      BY <3>1, JsonIs, StringIs
    <3> QED
      BY <2>5, <3>2 DEF UnmarshalFilter, JsonShapes
  <2> QED
    BY <2>3, <2>4, <2>5
<1> QED
  BY <1>1, <1>2

\* The layers and groups of a layer group.
LEMMA PublishedRead ==
  ASSUME NEW S, "" \notin S, NEW d \in Seq(S), NEW j \in Collapsed([i \in DOMAIN d |-> NameOf(d[i])])
  PROVE  UnmarshalPublished(j) = Decoded(d) /\ j.shape \in JsonShapes
<1> DEFINE items == [i \in DOMAIN d |-> NameOf(d[i])]
<1>1. j \in Collapsed(items)
  OBVIOUS
<1>2. items = [i \in DOMAIN d |-> items[i]]
  OBVIOUS
<1>3. \/ j = Arr(items)
      \/ 1 \in DOMAIN d /\ d[1] \in S /\ d = <<d[1]>> /\ j = items[1]
  <2> HIDE DEF items
  <2>1. d \in Seq(S)
    OBVIOUS
  <2> QED
    BY ONLY <1>1, <1>2, <2>1, CollapsedIs
<1>4. CASE j = Arr(items)
  <2>1. j.shape = "array"
    BY <1>4, JsonIs
  <2>2. AsSlice(j, PublishedItem) = Decoded(d)
    BY <1>4, ItemSlice
  <2> QED
    BY <2>1, <2>2 DEF UnmarshalPublished, JsonShapes
<1>5. CASE 1 \in DOMAIN d /\ d[1] \in S /\ d = <<d[1]>> /\ j = items[1]
  <2>1. j = NameOf(d[1]) /\ d[1] # ""
    BY <1>5
  <2>2. j.shape = "object"
    BY <2>1, JsonIs DEF NameOf
  <2>3. PICK e, none : e = <<d[1], "", "">> /\ none = <<"", "", "">>
    OBVIOUS
  <2>4. PublishedItem(j) = Decoded(e)
    BY <2>1, <2>3, PublishedItemOf
  <2>5. e[1] = d[1] /\ e # none /\ Decoded(e).ok /\ Decoded(e).doc = e
    BY <2>1, <2>3, DecodedIs
  <2>6. UnmarshalPublished(j) =
          IF PublishedItem(j).ok /\ PublishedItem(j).doc # none
          THEN Decoded(<<PublishedItem(j).doc[1]>>) ELSE DecodeError
    BY ONLY <2>2, <2>3 DEF UnmarshalPublished
  <2>7. UnmarshalPublished(j) = Decoded(<<d[1]>>)
    BY ONLY <2>4, <2>5, <2>6
  <2> QED
    BY <1>5, <2>2, <2>7 DEF JsonShapes
<1> QED
  BY <1>3, <1>4, <1>5

\* The styles of a layer group.
LEMMA StylesRead ==
  ASSUME NEW S, NEW d \in Seq(S), NEW list \in Collapsed([i \in DOMAIN d |-> StyleOf(d[i])])
  PROVE  UnmarshalStyles(Obj(One("style", list))) = Decoded(d)
<1> DEFINE items == [i \in DOMAIN d |-> StyleOf(d[i])]
           j == Obj(One("style", list))
<1>1. list \in Collapsed(items)
  OBVIOUS
<1>2. items = [i \in DOMAIN d |-> items[i]]
  OBVIOUS
<1>3. \/ list = Arr(items)
      \/ 1 \in DOMAIN d /\ d[1] \in S /\ d = <<d[1]>> /\ list = items[1]
  <2> HIDE DEF items
  <2> QED
    BY <1>1, <1>2, CollapsedIs
<1>4. j.shape = "object" /\ Field(j, "style") = list
  BY ObjectOfOne
<1>5. CASE list = Arr(items)
  <2>1. list.shape = "array"
    BY <1>5, JsonIs
  <2>2. AsSlice(list, UnmarshalStyle) = Decoded(d)
    BY <1>5, StyleSlice
  <2> HIDE DEF j
  <2>3. UnmarshalStyles(j) = Decoded(d)
    BY <1>4, <2>1, <2>2 DEF UnmarshalStyles
  <2> QED
    BY <2>3 DEF j
<1>6. CASE 1 \in DOMAIN d /\ d[1] \in S /\ d = <<d[1]>> /\ list = items[1]
  <2>1. list = StyleOf(d[1])
    BY <1>6
  <2>2. list.shape \in {"string", "object"}
    BY <2>1, JsonIs DEF StyleOf, NameOf
  <2>3. UnmarshalStyle(list) = Decoded(d)
    BY <1>6, <2>1, StyleDecoded
  <2> HIDE DEF j
  <2>4. UnmarshalStyles(j) = Decoded(d)
    BY <1>4, <2>2, <2>3 DEF UnmarshalStyles
  <2> QED
    BY <2>4 DEF j
<1> QED
  BY <1>3, <1>5, <1>6

\* A list in an envelope.
LEMMA ListRead ==
  ASSUME NEW S, NEW d \in Seq(S), NEW j, j = Obj(One("list", Arr([i \in DOMAIN d |-> NameOf(d[i])])))
  PROVE  /\ UnmarshalList(j) = Decoded(d) /\ UnmarshalListStyles(j) = Decoded(d)
         /\ j.shape = "object"
<1>1. j.shape = "object" /\ Field(j, "list") = Arr([i \in DOMAIN d |-> NameOf(d[i])])
  BY ObjectOfOne
<1>2. AsSlice(Field(j, "list"), NamedEntry) = Decoded(d)
  BY <1>1, NamedSlice
<1> QED
  BY <1>1, <1>2 DEF UnmarshalList, UnmarshalListStyles

-----------------------------------------------------------------------------
(* Objects. *)

\* What is read of a field that is a string, or missing.
LEMMA StringAtIs ==
  ASSUME NEW j, NEW key, NEW text
  PROVE  /\ Field(j, key) = Str(text) => StringAt(j, key) = text
         /\ Field(j, key) = Null => StringAt(j, key) = ""
         /\ Field(j, key) = (IF text = "" THEN Null ELSE Str(text)) => StringAt(j, key) = text
<1>1. Str(text).shape = "string" /\ Str(text).text = text /\ Null.shape = "null"
  BY JsonIs
<1> QED
  BY <1>1 DEF StringAt

\* A field with omitempty, in front of fields of other names.
LEMMA OmittedFirst ==
  ASSUME NEW key, NEW text, NEW g, key \notin DOMAIN g
  PROVE  StringAt(Obj(Both(Omitted(key, text), g)), key) = text
<1>1. Field(Obj(Both(Omitted(key, text), g)), key) =
        IF key \in DOMAIN Omitted(key, text) THEN Field(Obj(Omitted(key, text)), key)
        ELSE Field(Obj(g), key)
  BY FieldOfBoth
<1>2. Field(Obj(g), key) = Null
  BY FieldOf
<1>3. Field(Obj(Both(Omitted(key, text), g)), key) = IF text = "" THEN Null ELSE Str(text)
  BY <1>1, <1>2, OmittedIs
<1> QED
  BY ONLY <1>3, StringAtIs

\* A field behind those of other names.
LEMMA FieldBehind ==
  ASSUME NEW f, NEW g, NEW key, key \notin DOMAIN f
  PROVE  Field(Obj(Both(f, g)), key) = Field(Obj(g), key)
  BY FieldOfBoth

\* A field of the first part.
LEMMA FieldBefore ==
  ASSUME NEW f, NEW g, NEW key, key \in DOMAIN f
  PROVE  Field(Obj(Both(f, g)), key) = Field(Obj(f), key)
  BY FieldOfBoth

\* A CRS with a class, or with an empty one.
LEMMA CRSRead ==
  ASSUME NEW class, NEW crs, crs # "",
         NEW j, j = Obj(Both(Omitted("@class", class), One("$", Str(crs))))
  PROVE  j.shape = "object" /\ UnmarshalCRS(j) = Decoded(<<class, crs>>)
<1>1. j.shape = "object"
  BY JsonIs
<1>2. DOMAIN One("$", Str(crs)) = {"$"}
  BY FieldsAre
<1>3. StringAt(j, "@class") = class
  <2>1. PICK g : g = One("$", Str(crs))
    OBVIOUS
  <2>2. "@class" \notin DOMAIN g
    <3>1. "@class" # "$"
      OBVIOUS
    <3>2. DOMAIN g = {"$"}
      BY <1>2, <2>1
    <3> QED
      BY ONLY <3>1, <3>2
  <2>3. StringAt(Obj(Both(Omitted("@class", class), g)), "@class") = class
    BY ONLY <2>2, OmittedFirst
  <2> QED
    BY <2>1, <2>3
<1>4. StringAt(j, "$") = crs
  <2>1. "$" \notin DOMAIN Omitted("@class", class)
    BY NotOmitted
  <2>2. Field(j, "$") = Field(Obj(One("$", Str(crs))), "$")
    BY <2>1, FieldBehind
  <2>3. Field(Obj(One("$", Str(crs))), "$") = Str(crs)
    BY ONLY ObjectOfOne
  <2>4. Field(j, "$") = Str(crs)
    BY ONLY <2>2, <2>3
  <2> QED
    BY ONLY <2>4, StringAtIs
<1> QED
  BY ONLY <1>1, <1>3, <1>4, crs # "" DEF UnmarshalCRS

\* The contact and its like.
LEMMA OptionalRead ==
  ASSUME NEW text
  PROVE  /\ UnmarshalOptional(Str("")) = Decoded(<<"">>)
         /\ UnmarshalOptional(Null) = Decoded(<<"">>)
         /\ UnmarshalOptional(Obj(One("content", Str(text)))) = Decoded(<<text>>)
<1> DEFINE j == Obj(One("content", Str(text)))
<1>1. j.shape = "object" /\ Field(j, "content") = Str(text)
  BY ObjectOfOne
<1>2. Null.shape = "null" /\ Str("").shape = "string"
  BY JsonIs
<1> HIDE DEF j
<1>3. AsString(Field(j, "content")) = Decoded(<<text>>)
  BY <1>1, StringIs
<1>4. AsStruct(j, <<"content">>) = Decoded(<<text>>)
  BY <1>1, <1>3, StructOfOne
<1>5. j.shape # Str("").shape
  BY ONLY <1>1, <1>2
<1>6. UnmarshalOptional(j) = Decoded(<<text>>)
  BY <1>1, <1>4, <1>5 DEF UnmarshalOptional
<1>7. UnmarshalOptional(Str("")) = Decoded(<<"">>) /\ UnmarshalOptional(Null) = Decoded(<<"">>)
  BY <1>2 DEF UnmarshalOptional
<1> QED
  BY <1>6, <1>7 DEF j

\* With the envelope or without it.
LEMMA EnvelopeRead ==
  ASSUME NEW text, text # "",
         NEW j, j = NameOf(text) \/ j = Obj(One("global", NameOf(text)))
  PROVE  j.shape = "object" /\ UnmarshalEnvelope(j, "global") = Decoded(<<text>>)
<1>1. NameOf(text).shape = "object" /\ AsStruct(NameOf(text), <<"name">>) = Decoded(<<text>>)
  <2>1. NameOf(text).shape = "object"
    BY JsonIs DEF NameOf
  <2> QED
    BY <2>1, NamedEntryOf DEF NamedEntry
<1>2. CASE j = NameOf(text)
  <2>1. Field(j, "global") = Null
    <3>1. Field(Obj(Omitted("name", text)), "global") = Null
      BY NotOmitted
    <3> QED
      BY ONLY <1>2, <3>1 DEF NameOf
  <2>2. Null.shape = "null"
    BY JsonIs
  <2> QED
    BY <1>1, <1>2, <2>1, <2>2 DEF UnmarshalEnvelope
<1>3. CASE j = Obj(One("global", NameOf(text)))
  <2>1. j.shape = "object" /\ Field(j, "global") = NameOf(text)
    BY <1>3, ObjectOfOne
  <2> QED
    BY <1>1, <2>1, DecodedIs DEF UnmarshalEnvelope
<1> QED
  BY <1>2, <1>3

\* The fields of a provider.
LEMMA FlatFields ==
  ASSUME NEW d, NEW j, j = Flat(d)
  PROVE  /\ j.shape = "object"
         /\ "name" \in DOMAIN j.fields
         /\ Field(j, "name") = Str(d[1])
         /\ Field(j, "className") = Str(d[2])
         /\ Field(j, "extra") = IF d[3] = "" THEN Null ELSE Str(d[3])
<1> DEFINE n == One("name", Str(d[1]))
           c == One("className", Str(d[2]))
           e == Omitted("extra", d[3])
<1>1. j = Obj(Both(n, Both(c, e)))
  BY DEF Flat
<1>2. DOMAIN n = {"name"} /\ DOMAIN c = {"className"}
  BY FieldsAre
<1>3. DOMAIN Both(n, Both(c, e)) = DOMAIN n \cup DOMAIN Both(c, e)
  BY FieldsAre
<1>4. Obj(Both(n, Both(c, e))).shape = "object" /\ Obj(Both(n, Both(c, e))).fields = Both(n, Both(c, e))
  BY JsonIs
<1>5. Field(Obj(n), "name") = Str(d[1]) /\ Field(Obj(c), "className") = Str(d[2])
  BY ObjectOfOne
<1>6. Field(Obj(e), "extra") = IF d[3] = "" THEN Null ELSE Str(d[3])
  BY OmittedIs
<1> HIDE DEF n, c, e
<1>7. Field(j, "name") = Str(d[1])
  BY <1>1, <1>2, <1>5, FieldBefore
<1>8. Field(j, "className") = Str(d[2])
  <2>1. Field(j, "className") = Field(Obj(Both(c, e)), "className")
    BY <1>1, <1>2, FieldBehind
  <2>2. Field(Obj(Both(c, e)), "className") = Field(Obj(c), "className")
    BY <1>2, FieldBefore
  <2> QED
    BY <1>5, <2>1, <2>2
<1>9. Field(j, "extra") = IF d[3] = "" THEN Null ELSE Str(d[3])
  <2>1. Field(j, "extra") = Field(Obj(Both(c, e)), "extra")
    BY <1>1, <1>2, FieldBehind
  <2>2. Field(Obj(Both(c, e)), "extra") = Field(Obj(e), "extra")
    BY <1>2, FieldBehind
  <2> QED
    BY <1>6, <2>1, <2>2
<1>10. j.shape = "object" /\ "name" \in DOMAIN j.fields
  BY <1>1, <1>2, <1>3, <1>4
<1> QED
  BY <1>7, <1>8, <1>9, <1>10

\* A flat provider decodes as its three texts.
LEMMA FlatIs ==
  ASSUME NEW t1, NEW t2, NEW t3, NEW j, j = Flat(<<t1, t2, t3>>)
  PROVE  /\ j.shape = "object"
         /\ "name" \in DOMAIN j.fields
         /\ StringAt(j, "name") = t1 /\ StringAt(j, "className") = t2
         /\ Field(j, "extra").text = t3
<1>1. PICK d : d = <<t1, t2, t3>>
  OBVIOUS
<1>2. d[1] = t1 /\ d[2] = t2 /\ d[3] = t3
  BY ONLY <1>1
<1>3. j = Flat(d)
  BY <1>1
<1>4. /\ j.shape = "object" /\ "name" \in DOMAIN j.fields
      /\ Field(j, "name") = Str(d[1]) /\ Field(j, "className") = Str(d[2])
      /\ Field(j, "extra") = IF d[3] = "" THEN Null ELSE Str(d[3])
  BY ONLY <1>3, FlatFields
<1>5. Field(j, "name") = Str(t1) /\ Field(j, "className") = Str(t2)
  BY ONLY <1>2, <1>4
<1>6. StringAt(j, "name") = t1 /\ StringAt(j, "className") = t2
  BY ONLY <1>5, StringAtIs
<1>7. Field(j, "extra").text = t3
  <2>1. Null.text = "" /\ Str(t3).text = t3
    BY JsonIs
  <2> QED
    BY ONLY <1>2, <1>4, <2>1
<1> QED
  BY ONLY <1>4, <1>6, <1>7

\* An envelope is taken off, what is not one stays.
LEMMA Unwrapped ==
  ASSUME NEW j
  PROVE  /\ (\A key \in ClassKeys : DOMAIN j.fields # {key}) => unwrapClassEnvelope(j) = j
         /\ \A key \in ClassKeys : \A inner :
              j = Obj(One(key, inner)) /\ inner.shape = "object" => unwrapClassEnvelope(j) = inner
<1> DEFINE E == {key \in ClassKeys : DOMAIN j.fields = {key} /\ j.fields[key].shape = "object"}
<1>1. unwrapClassEnvelope(j) =
        IF j.shape = "object" /\ E # {} THEN j.fields[CHOOSE key \in E : TRUE] ELSE j
  BY DEF unwrapClassEnvelope
<1>2. ASSUME \A key \in ClassKeys : DOMAIN j.fields # {key}
      PROVE  unwrapClassEnvelope(j) = j
  <2>1. E = {}
    BY <1>2
  <2> HIDE DEF E
  <2> QED
    BY ONLY <1>1, <2>1
<1>3. ASSUME NEW key \in ClassKeys, NEW inner, j = Obj(One(key, inner)), inner.shape = "object"
      PROVE  unwrapClassEnvelope(j) = inner
  <2>1. j.shape = "object" /\ j.fields = One(key, inner)
    BY <1>3, JsonIs
  <2>2. DOMAIN j.fields = {key} /\ j.fields[key] = inner
    BY <2>1, FieldsAre
  <2>3. E = {key}
    BY <1>3, <2>2
  <2> HIDE DEF E
  <2>4. (CHOOSE k \in E : TRUE) \in E
    BY <2>3
  <2>5. (CHOOSE k \in E : TRUE) = key
    BY ONLY <2>3, <2>4
  <2> QED
    BY ONLY <1>1, <2>1, <2>2, <2>3, <2>5
<1> QED
  BY <1>2, <1>3

\* A provider, with or without the envelope of its class.
LEMMA ProviderRead ==
  ASSUME NEW t1, NEW t2, NEW t3,
         NEW j, \/ j = Flat(<<t1, t2, t3>>)
                \/ \E key \in ClassKeys : j = Obj(One(key, Flat(<<t1, t2, t3>>)))
  PROVE  j.shape = "object" /\ UnmarshalProvider(j) = Decoded(<<t1, t2, t3>>)
<1> DEFINE flat == Flat(<<t1, t2, t3>>)
<1>1. /\ flat.shape = "object" /\ "name" \in DOMAIN flat.fields
      /\ StringAt(flat, "name") = t1 /\ StringAt(flat, "className") = t2
      /\ Field(flat, "extra").text = t3
  BY FlatIs
<1>2. j = flat \/ \E key \in ClassKeys : j = Obj(One(key, flat))
  OBVIOUS
<1> HIDE DEF flat
<1>3. j.shape = "object" /\ unwrapClassEnvelope(j) = flat
  <2>1. CASE j = flat
    <3>1. \A key \in ClassKeys : DOMAIN j.fields # {key}
      <4>1. "name" \notin ClassKeys
        BY DEF ClassKeys
      <4> QED
        BY ONLY <1>1, <2>1, <4>1
    <3> QED
      BY <1>1, <2>1, <3>1, Unwrapped
  <2>2. CASE \E key \in ClassKeys : j = Obj(One(key, flat))
    <3>1. PICK key \in ClassKeys : j = Obj(One(key, flat))
      BY <2>2
    <3>2. unwrapClassEnvelope(j) = flat
      BY ONLY <1>1, <3>1, Unwrapped
    <3> QED
      BY <3>1, <3>2, JsonIs
  <2> QED
    BY <1>2, <2>1, <2>2
<1> QED
  BY ONLY <1>1, <1>3 DEF UnmarshalProvider

\* A filter, or none of that name.
LEMMA FilterRead ==
  ASSUME NEW j
  PROVE  /\ j = Obj(One("null", Str(""))) => j.shape = "object" /\ GetFilter(j) = Decoded(<<>>)
         /\ \A t1, t2, t3 : UnmarshalProvider(j) = Decoded(<<t1, t2, t3>>) /\ t1 # ""
                              => GetFilter(j) = Decoded(<<t1, t2, t3>>)
<1>1. ASSUME j = Obj(One("null", Str("")))
      PROVE  j.shape = "object" /\ GetFilter(j) = Decoded(<<>>)
  <2>1. Obj(One("null", Str(""))).fields = One("null", Str("")) /\ j.shape = "object"
    BY <1>1, JsonIs
  <2>2. DOMAIN One("null", Str("")) = {"null"}
    BY FieldsAre
  <2>3. unwrapClassEnvelope(j) = j
    <3>1. "null" \notin ClassKeys
      BY DEF ClassKeys
    <3>2. DOMAIN j.fields = {"null"}
      BY <1>1, <2>1, <2>2
    <3>3. \A key \in ClassKeys : DOMAIN j.fields # {key}
      BY ONLY <3>1, <3>2
    <3> QED
      BY ONLY <3>3, Unwrapped
  <2>4. /\ Field(Obj(One("null", Str(""))), "name") = Null
        /\ Field(Obj(One("null", Str(""))), "className") = Null
        /\ Field(Obj(One("null", Str(""))), "extra") = Null
    BY NoOtherField
  <2>5. Field(j, "name") = Null /\ Field(j, "className") = Null /\ Field(j, "extra") = Null
    BY <1>1, <2>4
  <2>6. PICK none : none = ""
    OBVIOUS
  <2>7. /\ StringAt(j, "name") = none /\ StringAt(j, "className") = none
        /\ Field(j, "extra").text = none
    <3>1. Null.text = ""
      BY JsonIs
    <3> QED
      BY ONLY <2>5, <2>6, <3>1, StringAtIs
  <2>8. UnmarshalProvider(j) = Decoded(<<"", "", "">>)
    <3>1. UnmarshalProvider(j) = Decoded(<<none, none, none>>)
      BY ONLY <2>1, <2>3, <2>7 DEF UnmarshalProvider
    <3> QED
      BY ONLY <2>6, <3>1
  <2>9. PICK d : d = <<"", "", "">>
    OBVIOUS
  <2>10. d[1] = "" /\ Decoded(d).ok /\ Decoded(d).doc = d
    BY <2>9, DecodedIs
  <2>11. UnmarshalProvider(j) = Decoded(d)
    BY ONLY <2>8, <2>9
  <2>12. GetFilter(j) = Decoded(<<>>)
    BY ONLY <2>10, <2>11 DEF GetFilter
  <2> QED
    BY <2>1, <2>12
<1>2. ASSUME NEW t1, NEW t2, NEW t3, UnmarshalProvider(j) = Decoded(<<t1, t2, t3>>), t1 # ""
      PROVE  GetFilter(j) = Decoded(<<t1, t2, t3>>)
  <2>1. PICK d : d = <<t1, t2, t3>>
    OBVIOUS
  <2>2. d[1] = t1 /\ Decoded(d).doc = d
    BY <2>1, DecodedIs
  <2>3. UnmarshalProvider(j) = Decoded(d)
    BY ONLY <1>2, <2>1
  <2>4. GetFilter(j) = Decoded(d)
    BY ONLY <1>2, <2>2, <2>3 DEF GetFilter
  <2> QED
    BY ONLY <2>1, <2>4
<1> QED
  BY <1>1, <1>2

\* The providers are read by their names.
LEMMA ProviderSlice ==
  ASSUME NEW S, NEW d \in Seq(S)
  PROVE  AsSlice(Arr([i \in DOMAIN d |-> ProviderOf(d[i])]), UnmarshalProvider) = Decoded(d)
<1> DEFINE items == [i \in DOMAIN d |-> ProviderOf(d[i])]
           j == Arr(items)
           parts == [i \in DOMAIN j.items |-> UnmarshalProvider(j.items[i])]
<1>1. j.shape = "array" /\ j.items = items
  BY JsonIs
<1>2. \A i \in DOMAIN d : parts[i].ok /\ Element(parts[i]) = d[i]
  <2> SUFFICES ASSUME NEW i \in DOMAIN d
               PROVE  parts[i].ok /\ Element(parts[i]) = d[i]
    OBVIOUS
  <2>1. PICK name : name = d[i]
    OBVIOUS
  <2>2. UnmarshalProvider(ProviderOf(name)) = Decoded(<<name, "C", "">>)
    BY ProviderRead DEF ProviderOf
  <2>3. parts[i] = UnmarshalProvider(ProviderOf(name))
    BY <1>1, <2>1
  <2>4. PICK e : e = <<name, "C", "">>
    OBVIOUS
  <2>5. e[1] = name /\ Decoded(e).ok /\ Decoded(e).doc = e
    BY <2>4, DecodedIs
  <2>6. parts[i] = Decoded(e)
    BY ONLY <2>2, <2>3, <2>4
  <2> HIDE DEF parts
  <2> QED
    BY ONLY <2>1, <2>5, <2>6 DEF Element
<1> HIDE DEF j
<1>3. DOMAIN parts = DOMAIN d
  BY <1>1
<1> HIDE DEF parts
<1>4. /\ \A i \in DOMAIN parts : parts[i].ok
      /\ [i \in DOMAIN parts |-> Element(parts[i])] = d
  BY <1>2, <1>3, SliceOf
<1>5. AsSlice(j, UnmarshalProvider) = Decoded([i \in DOMAIN parts |-> Element(parts[i])])
  BY <1>1, <1>4 DEF AsSlice, parts
<1> QED
  BY <1>4, <1>5 DEF j

\* The keys of an object of one field.
LEMMA SetToSeqOfOne == ASSUME NEW x PROVE SetToSeq({x}) = <<x>>
<1>1. Cardinality({x}) = 1
  BY FS_Singleton
<1>2. <<x>> \in [1..1 -> {x}] /\ \A a, b \in DOMAIN <<x>> : <<x>>[a] = <<x>>[b] => a = b
  OBVIOUS
<1>3. \E f \in [1..Cardinality({x}) -> {x}] : IsInjective(f)
  BY <1>1, <1>2 DEF IsInjective
<1>4. SetToSeq({x}) \in [1..1 -> {x}]
  BY <1>1, <1>3 DEF SetToSeq
<1>5. SetToSeq({x}) = [i \in 1..1 |-> x]
  BY <1>4
<1> QED
  BY <1>5

\* Providers, in a list or the only one in its envelope.
LEMMA ProvidersRead ==
  ASSUME NEW S, NEW d \in Seq(S),
         NEW j, \/ j = Arr([i \in DOMAIN d |-> ProviderOf(d[i])])
                \/ Len(d) = 1 /\ \E key \in ClassKeys :
                                  j = Obj(One(key, [i \in DOMAIN d |-> ProviderOf(d[i])][1]))
  PROVE  ListProviders(j) = Decoded(d) /\ j.shape \in JsonShapes
<1> DEFINE items == [i \in DOMAIN d |-> ProviderOf(d[i])]
<1>1. \/ j = Arr(items)
      \/ Len(d) = 1 /\ \E key \in ClassKeys : j = Obj(One(key, items[1]))
  OBVIOUS
<1>2. AsSlice(Arr(items), UnmarshalProvider) = Decoded(d)
  BY ProviderSlice
<1>3. CASE j = Arr(items)
  <2>1. j.shape = "array"
    BY <1>3, JsonIs
  <2> QED
    BY <1>2, <1>3, <2>1 DEF ListProviders, JsonShapes
<1>4. CASE Len(d) = 1 /\ \E key \in ClassKeys : j = Obj(One(key, items[1]))
  <2>0. PICK key \in ClassKeys : j = Obj(One(key, items[1]))
    BY <1>4
  <2>1. DOMAIN d = 1..1 /\ items = [i \in 1..1 |-> items[1]]
    BY <1>4
  <2> HIDE DEF items
  <2>2. j.shape = "object" /\ j.fields = One(key, items[1])
    BY <2>0, JsonIs
  <2>3. DOMAIN j.fields = {key} /\ j.fields[key] = items[1]
    <3>1. DOMAIN One(key, items[1]) = {key} /\ One(key, items[1])[key] = items[1]
      BY FieldsAre
    <3> QED
      BY ONLY <2>2, <3>1
  <2>4. SetToSeq(DOMAIN j.fields) = <<key>>
    BY <2>3, SetToSeqOfOne
  <2>5. [i \in DOMAIN <<key>> |-> j.fields[<<key>>[i]]] = [i \in 1..1 |-> items[1]]
    BY <2>3
  <2>6. ListProviders(j) =
          AsSlice(Arr([i \in DOMAIN <<key>> |-> j.fields[<<key>>[i]]]), UnmarshalProvider)
    BY <2>2, <2>4 DEF ListProviders
  <2>7. ListProviders(j) = AsSlice(Arr(items), UnmarshalProvider)
    BY <2>1, <2>5, <2>6
  <2> QED
    BY <1>2, <2>2, <2>7 DEF JsonShapes
<1> QED
  BY <1>1, <1>3, <1>4

\* A namespace, under either name of its prefix.
LEMMA NamespaceRead ==
  ASSUME NEW text, text # "", NEW j, j = Obj(One("prefix", Str(text))) \/ j = NameOf(text)
  PROVE  j.shape = "object" /\ UnmarshalNamespace(j) = Decoded(<<text>>)
<1>1. CASE j = Obj(One("prefix", Str(text)))
  <2>1. j.shape \in {"object", "null"} /\ Field(j, "prefix") = Str(text) /\ Field(j, "name") = Null
    <3>1. j.shape = "object" /\ Field(j, "prefix") = Str(text)
      BY <1>1, ObjectOfOne
    <3>2. Field(j, "name") = Null
      BY <1>1, NoOtherField
    <3> QED
      BY <3>1, <3>2
  <2>2. PICK none : none = ""
    OBVIOUS
  <2>3. AsString(Field(j, "prefix")) = Decoded(<<text>>) /\ AsString(Field(j, "name")) = Decoded(<<none>>)
    BY ONLY <2>1, <2>2, StringIs
  <2>4. AsStruct(j, <<"prefix", "name">>) = Decoded(<<text, none>>)
    BY ONLY <2>1, <2>3, StructOfTwo
  <2>5. PICK e : e = <<text, none>>
    OBVIOUS
  <2>6. Decoded(e).ok /\ Decoded(e).doc = e /\ e[1] = text
    BY <2>5, DecodedIs
  <2>7. AsStruct(j, <<"prefix", "name">>) = Decoded(e)
    BY ONLY <2>4, <2>5
  <2>8. j.shape = "object" /\ text # ""
    BY <1>1, ObjectOfOne
  <2> QED
    BY ONLY <2>6, <2>7, <2>8 DEF UnmarshalNamespace
<1>2. CASE j = NameOf(text)
  <2>1. Field(j, "prefix") = Null
    BY <1>2, NotOmitted DEF NameOf
  <2>2. Field(j, "name") = Str(text)
    BY <1>2, OmittedIs DEF NameOf
  <2>3. j.shape = "object" /\ j.shape \in {"object", "null"}
    BY <1>2, JsonIs DEF NameOf
  <2>4. PICK none : none = ""
    OBVIOUS
  <2>5. AsString(Field(j, "prefix")) = Decoded(<<none>>) /\ AsString(Field(j, "name")) = Decoded(<<text>>)
    BY ONLY <2>1, <2>2, <2>4, StringIs
  <2>6. AsStruct(j, <<"prefix", "name">>) = Decoded(<<none, text>>)
    BY ONLY <2>3, <2>5, StructOfTwo
  <2>7. PICK e : e = <<none, text>>
    OBVIOUS
  <2>8. Decoded(e).ok /\ Decoded(e).doc = e /\ e[1] = "" /\ e[2] = text
    BY <2>4, <2>7, DecodedIs
  <2>9. AsStruct(j, <<"prefix", "name">>) = Decoded(e)
    BY ONLY <2>6, <2>7
  <2> QED
    BY ONLY <1>2, <2>3, <2>8, <2>9 DEF UnmarshalNamespace
<1> QED
  BY <1>1, <1>2

\* A text, also of a number.
LEMMA TextRead ==
  ASSUME NEW text, NEW j \in TextOf(text)
  PROVE  j.shape \in JsonShapes /\ UnmarshalText(j) = Decoded(<<text>>)
<1>1. j = Str(text) \/ j = Num(text)
  BY DEF TextOf
<1>2. j.shape \in {"string", "number"} /\ j.text = text
  <2>1. /\ Str(text).shape = "string" /\ Str(text).text = text
        /\ Num(text).shape = "number" /\ Num(text).text = text
    BY JsonIs
  <2> QED
    BY ONLY <1>1, <2>1
<1> QED
  BY <1>2 DEF UnmarshalText, JsonShapes

\* A seed task, from its row.
LEMMA TaskRead ==
  ASSUME NEW S, NEW d \in [1..5 -> S], NEW j, j = Arr([i \in 1..5 |-> Num(d[i])])
  PROVE  j.shape = "array" /\ UnmarshalTask(j) = Decoded(d)
<1> DEFINE row == [i \in 1..5 |-> Num(d[i])]
<1>1. j.shape = "array" /\ j.items = row
  <2>1. Arr(row).shape = "array" /\ Arr(row).items = row
    BY JsonIs
  <2> QED
    BY <2>1
<1>2. row \in Seq({Num(d[i]) : i \in 1..5}) /\ Len(row) = 5
  OBVIOUS
<1>3. \A i \in 1..5 : row[i].text = d[i]
  BY JsonIs
<1> HIDE DEF row
<1>4. \A i \in 1..5 : (IF i <= Len(j.items) THEN j.items[i].text ELSE "0") = d[i]
  <2> SUFFICES ASSUME NEW i \in 1..5
               PROVE  i <= Len(j.items) /\ j.items[i].text = d[i]
    OBVIOUS
  <2> QED
    BY ONLY <1>1, <1>2, <1>3, i \in 1..5
<1>5. UnmarshalTask(j) = Decoded(<<d[1], d[2], d[3], d[4], d[5]>>)
  <2>1. /\ (IF 1 <= Len(j.items) THEN j.items[1].text ELSE "0") = d[1]
        /\ (IF 2 <= Len(j.items) THEN j.items[2].text ELSE "0") = d[2]
        /\ (IF 3 <= Len(j.items) THEN j.items[3].text ELSE "0") = d[3]
        /\ (IF 4 <= Len(j.items) THEN j.items[4].text ELSE "0") = d[4]
        /\ (IF 5 <= Len(j.items) THEN j.items[5].text ELSE "0") = d[5]
    BY <1>4
  <2> QED
    BY ONLY <2>1 DEF UnmarshalTask
<1>6. <<d[1], d[2], d[3], d[4], d[5]>> = d
  OBVIOUS
<1> QED
  BY <1>1, <1>5, <1>6

\* The quota, when there is one.
LEMMA QuotaRead ==
  ASSUME NEW text,
         NEW j, j = Obj(One("DiskQuotaConfig",
                            Obj(IF text = "" THEN NoFields
                                ELSE One("globalQuota", Obj(One("bytes", Num(text)))))))
  PROVE  j.shape = "object" /\ UnmarshalQuota(j) = Decoded(<<text>>)
<1> DEFINE config == Obj(IF text = "" THEN NoFields
                         ELSE One("globalQuota", Obj(One("bytes", Num(text)))))
<1>1. j.shape = "object" /\ Field(j, "DiskQuotaConfig") = config
  BY ObjectOfOne
<1>2. CASE text = ""
  <2>1. Field(config, "globalQuota") = Null
    BY <1>2, FieldIs
  <2>2. Null.shape = "null"
    BY JsonIs
  <2> HIDE DEF config
  <2> QED
    BY ONLY <1>1, <1>2, <2>1, <2>2 DEF UnmarshalQuota
<1>3. CASE text # ""
  <2>1. config = Obj(One("globalQuota", Obj(One("bytes", Num(text)))))
    BY <1>3
  <2> HIDE DEF config
  <2>2. Field(config, "globalQuota") = Obj(One("bytes", Num(text)))
    BY <2>1, ObjectOfOne
  <2>3. Obj(One("bytes", Num(text))).shape = "object" /\ Field(Obj(One("bytes", Num(text))), "bytes") = Num(text)
    BY ObjectOfOne
  <2>4. Num(text).text = text
    BY JsonIs
  <2> QED
    BY ONLY <1>1, <2>2, <2>3, <2>4 DEF UnmarshalQuota
<1> QED
  BY <1>2, <1>3

-----------------------------------------------------------------------------
(* The audit log. *)

Row(texts) == Arr([i \in DOMAIN texts |-> Str(texts[i])])

\* A value is in the cell of its column, if the row is that long.
LEMMA CellIs ==
  ASSUME NEW S, NEW header \in Seq(S), NEW row \in Seq(S), NEW name, NEW at,
         {i \in DOMAIN header : header[i] = name} = {at},
         NEW j, j = Arr(<<Row(header), Row(row)>>)
  PROVE  LET Cell(i) == IF i <= Len(j.items[2].items) THEN j.items[2].items[i].text ELSE ""
             Value(n) == IF ColumnsOf(j, n) = {} THEN ""
                         ELSE Cell(CHOOSE i \in ColumnsOf(j, n) : TRUE)
         IN  Value(name) = IF at <= Len(row) THEN row[at] ELSE ""
<1> DEFINE heads == [i \in DOMAIN header |-> Str(header[i])]
           cells == [i \in DOMAIN row |-> Str(row[i])]
<1>1. j.items = <<Row(header), Row(row)>>
  BY JsonIs
<1>2. j.items[1] = Row(header) /\ j.items[2] = Row(row)
  BY ONLY <1>1
<1>3. Row(header).items = heads /\ Row(row).items = cells
  BY JsonIs DEF Row
<1>4. j.items[1].items = heads /\ j.items[2].items = cells
  BY ONLY <1>2, <1>3
<1>5. DOMAIN heads = DOMAIN header /\ \A i \in DOMAIN header : heads[i].text = header[i]
  BY JsonIs
<1>6. Len(cells) = Len(row) /\ \A i \in DOMAIN row : cells[i].text = row[i]
  <2>1. cells \in Seq({Str(row[i]) : i \in DOMAIN row}) /\ Len(cells) = Len(row)
    BY SMTT(30)
  <2> QED
    BY <2>1, JsonIs
<1> HIDE DEF heads, cells
<1>7. ColumnsOf(j, name) = {i \in DOMAIN header : header[i] = name}
  BY ONLY <1>4, <1>5 DEF ColumnsOf
<1>8. ColumnsOf(j, name) = {at}
  BY <1>7
<1>9. at \in DOMAIN header
  OBVIOUS
<1>10. (CHOOSE i \in ColumnsOf(j, name) : TRUE) = at
  BY ONLY <1>8
<1>11. at \in Nat \ {0}
  BY <1>9
<1>12. (IF at <= Len(cells) THEN cells[at].text ELSE "") = IF at <= Len(row) THEN row[at] ELSE ""
  <2>1. at <= Len(row) => at \in DOMAIN row
    BY <1>11
  <2> QED
    BY ONLY <1>6, <2>1
<1>13. ColumnsOf(j, name) # {}
  BY ONLY <1>8
<1> QED
  BY ONLY <1>4, <1>10, <1>12, <1>13

\* An entry of the header and a row that has a cell for every column it needs.
LEMMA EntryOfRow ==
  ASSUME NEW S, NEW header \in Seq(S), NEW row \in Seq(S), NEW id, NEW path, NEW message,
         {i \in DOMAIN header : header[i] = "Id"} = {id},
         {i \in DOMAIN header : header[i] = "Path"} = {path},
         {i \in DOMAIN header : header[i] = "ErrorMessage"} = {message}
  PROVE  UnmarshalEntry(Arr(<<Row(header), Row(row)>>)) =
           Decoded(<<IF id <= Len(row) THEN row[id] ELSE "",
                     IF path <= Len(row) THEN row[path] ELSE "",
                     IF message <= Len(row) THEN row[message] ELSE "">>)
<1> DEFINE j == Arr(<<Row(header), Row(row)>>)
           Cell(i) == IF i <= Len(j.items[2].items) THEN j.items[2].items[i].text ELSE ""
           Value(n) == IF ColumnsOf(j, n) = {} THEN ""
                       ELSE Cell(CHOOSE i \in ColumnsOf(j, n) : TRUE)
<1>1. Value("Id") = IF id <= Len(row) THEN row[id] ELSE ""
  BY CellIs, ZenonT(30)
<1>2. Value("Path") = IF path <= Len(row) THEN row[path] ELSE ""
  BY CellIs, ZenonT(30)
<1>3. Value("ErrorMessage") = IF message <= Len(row) THEN row[message] ELSE ""
  BY CellIs, ZenonT(30)
<1>4. UnmarshalEntry(j) = Decoded(<<Value("Id"), Value("Path"), Value("ErrorMessage")>>)
  BY DEF UnmarshalEntry
<1> HIDE DEF Value
<1>5. <<Value("Id"), Value("Path"), Value("ErrorMessage")>> =
        <<IF id <= Len(row) THEN row[id] ELSE "",
          IF path <= Len(row) THEN row[path] ELSE "",
          IF message <= Len(row) THEN row[message] ELSE "">>
  BY ONLY <1>1, <1>2, <1>3
<1> QED
  BY ONLY <1>4, <1>5

\* Whatever the order of the columns, and if the row ends before an empty message.
LEMMA EntryRead ==
  ASSUME NEW S, NEW t1 \in S, NEW t2 \in S, NEW t3 \in S,
         NEW j \in AuditLog(<<t1, t2, t3>>)
  PROVE  j.shape = "array" /\ UnmarshalEntry(j) = Decoded(<<t1, t2, t3>>)
<1> DEFINE T == S \cup {"Id", "Other", "Path", "ErrorMessage", "x"}
           header == <<"Id", "Other", "Path", "ErrorMessage">>
           row == <<t1, "x", t2, t3>>
           cut == <<t1, "x", t2>>
           headerBack == <<"ErrorMessage", "Path", "Other", "Id">>
           rowBack == <<t3, t2, "x", t1>>
<1>1. header \in Seq(T) /\ headerBack \in Seq(T)
  OBVIOUS
<1>2. row \in Seq(T) /\ cut \in Seq(T) /\ rowBack \in Seq(T)
  OBVIOUS
<1>3. /\ {i \in DOMAIN header : header[i] = "Id"} = {1}
      /\ {i \in DOMAIN header : header[i] = "Path"} = {3}
      /\ {i \in DOMAIN header : header[i] = "ErrorMessage"} = {4}
  OBVIOUS
<1>4. /\ {i \in DOMAIN headerBack : headerBack[i] = "Id"} = {4}
      /\ {i \in DOMAIN headerBack : headerBack[i] = "Path"} = {2}
      /\ {i \in DOMAIN headerBack : headerBack[i] = "ErrorMessage"} = {1}
  OBVIOUS
<1>5. Reverse(header) = headerBack
  BY DEF Reverse
<1>6. Reverse(row) = rowBack
  BY DEF Reverse
<1>7. SubSeq(row, 1, 3) = cut
  <2>1. SubSeq(row, 1, 3) = [i \in 1..3 |-> row[i]]
    OBVIOUS
  <2>2. cut = [i \in 1..3 |-> cut[i]]
    OBVIOUS
  <2>3. cut[1] = row[1] /\ cut[2] = row[2] /\ cut[3] = row[3]
    OBVIOUS
  <2> HIDE DEF T, row, cut
  <2>4. \A i \in 1..3 : cut[i] = row[i]
    BY ONLY <2>3
  <2> QED
    BY ONLY <2>1, <2>2, <2>4
<1>8. \/ j = Arr(<<Row(header), Row(row)>>)
      \/ t3 = "" /\ j = Arr(<<Row(header), Row(cut)>>)
      \/ j = Arr(<<Row(headerBack), Row(rowBack)>>)
  BY <1>5, <1>6, <1>7 DEF AuditLog, Row
<1>9. /\ Len(row) = 4 /\ row[1] = t1 /\ row[3] = t2 /\ row[4] = t3
      /\ Len(cut) = 3 /\ cut[1] = t1 /\ cut[3] = t2
      /\ Len(rowBack) = 4 /\ rowBack[4] = t1 /\ rowBack[2] = t2 /\ rowBack[1] = t3
  OBVIOUS
<1> HIDE DEF T, header, row, cut, headerBack, rowBack
<1>10. j.shape = "array"
  <2>1. \A items : Arr(items).shape = "array"
    BY JsonIs
  <2> QED
    BY ONLY <1>8, <2>1
<1>11. CASE j = Arr(<<Row(header), Row(row)>>)
  <2>1. UnmarshalEntry(j) = Decoded(<<IF 1 <= Len(row) THEN row[1] ELSE "",
                                      IF 3 <= Len(row) THEN row[3] ELSE "",
                                      IF 4 <= Len(row) THEN row[4] ELSE "">>)
    <3>1. PICK id, path, message : id = 1 /\ path = 3 /\ message = 4
      OBVIOUS
    <3>2. /\ {i \in DOMAIN header : header[i] = "Id"} = {id}
          /\ {i \in DOMAIN header : header[i] = "Path"} = {path}
          /\ {i \in DOMAIN header : header[i] = "ErrorMessage"} = {message}
      BY ONLY <1>3, <3>1
    <3>3. UnmarshalEntry(j) = Decoded(<<IF id <= Len(row) THEN row[id] ELSE "",
                                        IF path <= Len(row) THEN row[path] ELSE "",
                                        IF message <= Len(row) THEN row[message] ELSE "">>)
      BY ONLY <1>1, <1>2, <1>11, <3>2, EntryOfRow
    <3> QED
      BY ONLY <3>1, <3>3
  <2> QED
    BY ONLY <1>9, <1>10, <2>1
<1>12. CASE t3 = "" /\ j = Arr(<<Row(header), Row(cut)>>)
  <2>1. UnmarshalEntry(j) = Decoded(<<IF 1 <= Len(cut) THEN cut[1] ELSE "",
                                      IF 3 <= Len(cut) THEN cut[3] ELSE "",
                                      IF 4 <= Len(cut) THEN cut[4] ELSE "">>)
    <3>1. PICK id, path, message : id = 1 /\ path = 3 /\ message = 4
      OBVIOUS
    <3>2. /\ {i \in DOMAIN header : header[i] = "Id"} = {id}
          /\ {i \in DOMAIN header : header[i] = "Path"} = {path}
          /\ {i \in DOMAIN header : header[i] = "ErrorMessage"} = {message}
      BY ONLY <1>3, <3>1
    <3>3. UnmarshalEntry(j) = Decoded(<<IF id <= Len(cut) THEN cut[id] ELSE "",
                                        IF path <= Len(cut) THEN cut[path] ELSE "",
                                        IF message <= Len(cut) THEN cut[message] ELSE "">>)
      BY ONLY <1>1, <1>2, <1>12, <3>2, EntryOfRow
    <3> QED
      BY ONLY <3>1, <3>3
  <2> QED
    <3>1. /\ (IF 1 <= Len(cut) THEN cut[1] ELSE "") = t1
          /\ (IF 3 <= Len(cut) THEN cut[3] ELSE "") = t2
      BY ONLY <1>9
    <3>2. (IF 4 <= Len(cut) THEN cut[4] ELSE "") = t3
      <4>1. ~(4 <= Len(cut))
        BY ONLY <1>9
      <4> QED
        BY ONLY <1>12, <4>1
    <3> QED
      BY ONLY <1>10, <2>1, <3>1, <3>2
<1>13. CASE j = Arr(<<Row(headerBack), Row(rowBack)>>)
  <2>1. UnmarshalEntry(j) = Decoded(<<IF 4 <= Len(rowBack) THEN rowBack[4] ELSE "",
                                      IF 2 <= Len(rowBack) THEN rowBack[2] ELSE "",
                                      IF 1 <= Len(rowBack) THEN rowBack[1] ELSE "">>)
    BY ONLY <1>1, <1>2, <1>4, <1>13, EntryOfRow, ZenonT(30)
  <2> QED
    BY ONLY <1>9, <1>10, <2>1
<1> QED
  BY <1>8, <1>11, <1>12, <1>13

-----------------------------------------------------------------------------
(* A document that is read is the one there is. *)

\* Documents and shapes go by the type.
LEMMA SameType ==
  ASSUME type' = type
  PROVE  /\ Docs' = Docs
         /\ \A d : Shapes(d)' = Shapes(d)
<1>1. Docs' = Docs
  BY type' = type DEF Docs
<1>2. ASSUME NEW d
      PROVE Shapes(d)' = Shapes(d)
  BY type' = type DEF Shapes
<1> QED BY <1>1, <1>2

\* The documents of each type.
LEMMA DocsAre ==
  /\ type \in {"versions", "keywords", "filters", "list", "layerStyles", "providers"} =>
       Docs = BoundedSeq(Texts, MaxLength)
  /\ type = "published" => Docs = BoundedSeq(Texts, MaxLength) \ {<<>>}
  /\ type = "styles" => Docs = BoundedSeq(Unset, MaxLength) \ {<<>>}
  /\ type = "crs" => Docs = {"", "string", "projected"} \X Texts
  /\ type \in {"optional", "quota"} => Docs = {<<t>> : t \in Unset}
  /\ type = "provider" => Docs = Texts \X (Texts \cup {"C"}) \X Unset
  /\ type = "filter" => Docs = (Texts \X (Texts \cup {"C"}) \X Unset) \cup {<<>>}
  /\ type = "task" => Docs = [1..5 -> Texts]
  /\ type = "entry" => Docs = Texts \X Texts \X Unset
  /\ type \in {"envelope", "namespace", "text"} => Docs = {<<t>> : t \in Texts}
<1>1. type \in {"versions", "keywords", "filters", "list", "layerStyles", "providers"} =>
        Docs = BoundedSeq(Texts, MaxLength)
  BY DEF Docs
<1>2. type = "published" => Docs = BoundedSeq(Texts, MaxLength) \ {<<>>}
  BY DEF Docs
<1>3. type = "styles" => Docs = BoundedSeq(Unset, MaxLength) \ {<<>>}
  BY DEF Docs
<1>4. type = "crs" => Docs = {"", "string", "projected"} \X Texts
  BY DEF Docs
<1>5. type \in {"optional", "quota"} => Docs = {<<t>> : t \in Unset}
  BY DEF Docs
<1>6. type = "provider" => Docs = Texts \X (Texts \cup {"C"}) \X Unset
  BY DEF Docs
<1>7. type = "filter" => Docs = (Texts \X (Texts \cup {"C"}) \X Unset) \cup {<<>>}
  BY DEF Docs
<1>8. type = "task" => Docs = [1..5 -> Texts]
  BY DEF Docs
<1>9. type = "entry" => Docs = Texts \X Texts \X Unset
  BY DEF Docs
<1>10. type \in {"envelope", "namespace", "text"} => Docs = {<<t>> : t \in Texts}
  BY DEF Docs
<1> QED
  BY <1>1, <1>2, <1>3, <1>4, <1>5, <1>6, <1>7, <1>8, <1>9, <1>10

\* What Get makes of a body of the server.
Gives(j, d) ==
  /\ j.shape \in JsonShapes
  /\ \/ Unmarshal(type, j) = Decoded(d)
     \/ type = "styles" /\ Unmarshal(type, j) = Decoded(<<>>) /\ ToSet(d) = {""}
     \/ type = "layerStyles" /\ Unmarshal(type, j) = DecodeError /\ d = <<>>

\* A list of texts.
LEMMA ListTyped ==
  ASSUME NEW d \in Docs
  PROVE  /\ type \in {"versions", "keywords", "filters", "list", "providers", "published", "layerStyles"}
              => d \in Seq(Texts) /\ Len(d) <= MaxLength
         /\ type = "styles" => d \in Seq(Unset) /\ Len(d) <= MaxLength
         /\ type \in {"styles", "published"} => d # <<>>
<1>1. MaxLength \in Nat
  BY RoundTripAssumption
<1>2. d \in BoundedSeq(Texts, MaxLength) => d \in Seq(Texts) /\ Len(d) <= MaxLength
  BY <1>1, BoundedSeqIs
<1>3. d \in BoundedSeq(Unset, MaxLength) => d \in Seq(Unset) /\ Len(d) <= MaxLength
  BY <1>1, BoundedSeqIs
<1> QED
  BY <1>2, <1>3, DocsAre

\* Get of a list.
LEMMA ListsServed ==
  ASSUME type \in {"versions", "keywords", "filters", "list", "providers", "published",
                   "layerStyles", "styles"},
         NEW d \in Docs, NEW j \in Shapes(d)
  PROVE  Gives(j, d)
<1>1. "" \notin Texts
  BY RoundTripAssumption
<1>2. CASE type = "versions"
  <2>1. d \in Seq(Texts)
    BY <1>2, ListTyped
  <2>2. j \in IF d = <<>> THEN {Null, Obj(NoFields)}
              ELSE {Obj(One(VersionsKey, list)) :
                      list \in Collapsed([i \in DOMAIN d |-> EntryOf(d[i])])}
    BY <1>2 DEF Shapes, Keyed, Entries
  <2>3. UnmarshalVersions(j) = Decoded(d) /\ j.shape \in JsonShapes
    BY ONLY <1>1, <2>1, <2>2, VersionsRead
  <2> QED
    BY ONLY <1>2, <2>3 DEF Gives, Unmarshal
<1>3. CASE type = "keywords"
  <2>1. d \in Seq(Texts)
    BY <1>3, ListTyped
  <2>2. j \in IF d = <<>> THEN {Null, Obj(NoFields)}
              ELSE {Obj(One("string", list)) :
                      list \in Collapsed([i \in DOMAIN d |-> Str(d[i])])}
    BY <1>3 DEF Shapes, Keyed, Entries
  <2>3. UnmarshalKeywords(j) = Decoded(d) /\ j.shape \in JsonShapes
    BY ONLY <1>1, <2>1, <2>2, KeywordsRead
  <2> QED
    BY ONLY <1>3, <2>3 DEF Gives, Unmarshal
<1>4. CASE type = "filters"
  <2>1. d \in Seq(Texts)
    BY <1>4, ListTyped
  <2>2. j \in (IF d = <<>> THEN {Null} ELSE Collapsed([i \in DOMAIN d |-> Str(d[i])]))
    BY <1>4 DEF Shapes, Entries
  <2>3. UnmarshalFilter(j) = Decoded(d) /\ j.shape \in JsonShapes
    BY ONLY <2>1, <2>2, FiltersRead
  <2> QED
    BY ONLY <1>4, <2>3 DEF Gives, Unmarshal
<1>5. CASE type \in {"list", "layerStyles"}
  <2>1. d \in Seq(Texts)
    BY <1>5, ListTyped
  <2>2. j \in IF d = <<>> THEN {Str("")} ELSE {Obj(One("list", Arr([i \in DOMAIN d |-> NameOf(d[i])])))}
    BY <1>5 DEF Shapes, Entries
  <2>3. CASE d = <<>>
    <3>1. j.shape = "string"
      <4>1. Str("").shape = "string"
        BY JsonIs
      <4> QED
        BY ONLY <2>2, <2>3, <4>1
    <3>2. UnmarshalList(j) = Decoded(d) /\ UnmarshalListStyles(j) = DecodeError
      BY ONLY <2>3, <3>1 DEF UnmarshalList, UnmarshalListStyles
    <3>3. Gives(j, <<>>)
      BY ONLY <1>5, <2>3, <3>1, <3>2 DEF Gives, Unmarshal, JsonShapes
    <3> QED
      BY ONLY <2>3, <3>3
  <2>4. CASE d # <<>>
    <3>1. j = Obj(One("list", Arr([i \in DOMAIN d |-> NameOf(d[i])])))
      BY ONLY <2>2, <2>4
    <3>2. UnmarshalList(j) = Decoded(d) /\ UnmarshalListStyles(j) = Decoded(d) /\ j.shape = "object"
      BY ONLY <2>1, <3>1, ListRead
    <3> QED
      BY ONLY <1>5, <3>2 DEF Gives, Unmarshal, JsonShapes
  <2> QED
    BY <2>3, <2>4
<1>6. CASE type = "providers"
  <2>1. d \in Seq(Texts)
    BY <1>6, ListTyped
  <2>2. \/ j = Arr([i \in DOMAIN d |-> ProviderOf(d[i])])
        \/ Len(d) = 1 /\ \E key \in ClassKeys :
                          j = Obj(One(key, [i \in DOMAIN d |-> ProviderOf(d[i])][1]))
    BY <1>6 DEF Shapes, Entries
  <2>3. ListProviders(j) = Decoded(d) /\ j.shape \in JsonShapes
    BY ONLY <2>1, <2>2, ProvidersRead
  <2> QED
    BY ONLY <1>6, <2>3 DEF Gives, Unmarshal
<1>7. CASE type = "published"
  <2>1. d \in Seq(Texts)
    BY <1>7, ListTyped
  <2>2. j \in Collapsed([i \in DOMAIN d |-> NameOf(d[i])])
    BY <1>7 DEF Shapes, Entries
  <2>3. UnmarshalPublished(j) = Decoded(d) /\ j.shape \in JsonShapes
    BY ONLY <1>1, <2>1, <2>2, PublishedRead
  <2> QED
    BY ONLY <1>7, <2>3 DEF Gives, Unmarshal
<1>8. CASE type = "styles"
  <2>1. d \in Seq(Unset)
    BY <1>8, ListTyped
  <2>2. \/ \E list \in Collapsed([i \in DOMAIN d |-> StyleOf(d[i])]) : j = Obj(One("style", list))
        \/ j = Str("") /\ ToSet(d) = {""}
    BY <1>8 DEF Shapes, Entries
  <2>3. CASE \E list \in Collapsed([i \in DOMAIN d |-> StyleOf(d[i])]) : j = Obj(One("style", list))
    <3>1. PICK list : list \in Collapsed([i \in DOMAIN d |-> StyleOf(d[i])]) /\ j = Obj(One("style", list))
      BY <2>3
    <3>2. UnmarshalStyles(j) = Decoded(d)
      BY ONLY <2>1, <3>1, StylesRead
    <3>3. j.shape = "object"
      BY <3>1, ObjectOfOne
    <3> QED
      BY ONLY <1>8, <3>2, <3>3 DEF Gives, Unmarshal, JsonShapes
  <2>4. CASE j = Str("") /\ ToSet(d) = {""}
    <3>1. j.shape = "string"
      <4>1. Str("").shape = "string"
        BY JsonIs
      <4> QED
        BY ONLY <2>4, <4>1
    <3>2. UnmarshalStyles(j) = Decoded(<<>>)
      BY ONLY <3>1 DEF UnmarshalStyles
    <3> QED
      BY ONLY <1>8, <2>4, <3>1, <3>2 DEF Gives, Unmarshal, JsonShapes
  <2> QED
    BY <2>2, <2>3, <2>4
<1> QED
  BY <1>2, <1>3, <1>4, <1>5, <1>6, <1>7, <1>8

\* The fields of an object.
LEMMA ObjectsServed ==
  ASSUME type \in {"crs", "optional", "envelope", "provider", "filter", "namespace", "text",
                   "task", "quota", "entry"},
         NEW d \in Docs, NEW j \in Shapes(d)
  PROVE  Gives(j, d)
<1>1. "" \notin Texts
  BY RoundTripAssumption
<1>2. CASE type = "crs"
  <2>0. d \in {"", "string", "projected"} \X Texts
    BY <1>2, DocsAre
  <2>1. PICK class, crs : d = <<class, crs>> /\ crs \in Texts
    <3>1. PICK classes : classes = {"", "string", "projected"}
      OBVIOUS
    <3>2. d \in classes \X Texts
      BY <2>0, <3>1
    <3>3. d = <<d[1], d[2]>> /\ d[2] \in Texts
      BY ONLY <3>2
    <3> QED
      BY ONLY <3>3
  <2>2. d[1] = class /\ d[2] = crs /\ crs # ""
    BY <1>1, <2>1
  <2>3. j = IF class = "string" THEN Str(crs)
            ELSE Obj(Both(Omitted("@class", class), One("$", Str(crs))))
    BY <1>2, <2>2 DEF Shapes
  <2>4. CASE class = "string"
    <3>1. j.shape = "string" /\ j.text = crs
      <4>1. Str(crs).shape = "string" /\ Str(crs).text = crs
        BY JsonIs
      <4> QED
        BY ONLY <2>3, <2>4, <4>1
    <3>2. UnmarshalCRS(j) = Decoded(<<"string", crs>>)
      BY ONLY <3>1 DEF UnmarshalCRS
    <3>3. UnmarshalCRS(j) = Decoded(d)
      BY ONLY <2>1, <2>4, <3>2
    <3> QED
      BY ONLY <1>2, <3>1, <3>3 DEF Gives, Unmarshal, JsonShapes
  <2>5. CASE class # "string"
    <3>1. j = Obj(Both(Omitted("@class", class), One("$", Str(crs))))
      BY ONLY <2>3, <2>5
    <3>2. j.shape = "object" /\ UnmarshalCRS(j) = Decoded(<<class, crs>>)
      BY ONLY <2>2, <3>1, CRSRead
    <3>3. UnmarshalCRS(j) = Decoded(d)
      BY ONLY <2>1, <3>2
    <3> QED
      BY ONLY <1>2, <3>2, <3>3 DEF Gives, Unmarshal, JsonShapes
  <2> QED
    BY <2>4, <2>5
<1>3. CASE type = "optional"
  <2>1. PICK text : d = <<text>>
    BY <1>3, DocsAre
  <2>2. d[1] = text /\ (d = <<"">> <=> text = "")
    BY <2>1
  <2>3. IF text = "" THEN j = Str("") \/ j = Null ELSE j = Obj(One("content", Str(text)))
    BY <1>3, <2>2 DEF Shapes
  <2>4. UnmarshalOptional(j) = Decoded(<<text>>)
    BY ONLY <2>3, OptionalRead
  <2>5. j.shape \in {"string", "null", "object"}
    <3>1. Str("").shape = "string" /\ Null.shape = "null"
      BY JsonIs
    <3>2. Obj(One("content", Str(text))).shape = "object"
      BY ObjectOfOne
    <3> QED
      BY ONLY <2>3, <3>1, <3>2
  <2> QED
    BY ONLY <1>3, <2>1, <2>4, <2>5 DEF Gives, Unmarshal, JsonShapes
<1>4. CASE type = "envelope"
  <2>1. PICK text : d = <<text>> /\ text \in Texts
    BY <1>4, DocsAre
  <2>2. d[1] = text /\ text # ""
    BY <1>1, <2>1
  <2>3. j = NameOf(text) \/ j = Obj(One("global", NameOf(text)))
    BY <1>4, <2>2 DEF Shapes
  <2>4. j.shape = "object" /\ UnmarshalEnvelope(j, "global") = Decoded(<<text>>)
    BY ONLY <2>2, <2>3, EnvelopeRead
  <2> QED
    BY ONLY <1>4, <2>1, <2>4 DEF Gives, Unmarshal, JsonShapes
<1>5. CASE type \in {"provider", "filter"} /\ d # <<>>
  <2>0. d \in Texts \X (Texts \cup {"C"}) \X Unset
    BY <1>5, DocsAre
  <2>1. PICK t1, t2, t3 : d = <<t1, t2, t3>> /\ t1 \in Texts
    BY ONLY <2>0
  <2>2. t1 # ""
    BY <1>1, <2>1
  <2>3. j = Flat(d) \/ \E key \in ClassKeys : j = Obj(One(key, Flat(d)))
    BY <1>5 DEF Shapes
  <2>4. \/ j = Flat(<<t1, t2, t3>>)
        \/ \E key \in ClassKeys : j = Obj(One(key, Flat(<<t1, t2, t3>>)))
    BY ONLY <2>1, <2>3
  <2>5. j.shape = "object" /\ UnmarshalProvider(j) = Decoded(<<t1, t2, t3>>)
    BY ONLY <2>4, ProviderRead
  <2>6. GetFilter(j) = Decoded(<<t1, t2, t3>>)
    BY ONLY <2>2, <2>5, FilterRead
  <2>7. UnmarshalProvider(j) = Decoded(d) /\ GetFilter(j) = Decoded(d)
    BY ONLY <2>1, <2>5, <2>6
  <2> QED
    BY ONLY <1>5, <2>5, <2>7 DEF Gives, Unmarshal, JsonShapes
<1>6. CASE type \in {"provider", "filter"} /\ d = <<>>
  <2>1. type = "filter"
    <3>1. <<>> \notin Texts \X (Texts \cup {"C"}) \X Unset
      OBVIOUS
    <3>2. type = "provider" => d \in Texts \X (Texts \cup {"C"}) \X Unset
      BY DocsAre
    <3> QED
      BY ONLY <1>6, <3>1, <3>2
  <2>2. j = Obj(One("null", Str("")))
    BY <1>6 DEF Shapes
  <2>3. j.shape = "object" /\ GetFilter(j) = Decoded(<<>>)
    BY ONLY <2>2, FilterRead
  <2> QED
    BY ONLY <1>6, <2>1, <2>3 DEF Gives, Unmarshal, JsonShapes
<1>7. CASE type = "namespace"
  <2>1. PICK text : d = <<text>> /\ text \in Texts
    BY <1>7, DocsAre
  <2>2. d[1] = text /\ text # ""
    BY <1>1, <2>1
  <2>3. j = Obj(One("prefix", Str(text))) \/ j = NameOf(text)
    BY <1>7, <2>2 DEF Shapes
  <2>4. j.shape = "object" /\ UnmarshalNamespace(j) = Decoded(<<text>>)
    BY ONLY <2>2, <2>3, NamespaceRead
  <2> QED
    BY ONLY <1>7, <2>1, <2>4 DEF Gives, Unmarshal, JsonShapes
<1>8. CASE type = "text"
  <2>1. PICK text : d = <<text>>
    BY <1>8, DocsAre
  <2>2. d[1] = text
    BY <2>1
  <2>3. j \in TextOf(text)
    BY <1>8, <2>2 DEF Shapes
  <2>4. j.shape \in JsonShapes /\ UnmarshalText(j) = Decoded(<<text>>)
    BY ONLY <2>3, TextRead
  <2> QED
    BY ONLY <1>8, <2>1, <2>4 DEF Gives, Unmarshal
<1>9. CASE type = "task"
  <2>1. d \in [1..5 -> Texts]
    BY <1>9, DocsAre
  <2>2. j = Arr([i \in 1..5 |-> Num(d[i])])
    BY <1>9 DEF Shapes
  <2>3. j.shape = "array" /\ UnmarshalTask(j) = Decoded(d)
    BY ONLY <2>1, <2>2, TaskRead
  <2> QED
    BY ONLY <1>9, <2>3 DEF Gives, Unmarshal, JsonShapes
<1>10. CASE type = "quota"
  <2>1. PICK text : d = <<text>>
    BY <1>10, DocsAre
  <2>2. d[1] = text
    BY <2>1
  <2>3. j = Obj(One("DiskQuotaConfig",
                    Obj(IF text = "" THEN NoFields
                        ELSE One("globalQuota", Obj(One("bytes", Num(text)))))))
    BY <1>10, <2>2 DEF Shapes
  <2>4. j.shape = "object" /\ UnmarshalQuota(j) = Decoded(<<text>>)
    BY ONLY <2>3, QuotaRead
  <2> QED
    BY ONLY <1>10, <2>1, <2>4 DEF Gives, Unmarshal, JsonShapes
<1>11. CASE type = "entry"
  <2>1. PICK t1, t2, t3 : d = <<t1, t2, t3>> /\ t1 \in Unset /\ t2 \in Unset /\ t3 \in Unset
    <3>1. d \in Texts \X Texts \X Unset
      BY <1>11, DocsAre
    <3>2. d = <<d[1], d[2], d[3]>> /\ d[1] \in Texts /\ d[2] \in Texts /\ d[3] \in Unset
      BY ONLY <3>1
    <3>3. d[1] \in Unset /\ d[2] \in Unset
      BY <3>2 DEF Unset
    <3> QED
      BY ONLY <3>2, <3>3
  <2>2. j \in AuditLog(d)
    BY <1>11 DEF Shapes
  <2>3. j \in AuditLog(<<t1, t2, t3>>)
    BY ONLY <2>1, <2>2
  <2>4. j.shape = "array" /\ UnmarshalEntry(j) = Decoded(<<t1, t2, t3>>)
    BY ONLY <2>1, <2>3, EntryRead
  <2> QED
    BY ONLY <1>11, <2>1, <2>4 DEF Gives, Unmarshal, JsonShapes
<1> QED
  BY <1>2, <1>3, <1>4, <1>5, <1>6, <1>7, <1>8, <1>9, <1>10, <1>11

\* Whatever shape the server chose, Get returns the document.
LEMMA ServedRead ==
  ASSUME type \in Types, NEW d \in Docs, NEW j \in Shapes(d)
  PROVE  Gives(j, d)
<1>1. type \in Writable \cup ReadOnly
  BY RoundTripAssumption
<1>2. \/ type \in {"versions", "keywords", "filters", "list", "providers", "published",
                  "layerStyles", "styles"}
      \/ type \in {"crs", "optional", "envelope", "provider", "filter", "namespace", "text",
                  "task", "quota", "entry"}
  BY <1>1 DEF Writable, ReadOnly, Lists
<1> QED
  BY <1>2, ListsServed, ObjectsServed

-----------------------------------------------------------------------------
(* What the server reads. *)

\* The text of a field, set or left out.
LEMMA TextIs ==
  /\ Null.text = ""
  /\ \A key, text : TextAt(Obj(One(key, Str(text))), key) = text
  /\ \A key, text : TextAt(Obj(One(key, Num(text))), key) = text
  /\ \A key, text : TextAt(Obj(Omitted(key, text)), key) = text
<1>1. Null.text = "" /\ \A text : Str(text).text = text /\ Num(text).text = text
  BY JsonIs
<1>2. ASSUME NEW key, NEW j
      PROVE  TextAt(Obj(One(key, j)), key) = j.text
  BY ObjectOfOne DEF TextAt
<1>3. ASSUME NEW key, NEW text
      PROVE  TextAt(Obj(Omitted(key, text)), key) = text
  BY <1>1, OmittedIs, ZenonT(30) DEF TextAt
<1>4. ASSUME NEW key, NEW text
      PROVE  /\ TextAt(Obj(One(key, Str(text))), key) = text
             /\ TextAt(Obj(One(key, Num(text))), key) = text
  BY <1>1, <1>2
<1> QED
  BY <1>1, <1>3, <1>4

\* The elements of a list, as objects with a name or as strings.
LEMMA ElementTextsOf ==
  ASSUME NEW S, NEW d \in Seq(S), NEW items, items = [i \in DOMAIN d |-> items[i]], NEW key,
         \A i \in DOMAIN d : \/ items[i].shape = "object" /\ TextAt(items[i], key) = d[i]
                             \/ items[i].shape # "object" /\ items[i].text = d[i]
  PROVE  ElementTexts(Arr(items), key) = d
<1>1. Arr(items).items = items
  BY JsonIs
<1>2. ElementTexts(Arr(items), key) =
        [i \in DOMAIN items |-> IF items[i].shape = "object" THEN TextAt(items[i], key)
                                ELSE items[i].text]
  BY ONLY <1>1 DEF ElementTexts
<1>3. \A i \in DOMAIN d : (IF items[i].shape = "object" THEN TextAt(items[i], key)
                           ELSE items[i].text) = d[i]
  OBVIOUS
<1>4. DOMAIN items = DOMAIN d
  OBVIOUS
<1>5. [i \in DOMAIN items |-> IF items[i].shape = "object" THEN TextAt(items[i], key)
                              ELSE items[i].text] = [i \in DOMAIN d |-> d[i]]
  BY ONLY <1>3, <1>4
<1>6. [i \in DOMAIN d |-> d[i]] = d
  OBVIOUS
<1> QED
  BY ONLY <1>2, <1>5, <1>6

\* Versions.
LEMMA EntryTexts ==
  ASSUME NEW S, NEW d \in Seq(S)
  PROVE  ElementTexts(Arr([i \in DOMAIN d |-> EntryOf(d[i])]), "version") = d
<1> DEFINE items == [i \in DOMAIN d |-> EntryOf(d[i])]
<1>1. \A i \in DOMAIN d : items[i].shape = "object" /\ TextAt(items[i], "version") = d[i]
  BY TextIs, ObjectOfOne DEF EntryOf
<1>2. items = [i \in DOMAIN d |-> items[i]]
  OBVIOUS
<1> HIDE DEF items
<1>3. ElementTexts(Arr(items), "version") = d
  BY <1>1, <1>2, ElementTextsOf
<1> QED
  BY <1>3 DEF items

\* Names, "" for one that is left out.
LEMMA NameTexts ==
  ASSUME NEW S, NEW d \in Seq(S)
  PROVE  ElementTexts(Arr([i \in DOMAIN d |-> NameOf(d[i])]), "name") = d
<1> DEFINE items == [i \in DOMAIN d |-> NameOf(d[i])]
<1>0. \A text : NameOf(text).shape = "object" /\ TextAt(NameOf(text), "name") = text
  BY TextIs, JsonIs, ZenonT(30) DEF NameOf
<1>1. \A i \in DOMAIN d : items[i].shape = "object" /\ TextAt(items[i], "name") = d[i]
  BY ONLY <1>0
<1>2. items = [i \in DOMAIN d |-> items[i]]
  OBVIOUS
<1> HIDE DEF items
<1>3. ElementTexts(Arr(items), "name") = d
  BY <1>1, <1>2, ElementTextsOf
<1> QED
  BY <1>3 DEF items

\* Strings.
LEMMA StringTexts ==
  ASSUME NEW S, NEW d \in Seq(S)
  PROVE  ElementTexts(Arr([i \in DOMAIN d |-> Str(d[i])]), "name") = d
<1> DEFINE items == [i \in DOMAIN d |-> Str(d[i])]
<1>1. \A i \in DOMAIN d : items[i].shape # "object" /\ items[i].text = d[i]
  BY JsonIs
<1>2. items = [i \in DOMAIN d |-> items[i]]
  OBVIOUS
<1> HIDE DEF items
<1>3. ElementTexts(Arr(items), "name") = d
  BY <1>1, <1>2, ElementTextsOf
<1> QED
  BY <1>3 DEF items

\* A list in a body, and a body without one.
LEMMA ReadsList ==
  ASSUME type \in Lists, NEW j
  PROVE  Reads(j) = IF ListIn(j).shape # "array" THEN document
                    ELSE ElementTexts(ListIn(j), IF type = "versions" THEN "version" ELSE "name")
<1>1. type \notin {"crs", "optional", "envelope", "provider", "filter", "quota"}
  BY DEF Lists
<1>2. type \in Lists
  OBVIOUS
<1> QED
  BY ONLY <1>1, <1>2 DEF Reads

\* Where the list is in a body of each type.
LEMMA ListInIs ==
  ASSUME NEW j
  PROVE  /\ type = "versions" => ListIn(j) = Field(j, VersionsKey)
         /\ type = "keywords" => ListIn(j) = Field(j, "string")
         /\ type = "styles" => ListIn(j) = Field(j, "style")
         /\ type \in {"filters", "published"} => ListIn(j) = j
<1>1. type = "versions" => ListIn(j) = Field(j, VersionsKey)
  BY DEF ListIn
<1>2. type = "keywords" => ListIn(j) = Field(j, "string")
  BY DEF ListIn
<1>3. type = "styles" => ListIn(j) = Field(j, "style")
  BY DEF ListIn
<1>4. type \in {"filters", "published"} => ListIn(j) = j
  BY DEF ListIn
<1> QED
  BY <1>1, <1>2, <1>3, <1>4

\* A list that is empty is left out of the body.
LEMMA EmptyListWritten ==
  ASSUME type \in Lists
  PROVE  LET j == Marshal(type, <<>>) IN j.shape \in JsonShapes /\ Reads(j) = document
<1> DEFINE j == Marshal(type, <<>>)
<1>1. Null.shape = "null"
  BY JsonIs
<1>2. CASE type \in {"versions", "keywords", "filters", "published"}
  <2>1. j = Null
    BY <1>2 DEF Marshal, MarshalVersions, MarshalKeywords, MarshalKeyed
  <2>2. ListIn(j) = Null
    BY <1>2, <2>1, ListInIs, FieldIs
  <2> HIDE DEF j
  <2>3. Reads(j) = document
    BY <1>1, <2>2, ReadsList
  <2> QED
    BY ONLY <1>1, <2>1, <2>3 DEF JsonShapes, j
<1>3. CASE type = "styles"
  <2>1. j = Obj(NoFields)
    BY <1>3 DEF Marshal, MarshalStyles
  <2>2. ListIn(j) = Null /\ j.shape = "object"
    <3>1. Obj(NoFields).shape = "object" /\ Field(Obj(NoFields), "style") = Null
      BY JsonIs, FieldIs
    <3>2. ListIn(j) = Field(j, "style")
      BY <1>3, ListInIs
    <3> QED
      BY ONLY <2>1, <3>1, <3>2
  <2> HIDE DEF j
  <2>3. Reads(j) = document
    BY <1>1, <2>2, ReadsList
  <2> QED
    BY ONLY <2>2, <2>3 DEF JsonShapes, j
<1> QED
  BY <1>2, <1>3 DEF Lists

\* Any other list is read as it was written.
LEMMA ListWritten ==
  ASSUME type \in Lists, NEW d \in Docs, d # <<>>
  PROVE  LET j == Marshal(type, d) IN j.shape \in JsonShapes /\ Reads(j) = d
<1> DEFINE j == Marshal(type, d)
<1>1. d \in Seq(Unset)
  <2>1. d \in Seq(Texts) \/ d \in Seq(Unset)
    BY ListTyped DEF Lists
  <2>2. Texts \subseteq Unset
    BY DEF Unset
  <2> QED
    BY ONLY <2>1, <2>2
<1>2. CASE type = "versions"
  <2> DEFINE list == Arr([i \in DOMAIN d |-> EntryOf(d[i])])
  <2>1. j = Obj(One(VersionsKey, list))
    BY <1>2 DEF Marshal, MarshalVersions, MarshalKeyed
  <2>2. list.shape = "array" /\ ElementTexts(list, "version") = d
    BY <1>1, JsonIs, EntryTexts
  <2> HIDE DEF list, j
  <2>3. j.shape = "object" /\ ListIn(j) = list
    BY <1>2, <2>1, ListInIs, ObjectOfOne
  <2>4. Reads(j) = d
    BY <1>2, <2>2, <2>3, ReadsList
  <2> QED
    BY ONLY <2>3, <2>4 DEF JsonShapes, j
<1>3. CASE type = "keywords"
  <2> DEFINE list == Arr([i \in DOMAIN d |-> Str(d[i])])
  <2>1. j = Obj(One("string", list))
    BY <1>3 DEF Marshal, MarshalKeywords, MarshalKeyed
  <2>2. list.shape = "array" /\ ElementTexts(list, "name") = d
    BY <1>1, JsonIs, StringTexts
  <2> HIDE DEF list, j
  <2>3. j.shape = "object" /\ ListIn(j) = list
    BY <1>3, <2>1, ListInIs, ObjectOfOne
  <2>4. Reads(j) = d
    BY <1>3, <2>2, <2>3, ReadsList
  <2> QED
    BY ONLY <2>3, <2>4 DEF JsonShapes, j
<1>4. CASE type = "styles"
  <2> DEFINE list == Arr([i \in DOMAIN d |-> NameOf(d[i])])
  <2>1. j = Obj(One("style", list))
    BY <1>4 DEF Marshal, MarshalStyles
  <2>2. list.shape = "array" /\ ElementTexts(list, "name") = d
    BY <1>1, JsonIs, NameTexts
  <2> HIDE DEF list, j
  <2>3. j.shape = "object" /\ ListIn(j) = list
    BY <1>4, <2>1, ListInIs, ObjectOfOne
  <2>4. Reads(j) = d
    BY <1>4, <2>2, <2>3, ReadsList
  <2> QED
    BY ONLY <2>3, <2>4 DEF JsonShapes, j
<1>5. CASE type = "filters"
  <2>1. j = Arr([i \in DOMAIN d |-> Str(d[i])])
    BY <1>5 DEF Marshal
  <2>2. j.shape = "array" /\ ElementTexts(j, "name") = d
    BY <1>1, <2>1, JsonIs, StringTexts, ZenonT(30)
  <2> HIDE DEF j
  <2>3. Reads(j) = d
    BY <1>5, <2>2, ListInIs, ReadsList
  <2> QED
    BY ONLY <2>2, <2>3 DEF JsonShapes, j
<1>6. CASE type = "published"
  <2>1. j = Arr([i \in DOMAIN d |-> NameOf(d[i])])
    BY <1>6 DEF Marshal
  <2>2. j.shape = "array" /\ ElementTexts(j, "name") = d
    BY <1>1, <2>1, JsonIs, NameTexts, ZenonT(30)
  <2> HIDE DEF j
  <2>3. Reads(j) = d
    BY <1>6, <2>2, ListInIs, ReadsList
  <2> QED
    BY ONLY <2>2, <2>3 DEF JsonShapes, j
<1> QED
  BY <1>2, <1>3, <1>4, <1>5, <1>6 DEF Lists

\* A CRS, of which the value is set.
LEMMA CRSWritten ==
  ASSUME NEW d, d[2] # "",
         NEW j, j = MarshalCRS(d)
  PROVE  \/ j.shape = "string" /\ d[1] = "string" /\ j.text = d[2]
         \/ j.shape = "object" /\ TextAt(j, "@class") = d[1] /\ TextAt(j, "$") = d[2]
<1> DEFINE c == Omitted("@class", d[1])
           v == Omitted("$", d[2])
<1>1. d # <<"", "">>
  <2>1. PICK none : none = <<"", "">>
    OBVIOUS
  <2>2. none[2] = ""
    BY ONLY <2>1
  <2>3. d[2] # ""
    OBVIOUS
  <2> QED
    BY ONLY <2>1, <2>2, <2>3
<1>2. j = IF d[1] = "string" THEN Str(d[2]) ELSE Obj(Both(c, v))
  BY <1>1 DEF MarshalCRS
<1>3. CASE d[1] = "string"
  <2>1. Str(d[2]).shape = "string" /\ Str(d[2]).text = d[2]
    BY JsonIs
  <2> QED
    BY ONLY <1>2, <1>3, <2>1
<1>4. CASE d[1] # "string"
  <2>1. j = Obj(Both(c, v))
    BY ONLY <1>2, <1>4
  <2>2. j.shape = "object"
    BY <2>1, JsonIs, ZenonT(30)
  <2>3. "@class" \notin DOMAIN v /\ "$" \notin DOMAIN c
    BY NotOmitted
  <2>4. Field(j, "$") = Field(Obj(v), "$")
    BY ONLY <2>1, <2>3, FieldBehind
  <2>5. Field(j, "@class").text = Field(Obj(c), "@class").text
    <3>1. CASE "@class" \in DOMAIN c
      BY ONLY <2>1, <3>1, FieldBefore
    <3>2. CASE "@class" \notin DOMAIN c
      <4>1. Field(j, "@class") = Field(Obj(v), "@class")
        BY ONLY <2>1, <3>2, FieldBehind
      <4>2. Field(Obj(v), "@class") = Null /\ Field(Obj(c), "@class") = Null
        BY <2>3, <3>2, FieldOf
      <4> QED
        BY ONLY <4>1, <4>2
    <3> QED
      BY ONLY <3>1, <3>2
  <2>6. TextAt(Obj(c), "@class") = d[1] /\ TextAt(Obj(v), "$") = d[2]
    BY TextIs
  <2> QED
    BY ONLY <2>2, <2>4, <2>5, <2>6 DEF TextAt
<1> QED
  BY ONLY <1>3, <1>4

\* A provider, with a name and a class, goes out flat.
LEMMA ProviderWritten ==
  ASSUME NEW d, d[1] # "", d[2] # "",
         NEW j, j = MarshalProvider(d)
  PROVE  /\ j.shape = "object" /\ TextAt(j, "name") = d[1]
         /\ TextAt(j, "className") = d[2] /\ TextAt(j, "extra") = d[3]
<1>1. Omitted("name", d[1]) = One("name", Str(d[1]))
  BY DEF Omitted
<1>2. Omitted("className", d[2]) = One("className", Str(d[2]))
  BY DEF Omitted
<1>3. j = Obj(Both(Omitted("name", d[1]), Both(Omitted("className", d[2]), Omitted("extra", d[3]))))
  BY DEF MarshalProvider
<1>4. Flat(d) =
        Obj(Both(One("name", Str(d[1])), Both(One("className", Str(d[2])), Omitted("extra", d[3]))))
  BY DEF Flat
<1>5. j = Flat(d)
  BY ONLY <1>1, <1>2, <1>3, <1>4
<1>6. /\ j.shape = "object" /\ Field(j, "name") = Str(d[1])
      /\ Field(j, "className") = Str(d[2])
      /\ Field(j, "extra") = IF d[3] = "" THEN Null ELSE Str(d[3])
  BY ONLY <1>5, FlatFields
<1>7. Null.text = "" /\ \A text : Str(text).text = text
  BY JsonIs
<1> QED
  BY ONLY <1>6, <1>7 DEF TextAt

\* A quota in bytes.
LEMMA QuotaWritten ==
  ASSUME NEW d, NEW j, j = MarshalQuota(d)
  PROVE  /\ j.shape = "object"
         /\ d[1] = "" => TextAt(Field(j, "globalQuota"), "units") = ""
         /\ d[1] # "" => /\ TextAt(Field(j, "globalQuota"), "units") = "B"
                         /\ TextAt(Field(j, "globalQuota"), "value") = d[1]
<1> DEFINE v == One("value", Num(d[1]))
           u == One("units", Str("B"))
<1>0. j = Obj(IF d[1] = "" THEN NoFields ELSE One("globalQuota", Obj(Both(v, u))))
  BY DEF MarshalQuota
<1>1. j.shape = "object"
  <2>1. PICK f : f = IF d[1] = "" THEN NoFields ELSE One("globalQuota", Obj(Both(v, u)))
    OBVIOUS
  <2>2. j = Obj(f)
    BY ONLY <1>0, <2>1
  <2> QED
    BY ONLY <2>2, JsonIs
<1>2. CASE d[1] = ""
  <2>1. j = Obj(NoFields)
    BY <1>0, <1>2
  <2>2. Field(Obj(NoFields), "globalQuota") = Null /\ Field(Null, "units") = Null /\ Null.text = ""
    BY FieldIs, JsonIs
  <2> QED
    BY ONLY <1>1, <1>2, <2>1, <2>2 DEF TextAt
<1>3. CASE d[1] # ""
  <2>1. j = Obj(One("globalQuota", Obj(Both(v, u))))
    BY <1>0, <1>3
  <2>2. Field(j, "globalQuota") = Obj(Both(v, u))
    BY ONLY <2>1, ObjectOfOne
  <2>3. "value" \in DOMAIN v /\ "units" \notin DOMAIN v
    <3>1. DOMAIN v = {"value"}
      BY FieldsAre
    <3> QED
      BY ONLY <3>1
  <2>4. Field(Obj(Both(v, u)), "value") = Field(Obj(v), "value")
    BY ONLY <2>3, FieldBefore
  <2>5. Field(Obj(Both(v, u)), "units") = Field(Obj(u), "units")
    BY ONLY <2>3, FieldBehind
  <2>6. TextAt(Obj(v), "value") = d[1] /\ TextAt(Obj(u), "units") = "B"
    BY TextIs
  <2> QED
    BY ONLY <1>1, <1>3, <2>2, <2>4, <2>5, <2>6 DEF TextAt
<1> QED
  BY <1>2, <1>3

\* The fields of an object.
LEMMA ObjectTyped ==
  ASSUME NEW d \in Docs
  PROVE  /\ type = "crs" => d = <<d[1], d[2]>> /\ d[1] \in {"", "string", "projected"} /\ d[2] \in Texts
         /\ type \in {"optional", "quota"} => d = <<d[1]>> /\ d[1] \in Unset
         /\ type = "envelope" => d = <<d[1]>> /\ d[1] \in Texts
         /\ type = "provider" \/ (type = "filter" /\ d # <<>>) =>
              /\ d = <<d[1], d[2], d[3]>>
              /\ d[1] \in Texts /\ d[2] \in Texts \cup {"C"} /\ d[3] \in Unset
<1>1. CASE type = "crs"
  <2>1. PICK classes : classes = {"", "string", "projected"}
    OBVIOUS
  <2>2. d \in classes \X Texts
    BY <1>1, <2>1, DocsAre
  <2>3. d = <<d[1], d[2]>> /\ d[1] \in classes /\ d[2] \in Texts
    BY ONLY <2>2
  <2> QED
    BY ONLY <1>1, <2>1, <2>3
<1>2. CASE type \in {"optional", "quota"}
  <2>1. d \in {<<t>> : t \in Unset}
    BY <1>2, DocsAre
  <2>2. PICK t \in Unset : d = <<t>>
    BY ONLY <2>1
  <2>3. d = <<d[1]>> /\ d[1] \in Unset
    BY ONLY <2>2
  <2> QED
    BY ONLY <1>2, <2>3
<1>3. CASE type = "envelope"
  <2>1. d \in {<<t>> : t \in Texts}
    BY <1>3, DocsAre
  <2>2. PICK t \in Texts : d = <<t>>
    BY ONLY <2>1
  <2>3. d = <<d[1]>> /\ d[1] \in Texts
    BY ONLY <2>2
  <2> QED
    BY ONLY <1>3, <2>3
<1>4. CASE type = "provider" \/ (type = "filter" /\ d # <<>>)
  <2>1. d \in Texts \X (Texts \cup {"C"}) \X Unset
    BY <1>4, DocsAre
  <2>2. d = <<d[1], d[2], d[3]>> /\ d[1] \in Texts /\ d[2] \in Texts \cup {"C"} /\ d[3] \in Unset
    BY ONLY <2>1
  <2> QED
    BY ONLY <1>4, <2>2
<1> QED
  BY ONLY <1>1, <1>2, <1>3, <1>4

\* An object is read as it was written, a field that is not set as it was.
LEMMA ObjectWritten ==
  ASSUME type \in {"crs", "optional", "envelope", "provider", "filter", "quota"},
         NEW d \in Docs, type = "filter" => d # <<>>,
         type \in {"optional", "quota"} /\ d[1] = "" => d = document
  PROVE  LET j == Marshal(type, d) IN j.shape \in JsonShapes /\ Reads(j) = d
<1> DEFINE j == Marshal(type, d)
<1>1. "" \notin Texts
  BY RoundTripAssumption
<1>2. CASE type = "crs"
  <2>1. d = <<d[1], d[2]>> /\ d[2] \in Texts
    BY ONLY <1>2, ObjectTyped, d \in Docs
  <2>2. d[2] # ""
    BY ONLY <1>1, <2>1
  <2>3. j = MarshalCRS(d)
    BY ONLY <1>2 DEF Marshal
  <2> HIDE DEF j
  <2>4. \/ j.shape = "string" /\ d[1] = "string" /\ j.text = d[2]
        \/ j.shape = "object" /\ TextAt(j, "@class") = d[1] /\ TextAt(j, "$") = d[2]
    BY ONLY <2>2, <2>3, CRSWritten
  <2>5. Reads(j) = IF j.shape = "string" THEN <<"string", j.text>>
                   ELSE <<TextAt(j, "@class"), TextAt(j, "$")>>
    BY ONLY <1>2 DEF Reads, Lists
  <2>6. Reads(j) = <<d[1], d[2]>>
    BY ONLY <2>4, <2>5
  <2>7. j.shape \in JsonShapes
    BY ONLY <2>4 DEF JsonShapes
  <2> QED
    BY ONLY <2>1, <2>6, <2>7 DEF j
<1>3. CASE type = "optional"
  <2>1. d = <<d[1]>>
    BY ONLY <1>3, ObjectTyped, d \in Docs
  <2>2. d[1] = "" => d = document
    BY <1>3
  <2>3. j = Obj(Omitted("content", d[1]))
    BY ONLY <1>3 DEF Marshal, MarshalOptional
  <2> HIDE DEF j
  <2>4. j.shape = "object"
    BY <2>3, JsonIs
  <2>5. TextAt(j, "content") = d[1]
    BY ONLY <2>3, TextIs
  <2>6. Reads(j) = <<Present(TextAt(j, "content"), document[1])>>
    BY ONLY <1>3 DEF Reads, Lists
  <2>7. Present(d[1], document[1]) = d[1]
    BY ONLY <2>2 DEF Present
  <2>8. Reads(j) = d
    BY ONLY <2>1, <2>5, <2>6, <2>7
  <2> QED
    BY ONLY <2>4, <2>8 DEF j, JsonShapes
<1>4. CASE type = "envelope"
  <2>1. d = <<d[1]>>
    BY ONLY <1>4, ObjectTyped, d \in Docs
  <2>3. j = Obj(One("global", NameOf(d[1])))
    BY ONLY <1>4 DEF Marshal, MarshalEnvelope
  <2> HIDE DEF j
  <2>4. j.shape = "object" /\ Field(j, "global") = NameOf(d[1])
    BY ONLY <2>3, ObjectOfOne
  <2>5. TextAt(NameOf(d[1]), "name") = d[1]
    BY TextIs DEF NameOf
  <2>6. Reads(j) = <<TextAt(Field(j, "global"), "name")>>
    BY ONLY <1>4 DEF Reads, Lists
  <2>7. Reads(j) = d
    BY ONLY <2>1, <2>4, <2>5, <2>6
  <2> QED
    BY ONLY <2>4, <2>7 DEF j, JsonShapes
<1>5. CASE type \in {"provider", "filter"}
  <2>0. type = "filter" => d # <<>>
    OBVIOUS
  <2>1. d = <<d[1], d[2], d[3]>> /\ d[1] \in Texts /\ d[2] \in Texts \cup {"C"}
    BY ONLY <1>5, <2>0, ObjectTyped, d \in Docs
  <2>2. d[1] # "" /\ d[2] # ""
    BY ONLY <1>1, <2>1
  <2>3. j = MarshalProvider(d)
    BY ONLY <1>5 DEF Marshal
  <2> HIDE DEF j
  <2>4. /\ j.shape = "object" /\ TextAt(j, "name") = d[1]
        /\ TextAt(j, "className") = d[2] /\ TextAt(j, "extra") = d[3]
    BY ONLY <2>1, <2>2, <2>3, ProviderWritten
  <2>5. Reads(j) = <<TextAt(j, "name"), TextAt(j, "className"), TextAt(j, "extra")>>
    BY ONLY <1>5 DEF Reads, Lists
  <2>6. Reads(j) = d
    BY ONLY <2>1, <2>4, <2>5
  <2> QED
    BY ONLY <2>4, <2>6 DEF j, JsonShapes
<1>6. CASE type = "quota"
  <2>1. d = <<d[1]>>
    BY ONLY <1>6, ObjectTyped, d \in Docs
  <2>2. d[1] = "" => d = document
    BY <1>6
  <2>3. j = MarshalQuota(d)
    BY ONLY <1>6 DEF Marshal
  <2> HIDE DEF j
  <2>4. /\ j.shape = "object"
        /\ d[1] = "" => TextAt(Field(j, "globalQuota"), "units") = ""
        /\ d[1] # "" => /\ TextAt(Field(j, "globalQuota"), "units") = "B"
                        /\ TextAt(Field(j, "globalQuota"), "value") = d[1]
    BY ONLY <2>3, QuotaWritten
  <2>5. Reads(j) = <<IF TextAt(Field(j, "globalQuota"), "units") = "B"
                     THEN TextAt(Field(j, "globalQuota"), "value") ELSE document[1]>>
    BY ONLY <1>6 DEF Reads, Lists
  <2>6. (IF TextAt(Field(j, "globalQuota"), "units") = "B"
         THEN TextAt(Field(j, "globalQuota"), "value") ELSE document[1]) = d[1]
    BY ONLY <2>2, <2>4
  <2>7. Reads(j) = d
    BY ONLY <2>1, <2>5, <2>6
  <2> QED
    BY ONLY <2>4, <2>7 DEF j, JsonShapes
<1> QED
  BY <1>2, <1>3, <1>4, <1>5, <1>6

\* Update writes what the server reads as the same document.
LEMMA WrittenRead ==
  ASSUME type \in Writable, NEW d \in Docs, type = "filter" => d # <<>>,
         d = <<>> \/ (type \in {"optional", "quota"} /\ d[1] = "") => d = document
  PROVE  LET j == Marshal(type, d) IN j.shape \in JsonShapes /\ Reads(j) = d
<1>1. CASE type \in Lists /\ d = <<>>
  BY <1>1, EmptyListWritten
<1>2. CASE type \in Lists /\ d # <<>>
  BY <1>2, ListWritten
<1>3. CASE type \notin Lists
  <2>1. type \in {"crs", "optional", "envelope", "provider", "filter", "quota"}
    BY <1>3 DEF Writable
  <2> QED
    BY <2>1, ObjectWritten
<1> QED
  BY <1>1, <1>2, <1>3

-----------------------------------------------------------------------------
(* Documents as sequences of texts, edited and extended. *)

AllTexts == Unset \cup {"string", "projected", "C"}

\* A document is a sequence of texts.
LEMMA DocsText ==
  ASSUME type \in Types, NEW d \in Docs
  PROVE  d \in Seq(AllTexts)
<1>1. type \in Writable \cup ReadOnly
  BY RoundTripAssumption
<1>2. Texts \subseteq Unset /\ Unset \subseteq AllTexts /\ "" \in Unset
  BY DEF Unset, AllTexts
<1>3. CASE type \in {"versions", "keywords", "filters", "list", "providers", "published",
                     "layerStyles", "styles"}
  <2>1. d \in Seq(Texts) \/ d \in Seq(Unset)
    BY <1>3, ListTyped
  <2> QED
    BY ONLY <1>2, <2>1, SeqMonotonic
<1>4. CASE type = "crs"
  <2>1. d = <<d[1], d[2]>> /\ d[1] \in {"", "string", "projected"} /\ d[2] \in Texts
    BY <1>4, ObjectTyped
  <2>2. d[1] \in AllTexts
    BY <2>1 DEF AllTexts, Unset
  <2>3. d[2] \in AllTexts
    BY ONLY <1>2, <2>1
  <2>4. PICK t1 \in AllTexts, t2 \in AllTexts : d = <<t1, t2>>
    BY ONLY <2>1, <2>2, <2>3
  <2> QED
    BY ONLY <2>4
<1>5. CASE type \in {"optional", "quota", "envelope"}
  <2>1. d = <<d[1]>> /\ d[1] \in AllTexts
    BY <1>2, <1>5, ObjectTyped
  <2>2. PICK t1 \in AllTexts : d = <<t1>>
    BY ONLY <2>1
  <2> QED
    BY ONLY <2>2
<1>6. CASE type \in {"namespace", "text"}
  <2>1. d \in {<<t>> : t \in Texts}
    BY <1>6, DocsAre
  <2>2. PICK t1 \in Texts : d = <<t1>>
    BY ONLY <2>1
  <2>3. t1 \in AllTexts
    BY ONLY <1>2
  <2> QED
    BY ONLY <2>2, <2>3
<1>7. CASE type = "provider" \/ (type = "filter" /\ d # <<>>)
  <2>1. /\ d = <<d[1], d[2], d[3]>>
        /\ d[1] \in Texts /\ d[2] \in Texts \cup {"C"} /\ d[3] \in Unset
    BY <1>7, ObjectTyped
  <2>2. "C" \in AllTexts
    BY DEF AllTexts
  <2>3. PICK t1 \in AllTexts, t2 \in AllTexts, t3 \in AllTexts : d = <<t1, t2, t3>>
    BY ONLY <1>2, <2>1, <2>2
  <2> QED
    BY ONLY <2>3
<1>8. CASE type = "filter" /\ d = <<>>
  BY <1>8
<1>9. CASE type = "task"
  <2>1. d \in [1..5 -> Texts]
    BY <1>9, DocsAre
  <2>2. d \in UNION {[1..n -> Texts] : n \in Nat}
    BY ONLY <2>1
  <2>3. d \in Seq(Texts)
    BY <2>2, SeqDef
  <2> QED
    BY ONLY <1>2, <2>3, SeqMonotonic
<1>10. CASE type = "entry"
  <2>1. d \in Texts \X Texts \X Unset
    BY <1>10, DocsAre
  <2>2. d = <<d[1], d[2], d[3]>> /\ d[1] \in Texts /\ d[2] \in Texts /\ d[3] \in Unset
    BY ONLY <2>1
  <2>3. PICK t1 \in AllTexts, t2 \in AllTexts, t3 \in AllTexts : d = <<t1, t2, t3>>
    BY ONLY <1>2, <2>2
  <2> QED
    BY ONLY <2>3
<1> QED
  BY <1>1, <1>3, <1>4, <1>5, <1>6, <1>7, <1>8, <1>9, <1>10 DEF Writable, ReadOnly, Lists

\* A field or an element set to a text leaves a document of the type.
LEMMA EditedTyped ==
  ASSUME type \in Writable, NEW d \in Docs, NEW i \in DOMAIN d, NEW text \in EditTexts(i)
  PROVE  LET e == [d EXCEPT ![i] = text]
         IN e \in Docs /\ e # <<>> /\ (type \in {"optional", "quota"} => e[1] # "")
<1> DEFINE e == [d EXCEPT ![i] = text]
<1>1. "" \notin Texts /\ Texts \subseteq Unset
  BY RoundTripAssumption DEF Unset
<1>2. DOMAIN e = DOMAIN d /\ e[i] = text /\ \A n \in DOMAIN d : n # i => e[n] = d[n]
  OBVIOUS
<1>3. type # "crs" => text \in Texts
  BY DEF EditTexts
<1>4. i \in DOMAIN d
  OBVIOUS
<1>5. e # <<>>
  <2>1. DOMAIN <<>> = {}
    OBVIOUS
  <2> QED
    BY ONLY <1>2, <1>4, <2>1
<1>6. CASE type \in Lists
  <2>0. MaxLength \in Nat
    BY RoundTripAssumption
  <2>1. text \in Texts
    BY <1>3, <1>6 DEF Lists
  <2>2. CASE type = "styles"
    <3>1. d \in Seq(Unset) /\ Len(d) <= MaxLength
      BY <2>2, ListTyped
    <3>2. e \in Seq(Unset) /\ Len(e) = Len(d)
      <4>1. i \in 1..Len(d) /\ text \in Unset
        <5>1. DOMAIN d = 1..Len(d)
          BY <3>1, LenProperties
        <5> QED
          BY ONLY <1>1, <1>4, <2>1, <5>1
      <4> QED
        BY ONLY <3>1, <4>1, ExceptSeq
    <3>3. e \in BoundedSeq(Unset, MaxLength)
      BY ONLY <2>0, <3>1, <3>2, BoundedSeqIs
    <3>4. Docs = BoundedSeq(Unset, MaxLength) \ {<<>>}
      BY <2>2, DocsAre
    <3> QED
      BY ONLY <1>5, <2>2, <3>3, <3>4
  <2>3. CASE type # "styles"
    <3>1. d \in Seq(Texts) /\ Len(d) <= MaxLength
      BY <1>6, <2>3, ListTyped DEF Lists
    <3>2. e \in Seq(Texts) /\ Len(e) = Len(d)
      <4>1. i \in 1..Len(d) /\ text \in Texts
        <5>1. DOMAIN d = 1..Len(d)
          BY <3>1, LenProperties
        <5> QED
          BY ONLY <1>1, <1>4, <2>1, <5>1
      <4> QED
        BY ONLY <3>1, <4>1, ExceptSeq
    <3>3. e \in BoundedSeq(Texts, MaxLength)
      BY ONLY <2>0, <3>1, <3>2, BoundedSeqIs
    <3>4. Docs = BoundedSeq(Texts, MaxLength) \/ Docs = BoundedSeq(Texts, MaxLength) \ {<<>>}
      BY <1>6, <2>3, DocsAre DEF Lists
    <3>5. type \notin {"optional", "quota"}
      BY <1>6 DEF Lists
    <3> QED
      BY ONLY <1>5, <3>3, <3>4, <3>5
  <2> QED
    BY ONLY <2>2, <2>3
<1>7. CASE type = "crs"
  <2>1. PICK classes : classes = {"", "string", "projected"}
    OBVIOUS
  <2>2. Docs = classes \X Texts
    BY <1>7, <2>1, DocsAre
  <2>3. (i = 1 => text \in classes) /\ (i # 1 => text \in Texts)
    BY <1>7, <2>1 DEF EditTexts
  <2>4. d = <<d[1], d[2]>> /\ d[1] \in classes /\ d[2] \in Texts
    <3>1. d \in Docs
      OBVIOUS
    <3> QED
      BY ONLY <2>2, <3>1
  <2>5. i = 1 \/ i = 2
    BY ONLY <1>4, <2>4
  <2>6. PICK t1 \in classes, t2 \in Texts : e = <<t1, t2>>
    <3>1. CASE i = 1
      <4>1. e = <<text, d[2]>>
        BY ONLY <2>4, <3>1
      <4> QED
        BY ONLY <2>3, <2>4, <3>1, <4>1
    <3>2. CASE i = 2
      <4>1. e = <<d[1], text>>
        BY ONLY <2>4, <3>2
      <4> QED
        BY ONLY <2>3, <2>4, <3>2, <4>1
    <3> QED
      BY ONLY <2>5, <3>1, <3>2
  <2>7. e \in Docs
    BY ONLY <2>2, <2>6
  <2> QED
    BY ONLY <1>5, <1>7, <2>7
<1>8. CASE type \in {"optional", "quota", "envelope"}
  <2>1. text \in Texts
    BY <1>3, <1>8
  <2>2. d = <<d[1]>>
    BY <1>8, ObjectTyped
  <2>3. i = 1
    BY ONLY <1>4, <2>2
  <2>4. e = <<text>>
    BY ONLY <2>2, <2>3
  <2>5. Docs = {<<t>> : t \in Texts} \/ Docs = {<<t>> : t \in Unset}
    BY <1>8, DocsAre
  <2>6. e[1] # ""
    BY ONLY <1>1, <1>2, <2>1, <2>3
  <2>7. e \in Docs
    BY ONLY <1>1, <2>1, <2>4, <2>5
  <2> QED
    BY ONLY <1>5, <2>6, <2>7
<1>9. CASE type \in {"provider", "filter"}
  <2>1. text \in Texts
    BY <1>3, <1>9
  <2>2. d # <<>>
    <3>1. DOMAIN <<>> = {}
      OBVIOUS
    <3> QED
      BY ONLY <1>4, <3>1
  <2>3. /\ d = <<d[1], d[2], d[3]>>
        /\ d[1] \in Texts /\ d[2] \in Texts \cup {"C"} /\ d[3] \in Unset
    BY ONLY <1>9, <2>2, ObjectTyped, d \in Docs
  <2>4. i = 1 \/ i = 2 \/ i = 3
    BY ONLY <1>4, <2>3
  <2>5. PICK t1 \in Texts, t2 \in Texts \cup {"C"}, t3 \in Unset : e = <<t1, t2, t3>>
    <3>1. CASE i = 1
      <4>1. e = <<text, d[2], d[3]>>
        BY ONLY <2>3, <3>1
      <4> QED
        BY ONLY <2>1, <2>3, <4>1
    <3>2. CASE i = 2
      <4>1. e = <<d[1], text, d[3]>>
        BY ONLY <2>3, <3>2
      <4>2. text \in Texts \cup {"C"}
        BY ONLY <2>1
      <4> QED
        BY ONLY <2>3, <4>1, <4>2
    <3>3. CASE i = 3
      <4>1. e = <<d[1], d[2], text>>
        BY ONLY <2>3, <3>3
      <4>2. text \in Unset
        BY ONLY <1>1, <2>1
      <4> QED
        BY ONLY <2>3, <4>1, <4>2
    <3> QED
      BY ONLY <2>4, <3>1, <3>2, <3>3
  <2>6. e \in Texts \X (Texts \cup {"C"}) \X Unset
    BY ONLY <2>5
  <2>7. Texts \X (Texts \cup {"C"}) \X Unset \subseteq Docs
    BY <1>9, DocsAre
  <2> QED
    BY ONLY <1>5, <1>9, <2>6, <2>7
<1> QED
  BY <1>6, <1>7, <1>8, <1>9 DEF Writable

\* One more element leaves a list of the type.
LEMMA ExtendedTyped ==
  ASSUME type \in Lists \ {"styles"}, NEW d \in Docs, Len(d) < MaxLength, NEW text \in Texts
  PROVE  Append(d, text) \in Docs /\ Append(d, text) # <<>>
<1>0. MaxLength \in Nat
  BY RoundTripAssumption
<1>1. d \in Seq(Texts)
  BY ListTyped DEF Lists
<1>2. Append(d, text) \in Seq(Texts) /\ Len(Append(d, text)) <= MaxLength /\ Append(d, text) # <<>>
  <2>1. Len(Append(d, text)) = Len(d) + 1 /\ Len(d) \in Nat
    BY <1>1, AppendProperties
  <2>2. Append(d, text) \in Seq(Texts) /\ Append(d, text) # <<>>
    BY <1>1, AppendProperties
  <2>3. Len(d) < MaxLength
    OBVIOUS
  <2> QED
    BY ONLY <1>0, <2>1, <2>2, <2>3
<1>3. Append(d, text) \in BoundedSeq(Texts, MaxLength)
  BY ONLY <1>0, <1>2, BoundedSeqIs
<1>4. Docs = BoundedSeq(Texts, MaxLength) \/ Docs = BoundedSeq(Texts, MaxLength) \ {<<>>}
  BY DocsAre DEF Lists
<1> QED
  BY ONLY <1>2, <1>3, <1>4

-----------------------------------------------------------------------------
(* The steps. *)

\* What the server may answer goes by the type and the document.
LEMMA SameShapes ==
  ASSUME type' = type, document' = document
  PROVE  Shapes(document)' = Shapes(document)
  BY type' = type, document' = document DEF Shapes

\* The type invariant after a step, from what the step leaves.
LEMMA NextTypeOK ==
  ASSUME type' = type, document' \in Docs, asked' \in Docs,
         phase' \in {"idle", "served", "read", "sent"}, json'.shape \in JsonShapes,
         value' = Decoded(value'.doc) \/ value' = DecodeError, value'.doc \in Seq(AllTexts)
  PROVE  DocumentTypeOK'
<1>1. Docs' = Docs
  BY SameType
<1>2. value'.ok \in BOOLEAN
  <2>1. value' = Decoded(value'.doc) \/ value' = DecodeError
    OBVIOUS
  <2>2. CASE value' = Decoded(value'.doc)
    <3>1. PICK d : d = value'.doc
      OBVIOUS
    <3> QED
      BY ONLY <2>2, <3>1, DecodedIs
  <2>3. CASE value' = DecodeError
    BY ONLY <2>3, FailureIs
  <2> QED
    BY ONLY <2>1, <2>2, <2>3
<1> QED
  BY <1>1, <1>2 DEF DocumentTypeOK, AllTexts

\* The first state.
LEMMA InitDocument == DocumentInit => DocumentInv
<1> SUFFICES ASSUME DocumentInit
             PROVE  DocumentInv
  OBVIOUS
<1>1. type \in Types /\ document \in Docs /\ asked = document /\ phase = "idle"
      /\ json = Null /\ value = Decoded(<<>>)
  BY DEF DocumentInit
<1>2. value.ok = TRUE /\ value.doc = <<>>
  BY ONLY <1>1, DecodedIs
<1>3. json.shape \in JsonShapes
  BY <1>1, JsonIs DEF JsonShapes
<1>4. DocumentTypeOK
  <2>1. value.doc \in Seq(AllTexts)
    BY ONLY <1>2, EmptySeq
  <2>2. value.doc \in Seq(Unset \cup {"string", "projected", "C"})
    BY ONLY <2>1 DEF AllTexts
  <2>3. phase \in {"idle", "served", "read", "sent"} /\ value.ok \in BOOLEAN
    BY ONLY <1>1, <1>2
  <2> QED
    BY ONLY <1>1, <1>3, <2>2, <2>3 DEF DocumentTypeOK
<1>5. Returned
  BY ONLY <1>1, <1>2 DEF Returned
<1> QED
  BY ONLY <1>1, <1>4, <1>5 DEF DocumentInv

\* What the invariant says of what the program holds.
LEMMA Holding ==
  ASSUME DocumentInv, phase \in {"read", "sent"}
  PROVE  /\ type \in Types /\ document \in Docs /\ asked \in Docs
         /\ Returned /\ value.doc \in Seq(AllTexts) /\ json.shape \in JsonShapes
         /\ HoldsAsked /\ UnsetIsKept
         /\ type \in Writable => value = Decoded(value.doc)
<1>1. /\ type \in Types /\ DocumentTypeOK /\ Returned
      /\ phase \in {"read", "sent"} => HoldsAsked /\ UnsetIsKept
  BY DEF DocumentInv
<1>2. type \in Writable => value = Decoded(value.doc)
  BY ONLY <1>1 DEF Returned, Writable, Lists
<1> QED
  BY <1>1, <1>2 DEF DocumentTypeOK, AllTexts

\* GET: the server answers with the document.
LEMMA ServeKeeps ==
  ASSUME DocumentInv, ServeDocument
  PROVE  DocumentInv'
<1>1. /\ type \in Types /\ document \in Docs /\ Returned
      /\ value.doc \in Seq(AllTexts)
  BY DEF DocumentInv, DocumentTypeOK, AllTexts
<1>2. /\ type' = type /\ document' = document /\ value' = value
      /\ phase' = "served" /\ json' \in Shapes(document) /\ asked' = document
  BY DEF ServeDocument
<1>3. json'.shape \in JsonShapes
  BY <1>1, <1>2, ServedRead DEF Gives
<1>4. json' \in Shapes(document)'
  BY <1>2, SameShapes
<1>5. Returned' /\ (value' = Decoded(value'.doc) \/ value' = DecodeError)
  BY ONLY <1>1, <1>2 DEF Returned
<1>6. DocumentTypeOK'
  BY ONLY <1>1, <1>2, <1>3, <1>5, NextTypeOK
<1> QED
  BY ONLY <1>1, <1>2, <1>4, <1>5, <1>6 DEF DocumentInv

\* Get: the program holds the document, or no styles.
LEMMA GetKeeps ==
  ASSUME DocumentInv, GetDocument
  PROVE  DocumentInv'
<1>1. /\ type' = type /\ document' = document /\ asked' = asked /\ json' = json
      /\ phase = "served" /\ phase' = "read" /\ value' = Unmarshal(type, json)
  BY DEF GetDocument
<1>2. /\ type \in Types /\ document \in Docs /\ asked = document /\ json \in Shapes(document)
      /\ json.shape \in JsonShapes
  BY <1>1 DEF DocumentInv, DocumentTypeOK
<1>3. Gives(json, document)
  BY <1>2, ServedRead
<1>4. PICK d : /\ \/ value' = Decoded(d)
                  \/ value' = DecodeError /\ type = "layerStyles" /\ d = <<>> /\ asked = <<>>
               /\ d = document \/ (type = "styles" /\ d = <<>> /\ ToSet(document) = {""})
  BY ONLY <1>1, <1>2, <1>3 DEF Gives
<1>5. value'.doc = d
  <2>1. CASE value' = Decoded(d)
    BY ONLY <2>1, DecodedIs
  <2>2. CASE value' = DecodeError /\ d = <<>>
    BY ONLY <2>2, FailureIs
  <2> QED
    BY ONLY <1>4, <2>1, <2>2
<1>6. d \in Seq(AllTexts)
  <2>1. document \in Seq(AllTexts)
    BY <1>2, DocsText
  <2>2. <<>> \in Seq(AllTexts)
    OBVIOUS
  <2> QED
    BY ONLY <1>4, <2>1, <2>2
<1>7. Returned' /\ (value' = Decoded(value'.doc) \/ value' = DecodeError)
  BY ONLY <1>1, <1>4, <1>5 DEF Returned
<1>8. DocumentTypeOK'
  BY ONLY <1>1, <1>2, <1>5, <1>6, <1>7, NextTypeOK
<1>9. HoldsAsked' /\ UnsetIsKept'
  BY ONLY <1>1, <1>2, <1>4, <1>5 DEF HoldsAsked, UnsetIsKept
<1> QED
  BY ONLY <1>1, <1>2, <1>7, <1>8, <1>9 DEF DocumentInv

\* A field or an element that is set: to a text, never to "".
LEMMA EditKeeps ==
  ASSUME DocumentInv, Edit
  PROVE  DocumentInv'
<1>0. PICK i \in DOMAIN value.doc : \E text \in EditTexts(i) :
        /\ value' = [value EXCEPT !.doc[i] = text]
        /\ asked' = [asked EXCEPT ![i] = text]
  BY DEF Edit
<1>1. PICK text \in EditTexts(i) :
        /\ value' = [value EXCEPT !.doc[i] = text]
        /\ asked' = [asked EXCEPT ![i] = text]
  BY <1>0
<1>2. /\ type' = type /\ document' = document /\ phase' = phase /\ json' = json
      /\ phase = "read" /\ type \in Writable
  BY DEF Edit, Holds
<1>3. /\ type \in Types /\ document \in Docs /\ asked \in Docs
      /\ value = Decoded(value.doc) /\ value.doc \in Seq(AllTexts) /\ json.shape \in JsonShapes
      /\ HoldsAsked /\ UnsetIsKept
  BY <1>2, Holding DEF Writable
<1>4. value.doc = asked
  <2>1. value.doc # <<>>
    OBVIOUS
  <2> QED
    BY ONLY <1>3, <2>1 DEF HoldsAsked
<1> DEFINE e == [asked EXCEPT ![i] = text]
<1>5. e \in Docs /\ e # <<>> /\ (type \in {"optional", "quota"} => e[1] # "")
  BY <1>1, <1>2, <1>3, <1>4, EditedTyped
<1>6. value' = Decoded(e)
  <2>1. value = [ok |-> TRUE, doc |-> asked]
    BY ONLY <1>3, <1>4 DEF Decoded
  <2>2. value' = [ok |-> TRUE, doc |-> [asked EXCEPT ![i] = text]]
    BY ONLY <1>1, <2>1
  <2> QED
    BY ONLY <2>2 DEF Decoded
<1>7. asked' = e
  BY <1>1
<1> HIDE DEF e
<1>8. e \in Seq(AllTexts)
  BY <1>3, <1>5, DocsText
<1>9. value'.doc = e
  BY ONLY <1>6, DecodedIs
<1>10. DocumentTypeOK' /\ Returned'
  <2>1. value' = Decoded(value'.doc)
    BY ONLY <1>6, <1>9
  <2>2. DocumentTypeOK'
    BY ONLY <1>2, <1>3, <1>5, <1>7, <1>8, <1>9, <2>1, NextTypeOK
  <2> QED
    BY ONLY <2>1, <2>2 DEF Returned
<1>11. HoldsAsked' /\ UnsetIsKept'
  BY ONLY <1>2, <1>5, <1>7, <1>9 DEF HoldsAsked, UnsetIsKept
<1> QED
  BY ONLY <1>2, <1>3, <1>6, <1>9, <1>10, <1>11 DEF DocumentInv

\* An element that is appended.
LEMMA ExtendKeeps ==
  ASSUME DocumentInv, Extend
  PROVE  DocumentInv'
<1>1. PICK text \in Texts :
        /\ value' = [value EXCEPT !.doc = Append(@, text)]
        /\ asked' = Append(asked, text)
  BY DEF Extend
<1>2. /\ type' = type /\ document' = document /\ phase' = phase /\ json' = json
      /\ phase = "read" /\ type \in Lists \ {"styles"} /\ Len(value.doc) < MaxLength
  BY DEF Extend, Holds
<1>3. /\ type \in Types /\ document \in Docs /\ asked \in Docs
      /\ value = Decoded(value.doc) /\ value.doc \in Seq(AllTexts) /\ json.shape \in JsonShapes
      /\ HoldsAsked /\ UnsetIsKept
  BY <1>2, Holding DEF Writable
<1>4. value.doc = asked
  BY ONLY <1>2, <1>3 DEF HoldsAsked
<1> DEFINE e == Append(asked, text)
<1>5. e \in Docs /\ e # <<>>
  BY <1>2, <1>3, <1>4, ExtendedTyped
<1>6. value' = Decoded(e)
  <2>1. value = [ok |-> TRUE, doc |-> asked]
    BY ONLY <1>3, <1>4 DEF Decoded
  <2>2. value' = [ok |-> TRUE, doc |-> Append(asked, text)]
    BY ONLY <1>1, <2>1
  <2> QED
    BY ONLY <2>2 DEF Decoded
<1>7. asked' = e
  BY <1>1
<1> HIDE DEF e
<1>8. e \in Seq(AllTexts)
  BY <1>3, <1>5, DocsText
<1>9. value'.doc = e
  BY ONLY <1>6, DecodedIs
<1>10. DocumentTypeOK' /\ Returned'
  <2>1. value' = Decoded(value'.doc)
    BY ONLY <1>6, <1>9
  <2>2. DocumentTypeOK'
    BY ONLY <1>2, <1>3, <1>5, <1>7, <1>8, <1>9, <2>1, NextTypeOK
  <2> QED
    BY ONLY <2>1, <2>2 DEF Returned
<1>11. HoldsAsked' /\ UnsetIsKept'
  <2>1. type \notin {"optional", "quota"}
    BY <1>2 DEF Lists
  <2> QED
    BY ONLY <1>2, <1>5, <1>7, <1>9, <2>1 DEF HoldsAsked, UnsetIsKept
<1> QED
  BY ONLY <1>2, <1>3, <1>6, <1>9, <1>10, <1>11 DEF DocumentInv

\* The body of an update, and what the server makes of it.
LEMMA SentRead ==
  ASSUME type \in Writable, asked \in Docs, HoldsAsked, UnsetIsKept,
         ~(type = "filter" /\ value.doc = <<>>)
  PROVE  LET j == Marshal(type, value.doc) IN j.shape \in JsonShapes /\ Reads(j) = asked
<1>1. CASE value.doc = asked
  <2>1. type = "filter" => asked # <<>>
    BY <1>1
  <2>2. asked = <<>> \/ (type \in {"optional", "quota"} /\ asked[1] = "") => asked = document
    BY DEF UnsetIsKept
  <2>3. LET j == Marshal(type, asked) IN j.shape \in JsonShapes /\ Reads(j) = asked
    BY <2>1, <2>2, WrittenRead
  <2> QED
    BY ONLY <1>1, <2>3
<1>2. CASE value.doc # asked
  <2>1. type = "styles" /\ value.doc = <<>> /\ asked = document
    BY <1>2 DEF HoldsAsked
  <2>2. type \in Lists
    BY <2>1 DEF Lists
  <2>3. LET j == Marshal(type, <<>>) IN j.shape \in JsonShapes /\ Reads(j) = document
    BY <2>2, EmptyListWritten
  <2> QED
    BY ONLY <2>1, <2>3
<1> QED
  BY <1>1, <1>2

\* Update: the body is what the program holds.
LEMMA UpdateKeeps ==
  ASSUME DocumentInv, UpdateDocument
  PROVE  DocumentInv'
<1>1. /\ type' = type /\ document' = document /\ asked' = asked /\ value' = value
      /\ phase = "read" /\ phase' = "sent" /\ type \in Writable
      /\ ~(type = "filter" /\ value.doc = <<>>) /\ json' = Marshal(type, value.doc)
  BY DEF UpdateDocument, Holds
<1>2. /\ type \in Types /\ document \in Docs /\ asked \in Docs
      /\ value = Decoded(value.doc) /\ value.doc \in Seq(AllTexts)
      /\ HoldsAsked /\ UnsetIsKept
  BY <1>1, Holding
<1>3. json'.shape \in JsonShapes
  BY <1>1, <1>2, SentRead
<1>4. DocumentTypeOK'
  BY ONLY <1>1, <1>2, <1>3, NextTypeOK
<1>5. HoldsAsked' /\ UnsetIsKept' /\ Returned'
  BY ONLY <1>1, <1>2 DEF HoldsAsked, UnsetIsKept, Returned
<1>6. Writable' = Writable
  BY DEF Writable, Lists
<1> QED
  BY ONLY <1>1, <1>2, <1>4, <1>5, <1>6 DEF DocumentInv

\* PUT: the server has what was asked for.
LEMMA ApplyKeeps ==
  ASSUME DocumentInv, Apply
  PROVE  DocumentInv'
<1>1. /\ type' = type /\ asked' = asked /\ json' = json /\ value' = value
      /\ phase = "sent" /\ phase' = "idle" /\ document' = Reads(json)
  BY DEF Apply
<1>2. /\ type \in Types /\ asked \in Docs
      /\ type \in Writable => value = Decoded(value.doc)
      /\ value.doc \in Seq(AllTexts) /\ json.shape \in JsonShapes
      /\ HoldsAsked /\ UnsetIsKept
  BY <1>1, Holding
<1>3. /\ type \in Writable /\ ~(type = "filter" /\ value.doc = <<>>)
      /\ json = Marshal(type, value.doc)
  BY <1>1 DEF DocumentInv
<1>4. document' = asked
  BY <1>1, <1>2, <1>3, SentRead
<1>5. Returned'
  BY ONLY <1>1, <1>2, <1>3 DEF Returned
<1>6. DocumentTypeOK'
  BY ONLY <1>1, <1>2, <1>3, <1>4, NextTypeOK
<1> QED
  BY ONLY <1>1, <1>2, <1>4, <1>5, <1>6 DEF DocumentInv

\* The program gives up what it holds.
LEMMA DropKeeps ==
  ASSUME DocumentInv, Drop
  PROVE  DocumentInv'
<1>1. /\ type' = type /\ document' = document /\ json' = json /\ value' = value
      /\ phase = "read" /\ phase' = "idle" /\ asked' = document
  BY DEF Drop
<1>2. /\ type \in Types /\ document \in Docs
      /\ Returned /\ value.doc \in Seq(AllTexts) /\ json.shape \in JsonShapes
  BY <1>1, Holding
<1>3. Returned' /\ (value' = Decoded(value'.doc) \/ value' = DecodeError)
  BY ONLY <1>1, <1>2 DEF Returned
<1>4. DocumentTypeOK'
  BY ONLY <1>1, <1>2, <1>3, NextTypeOK
<1> QED
  BY ONLY <1>1, <1>2, <1>3, <1>4 DEF DocumentInv

\* A step that changes nothing.
LEMMA StutterKeeps ==
  ASSUME DocumentInv, UNCHANGED documentVars
  PROVE  DocumentInv'
<1>1. /\ type' = type /\ document' = document /\ asked' = asked
      /\ phase' = phase /\ json' = json /\ value' = value
  BY DEF documentVars
<1>2. Shapes(document)' = Shapes(document) /\ Docs' = Docs
  BY <1>1, SameShapes, SameType
<1>3. DocumentTypeOK'
  BY <1>1, <1>2 DEF DocumentInv, DocumentTypeOK
<1>4. (HoldsAsked' <=> HoldsAsked) /\ (UnsetIsKept' <=> UnsetIsKept) /\ (Returned' <=> Returned)
  BY <1>1 DEF HoldsAsked, UnsetIsKept, Returned
<1>5. DocumentInv
  OBVIOUS
<1> QED
  BY ONLY <1>1, <1>2, <1>3, <1>4, <1>5 DEF DocumentInv

\* Every state that can be reached, with the inductive invariant: what a program that
\* has read a document holds is the document with its changes, or nothing of styles
\* that are all the default, and what it leaves out of a body is what was there.
THEOREM DocumentInductive == DocumentSpec => []DocumentInv
<1>1. DocumentInv /\ [DocumentNext]_documentVars => DocumentInv'
  <2> SUFFICES ASSUME DocumentInv, [DocumentNext]_documentVars
               PROVE  DocumentInv'
    OBVIOUS
  <2> QED
    BY ServeKeeps, GetKeeps, EditKeeps, ExtendKeeps, UpdateKeeps, ApplyKeeps, DropKeeps,
       StutterKeeps DEF DocumentNext
<1> QED
  BY InitDocument, <1>1, PTL DEF DocumentSpec

\* The document, what is asked for and what the program holds keep their types
\* through Get, edit and Update (documents of rest/ with custom codecs).
THEOREM DocumentTypes == DocumentSpec => []DocumentTypeOK
<1>1. DocumentInv => DocumentTypeOK
  BY DEF DocumentInv
<1> QED
  BY DocumentInductive, <1>1, PTL

\* For any texts, lists of any length and every shape the server may choose, Get
\* succeeds and returns the document, but for a layer without alternative styles
\* (the UnmarshalJSON methods of rest/).
THEOREM ReadsTrue == DocumentSpec => []ReadsAreTrue
<1>1. DocumentInv => ReadsAreTrue
  <2> SUFFICES ASSUME DocumentInv, phase = "read", ~NoStyles
               PROVE  value.ok /\ Same(value.doc, asked)
    BY DEF ReadsAreTrue
  <2>0. asked \in Docs /\ Returned /\ HoldsAsked
    BY Holding
  <2>1. asked \in Docs /\ value = Decoded(value.doc) /\ HoldsAsked
    BY <2>0 DEF Returned, NoStyles
  <2>2. value.ok
    BY ONLY <2>1, DecodedIs
  <2>3. Same(value.doc, asked)
    <3>1. CASE value.doc = asked
      BY <3>1 DEF Same
    <3>2. CASE value.doc # asked
      <4>1. type = "styles" /\ value.doc = <<>> /\ ToSet(asked) = {""}
        BY ONLY <2>1, <3>2 DEF HoldsAsked
      <4>2. asked \in Seq(Unset)
        BY <2>1, <4>1, ListTyped
      <4>3. value.doc \o asked = asked
        BY ONLY <4>1, <4>2, ConcatEmptySeq
      <4> QED
        BY ONLY <4>1, <4>3 DEF Same
    <3> QED
      BY <3>1, <3>2
  <2> QED
    BY <2>2, <2>3
<1> QED
  BY DocumentInductive, <1>1, PTL

\* For any texts and any edits between Get and Update, the server has what the
\* program asked for (the MarshalJSON methods of rest/).
THEOREM WritesMeant == DocumentSpec => []WritesAreMeant
<1>1. DocumentInv => WritesAreMeant
  BY DEF DocumentInv, WritesAreMeant, Same
<1> QED
  BY DocumentInductive, <1>1, PTL

=============================================================================
