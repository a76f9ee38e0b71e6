------------------------------- MODULE Recursion -------------------------------
(***************************************************************************)
(* What a function defined by recursion over a sequence computes.  Fold is *)
(* the loop most of the code's own loops are: it starts with Start, and    *)
(* takes Step with each element in turn.  A proof about such an operator   *)
(* instantiates this module with its start and its step.                   *)
(***************************************************************************)
EXTENDS Integers, Sequences, SequenceTheorems, WellFoundedInduction, TLAPS
CONSTANTS Start, Step(_, _)

Fold(s) ==
  LET f[i \in 0..Len(s)] == IF i = 0 THEN Start ELSE Step(f[i - 1], s[i])
  IN f[Len(s)]

\* f has the values of the first n turns.
Folds(f, s, n) ==
  f = [i \in 0..n |-> IF i = 0 THEN Start ELSE Step(f[i - 1], s[i])]

-----------------------------------------------------------------------------
(* Induction, with a set where the library's theorems have a predicate. *)

\* A set of numbers that is not empty has a least one.
LEMMA LeastNumber ==
  ASSUME NEW T, T \subseteq Nat, T # {}
  PROVE  \E n \in T : \A m \in T : n <= m
<1> DEFINE R == OpToRel(<, Nat)
<1>1. IsWellFoundedOn(R, Nat)
  BY NatLessThanWellFounded
<1>2. \A x, y \in Nat : y < x => <<y, x>> \in R
  BY DEF OpToRel
<1> HIDE DEF R
<1>3. PICK n \in T : \A m \in T : ~(<<m, n>> \in R)
  BY <1>1, WFMin
<1>4. \A m \in T : n <= m
  <2> TAKE m \in T
  <2>1. m \in Nat /\ n \in Nat
    OBVIOUS
  <2>2. ~(m < n)
    BY <1>2, <1>3, <2>1
  <2> QED
    BY <2>1, <2>2
<1> QED
  BY <1>4

\* What is in T when it is empty, and stays in T when it grows, is in T.
THEOREM SeqInduction ==
  ASSUME NEW S, NEW T, <<>> \in T,
         \A s \in Seq(S), x \in S : s \in T => Append(s, x) \in T
  PROVE  Seq(S) \subseteq T
<1> SUFFICES ASSUME NEW w \in Seq(S), w \notin T PROVE FALSE
  OBVIOUS
<1> DEFINE U == {n \in Nat : \E s \in Seq(S) : s \notin T /\ Len(s) = n}
<1>1. U \subseteq Nat /\ Len(w) \in U
  OBVIOUS
<1>2. PICK n \in U : \A m \in U : n <= m
  BY <1>1, LeastNumber
<1>3. PICK s \in Seq(S) : s \notin T /\ Len(s) = n /\ n \in Nat
  BY <1>2
<1>4. PICK r \in Seq(S), x \in S : s = Append(r, x)
  BY <1>3, SequenceEmptyOrAppend
<1>5. Len(r) \in Nat /\ n = Len(r) + 1
  BY <1>3, <1>4, AppendProperties, LenProperties
<1>6. ~(n <= Len(r))
  BY ONLY <1>5
<1>7. r \in T
  BY <1>2, <1>5, <1>6
<1> QED
  BY <1>3, <1>4, <1>7
-----------------------------------------------------------------------------
(* Fold is a choice; there is one function to choose. *)

\* The definition, without its LET.
LEMMA FoldDef ==
  ASSUME NEW s
  PROVE  Fold(s) = (CHOOSE f : Folds(f, s, Len(s)))[Len(s)]
BY DEF Fold, Folds

\* The turns, one by one.
LEMMA FoldsSteps ==
  ASSUME NEW f, NEW s, NEW n \in Nat, Folds(f, s, n)
  PROVE  /\ f = [i \in 0..n |-> f[i]]
         /\ f[0] = Start
         /\ \A i \in 1..n : f[i] = Step(f[i - 1], s[i])
<1> DEFINE e == [i \in 0..n |-> IF i = 0 THEN Start ELSE Step(f[i - 1], s[i])]
<1>1. f = e
  BY DEF Folds
<1>2. e[0] = Start
  OBVIOUS
<1>3. \A i \in 1..n : e[i] = Step(f[i - 1], s[i])
  OBVIOUS
<1>4. e = [i \in 0..n |-> e[i]]
  OBVIOUS
<1> HIDE DEF e
<1> QED
  BY <1>1, <1>2, <1>3, <1>4

\* And back.
LEMMA StepsFold ==
  ASSUME NEW f, NEW s, NEW n \in Nat,
         f = [i \in 0..n |-> f[i]], f[0] = Start,
         \A i \in 1..n : f[i] = Step(f[i - 1], s[i])
  PROVE  Folds(f, s, n)
<1> DEFINE e == [i \in 0..n |-> IF i = 0 THEN Start ELSE Step(f[i - 1], s[i])]
<1>2. e[0] = Start
  OBVIOUS
<1>3. \A i \in 1..n : e[i] = Step(f[i - 1], s[i])
  OBVIOUS
<1>4. e = [i \in 0..n |-> e[i]]
  OBVIOUS
<1>6. (f = e) => Folds(f, s, n)
  BY DEF Folds
<1> HIDE DEF e
<1>7. \A i \in 0..n : f[i] = e[i]
  <2>1. \A i \in 0..n : i = 0 \/ i \in 1..n
    OBVIOUS
  <2> QED
    BY <2>1, <1>2, <1>3
<1>8. f = e
  BY <1>4, <1>7
<1> QED
  BY <1>6, <1>8

\* No two functions have the same turns.
LEMMA FoldsUnique ==
  ASSUME NEW s, NEW n \in Nat, NEW f, NEW g, Folds(f, s, n), Folds(g, s, n)
  PROVE  f = g
<1>1. \A i \in 0..n : f[i] = g[i]
  <2> DEFINE T == {i \in 0..n : f[i] # g[i]}
  <2> SUFFICES ASSUME T # {} PROVE FALSE
    OBVIOUS
  <2>1. PICK k \in T : \A j \in T : k <= j
    <3>1. T \subseteq Nat
      OBVIOUS
    <3> QED
      BY <3>1, LeastNumber
  <2>2. k \in 1..n
    BY FoldsSteps
  <2>3. k - 1 \in 0..n /\ ~(k <= k - 1)
    BY ONLY <2>2, n \in Nat
  <2>4. f[k - 1] = g[k - 1]
    BY <2>1, <2>3
  <2> QED
    BY <2>2, <2>4, FoldsSteps
<1> QED
  BY <1>1, FoldsSteps

\* One more turn.
LEMMA FoldsMore ==
  ASSUME NEW s, NEW more, NEW n \in Nat, NEW f, Folds(f, s, n),
         \A i \in 1..n : more[i] = s[i]
  PROVE  \E g : /\ Folds(g, more, n + 1)
                /\ g[n + 1] = Step(f[n], more[n + 1])
<1> DEFINE g == [i \in 0..n + 1 |-> IF i = n + 1 THEN Step(f[n], more[n + 1]) ELSE f[i]]
<1>1. g = [i \in 0..n + 1 |-> g[i]]
  OBVIOUS
<1>2. g[n + 1] = Step(f[n], more[n + 1])
  OBVIOUS
<1>3. \A i \in 0..n : g[i] = f[i]
  OBVIOUS
<1> HIDE DEF g
<1>4. g[0] = Start
  BY <1>3, FoldsSteps
<1>5. ASSUME NEW i \in 1..n + 1
      PROVE  g[i] = Step(g[i - 1], more[i])
  <2>1. CASE i \in 1..n
    <3>1. i \in 0..n /\ i - 1 \in 0..n
      BY <2>1
    <3> QED
      BY <1>3, <2>1, <3>1, FoldsSteps
  <2>2. CASE i = n + 1
    <3>1. i - 1 = n /\ n \in 0..n
      BY <2>2
    <3> QED
      BY <1>2, <1>3, <2>2, <3>1
  <2> QED
    BY <2>1, <2>2
<1>6. Folds(g, more, n + 1)
  <2>1. n + 1 \in Nat
    OBVIOUS
  <2> QED
    BY <1>1, <1>4, <1>5, <2>1, StepsFold
<1> QED
  BY <1>2, <1>6

\* No turn.
LEMMA FoldsNone ==
  ASSUME NEW s
  PROVE  \E f : Folds(f, s, 0)
<1> DEFINE f == [i \in 0..0 |-> Start]
<1>1. f = [i \in 0..0 |-> f[i]] /\ f[0] = Start
  OBVIOUS
<1>2. \A i \in 1..0 : f[i] = Step(f[i - 1], s[i])
  OBVIOUS
<1>3. 0 \in Nat
  OBVIOUS
<1> HIDE DEF f
<1>4. Folds(f, s, 0)
  BY <1>1, <1>2, <1>3, StepsFold
<1> QED
  BY <1>4

\* Every sequence has its turns.
LEMMA FoldsExist ==
  ASSUME NEW S, NEW s \in Seq(S)
  PROVE  \E f : Folds(f, s, Len(s))
<1> DEFINE T == {r \in Seq(S) : \E f : Folds(f, r, Len(r))}
<1>1. <<>> \in T
  <2>1. <<>> \in Seq(S) /\ Len(<<>>) = 0
    OBVIOUS
  <2> QED
    BY <2>1, FoldsNone
<1>2. ASSUME NEW r \in Seq(S), NEW x \in S, r \in T
      PROVE  Append(r, x) \in T
  <2>1. PICK f : Folds(f, r, Len(r))
    BY <1>2
  <2>2. /\ Append(r, x) \in Seq(S) /\ Len(Append(r, x)) = Len(r) + 1 /\ Len(r) \in Nat
        /\ \A i \in 1..Len(r) : Append(r, x)[i] = r[i]
    BY AppendProperties, LenProperties
  <2>3. \E g : Folds(g, Append(r, x), Len(r) + 1)
    BY <2>1, <2>2, FoldsMore
  <2> QED
    BY <2>2, <2>3
<1> HIDE DEF T
<1>3. Seq(S) \subseteq T
  BY <1>1, <1>2, SeqInduction
<1> QED
  BY <1>3 DEF T

\* A loop over a longer sequence: one more step.
THEOREM FoldAppend ==
  ASSUME NEW S, NEW s \in Seq(S), NEW x \in S
  PROVE  Fold(Append(s, x)) = Step(Fold(s), x)
<1>1. PICK f : f = CHOOSE h : Folds(h, s, Len(s))
  OBVIOUS
<1>2. Folds(f, s, Len(s)) /\ Fold(s) = f[Len(s)]
  BY <1>1, FoldsExist, FoldDef
<1>3. PICK more : more = Append(s, x)
  OBVIOUS
<1>4. /\ more \in Seq(S) /\ Len(more) = Len(s) + 1 /\ Len(s) \in Nat
      /\ more[Len(s) + 1] = x
      /\ \A i \in 1..Len(s) : more[i] = s[i]
  BY <1>3, AppendProperties, LenProperties
<1>5. PICK g : Folds(g, more, Len(s) + 1) /\ g[Len(s) + 1] = Step(f[Len(s)], x)
  BY <1>2, <1>4, FoldsMore
<1>6. PICK k : k = CHOOSE h : Folds(h, more, Len(more))
  OBVIOUS
<1>7. Folds(k, more, Len(more)) /\ Fold(more) = k[Len(more)]
  BY <1>4, <1>5, <1>6, FoldDef
<1>8. k = g
  <2>1. Len(s) + 1 \in Nat
    BY <1>4
  <2> QED
    BY <1>4, <1>5, <1>7, <2>1, FoldsUnique
<1> QED
  BY <1>2, <1>3, <1>4, <1>5, <1>7, <1>8

\* A loop over nothing.
THEOREM FoldEmpty == Fold(<<>>) = Start
<1>1. Len(<<>>) = 0
  OBVIOUS
<1>2. PICK f : f = CHOOSE h : Folds(h, <<>>, 0)
  OBVIOUS
<1>3. Folds(f, <<>>, 0)
  BY <1>2, FoldsNone
<1>4. f[0] = Start
  BY <1>3, FoldsSteps
<1> QED
  BY <1>1, <1>2, <1>4, FoldDef

\* What every step keeps, the loop keeps.
THEOREM FoldType ==
  ASSUME NEW S, NEW A, Start \in A, \A a \in A, x \in S : Step(a, x) \in A,
         NEW s \in Seq(S)
  PROVE  Fold(s) \in A
<1> DEFINE T == {r \in Seq(S) : Fold(r) \in A}
<1>1. <<>> \in T
  BY FoldEmpty
<1>2. ASSUME NEW r \in Seq(S), NEW x \in S, r \in T
      PROVE  Append(r, x) \in T
  <2>1. Append(r, x) \in Seq(S) /\ Fold(Append(r, x)) = Step(Fold(r), x)
    BY AppendProperties, FoldAppend
  <2> QED
    BY <1>2, <2>1
<1> HIDE DEF T
<1>3. Seq(S) \subseteq T
  BY <1>1, <1>2, SeqInduction
<1> QED
  BY <1>3 DEF T
=============================================================================
