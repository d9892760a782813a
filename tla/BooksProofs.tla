---------------------------- MODULE BooksProofs ----------------------------
(***************************************************************************)
(* What an outlet's books keep, for any ops, any number of transactions    *)
(* over them at once and any order of their statements: each document has  *)
(* the next number of its series and stands in a month that was open, and  *)
(* what the back office books it books once and at what its rows say.      *)
(* And what the push handler keeps that hands those ops on.                *)
(***************************************************************************)
EXTENDS SyncPush, OutletBooks, SequenceTheorems, FiniteSetTheorems, WellFoundedInduction, TLAPS

\* What holds of 0, and of a number after each it holds of, holds of every number.
LEMMA Counting ==
  ASSUME NEW S, 0 \in S, \A n \in Nat : n \in S => n + 1 \in S PROVE \A n \in Nat : n \in S
  <1> SUFFICES ASSUME NEW m \in Nat, m \notin S PROVE FALSE
    OBVIOUS
  <1> DEFINE T == {n \in Nat : n \notin S}
             R == OpToRel(<, Nat)
  <1>1. IsWellFoundedOn(R, Nat)
    BY NatLessThanWellFounded, Zenon
  <1>2. T \subseteq Nat /\ T # {}
    OBVIOUS
  <1>3. PICK n \in T : \A k \in T : ~(<<k, n>> \in R)
    <2> HIDE DEF R, T
    <2> QED BY <1>1, <1>2, WFMin
  <1>4. n # 0
    OBVIOUS
  <1>5. n - 1 \in Nat /\ n - 1 < n
    BY <1>4
  <1>6. n - 1 \in S
    BY <1>3, <1>5 DEF OpToRel
  <1> QED BY <1>5, <1>6

\* The element of a set that a sum takes first, and what it leaves.
First(s) == CHOOSE x \in s : TRUE
Rest(s) == s \ {First(s)}

LEMMA FirstRest ==
  ASSUME NEW s, s # {}, IsFiniteSet(s)
  PROVE  /\ First(s) \in s /\ IsFiniteSet(Rest(s)) /\ Rest(s) \subseteq s
         /\ Cardinality(s) \in Nat /\ Cardinality(Rest(s)) = Cardinality(s) - 1
         /\ Cardinality(Rest(s)) \in Nat
  <1>1. First(s) \in s
    BY DEF First
  <1> QED BY <1>1, FS_RemoveElement, FS_CardinalityType DEF Rest

\* The sums over every part of S.
SumMap(f, S, g) == g = [s \in SUBSET S |-> IF s = {} THEN 0 ELSE f[First(s)] + g[Rest(s)]]
\* The sums over its parts of at most n elements.
Parts(S, n) == {s \in SUBSET S : Cardinality(s) <= n}
SumPart(f, S, n, g) == g = [s \in Parts(S, n) |-> IF s = {} THEN 0 ELSE f[First(s)] + g[Rest(s)]]

LEMMA SumIs ==
  ASSUME NEW f, NEW S PROVE SumFunctionOnSet(f, S) = (CHOOSE g : SumMap(f, S, g))[S]
  BY DEF SumFunctionOnSet, FoldFunctionOnSet, MapThenFoldSet, SumMap, First, Rest

LEMMA SumExists ==
  ASSUME NEW f, NEW S, IsFiniteSet(S) PROVE \E g : SumMap(f, S, g)
  <1> DEFINE N == {n \in Nat : \E g : SumPart(f, S, n, g)}
  <1>1. \A s \in SUBSET S : IsFiniteSet(s) /\ Cardinality(s) \in Nat /\ Cardinality(s) <= Cardinality(S)
    BY FS_Subset, FS_CardinalityType
  <1>2. 0 \in N
    <2>1. \A s \in Parts(S, 0) : s = {}
      BY <1>1, FS_EmptySet DEF Parts
    <2>2. SumPart(f, S, 0, [s \in Parts(S, 0) |-> 0])
      BY <2>1 DEF SumPart
    <2> QED BY <2>2
  <1>3. ASSUME NEW n \in Nat, n \in N PROVE n + 1 \in N
    <2>1. PICK g : SumPart(f, S, n, g)
      BY <1>3
    <2> DEFINE h == [s \in Parts(S, n + 1) |-> IF s = {} THEN 0 ELSE f[First(s)] + g[Rest(s)]]
    <2>2. ASSUME NEW s \in Parts(S, n + 1), s # {} PROVE h[Rest(s)] = g[Rest(s)]
      <3>1. s \in SUBSET S /\ IsFiniteSet(s) /\ Cardinality(s) <= n + 1
        BY <1>1 DEF Parts
      <3>2. Rest(s) \in Parts(S, n) /\ Rest(s) \in Parts(S, n + 1)
        BY <2>2, <3>1, FirstRest DEF Parts
      <3>3. g[Rest(s)] = IF Rest(s) = {} THEN 0 ELSE f[First(Rest(s))] + g[Rest(Rest(s))]
        BY <2>1, <3>2 DEF SumPart
      <3> QED BY <3>2, <3>3
    <2>3. h = [s \in Parts(S, n + 1) |-> IF s = {} THEN 0 ELSE f[First(s)] + h[Rest(s)]]
      BY <2>2
    <2>4. SumPart(f, S, n + 1, h)
      BY <2>3 DEF SumPart
    <2> QED BY <2>4
  <1>4. Cardinality(S) \in N
    <2>1. \A n \in Nat : n \in N => n + 1 \in N
      BY <1>3
    <2>2. \A n \in Nat : n \in N
      <3> HIDE DEF N
      <3> QED BY <1>2, <2>1, Counting
    <2> QED BY <2>2, FS_CardinalityType
  <1>5. PICK g : SumPart(f, S, Cardinality(S), g)
    BY <1>4
  <1>6. Parts(S, Cardinality(S)) = SUBSET S
    BY <1>1 DEF Parts
  <1> QED BY <1>5, <1>6 DEF SumPart, SumMap

\* What a sum is of depends on what is summed, and on nothing else.
LEMMA SumMapsAgree ==
  ASSUME NEW f, NEW S, NEW g, NEW e, NEW T, NEW h, SumMap(f, S, g), SumMap(e, T, h),
         NEW s, s \subseteq S, s \subseteq T, IsFiniteSet(s), \A x \in s : f[x] = e[x]
  PROVE  g[s] = h[s]
  <1> DEFINE Good(r) == IsFiniteSet(r) /\ r \subseteq s => g[r] = h[r]
             N == {n \in Nat : \A r \in SUBSET s : Cardinality(r) = n => g[r] = h[r]}
  <1>1. \A r \in SUBSET s : IsFiniteSet(r) /\ Cardinality(r) \in Nat
    BY FS_Subset, FS_CardinalityType
  <1>2. \A r \in SUBSET s : /\ g[r] = IF r = {} THEN 0 ELSE f[First(r)] + g[Rest(r)]
                            /\ h[r] = IF r = {} THEN 0 ELSE e[First(r)] + h[Rest(r)]
    BY DEF SumMap
  <1>3. 0 \in N
    BY <1>1, <1>2, FS_EmptySet
  <1>4. ASSUME NEW n \in Nat, n \in N PROVE n + 1 \in N
    <2>1. ASSUME NEW r \in SUBSET s, Cardinality(r) = n + 1 PROVE g[r] = h[r]
      <3>1. r # {}
        BY <2>1, FS_EmptySet
      <3>2. First(r) \in r /\ Rest(r) \in SUBSET s /\ Cardinality(Rest(r)) = n
        BY <1>1, <2>1, <3>1, FirstRest
      <3>3. g[Rest(r)] = h[Rest(r)]
        BY <1>4, <3>2
      <3>4. f[First(r)] = e[First(r)]
        BY <3>2
      <3> QED BY <1>2, <3>1, <3>3, <3>4
    <2> QED BY <2>1
  <1>5. \A n \in Nat : n \in N
    <2>1. \A n \in Nat : n \in N => n + 1 \in N
      BY <1>4
    <2> HIDE DEF N
    <2> QED BY <1>3, <2>1, Counting
  <1> QED BY <1>1, <1>5

LEMMA SumSame ==
  ASSUME NEW f, NEW e, NEW S, IsFiniteSet(S), \A x \in S : f[x] = e[x]
  PROVE  SumFunctionOnSet(f, S) = SumFunctionOnSet(e, S)
  <1>1. SumMap(f, S, CHOOSE g : SumMap(f, S, g)) /\ SumMap(e, S, CHOOSE g : SumMap(e, S, g))
    BY SumExists
  <1> QED BY <1>1, SumIs, SumMapsAgree

LEMMA SumNothing == ASSUME NEW f PROVE SumFunctionOnSet(f, {}) = 0
  <1>1. SumMap(f, {}, CHOOSE g : SumMap(f, {}, g))
    BY SumExists, FS_EmptySet
  <1>2. (CHOOSE g : SumMap(f, {}, g))[{}] = 0
    BY <1>1 DEF SumMap
  <1> QED BY <1>2, SumIs

LEMMA SumFirst ==
  ASSUME NEW f, NEW S, IsFiniteSet(S), S # {}
  PROVE  SumFunctionOnSet(f, S) = f[First(S)] + SumFunctionOnSet(f, Rest(S))
  <1>1. PICK g : g = CHOOSE x : SumMap(f, S, x)
    OBVIOUS
  <1>2. PICK h : h = CHOOSE x : SumMap(f, Rest(S), x)
    OBVIOUS
  <1>3. SumMap(f, S, g) /\ SumMap(f, Rest(S), h)
    BY <1>1, <1>2, SumExists, FirstRest
  <1>4. g[Rest(S)] = h[Rest(S)]
    BY <1>3, SumMapsAgree, FirstRest
  <1>5. g[S] = f[First(S)] + g[Rest(S)]
    BY <1>3 DEF SumMap
  <1> QED BY <1>1, <1>2, <1>4, <1>5, SumIs

LEMMA SumType ==
  ASSUME NEW f, NEW S, IsFiniteSet(S), \A x \in S : f[x] \in Int
  PROVE  SumFunctionOnSet(f, S) \in Int
  <1> DEFINE N == {n \in Nat : \A r \in SUBSET S : Cardinality(r) = n => SumFunctionOnSet(f, r) \in Int}
  <1>1. \A r \in SUBSET S : IsFiniteSet(r) /\ Cardinality(r) \in Nat
    BY FS_Subset, FS_CardinalityType
  <1>2. 0 \in N
    BY <1>1, FS_EmptySet, SumNothing
  <1>3. ASSUME NEW n \in Nat, n \in N PROVE n + 1 \in N
    <2>1. ASSUME NEW r \in SUBSET S, Cardinality(r) = n + 1 PROVE SumFunctionOnSet(f, r) \in Int
      <3>1. r # {}
        BY <2>1, FS_EmptySet
      <3>2. First(r) \in r /\ Rest(r) \in SUBSET S /\ Cardinality(Rest(r)) = n
        BY <1>1, <2>1, <3>1, FirstRest
      <3>3. SumFunctionOnSet(f, Rest(r)) \in Int /\ f[First(r)] \in Int
        BY <1>3, <3>2
      <3> QED BY <1>1, <3>1, <3>3, SumFirst
    <2> QED BY <2>1
  <1>4. \A n \in Nat : n \in N
    <2>1. \A n \in Nat : n \in N => n + 1 \in N
      BY <1>3
    <2> HIDE DEF N
    <2> QED BY <1>2, <2>1, Counting
  <1> QED BY <1>1, <1>4

\* One more is summed: in whatever order.
LEMMA SumMore ==
  ASSUME NEW f, NEW S, IsFiniteSet(S), NEW y, y \notin S, \A x \in S \cup {y} : f[x] \in Int
  PROVE  SumFunctionOnSet(f, S \cup {y}) = SumFunctionOnSet(f, S) + f[y]
  <1> DEFINE U == S \cup {y}
             N == {n \in Nat : \A r \in SUBSET U, z \in U : Cardinality(r) = n /\ z \notin r =>
                     SumFunctionOnSet(f, r \cup {z}) = SumFunctionOnSet(f, r) + f[z]}
  <1>0. IsFiniteSet(U)
    BY FS_AddElement
  <1>1. \A r \in SUBSET U : /\ IsFiniteSet(r) /\ Cardinality(r) \in Nat
                            /\ SumFunctionOnSet(f, r) \in Int
    <2> SUFFICES ASSUME NEW r \in SUBSET U
                 PROVE  /\ IsFiniteSet(r) /\ Cardinality(r) \in Nat
                        /\ SumFunctionOnSet(f, r) \in Int
      OBVIOUS
    <2>1. IsFiniteSet(r) /\ \A x \in r : f[x] \in Int
      BY <1>0, FS_Subset
    <2> QED BY <2>1, FS_CardinalityType, SumType
  <1>2. ASSUME NEW n \in Nat, \A k \in 0..(n - 1) : k \in N,
               NEW r \in SUBSET U, NEW z \in U, Cardinality(r) = n, z \notin r
        PROVE  SumFunctionOnSet(f, r \cup {z}) = SumFunctionOnSet(f, r) + f[z]
    <2>1. PICK q : q = r \cup {z}
      OBVIOUS
    <2>2. q \in SUBSET U /\ q # {} /\ IsFiniteSet(q)
      BY <1>1, <2>1
    <2>3. PICK x : x = First(q)
      OBVIOUS
    <2>4. x \in q /\ SumFunctionOnSet(f, q) = f[x] + SumFunctionOnSet(f, q \ {x}) /\ f[x] \in Int
          /\ f[z] \in Int
      BY <2>1, <2>2, <2>3, SumFirst, FirstRest DEF Rest
    <2>5. CASE x = z
      <3>1. q \ {x} = r
        BY <2>1, <2>5, <1>2
      <3>2. PICK a, b \in Int : a = SumFunctionOnSet(f, r) /\ b = f[z]
        BY <1>1, <2>4
      <3>3. SumFunctionOnSet(f, q) = b + a
        BY <2>4, <2>5, <3>1, <3>2
      <3> QED BY <2>1, <3>2, <3>3
    <2>6. CASE x # z
      <3>1. x \in r /\ x \in U
        BY <2>1, <2>4, <2>6
      <3>2. PICK p : p = r \ {x}
        OBVIOUS
      <3>3. p \in SUBSET U /\ Cardinality(p) = n - 1 /\ n - 1 \in 0..(n - 1) /\ x \notin p /\ z \notin p
        BY <1>1, <1>2, <3>1, <3>2, FS_RemoveElement
      <3>4. q \ {x} = p \cup {z} /\ r = p \cup {x}
        BY <2>1, <2>6, <3>1, <3>2
      <3>5. n - 1 \in N
        BY <1>2, <3>3
      <3>6. SumFunctionOnSet(f, p \cup {z}) = SumFunctionOnSet(f, p) + f[z]
        BY <3>3, <3>5
      <3>7. SumFunctionOnSet(f, p \cup {x}) = SumFunctionOnSet(f, p) + f[x]
        BY <3>1, <3>3, <3>5
      <3>8. SumFunctionOnSet(f, p) \in Int
        BY <1>1, <3>3
      <3>9. PICK a, b, c \in Int : a = SumFunctionOnSet(f, p) /\ b = f[z] /\ c = f[x]
        BY <2>4, <3>8
      <3>10. SumFunctionOnSet(f, q) = c + (a + b) /\ SumFunctionOnSet(f, r) = a + c
        BY <2>4, <3>4, <3>6, <3>7, <3>9
      <3> QED BY <2>1, <3>9, <3>10
    <2> QED BY <2>5, <2>6
  <1>3. \A n \in Nat : \A k \in 0..n : k \in N
    <2> DEFINE M == {n \in Nat : \A k \in 0..n : k \in N}
    <2>1. 0 \in M
      <3>1. \A k \in 0..(0 - 1) : k \in N
        OBVIOUS
      <3>2. 0 \in N
        BY <1>2, <3>1
      <3> QED BY <3>2
    <2>2. ASSUME NEW n \in Nat, n \in M PROVE n + 1 \in M
      <3>1. \A k \in 0..((n + 1) - 1) : k \in N
        BY <2>2
      <3>2. n + 1 \in N
        <4>1. n + 1 \in Nat
          OBVIOUS
        <4> QED BY <1>2, <3>1, <4>1
      <3>3. \A k \in 0..(n + 1) : k \in 0..n \/ k = n + 1
        OBVIOUS
      <3> HIDE DEF N
      <3> QED BY <2>2, <3>2, <3>3
    <2>3. \A n \in Nat : n \in M => n + 1 \in M
      BY <2>2
    <2>4. \A n \in Nat : n \in M
      <3> HIDE DEF M
      <3> QED BY <2>1, <2>3, Counting
    <2> QED BY <2>4
  <1>4. Cardinality(S) \in Nat /\ S \in SUBSET U /\ y \in U
    BY FS_CardinalityType
  <1>5. Cardinality(S) \in N
    <2> HIDE DEF N
    <2> QED BY <1>3, <1>4
  <1> QED BY <1>4, <1>5

-----------------------------------------------------------------------------
(* The statements of an op, and how far a transaction is.                   *)

AllKinds == SalesKinds \cup StockKinds \cup OfficeKinds
Steps(k) == IF k \in SalesKinds THEN SalesSteps(k)
            ELSE IF k \in StockKinds THEN StockSteps(k) ELSE OfficeSteps(k)

Distinct(S) == \A i, j \in 1..Len(S) : S[i] = S[j] => i = j

\* What is left of S.
Ahead(S, todo) == \E n \in 0..Len(S) : todo = SubSeq(S, n + 1, Len(S))

LEMMA AheadAll == ASSUME NEW A, NEW S \in Seq(A) PROVE Ahead(S, S)
  <1>1. S = SubSeq(S, 0 + 1, Len(S)) /\ 0 \in 0..Len(S)
    OBVIOUS
  <1> QED BY <1>1 DEF Ahead

\* A statement is made: it is not made again, and what comes before it has been.
LEMMA AheadStep ==
  ASSUME NEW A, NEW S \in Seq(A), Distinct(S), NEW todo, Ahead(S, todo), todo # <<>>
  PROVE  /\ Ahead(S, Tail(todo)) /\ Head(todo) \in Range(todo) /\ Head(todo) \in Range(S)
         /\ Range(Tail(todo)) = Range(todo) \ {Head(todo)}
  <1>1. PICK n \in 0..Len(S) : todo = SubSeq(S, n + 1, Len(S))
    BY DEF Ahead
  <1>2. n < Len(S) /\ Len(todo) = Len(S) - n /\ todo \in Seq(A)
        /\ \A i \in 1..Len(todo) : todo[i] = S[n + i]
    BY <1>1
  <1>3. Head(todo) = S[n + 1] /\ Len(Tail(todo)) = Len(S) - (n + 1) /\ Tail(todo) \in Seq(A)
        /\ \A i \in 1..Len(Tail(todo)) : Tail(todo)[i] = S[n + 1 + i]
    BY <1>2
  <1>4. Tail(todo) = SubSeq(S, (n + 1) + 1, Len(S))
    <2>1. PICK q : q = SubSeq(S, (n + 1) + 1, Len(S))
      OBVIOUS
    <2>2. q \in Seq(A) /\ Len(q) = Len(S) - (n + 1) /\ \A i \in 1..Len(q) : q[i] = S[n + 1 + i]
      BY <1>2, <2>1
    <2> QED BY <1>3, <2>1, <2>2, SeqEqual
  <1>5. Ahead(S, Tail(todo))
    <2>1. n + 1 \in 0..Len(S)
      BY <1>2
    <2> QED BY <1>4, <2>1 DEF Ahead
  <1>6. Range(todo) = {S[i] : i \in (n + 1)..Len(S)}
    <2>1. \A i \in (n + 1)..Len(S) : S[i] = todo[i - n] /\ i - n \in 1..Len(todo)
      BY <1>2
    <2>2. DOMAIN todo = 1..Len(todo)
      BY <1>2
    <2>3. \A i \in 1..Len(todo) : todo[i] = S[n + i] /\ n + i \in (n + 1)..Len(S)
      BY <1>2
    <2>4. Range(todo) = {todo[i] : i \in 1..Len(todo)}
      BY <2>2 DEF Range
    <2>5. \A i \in 1..Len(todo) : todo[i] \in {S[m] : m \in (n + 1)..Len(S)}
      BY <2>3
    <2>6. \A i \in (n + 1)..Len(S) : \E m \in 1..Len(todo) : S[i] = todo[m]
      BY <2>1
    <2>7. PICK s, t : s = Range(todo) /\ t = {S[m] : m \in (n + 1)..Len(S)}
      OBVIOUS
    <2>8. s \subseteq t
      BY <2>4, <2>5, <2>7
    <2>9. t \subseteq s
      BY <2>4, <2>6, <2>7
    <2> QED BY <2>7, <2>8, <2>9
  <1>7. Range(Tail(todo)) = {S[i] : i \in (n + 2)..Len(S)}
    <2>1. \A i \in (n + 2)..Len(S) : S[i] = Tail(todo)[i - (n + 1)] /\ i - (n + 1) \in 1..Len(Tail(todo))
      BY <1>2, <1>3
    <2>2. \A i \in 1..Len(Tail(todo)) : Tail(todo)[i] = S[n + 1 + i] /\ n + 1 + i \in (n + 2)..Len(S)
      BY <1>2, <1>3
    <2>3. PICK q : q = Tail(todo)
      OBVIOUS
    <2>4. q \in Seq(A)
      BY <1>3, <2>3
    <2>5. Range(q) = {q[i] : i \in 1..Len(q)}
      BY <2>4 DEF Range
    <2>6. \A i \in 1..Len(q) : q[i] \in {S[m] : m \in (n + 2)..Len(S)}
      BY <2>2, <2>3
    <2>7. \A i \in (n + 2)..Len(S) : \E m \in 1..Len(q) : S[i] = q[m]
      BY <2>1, <2>3
    <2> QED BY <2>3, <2>5, <2>6, <2>7
  <1>8. \A i \in (n + 2)..Len(S) : S[i] # S[n + 1]
    BY <1>2 DEF Distinct
  <1>9. \A i \in (n + 1)..Len(S) : i = n + 1 \/ i \in (n + 2)..Len(S)
    OBVIOUS
  <1>10. Range(Tail(todo)) = Range(todo) \ {Head(todo)}
    BY <1>2, <1>3, <1>6, <1>7, <1>8, <1>9
  <1>12. Head(todo) \in Range(todo) /\ Head(todo) \in Range(S)
    BY <1>2, <1>3, <1>6 DEF Range
  <1> QED BY <1>5, <1>10, <1>12

LEMMA AheadIn ==
  ASSUME NEW A, NEW S \in Seq(A), NEW todo, Ahead(S, todo) PROVE Range(todo) \subseteq Range(S)
  <1>1. PICK n \in 0..Len(S) : todo = SubSeq(S, n + 1, Len(S))
    BY DEF Ahead
  <1>2. Len(todo) = Len(S) - n /\ \A i \in 1..Len(todo) : todo[i] = S[n + i] /\ n + i \in 1..Len(S)
    BY <1>1
  <1> QED BY <1>1, <1>2 DEF Range

\* The order of the statements, but for "credit": a sale's is early, others' are late.
Rank(a) ==
  IF a \in {"number", "find", "balance", "look", "net", "lot", "door", "shift?", "use"} THEN 1
  ELSE IF a \in {"sold", "split", "claim", "adjust", "open", "count", "receive", "price", "rates",
                 "shift", "transfer", "make", "throw", "claimMonth", "match", "reopen", "in",
                 "out", "period"} THEN 2
  ELSE IF a = "earn" THEN 3 ELSE IF a = "land" THEN 4
  ELSE IF a = "ensure" THEN 5 ELSE IF a = "insert" THEN 6 ELSE IF a = "post" THEN 7
  ELSE IF a \in {"return", "empty"} THEN 8 ELSE 9
Ranked(S) == \A i, j \in 1..Len(S) : i < j => "credit" \in {S[i], S[j]} \/ Rank(S[i]) < Rank(S[j])

InOrder(S) == S \in Seq(Range(S)) /\ S # <<>> /\ Distinct(S) /\ Ranked(S)

\* A statement is made: it is not made again, and none that ranks lower is still to come.
LEMMA OrderStep ==
  ASSUME NEW S, InOrder(S), NEW todo, Ahead(S, todo), todo # <<>>
  PROVE  /\ Ahead(S, Tail(todo)) /\ Head(todo) \in Range(todo) /\ Head(todo) \in Range(S)
         /\ Range(Tail(todo)) = Range(todo) \ {Head(todo)}
         /\ Head(todo) # "credit" => \A a \in Range(todo) \ {"credit"} : Rank(Head(todo)) <= Rank(a)
  <1>1. PICK n \in 0..Len(S) : todo = SubSeq(S, n + 1, Len(S))
    BY DEF Ahead
  <1>2. /\ n < Len(S) /\ Len(todo) = Len(S) - n /\ DOMAIN todo = 1..Len(todo)
        /\ \A i \in 1..Len(todo) : todo[i] = S[n + i]
    BY <1>1 DEF InOrder
  <1>3. Head(todo) = S[n + 1]
    BY <1>2
  <1>4. ASSUME Head(todo) # "credit", NEW a \in Range(todo) \ {"credit"} PROVE Rank(Head(todo)) <= Rank(a)
    <2>1. PICK i \in 1..Len(todo) : a = S[n + i]
      BY <1>2, <1>4 DEF Range
    <2>2. i = 1 \/ Rank(S[n + 1]) < Rank(S[n + i])
      <3>1. i # 1 => n + 1 \in 1..Len(S) /\ n + i \in 1..Len(S) /\ n + 1 < n + i
        BY <1>2
      <3> QED BY <1>3, <1>4, <2>1, <3>1 DEF InOrder, Ranked
    <2>3. \A b : Rank(b) \in Nat
      BY DEF Rank
    <2>4. PICK p, q \in Nat : p = Rank(S[n + 1]) /\ q = Rank(S[n + i])
      BY <2>3
    <2>5. i = 1 => p = q
      BY <2>4
    <2>6. p <= q
      BY <2>2, <2>4, <2>5
    <2> QED BY <1>3, <2>1, <2>4, <2>6
  <1> QED BY <1>4, AheadStep DEF InOrder

\* Every handler's statements are in order; the last ones of a handler that books are
\* postJournal's.
LEMMA StepsInOrder ==
  ASSUME NEW k \in AllKinds PROVE InOrder(Steps(k))
  <1> PICK S : S = Steps(k)
    OBVIOUS
  <1> SUFFICES InOrder(S)
    OBVIOUS
  <1>1. CASE k = "sale"
    <2>1. S = <<"number", "credit", "sold", "earn", "land", "ensure", "insert", "post">>
      BY <1>1 DEF Steps, SalesSteps, StockSteps, OfficeSteps, SalesKinds, StockKinds, ClaimKinds
    <2> QED BY <2>1 DEF InOrder, Distinct, Ranked, Rank, Range
  <1>2. CASE k = "refund"
    <2>1. S = <<"number", "split", "ensure", "insert", "post", "credit", "return">>
      BY <1>2 DEF Steps, SalesSteps, StockSteps, OfficeSteps, SalesKinds, StockKinds, ClaimKinds
    <2> QED BY <2>1 DEF InOrder, Distinct, Ranked, Rank, Range
  <1>3. CASE k = "void"
    <2>1. S = <<"find", "claim", "ensure", "insert", "post", "return", "member">>
      BY <1>3 DEF Steps, SalesSteps, StockSteps, OfficeSteps, SalesKinds, StockKinds, ClaimKinds
    <2> QED BY <2>1 DEF InOrder, Distinct, Ranked, Rank, Range
  <1>4. CASE k = "settle"
    <2>1. S = <<"ensure", "insert", "post", "credit">>
      BY <1>4 DEF Steps, SalesSteps, StockSteps, OfficeSteps, SalesKinds, StockKinds, ClaimKinds
    <2> QED BY <2>1 DEF InOrder, Distinct, Ranked, Rank, Range
  <1>5. CASE k = "points"
    <2>1. S = <<"balance", "adjust", "ensure", "insert", "post">>
      BY <1>5 DEF Steps, SalesSteps, StockSteps, OfficeSteps, SalesKinds, StockKinds, ClaimKinds
    <2> QED BY <2>1 DEF InOrder, Distinct, Ranked, Rank, Range
  <1>6. CASE k = "open"
    <2>1. S = <<"look", "open">>
      BY <1>6 DEF Steps, SalesSteps, StockSteps, OfficeSteps, SalesKinds, StockKinds, ClaimKinds
    <2> QED BY <2>1 DEF InOrder, Distinct, Ranked, Rank, Range
  <1>7. CASE k = "close"
    <2>1. S = <<"look", "count", "ensure", "insert", "post">>
      BY <1>7 DEF Steps, SalesSteps, StockSteps, OfficeSteps, SalesKinds, StockKinds, ClaimKinds
    <2> QED BY <2>1 DEF InOrder, Distinct, Ranked, Rank, Range
  <1>8. CASE k = "grn"
    <2>1. S = <<"receive">>
      BY <1>8 DEF Steps, SalesSteps, StockSteps, OfficeSteps, SalesKinds, StockKinds, ClaimKinds
    <2> QED BY <2>1 DEF InOrder, Distinct, Ranked, Rank, Range
  <1>9. CASE k = "door"
    <2>1. S = <<"receive", "ensure", "insert", "post">>
      BY <1>9 DEF Steps, SalesSteps, StockSteps, OfficeSteps, SalesKinds, StockKinds, ClaimKinds
    <2> QED BY <2>1 DEF InOrder, Distinct, Ranked, Rank, Range
  <1>10. CASE k = "price"
    <2>1. S = <<"price", "ensure", "insert", "post">>
      BY <1>10 DEF Steps, SalesSteps, StockSteps, OfficeSteps, SalesKinds, StockKinds, ClaimKinds
    <2> QED BY <2>1 DEF InOrder, Distinct, Ranked, Rank, Range
  <1>11. CASE k = "doorprice"
    <2>1. S = <<"door", "rates", "ensure", "insert", "post">>
      BY <1>11 DEF Steps, SalesSteps, StockSteps, OfficeSteps, SalesKinds, StockKinds, ClaimKinds
    <2> QED BY <2>1 DEF InOrder, Distinct, Ranked, Rank, Range
  <1>12. CASE k \in {"adjust", "count"}
    <2>1. S = <<"shift", "ensure", "insert", "post">>
      BY <1>12 DEF Steps, SalesSteps, StockSteps, OfficeSteps, SalesKinds, StockKinds, ClaimKinds
    <2> QED BY <2>1 DEF InOrder, Distinct, Ranked, Rank, Range
  <1>13. CASE k \in {"prep", "dispatch"}
    <2>1. S = <<"shift">>
      BY <1>13 DEF Steps, SalesSteps, StockSteps, OfficeSteps, SalesKinds, StockKinds, ClaimKinds
    <2> QED BY <2>1 DEF InOrder, Distinct, Ranked, Rank, Range
  <1>14. CASE k = "transfer"
    <2>1. S = <<"transfer">>
      BY <1>14 DEF Steps, SalesSteps, StockSteps, OfficeSteps, SalesKinds, StockKinds, ClaimKinds
    <2> QED BY <2>1 DEF InOrder, Distinct, Ranked, Rank, Range
  <1>15. CASE k = "produce"
    <2>1. S = <<"use", "make">>
      BY <1>15 DEF Steps, SalesSteps, StockSteps, OfficeSteps, SalesKinds, StockKinds, ClaimKinds
    <2> QED BY <2>1 DEF InOrder, Distinct, Ranked, Rank, Range
  <1>16. CASE k = "lot"
    <2>1. S = <<"lot", "throw", "ensure", "insert", "post", "empty">>
      BY <1>16 DEF Steps, SalesSteps, StockSteps, OfficeSteps, SalesKinds, StockKinds, ClaimKinds
    <2> QED BY <2>1 DEF InOrder, Distinct, Ranked, Rank, Range
  <1>17. CASE k \in ClaimKinds
    <2>1. S = <<"claimMonth", "ensure", "insert", "post">>
      BY <1>17 DEF Steps, SalesSteps, StockSteps, OfficeSteps, SalesKinds, StockKinds, ClaimKinds
    <2> QED BY <2>1 DEF InOrder, Distinct, Ranked, Rank, Range
  <1>18. CASE k = "match"
    <2>1. S = <<"net", "match", "ensure", "insert", "post">>
      BY <1>18 DEF Steps, SalesSteps, StockSteps, OfficeSteps, SalesKinds, StockKinds, ClaimKinds
    <2> QED BY <2>1 DEF InOrder, Distinct, Ranked, Rank, Range
  <1>19. CASE k = "reopen"
    <2>1. S = <<"reopen">>
      BY <1>19 DEF Steps, SalesSteps, StockSteps, OfficeSteps, SalesKinds, StockKinds, ClaimKinds
    <2> QED BY <2>1 DEF InOrder, Distinct, Ranked, Rank, Range
  <1>20. CASE k \in {"pay", "asset", "repair", "manual"}
    <2>1. S = <<"ensure", "insert", "post">>
      BY <1>20 DEF Steps, SalesSteps, StockSteps, OfficeSteps, SalesKinds, StockKinds, ClaimKinds
    <2> QED BY <2>1 DEF InOrder, Distinct, Ranked, Rank, Range
  <1>21. CASE k = "in"
    <2>1. S = <<"shift?", "in">>
      BY <1>21 DEF Steps, SalesSteps, StockSteps, OfficeSteps, SalesKinds, StockKinds, ClaimKinds
    <2> QED BY <2>1 DEF InOrder, Distinct, Ranked, Rank, Range
  <1>22. CASE k = "out"
    <2>1. S = <<"out">>
      BY <1>22 DEF Steps, SalesSteps, StockSteps, OfficeSteps, SalesKinds, StockKinds, ClaimKinds
    <2> QED BY <2>1 DEF InOrder, Distinct, Ranked, Rank, Range
  <1>23. CASE k \in {"shut", "reopenMonth"}
    <2>1. S = <<"period">>
      BY <1>23 DEF Steps, SalesSteps, StockSteps, OfficeSteps, SalesKinds, StockKinds, ClaimKinds
    <2> QED BY <2>1 DEF InOrder, Distinct, Ranked, Rank, Range
  <1> QED BY <1>1, <1>2, <1>3, <1>4, <1>5, <1>6, <1>7, <1>8, <1>9, <1>10, <1>11, <1>12, <1>13,
        <1>14, <1>15, <1>16, <1>17, <1>18, <1>19, <1>20, <1>21, <1>22, <1>23
          DEF AllKinds, SalesKinds, StockKinds, OfficeKinds

Fields == {"op", "todo", "w", "entries", "moved", "legs", "month", "no", "seen", "fresh",
           "session", "wasOpen", "wasShut", "drift"}
Shape(t) ==
  t = [op |-> t.op, todo |-> t.todo, w |-> t.w, entries |-> t.entries, moved |-> t.moved,
       legs |-> t.legs, month |-> t.month, no |-> t.no, seen |-> t.seen, fresh |-> t.fresh,
       session |-> t.session, wasOpen |-> t.wasOpen, wasShut |-> t.wasShut, drift |-> t.drift]

\* The statements that give an entry its legs.
LegSteps == {"sold", "split", "claim", "adjust", "count", "receive", "price", "rates", "shift",
             "throw", "claimMonth", "match"}
\* What a statement writes of its transaction, and of which rows.
FieldsOf(s) ==
  (IF s \in {"find", "split", "balance", "look", "land", "ensure", "door", "lot", "net", "shift?"}
   THEN {} ELSE {"w"})
  \cup (IF s \in LegSteps THEN {"legs"} ELSE {})
  \cup (IF s \in {"balance", "look", "lot", "net"} THEN {"seen"} ELSE {})
  \cup (IF s \in {"sold", "return", "receive", "shift", "transfer", "use", "make", "throw"}
        THEN {"moved"} ELSE {})
  \cup (IF s \in {"credit", "member", "adjust", "rates", "match", "in"} THEN {"drift"} ELSE {})
  \cup (IF s \in {"ensure", "net"} THEN {"fresh"} ELSE {})
  \cup (IF s = "number" THEN {"no"} ELSE {}) \cup (IF s = "land" THEN {"month"} ELSE {})
  \cup (IF s = "post" THEN {"entries"} ELSE {})
RowsOf(s) ==
  (IF s \in {"number", "post"} THEN {"series"} ELSE {})
  \cup (IF s \in {"insert", "period"} THEN {"month"} ELSE {})
  \cup (IF s \in {"credit", "earn", "member", "adjust"} THEN {"member"} ELSE {})
  \cup (IF s \in {"open", "count"} THEN {"drawer"} ELSE {})
  \cup (IF s \in {"sold", "claim"} THEN {"sale"} ELSE {})
  \cup (IF s \in {"sold", "return", "receive", "shift", "transfer", "use", "make", "throw"}
        THEN {"item"} ELSE {})
  \cup (IF s \in {"sold", "return", "receive", "shift", "use", "empty"} THEN {"lot"} ELSE {})
  \cup (IF s \in {"sold", "return"} THEN {"draws"} ELSE {})
  \cup (IF s \in {"receive", "price", "rates"} THEN {"delivery"} ELSE {})
  \cup (IF s = "claimMonth" THEN ClaimKinds ELSE {})
  \cup (IF s \in {"match", "reopen"} THEN {"batch"} ELSE {})
  \cup (IF s \in {"in", "out"} THEN {"punch"} ELSE {})

Sound(d) == tx = [e \in Txs |-> tx[e]] /\ Shape(tx[d])

\* The transaction of d makes its next statement, s, which writes F of it.
Went(d, s, F) ==
  /\ tx[d].op # None /\ tx[d].todo # <<>> /\ s = Head(tx[d].todo) /\ Stays
  /\ tx' = [e \in Txs |-> tx'[e]] /\ \A e \in Txs \ {d} : tx'[e] = tx[e]
  /\ Shape(tx'[d]) /\ tx'[d].todo = Tail(tx[d].todo)
  /\ \A f \in Fields \ F : f # "todo" => tx'[d][f] = tx[d][f]

\* .. and of which rows: it locks them, or they are its op's own.
Locks(d, s) ==
  LET w == tx[d].w u == tx'[d].w IN
  /\ DOMAIN w \subseteq DOMAIN u
  /\ \A r : r[1] \notin RowsOf(s) => /\ r \in DOMAIN u <=> r \in DOMAIN w
                                     /\ r \in DOMAIN w => u[r] = w[r]
  /\ \A r \in DOMAIN u \ DOMAIN w : (Free(d, r) \/ r \in {SaleRow(tx[d].op), DeliveryRow(tx[d].op)})
  /\ \A o : {SaleRow(o), DeliveryRow(o)} \cap (DOMAIN u \ DOMAIN w) # {} =>
              o = tx[d].op \/ (s \in {"claim", "price", "rates"} /\ o = Payload(d).of)
Makes(d, s) == Went(d, s, FieldsOf(s)) /\ Locks(d, s)

\* what a statement locks, and writes there
Wrote(d, r, v) == Free(d, r) /\ tx'[d].w = Put(tx[d].w, r, v)

\* what t keeps of d's transaction when the next statement is s
Like(d, s, t) ==
  /\ Shape(t) /\ t.w = tx[d].w /\ t.todo = tx[d].todo
  /\ \A f \in Fields \ FieldsOf(s) : t[f] = tx[d][f]
\* r is a row that s writes, and of a sale or a delivery only that of the op's own
Ours(d, s, r) ==
  /\ r[1] \in RowsOf(s)
  /\ r[1] \notin {"sale", "delivery"} \/ (s \in {"claim", "price", "rates"} /\ r[2] = Payload(d).of)
Becomes(d, t) == \A f \in Fields : f \notin {"todo", "w"} => tx'[d][f] = t[f]

\* A statement that goes on with t, and one that writes a row besides.
LEMMA GoesWent ==
  ASSUME NEW d \in Txs, Sound(d), NEW s, At(d, s), NEW t, Shape(t), Goes(d, t), NEW F,
         \A f \in Fields \ F : t[f] = tx[d][f], t.todo = tx[d].todo
  PROVE  Went(d, s, F) /\ \A f \in Fields : f # "todo" => tx'[d][f] = t[f]
  <1>1. PICK u : u = [t EXCEPT !.todo = Tail(@)]
    OBVIOUS
  <1>2. Shape(u) /\ u.todo = Tail(t.todo) /\ \A f \in Fields : f # "todo" => u[f] = t[f]
    BY <1>1 DEF Shape, Fields
  <1>3. tx' = [tx EXCEPT ![d] = u] /\ Stays
    BY <1>1 DEF Goes
  <1>4. /\ tx' = [e \in Txs |-> tx'[e]] /\ \A e \in Txs \ {d} : tx'[e] = tx[e]
        /\ tx'[d] = u
    BY <1>3 DEF Sound
  <1> QED BY <1>2, <1>3, <1>4 DEF Went, At

LEMMA WritesWent ==
  ASSUME NEW d \in Txs, Sound(d), NEW s, At(d, s), NEW t, Shape(t), NEW r, NEW v, Writes(d, r, v, t),
         NEW F, \A f \in Fields \ F : t[f] = tx[d][f], t.w = tx[d].w, t.todo = tx[d].todo
  PROVE  /\ Went(d, s, F \cup {"w"}) /\ Wrote(d, r, v)
         /\ \A f \in Fields : f \notin {"todo", "w"} => tx'[d][f] = t[f]
  <1>1. PICK u : u = [t EXCEPT !.w = Put(@, r, v)]
    OBVIOUS
  <1>2. Shape(u) /\ u.w = Put(tx[d].w, r, v) /\ \A f \in Fields : f # "w" => u[f] = t[f]
    BY <1>1 DEF Shape, Fields
  <1>3. Goes(d, u) /\ Free(d, r)
    BY <1>1 DEF Writes
  <1>4. u.todo = tx[d].todo /\ \A f \in Fields \ (F \cup {"w"}) : u[f] = tx[d][f]
    BY <1>2 DEF Fields
  <1>5. Went(d, s, F \cup {"w"}) /\ \A f \in Fields : f # "todo" => tx'[d][f] = u[f]
    BY <1>2, <1>3, <1>4, GoesWent
  <1>6. tx'[d].w = u.w
    BY <1>5 DEF Fields
  <1> QED BY <1>2, <1>3, <1>5, <1>6 DEF Wrote

LEMMA GoesMakes ==
  ASSUME NEW d \in Txs, Sound(d), NEW s, At(d, s), NEW t, Like(d, s, t), Goes(d, t)
  PROVE  Makes(d, s) /\ Becomes(d, t) /\ tx'[d].w = tx[d].w
  <1>1. Went(d, s, FieldsOf(s)) /\ \A f \in Fields : f # "todo" => tx'[d][f] = t[f]
    BY GoesWent DEF Like
  <1>2. tx'[d].w = tx[d].w
    BY <1>1 DEF Like, Fields
  <1> QED BY <1>1, <1>2 DEF Makes, Becomes, Locks

LEMMA OneLocked ==
  ASSUME NEW d, NEW s, NEW r, NEW v, Wrote(d, r, v), Ours(d, s, r) PROVE Locks(d, s)
  BY DEF Locks, Ours, Wrote, Put, SaleRow, DeliveryRow, @@, :>

LEMMA WritesMakes ==
  ASSUME NEW d \in Txs, Sound(d), NEW s, At(d, s), NEW t, Like(d, s, t), NEW r, Ours(d, s, r),
         NEW v, Writes(d, r, v, t), "w" \in FieldsOf(s)
  PROVE  Makes(d, s) /\ Becomes(d, t) /\ Wrote(d, r, v)
  <1>1. /\ Went(d, s, FieldsOf(s) \cup {"w"}) /\ Wrote(d, r, v)
        /\ \A f \in Fields : f \notin {"todo", "w"} => tx'[d][f] = t[f]
    BY WritesWent DEF Like
  <1> QED BY <1>1, OneLocked DEF Makes, Becomes, Went

LEMMA LikeItself == ASSUME NEW d, Sound(d), NEW s PROVE Like(d, s, tx[d])
  BY DEF Like, Sound

\* what a move of stock writes: the shelf, the lots, and w as it was before
Carries(d, i, qty, lots, w) ==
  /\ \A r \in DOMAIN lots \cup {Item(i)} : Free(d, r)
  /\ tx'[d].w = (Item(i) :> Val(d, Item(i)) + qty) @@ lots @@ w
MoveOf(d, s, i, reason, qty) ==
  [op |-> tx[d].op, sale |-> s, item |-> i, reason |-> reason, qty |-> qty]
\* w is that of d's transaction, or has its op's own row besides, which s writes
Own(d, s, w) ==
  \/ w = tx[d].w
  \/ \E r, v : /\ w = Put(tx[d].w, r, v) /\ r[1] \in RowsOf(s)
               /\ r \in {SaleRow(tx[d].op), DeliveryRow(tx[d].op)}
\* s moves stock, with t and the rows of lots
MayMove(d, s, t, lots) ==
  /\ At(d, s) /\ {"w", "moved"} \subseteq FieldsOf(s) /\ "item" \in RowsOf(s)
  /\ Shape(t) /\ t.todo = tx[d].todo /\ t.op = tx[d].op /\ Own(d, s, t.w)
  /\ \A f \in Fields \ FieldsOf(s) : t[f] = tx[d][f]
  /\ \A r \in DOMAIN lots : r[1] \in RowsOf(s) \cap {"lot", "draws"}
HasMoved(d, t, i, qty, reason, sale, lots) ==
  /\ Carries(d, i, qty, lots, t.w)
  /\ \A f \in Fields : f \notin {"todo", "w", "moved"} => tx'[d][f] = t[f]
  /\ tx'[d].moved = t.moved \cup {MoveOf(d, sale, i, reason, qty)}

LEMMA MoveMakes ==
  ASSUME NEW d \in Txs, Sound(d), NEW s, NEW t, NEW lots, MayMove(d, s, t, lots),
         NEW i, NEW qty, NEW reason, NEW sale, Move(d, i, qty, reason, sale, lots, t)
  PROVE  Makes(d, s) /\ HasMoved(d, t, i, qty, reason, sale, lots)
  <1> DEFINE w == (Item(i) :> Val(d, Item(i)) + qty) @@ lots @@ t.w
             m == t.moved \cup {MoveOf(d, sale, i, reason, qty)}
  <1>0. /\ At(d, s) /\ {"w", "moved"} \subseteq FieldsOf(s) /\ "item" \in RowsOf(s)
        /\ Shape(t) /\ t.todo = tx[d].todo /\ t.op = tx[d].op /\ Own(d, s, t.w)
        /\ \A f \in Fields \ FieldsOf(s) : t[f] = tx[d][f]
        /\ \A r \in DOMAIN lots : r[1] \in RowsOf(s) \cap {"lot", "draws"}
    BY DEF MayMove
  <1>1. PICK u : u = [t EXCEPT !.w = w, !.moved = m]
    OBVIOUS
  <1>2. Goes(d, u) /\ \A r \in DOMAIN lots \cup {Item(i)} : Free(d, r)
    BY <1>0, <1>1 DEF Move, MoveOf
  <1>3. /\ Shape(u) /\ u.w = w /\ u.moved = m /\ u.todo = t.todo
        /\ \A f \in Fields : f \notin {"w", "moved"} => u[f] = t[f]
    BY <1>0, <1>1 DEF Shape, Fields
  <1>4. \A f \in Fields \ FieldsOf(s) : u[f] = tx[d][f]
    BY <1>0, <1>3
  <1> HIDE DEF w, m
  <1>5. Went(d, s, FieldsOf(s)) /\ \A f \in Fields : f # "todo" => tx'[d][f] = u[f]
    BY <1>0, <1>2, <1>3, <1>4, GoesWent
  <1>6. tx'[d].w = w /\ tx'[d].moved = m
    BY <1>3, <1>5 DEF Fields
  <1>7. Carries(d, i, qty, lots, t.w)
    BY <1>2, <1>6 DEF Carries, w
  <1>8. Locks(d, s)
    <2>1. DOMAIN w = {Item(i)} \cup DOMAIN lots \cup DOMAIN t.w
      BY DEF w, @@, :>
    <2>2. \A r : r \notin {Item(i)} \cup DOMAIN lots => w[r] = t.w[r] \/ r \notin DOMAIN w
      BY DEF w, @@, :>
    <2>3. Item(i)[1] = "item"
      BY DEF Item
    <2>4. CASE t.w = tx[d].w
      BY <1>0, <1>2, <1>6, <2>1, <2>2, <2>3, <2>4 DEF Locks, SaleRow, DeliveryRow
    <2>5. ASSUME NEW q, NEW v, t.w = Put(tx[d].w, q, v), q[1] \in RowsOf(s),
                 q \in {SaleRow(tx[d].op), DeliveryRow(tx[d].op)}
          PROVE  Locks(d, s)
      <3>1. DOMAIN t.w = {q} \cup DOMAIN tx[d].w /\ \A r \in DOMAIN tx[d].w : r # q => t.w[r] = tx[d].w[r]
        BY <2>5 DEF Put, @@, :>
      <3>2. \A r : r[1] \notin RowsOf(s) => r # q /\ r # Item(i) /\ r \notin DOMAIN lots
        BY <1>0, <2>3, <2>5
      <3>3. \A r : r[1] \notin RowsOf(s) => /\ r \in DOMAIN w <=> r \in DOMAIN tx[d].w
                                            /\ r \in DOMAIN tx[d].w => w[r] = tx[d].w[r]
        BY <2>1, <2>2, <3>1, <3>2
      <3>4. \A r \in DOMAIN w \ DOMAIN tx[d].w : Free(d, r) \/ r = q
        BY <1>2, <2>1, <3>1
      <3>5. \A o : {SaleRow(o), DeliveryRow(o)} \cap (DOMAIN w \ DOMAIN tx[d].w) # {}
            => q \in {SaleRow(o), DeliveryRow(o)}
        BY <1>0, <2>1, <2>3, <3>1 DEF SaleRow, DeliveryRow
      <3>6. \A o : q \in {SaleRow(o), DeliveryRow(o)} => o = tx[d].op
        BY <2>5 DEF SaleRow, DeliveryRow
      <3> QED BY <1>6, <2>1, <2>5, <3>1, <3>3, <3>4, <3>5, <3>6 DEF Locks
    <2> QED BY <1>0, <2>4, <2>5 DEF Own
  <1> QED BY <1>3, <1>5, <1>6, <1>7, <1>8 DEF Makes, HasMoved, m, Fields

-----------------------------------------------------------------------------
(* postJournal's statements.                                               *)

LEMMA LandMakes ==
  ASSUME NEW d \in Txs, Sound(d), Land(d)
  PROVE  /\ Makes(d, "land") /\ FirstOpen(tx[d].month) \in Months
         /\ tx'[d].month = FirstOpen(tx[d].month)
  <1> PICK t : t = [tx[d] EXCEPT !.month = FirstOpen(tx[d].month)]
    OBVIOUS
  <1>1. Like(d, "land", t) /\ t.month = FirstOpen(tx[d].month)
    BY DEF Like, Shape, Fields, FieldsOf, Sound
  <1>2. At(d, "land") /\ FirstOpen(tx[d].month) \in Months /\ Goes(d, t)
    BY DEF Land
  <1>3. Makes(d, "land") /\ Becomes(d, t)
    BY <1>1, <1>2, GoesMakes
  <1> QED BY <1>1, <1>2, <1>3 DEF Becomes, Fields

LEMMA EnsureMakes ==
  ASSUME NEW d \in Txs, Sound(d), Ensure(d)
  PROVE  LET state == Val(d, MonthRow(tx[d].month)) IN
         /\ Makes(d, "ensure") /\ (Books(d) => state # "closed")
         /\ tx'[d].fresh = (Books(d) /\ state = "none")
  <1> PICK state : state = Val(d, MonthRow(tx[d].month))
    OBVIOUS
  <1> PICK t : t = [tx[d] EXCEPT !.fresh = Books(d) /\ state = "none"]
    OBVIOUS
  <1>1. Like(d, "ensure", t) /\ t.fresh = (Books(d) /\ state = "none")
    BY DEF Like, Shape, Fields, FieldsOf, Sound
  <1>2. At(d, "ensure") /\ (Books(d) => state # "closed") /\ Goes(d, t)
    BY DEF Ensure
  <1>3. Makes(d, "ensure") /\ Becomes(d, t)
    BY <1>1, <1>2, GoesMakes
  <1> QED BY <1>1, <1>2, <1>3 DEF Becomes, Fields

LEMMA InsertMakes ==
  ASSUME NEW d \in Txs, Sound(d), InsertMonth(d)
  PROVE  LET r == MonthRow(tx[d].month) IN
         /\ Makes(d, "insert")
         /\ tx'[d].w = tx[d].w \/ (Val(d, r) = "none" /\ tx[d].fresh /\ Wrote(d, r, "open"))
  <1> PICK r : r = MonthRow(tx[d].month)
    OBVIOUS
  <1>1. /\ At(d, "insert")
        /\ Goes(d, tx[d]) \/ (Val(d, r) = "none" /\ tx[d].fresh /\ Writes(d, r, "open", tx[d]))
    BY DEF InsertMonth
  <1>2. Ours(d, "insert", r) /\ "w" \in FieldsOf("insert")
    BY DEF MonthRow, Ours, RowsOf, FieldsOf
  <1> QED BY <1>1, <1>2, LikeItself, GoesMakes, WritesMakes

\* the entry that d's transaction makes
Made(d) ==
  [jv |-> Val(d, SeriesRow("JV")), src |-> Payload(d).kind, op |-> tx[d].op,
   ref |-> IF "of" \in DOMAIN Payload(d) THEN Payload(d).of ELSE tx[d].op,
   no |-> tx[d].no, legs |-> Squared(tx[d].legs), month |-> tx[d].month,
   session |-> tx[d].session, open |-> {}, shut |-> {}]

LEMMA PostMakes ==
  ASSUME NEW d \in Txs, Sound(d), Post(d)
  PROVE  LET r == SeriesRow("JV") IN
         /\ Makes(d, "post")
         /\ ~Books(d) => tx'[d].w = tx[d].w /\ tx'[d].entries = tx[d].entries
         /\ Books(d) => /\ Wrote(d, r, Val(d, r) + 1)
                        /\ tx'[d].entries = tx[d].entries \cup {Made(d)}
  <1> PICK r : r = SeriesRow("JV")
    OBVIOUS
  <1>1. CASE ~Books(d)
    <2>1. At(d, "post") /\ Goes(d, tx[d])
      BY <1>1 DEF Post
    <2> QED BY <1>1, <2>1, LikeItself, GoesMakes DEF Becomes, Fields
  <1>2. CASE Books(d)
    <2> PICK t : t = [tx[d] EXCEPT !.entries = @ \cup {Made(d)}]
      OBVIOUS
    <2>1. Like(d, "post", t) /\ t.entries = tx[d].entries \cup {Made(d)}
      BY DEF Like, Shape, Fields, FieldsOf, Sound
    <2>2. At(d, "post") /\ Writes(d, r, Val(d, r) + 1, t)
      BY <1>2 DEF Post, Made
    <2>3. Ours(d, "post", r) /\ "w" \in FieldsOf("post")
      BY DEF SeriesRow, Ours, RowsOf, FieldsOf
    <2>4. Makes(d, "post") /\ Becomes(d, t) /\ Wrote(d, r, Val(d, r) + 1)
      BY <2>1, <2>2, <2>3, WritesMakes
    <2> QED BY <1>2, <2>1, <2>4 DEF Becomes, Fields
  <1> QED BY <1>1, <1>2

LEMMA PeriodMakes ==
  ASSUME NEW d \in Txs, Sound(d), Period(d)
  PROVE  Makes(d, "period")
  <1> PICK r : r = MonthRow(Payload(d).month)
    OBVIOUS
  <1>1. At(d, "period") /\ (Goes(d, tx[d]) \/ \E v : Writes(d, r, v, tx[d]))
    BY DEF Period
  <1>2. Ours(d, "period", r) /\ "w" \in FieldsOf("period")
    BY DEF MonthRow, Ours, RowsOf, FieldsOf
  <1> QED BY <1>1, <1>2, LikeItself, GoesMakes, WritesMakes
(* The statements of sales. *)

LEMMA NumberMakes ==
  ASSUME NEW d \in Txs, Sound(d), Number(d)
  PROVE  Makes(d, "number")
      /\ Wrote(d, SeriesRow(IF Is(d, "sale") THEN "SALE" ELSE "CN"),
          Val(d, SeriesRow(IF Is(d, "sale") THEN "SALE" ELSE "CN")) + 1)
              /\ tx'[d].no = Val(d, SeriesRow(IF Is(d, "sale") THEN "SALE" ELSE "CN"))
  <1> PICK r, v : r = SeriesRow(IF Is(d, "sale") THEN "SALE" ELSE "CN")
        /\ v = Val(d, SeriesRow(IF Is(d, "sale") THEN "SALE" ELSE "CN")) + 1
    OBVIOUS
  <1> PICK t : t = [tx[d] EXCEPT !.no = Val(d, r)]
    OBVIOUS
  <1>1. Like(d, "number", t) /\ t.no = Val(d, r)
    BY DEF Like, Shape, Fields, FieldsOf, Sound, LegSteps
  <1>2. At(d, "number") /\ Writes(d, r, v, t)
    BY DEF Number
  <1>3. Ours(d, "number", r) /\ "w" \in FieldsOf("number")
    BY DEF SeriesRow, Ours, RowsOf, FieldsOf
  <1>4. Makes(d, "number") /\ Becomes(d, t) /\ Wrote(d, r, v)
    BY <1>1, <1>2, <1>3, WritesMakes
  <1> QED BY <1>1, <1>2, <1>4 DEF Becomes, Fields

LEMMA CreditMakes ==
  ASSUME NEW d \in Txs, Sound(d), Credit(d)
  PROVE  LET by == CreditBy(tx[d].op) new == Val(d, Member).used + by IN
         /\ Makes(d, "credit")
         /\ by = 0 => tx'[d].w = tx[d].w /\ tx'[d].drift = tx[d].drift
         /\ by # 0 => /\ Wrote(d, Member, [Val(d, Member) EXCEPT !.used = Most(0, new)])
                      /\ tx'[d].drift = IF new < 0 THEN tx[d].drift \cup {Member} ELSE tx[d].drift
  <1> PICK by, new : by = CreditBy(tx[d].op) /\ new = Val(d, Member).used + by
    OBVIOUS
  <1> PICK v : v = [Val(d, Member) EXCEPT !.used = Most(0, new)]
    OBVIOUS
  <1>1. CASE by = 0
    <2>1. At(d, "credit") /\ Goes(d, tx[d])
      BY <1>1 DEF Credit
    <2> QED BY <1>1, <2>1, LikeItself, GoesMakes DEF Becomes, Fields
  <1>2. CASE by # 0
    <2> PICK t : t = [tx[d] EXCEPT !.drift = IF new < 0 THEN @ \cup {Member} ELSE @]
      OBVIOUS
    <2>1. Like(d, "credit", t) /\ t.drift = IF new < 0 THEN tx[d].drift \cup {Member} ELSE tx[d].drift
      BY DEF Like, Shape, Fields, FieldsOf, Sound, LegSteps
    <2>2. At(d, "credit") /\ Writes(d, Member, v, t)
      BY <1>2 DEF Credit
    <2>3. Ours(d, "credit", Member) /\ "w" \in FieldsOf("credit")
      BY DEF Member, Ours, RowsOf, FieldsOf
    <2>4. Makes(d, "credit") /\ Becomes(d, t) /\ Wrote(d, Member, v)
      BY <2>1, <2>2, <2>3, WritesMakes
    <2> QED BY <1>2, <2>1, <2>4 DEF Becomes, Fields
  <1> QED BY <1>1, <1>2

\* stock out draws lots, and stock that comes back gives them back
LEMMA DrawnRows ==
  ASSUME NEW d, NEW i, NEW want, NEW s
  PROVE  \A r \in DOMAIN DrawDown(d, i, want, s) : r[1] = "lot" \/ (r = Draws(s) /\ s # None)
  <1>1. \A l : LotRow(l)[1] = "lot"
    BY DEF LotRow
  <1> QED BY <1>1 DEF DrawDown, @@, :>

LEMMA UndrawnRows ==
  ASSUME NEW d, NEW s
  PROVE  \A r \in DOMAIN Undraw(d, s) : r[1] = "lot" \/ r = Draws(s)
  <1>1. \A l : LotRow(l)[1] = "lot"
    BY DEF LotRow
  <1> QED BY <1>1 DEF Undraw, @@, :>
\* what Out moves
Drew(d, i, qty, s, w) ==
  /\ \A l \in Shelved(d, i) : Free(d, LotRow(l))
  /\ Carries(d, i, -qty, DrawDown(d, i, qty, s), w)

LEMMA SoldMakes ==
  ASSUME NEW d \in Txs, Sound(d), SaleStock(d)
  PROVE  LET s == tx[d].op IN
         /\ Makes(d, "sold") /\ tx'[d].legs = SaleJournal(s)
         /\ Drew(d, P[s].item, P[s].qty, s,
                 Put(tx[d].w, SaleRow(s), [state |-> "live", no |-> tx[d].no, earned |-> EarnedBy(s),
                                           session |-> tx[d].session]))
         /\ tx'[d].moved = tx[d].moved \cup {MoveOf(d, s, P[s].item, "sale", -P[s].qty)}
  <1> PICK s : s = tx[d].op
    OBVIOUS
  <1> PICK v : v = [state |-> "live", no |-> tx[d].no, earned |-> EarnedBy(s), session |-> tx[d].session]
    OBVIOUS
  <1> PICK t : t = [tx[d] EXCEPT !.w = Put(@, SaleRow(s), v), !.legs = SaleJournal(s)]
    OBVIOUS
  <1> PICK lots, i, q : lots = DrawDown(d, P[s].item, P[s].qty, s) /\ i = P[s].item /\ q = -P[s].qty
    OBVIOUS
  <1>1. /\ Shape(t) /\ t.todo = tx[d].todo /\ t.op = tx[d].op /\ t.legs = SaleJournal(s)
           /\ t.moved = tx[d].moved
        /\ t.w = Put(tx[d].w, SaleRow(s), v) /\ \A f \in Fields \ FieldsOf("sold") : t[f] = tx[d][f]
    BY DEF Shape, Fields, FieldsOf, Sound, LegSteps
  <1>2. /\ At(d, "sold") /\ Move(d, i, q, "sale", s, lots, t)
        /\ \A l \in Shelved(d, P[s].item) : Free(d, LotRow(l))
    BY DEF SaleStock, Out
  <1>3. {"w", "moved"} \subseteq FieldsOf("sold") /\ "item" \in RowsOf("sold")
    BY DEF FieldsOf, RowsOf
  <1>4. Own(d, "sold", t.w)
    <2>1. SaleRow(s)[1] \in RowsOf("sold")
      BY DEF SaleRow, RowsOf
    <2> QED BY <1>1, <2>1 DEF Own
  <1>5. \A r \in DOMAIN lots : r[1] \in RowsOf("sold") \cap {"lot", "draws"}
    BY DrawnRows DEF Draws, RowsOf
  <1>6. MayMove(d, "sold", t, lots)
    BY <1>1, <1>2, <1>3, <1>4, <1>5 DEF MayMove
  <1>7. Makes(d, "sold") /\ HasMoved(d, t, i, q, "sale", s, lots)
    BY <1>2, <1>6, MoveMakes
  <1> QED BY <1>1, <1>2, <1>7 DEF Drew, HasMoved, Fields

LEMMA EarnMakes ==
  ASSUME NEW d \in Txs, Sound(d), Earn(d)
  PROVE  LET e == EarnedBy(tx[d].op) IN
         /\ Makes(d, "earn")
         /\ e = 0 => tx'[d].w = tx[d].w
         /\ e # 0 => Wrote(d, Member, [Val(d, Member) EXCEPT !.points = @ + e])
  <1> PICK e, v : e = EarnedBy(tx[d].op) /\ v = [Val(d, Member) EXCEPT !.points = @ + e]
    OBVIOUS
  <1>1. At(d, "earn") /\ IF e = 0 THEN Goes(d, tx[d]) ELSE Writes(d, Member, v, tx[d])
    BY DEF Earn
  <1>2. Ours(d, "earn", Member) /\ "w" \in FieldsOf("earn")
    BY DEF Member, Ours, RowsOf, FieldsOf
  <1> QED BY <1>1, <1>2, LikeItself, GoesMakes, WritesMakes

LEMMA SplitMakes ==
  ASSUME NEW d \in Txs, Sound(d), Split(d)
  PROVE  Makes(d, "split") /\ tx'[d].legs = RefundJournal(tx[d].op)
  <1> PICK t : t = [tx[d] EXCEPT !.legs = RefundJournal(tx[d].op)]
    OBVIOUS
  <1>1. Like(d, "split", t) /\ t.legs = RefundJournal(tx[d].op)
    BY DEF Like, Shape, Fields, FieldsOf, Sound, LegSteps
  <1>2. At(d, "split") /\ Goes(d, t)
    BY DEF Split
  <1>3. Makes(d, "split") /\ Becomes(d, t)
    BY <1>1, <1>2, GoesMakes
  <1> QED BY <1>1, <1>2, <1>3 DEF Becomes, Fields

LEMMA FindMakes ==
  ASSUME NEW d \in Txs, Sound(d), Find(d)
  PROVE  Skip(d) \/ (Makes(d, "find") /\ tx'[d].w = tx[d].w)
  <1>1. Skip(d) \/ (At(d, "find") /\ Goes(d, tx[d]))
    BY DEF Find
  <1> QED BY <1>1, LikeItself, GoesMakes

LEMMA ClaimMakes ==
  ASSUME NEW d \in Txs, Sound(d), Claim(d)
  PROVE  Skip(d)
      \/ (Makes(d, "claim")
          /\ Wrote(d, SaleRow(Payload(d).of),
              [Val(d, SaleRow(Payload(d).of)) EXCEPT !.state = "void"])
                  /\ tx'[d].legs = Reversal(Payload(d).of)
                          /\ Val(d, SaleRow(Payload(d).of)).state = "live")
  <1> PICK r, v : r = SaleRow(Payload(d).of)
        /\ v = [Val(d, SaleRow(Payload(d).of)) EXCEPT !.state = "void"]
    OBVIOUS
  <1> PICK t : t = [tx[d] EXCEPT !.legs = Reversal(Payload(d).of)]
    OBVIOUS
  <1>1. Like(d, "claim", t) /\ t.legs = Reversal(Payload(d).of)
    BY DEF Like, Shape, Fields, FieldsOf, Sound, LegSteps
  <1>2. Skip(d) \/ (At(d, "claim") /\ Writes(d, r, v, t)
                          /\ Val(d, SaleRow(Payload(d).of)).state = "live")
    BY DEF Claim
  <1>3. Ours(d, "claim", r) /\ "w" \in FieldsOf("claim")
    BY DEF SaleRow, Ours, RowsOf, FieldsOf
  <1>4. Skip(d) \/ (Makes(d, "claim") /\ Becomes(d, t) /\ Wrote(d, r, v))
    BY <1>1, <1>2, <1>3, WritesMakes
  <1> QED BY <1>1, <1>2, <1>4 DEF Becomes, Fields

LEMMA ReturnMakes ==
  ASSUME NEW d \in Txs, Sound(d), ReturnStock(d)
  PROVE  LET s == Payload(d).of q == TakenBy(s) IN
         /\ Makes(d, "return")
         /\ IF (Is(d, "refund") /\ ~Payload(d).restock) \/ q = 0
            THEN tx'[d].w = tx[d].w /\ tx'[d].moved = tx[d].moved
            ELSE /\ \A l \in Lots : row[Draws(s)].by[l] > 0 => Free(d, LotRow(l))
                 /\ Carries(d, P[s].item, q, Undraw(d, s), tx[d].w)
                 /\ tx'[d].moved = tx[d].moved \cup {MoveOf(d, s, P[s].item, Payload(d).kind, q)}
  <1> PICK s, q, i, k, lots : s = Payload(d).of /\ q = TakenBy(s) /\ i = P[s].item /\ k = Payload(d).kind
                              /\ lots = Undraw(d, s)
    OBVIOUS
  <1>1. CASE (Is(d, "refund") /\ ~Payload(d).restock) \/ q = 0
    <2>1. At(d, "return") /\ Goes(d, tx[d])
      BY <1>1 DEF ReturnStock
    <2> QED BY <1>1, <2>1, LikeItself, GoesMakes DEF Becomes, Fields
  <1>2. CASE ~((Is(d, "refund") /\ ~Payload(d).restock) \/ q = 0)
    <2>1. /\ At(d, "return") /\ Move(d, i, q, k, s, lots, tx[d])
          /\ \A l \in Lots : row[Draws(s)].by[l] > 0 => Free(d, LotRow(l))
      BY <1>2 DEF ReturnStock
    <2>2. \A r \in DOMAIN lots : r[1] \in RowsOf("return") \cap {"lot", "draws"}
      BY UndrawnRows DEF Draws, RowsOf
    <2>3. MayMove(d, "return", tx[d], lots)
      BY <2>1, <2>2 DEF MayMove, Sound, Own, FieldsOf, RowsOf
    <2>4. Makes(d, "return") /\ HasMoved(d, tx[d], i, q, k, s, lots)
      BY <2>1, <2>3, MoveMakes
    <2> QED BY <1>2, <2>1, <2>4 DEF HasMoved
  <1> QED BY <1>1, <1>2

LEMMA TakeBackMakes ==
  ASSUME NEW d \in Txs, Sound(d), TakeBack(d)
  PROVE  LET s == Payload(d).of
             points == Val(d, Member).points + HandedBack(s)
             used == Val(d, Member).used - OnCredit(s)
         IN /\ Makes(d, "member")
            /\ Wrote(d, Member, [points |-> Most(0, points), used |-> Most(0, used)])
            /\ tx'[d].drift = IF points < 0 \/ used < 0 THEN tx[d].drift \cup {Member} ELSE tx[d].drift
  <1> PICK s, points, used : /\ s = Payload(d).of /\ points = Val(d, Member).points + HandedBack(s)
                             /\ used = Val(d, Member).used - OnCredit(s)
    OBVIOUS
  <1> PICK v : v = [points |-> Most(0, points), used |-> Most(0, used)]
    OBVIOUS
  <1> PICK t : t = [tx[d] EXCEPT !.drift = IF points < 0 \/ used < 0 THEN @ \cup {Member} ELSE @]
    OBVIOUS
  <1>1. Like(d, "member", t) /\ t.drift = IF points < 0
        \/ used < 0 THEN tx[d].drift \cup {Member} ELSE tx[d].drift
    BY DEF Like, Shape, Fields, FieldsOf, Sound, LegSteps
  <1>2. At(d, "member") /\ Writes(d, Member, v, t)
    BY DEF TakeBack
  <1>3. Ours(d, "member", Member) /\ "w" \in FieldsOf("member")
    BY DEF Member, Ours, RowsOf, FieldsOf
  <1>4. Makes(d, "member") /\ Becomes(d, t) /\ Wrote(d, Member, v)
    BY <1>1, <1>2, <1>3, WritesMakes
  <1> QED BY <1>1, <1>4 DEF Becomes, Fields

LEMMA BalanceMakes ==
  ASSUME NEW d \in Txs, Sound(d), Balance(d)
  PROVE  Makes(d, "balance") /\ tx'[d].seen = row[Member].points
  <1> PICK t : t = [tx[d] EXCEPT !.seen = row[Member].points]
    OBVIOUS
  <1>1. Like(d, "balance", t) /\ t.seen = row[Member].points
    BY DEF Like, Shape, Fields, FieldsOf, Sound, LegSteps
  <1>2. At(d, "balance") /\ Goes(d, t)
    BY DEF Balance
  <1>3. Makes(d, "balance") /\ Becomes(d, t)
    BY <1>1, <1>2, GoesMakes
  <1> QED BY <1>1, <1>2, <1>3 DEF Becomes, Fields

LEMMA AdjustMakes ==
  ASSUME NEW d \in Txs, Sound(d), Adjust(d)
  PROVE  LET now == Val(d, Member).points
             new == Most(0, now + Payload(d).by)
             moved == new - tx[d].seen
             exact == IF Payload(d).redeem THEN now + Payload(d).by >= 0 ELSE tx[d].seen = now
         IN /\ Makes(d, "adjust") /\ Wrote(d, Member, [Val(d, Member) EXCEPT !.points = new])
            /\ tx'[d].drift = IF exact THEN tx[d].drift ELSE tx[d].drift \cup {Member}
            /\ tx'[d].legs = IF Payload(d).redeem THEN NoLegs
                             ELSE Lines(("6550" :> moved) @@ ("2350" :> -moved))
  <1> PICK now : now = Val(d, Member).points
    OBVIOUS
  <1> PICK new : new = Most(0, now + Payload(d).by)
    OBVIOUS
  <1> PICK v : v = [Val(d, Member) EXCEPT !.points = new]
    OBVIOUS
  <1> DEFINE exact == IF Payload(d).redeem THEN now + Payload(d).by >= 0 ELSE tx[d].seen = now
             drift == IF exact THEN tx[d].drift ELSE tx[d].drift \cup {Member}
  <1> PICK legs : legs = IF Payload(d).redeem THEN NoLegs
                         ELSE Lines(("6550" :> (new - tx[d].seen)) @@ ("2350" :> -(new - tx[d].seen)))
    OBVIOUS
  <1> PICK t : t = [tx[d] EXCEPT !.drift = drift, !.legs = legs]
    OBVIOUS
  <1>1. Like(d, "adjust", t) /\ t.drift = drift /\ t.legs = legs
    BY DEF Like, Shape, Fields, FieldsOf, Sound, LegSteps
  <1>2. At(d, "adjust") /\ Writes(d, Member, v, t)
    BY DEF Adjust
  <1>3. Ours(d, "adjust", Member) /\ "w" \in FieldsOf("adjust")
    BY DEF Member, Ours, RowsOf, FieldsOf
  <1>4. Makes(d, "adjust") /\ Becomes(d, t) /\ Wrote(d, Member, v)
    BY <1>1, <1>2, <1>3, WritesMakes
  <1>5. tx'[d].drift = drift /\ tx'[d].legs = legs
    BY <1>1, <1>4 DEF Becomes, Fields
  <1> QED BY <1>4, <1>5

LEMMA LookMakes ==
  ASSUME NEW d \in Txs, Sound(d), LookAtDrawer(d)
  PROVE  Skip(d) \/ (Makes(d, "look") /\ tx'[d].seen = row[Drawer].session)
  <1> PICK t : t = [tx[d] EXCEPT !.seen = row[Drawer].session]
    OBVIOUS
  <1>1. Like(d, "look", t) /\ t.seen = row[Drawer].session
    BY DEF Like, Shape, Fields, FieldsOf, Sound, LegSteps
  <1>2. Skip(d) \/ (At(d, "look") /\ Goes(d, t))
    BY DEF LookAtDrawer
  <1>3. Skip(d) \/ (Makes(d, "look") /\ Becomes(d, t))
    BY <1>1, <1>2, GoesMakes
  <1> QED BY <1>1, <1>2, <1>3 DEF Becomes, Fields

LEMMA OpenMakes ==
  ASSUME NEW d \in Txs, Sound(d), OpenRegister(d)
  PROVE  Makes(d, "open")
  <1>1. \E v : At(d, "open") /\ Writes(d, Drawer, v, tx[d])
    BY DEF OpenRegister
  <1>2. Ours(d, "open", Drawer) /\ "w" \in FieldsOf("open")
    BY DEF Drawer, Ours, RowsOf, FieldsOf
  <1> QED BY <1>1, <1>2, LikeItself, WritesMakes

LEMMA CloseMakes ==
  ASSUME NEW d \in Txs, Sound(d), CloseRegister(d)
  PROVE  LET over == Payload(d).counted - Expected(tx[d].seen) IN
         /\ Makes(d, "count")
         /\ tx'[d].legs = IF over < 0 THEN Lines(("6300" :> -over) @@ ("1010" :> over))
                          ELSE Lines(("1010" :> over) @@ ("4900" :> -over))
  <1> PICK over : over = Payload(d).counted - Expected(tx[d].seen)
    OBVIOUS
  <1> PICK legs : legs = IF over < 0 THEN Lines(("6300" :> -over) @@ ("1010" :> over))
                         ELSE Lines(("1010" :> over) @@ ("4900" :> -over))
    OBVIOUS
  <1> PICK t : t = [tx[d] EXCEPT !.legs = legs]
    OBVIOUS
  <1>1. Like(d, "count", t) /\ t.legs = legs
    BY DEF Like, Shape, Fields, FieldsOf, Sound, LegSteps
  <1>2. \E v : At(d, "count") /\ Writes(d, Drawer, v, t)
    BY DEF CloseRegister
  <1>3. Ours(d, "count", Drawer) /\ "w" \in FieldsOf("count")
    BY DEF Drawer, Ours, RowsOf, FieldsOf
  <1>4. Makes(d, "count") /\ Becomes(d, t)
    BY <1>1, <1>2, <1>3, WritesMakes
  <1> QED BY <1>1, <1>4 DEF Becomes, Fields

-----------------------------------------------------------------------------
(* The statements of stock.                                                *)

LEMMA ReceiveMakes ==
  ASSUME NEW d \in Txs, Sound(d), Receive(d)
  PROVE  LET o == tx[d].op p == P[o] priced == p.kind = "door" /\ p.priced IN
         /\ Makes(d, "receive") /\ tx'[d].legs = IF priced THEN Payable(p.qty, PaidBy(o)) ELSE NoLegs
         /\ Carries(d, p.item, p.qty, Stamp(p.lot, p.item, p.qty),
                    Put(tx[d].w, DeliveryRow(o), IF priced THEN "priced" ELSE "blind"))
         /\ tx'[d].moved = tx[d].moved \cup {MoveOf(d, None, p.item, "purchase", p.qty)}
  <1> PICK o, p : o = tx[d].op /\ p = P[o]
    OBVIOUS
  <1> PICK i, q, lots, v, legs : /\ i = p.item /\ q = p.qty /\ lots = Stamp(p.lot, p.item, p.qty)
                                 /\ v = IF p.kind = "door" /\ p.priced THEN "priced" ELSE "blind"
                                 /\ legs = IF p.kind = "door"
                                     /\ p.priced THEN Payable(p.qty, PaidBy(o)) ELSE NoLegs
    OBVIOUS
  <1> PICK t : t = [tx[d] EXCEPT !.w = Put(@, DeliveryRow(o), v), !.legs = legs]
    OBVIOUS
  <1>1. /\ Shape(t) /\ t.todo = tx[d].todo /\ t.op = tx[d].op /\ t.legs = legs /\ t.moved = tx[d].moved
        /\ t.w = Put(tx[d].w, DeliveryRow(o), v)
            /\ \A f \in Fields \ FieldsOf("receive") : t[f] = tx[d][f]
    BY DEF Shape, Fields, FieldsOf, Sound, LegSteps
  <1>2. At(d, "receive") /\ Move(d, i, q, "purchase", None, lots, t)
    BY DEF Receive
  <1>3. Own(d, "receive", t.w)
    <2>1. DeliveryRow(o)[1] \in RowsOf("receive")
      BY DEF DeliveryRow, RowsOf
    <2> QED BY <1>1, <2>1 DEF Own
  <1>4. \A r \in DOMAIN lots : r[1] \in RowsOf("receive") \cap {"lot", "draws"}
    BY DEF Stamp, :>, LotRow, RowsOf
  <1>5. MayMove(d, "receive", t, lots)
    <2>1. {"w", "moved"} \subseteq FieldsOf("receive") /\ "item" \in RowsOf("receive")
      BY DEF FieldsOf, RowsOf
    <2> QED BY <1>1, <1>2, <1>3, <1>4, <2>1 DEF MayMove
  <1>6. Makes(d, "receive") /\ HasMoved(d, t, i, q, "purchase", None, lots)
    BY <1>2, <1>5, MoveMakes
  <1> QED BY <1>1, <1>6 DEF HasMoved, Fields

LEMMA PriceMakes ==
  ASSUME NEW d \in Txs, Sound(d), Price(d)
  PROVE  Skip(d)
      \/ (Makes(d, "price") /\ Wrote(d, DeliveryRow(Payload(d).of), "priced")
          /\ tx'[d].legs = Payable(P[Payload(d).of].qty, "2100")
     /\ Val(d, DeliveryRow(Payload(d).of)) = "blind")
  <1> PICK r, v : r = DeliveryRow(Payload(d).of) /\ v = "priced"
    OBVIOUS
  <1> PICK t : t = [tx[d] EXCEPT !.legs = Payable(P[Payload(d).of].qty, "2100")]
    OBVIOUS
  <1>1. Like(d, "price", t) /\ t.legs = Payable(P[Payload(d).of].qty, "2100")
    BY DEF Like, Shape, Fields, FieldsOf, Sound, LegSteps
  <1>2. Skip(d) \/ (At(d, "price") /\ Writes(d, r, v, t)
     /\ Val(d, DeliveryRow(Payload(d).of)) = "blind")
    BY DEF Price
  <1>3. Ours(d, "price", r) /\ "w" \in FieldsOf("price")
    BY DEF DeliveryRow, Ours, RowsOf, FieldsOf
  <1>4. Skip(d) \/ (Makes(d, "price") /\ Becomes(d, t) /\ Wrote(d, r, v))
    BY <1>1, <1>2, <1>3, WritesMakes
  <1> QED BY <1>1, <1>2, <1>4 DEF Becomes, Fields

LEMMA DoorMakes ==
  ASSUME NEW d \in Txs, Sound(d), LookAtDoor(d)
  PROVE  Skip(d) \/ (Makes(d, "door") /\ tx'[d].w = tx[d].w)
  <1>1. Skip(d) \/ (At(d, "door") /\ Goes(d, tx[d]))
    BY DEF LookAtDoor
  <1> QED BY <1>1, LikeItself, GoesMakes

LEMMA RatesMakes ==
  ASSUME NEW d \in Txs, Sound(d), PriceDoor(d)
  PROVE  LET o == Payload(d).of r == DeliveryRow(Payload(d).of) IN
         /\ Makes(d, "rates") /\ Wrote(d, r, "priced") /\ tx'[d].legs = Payable(P[o].qty, PaidBy(o))
         /\ tx'[d].drift = IF Val(d, r) = "blind" THEN tx[d].drift ELSE tx[d].drift \cup {r}
  <1> PICK r, legs : r = DeliveryRow(Payload(d).of)
        /\ legs = Payable(P[Payload(d).of].qty, PaidBy(Payload(d).of))
    OBVIOUS
  <1> PICK drift : drift = IF Val(d, r) = "blind" THEN tx[d].drift ELSE tx[d].drift \cup {r}
    OBVIOUS
  <1> PICK t : t = [tx[d] EXCEPT !.legs = legs, !.drift = drift]
    OBVIOUS
  <1>1. Like(d, "rates", t) /\ t.legs = legs /\ t.drift = drift
    BY DEF Like, Shape, Fields, FieldsOf, Sound, LegSteps
  <1>2. At(d, "rates") /\ Writes(d, r, "priced", t)
    BY DEF PriceDoor
  <1>3. Ours(d, "rates", r) /\ "w" \in FieldsOf("rates")
    BY DEF DeliveryRow, Ours, RowsOf, FieldsOf
  <1>4. Makes(d, "rates") /\ Becomes(d, t) /\ Wrote(d, r, "priced")
    BY <1>1, <1>2, <1>3, WritesMakes
  <1> QED BY <1>1, <1>4 DEF Becomes, Fields

LEMMA ShiftMakes ==
  ASSUME NEW d \in Txs, Sound(d), Shift(d)
  PROVE  LET p == Payload(d) IN
         /\ Makes(d, "shift") /\ tx'[d].legs = AdjustLegs(tx[d].op)
         /\ tx'[d].moved = tx[d].moved \cup
              {MoveOf(d, None, p.item, ReasonOf(p.kind), IF p.qty < 0 THEN -(-p.qty) ELSE p.qty)}
         /\ IF p.qty < 0 THEN Drew(d, p.item, -p.qty, None, tx[d].w)
                         ELSE Carries(d, p.item, p.qty, <<>>, tx[d].w)
  <1> PICK p : p = Payload(d)
    OBVIOUS
  <1> PICK i, k, n : i = p.item /\ k = ReasonOf(p.kind) /\ n = -p.qty
    OBVIOUS
  <1> PICK q, lots : /\ q = IF p.qty < 0 THEN -n ELSE p.qty
                     /\ lots = IF p.qty < 0 THEN DrawDown(d, i, n, None) ELSE <<>>
    OBVIOUS
  <1> PICK t : t = [tx[d] EXCEPT !.legs = AdjustLegs(tx[d].op)]
    OBVIOUS
  <1>1. Like(d, "shift", t) /\ t.legs = AdjustLegs(tx[d].op) /\ t.moved = tx[d].moved /\ t.op = tx[d].op
    BY DEF Like, Shape, Fields, FieldsOf, Sound, LegSteps
  <1>2. At(d, "shift") /\ Move(d, i, q, k, None, lots, t)
        /\ (p.qty < 0 => \A l \in Shelved(d, i) : Free(d, LotRow(l)))
    BY DEF Shift, Out, In
  <1>3. \A r \in DOMAIN lots : r[1] \in RowsOf("shift") \cap {"lot", "draws"}
    <2>1. DOMAIN <<>> = {}
      OBVIOUS
    <2> QED BY <2>1, DrawnRows DEF RowsOf
  <1>4. MayMove(d, "shift", t, lots)
    BY <1>1, <1>2, <1>3 DEF MayMove, Like, Own, FieldsOf, RowsOf
  <1>5. Makes(d, "shift") /\ HasMoved(d, t, i, q, k, None, lots)
    BY <1>2, <1>4, MoveMakes
  <1>6. t.w = tx[d].w
    BY <1>1 DEF Like
  <1> QED BY <1>1, <1>2, <1>5, <1>6 DEF HasMoved, Drew, Fields

LEMMA TransferMakes ==
  ASSUME NEW d \in Txs, Sound(d), Transfer(d)
  PROVE  LET p == Payload(d) IN
         /\ Makes(d, "transfer") /\ Wrote(d, Item(p.item), Val(d, Item(p.item)))
         /\ tx'[d].moved = tx[d].moved \cup {MoveOf(d, None, p.item, "transfer", p.qty),
                                             MoveOf(d, None, p.item, "transfer", -p.qty)}
  <1> PICK p : p = Payload(d)
    OBVIOUS
  <1> PICK r : r = Item(p.item)
    OBVIOUS
  <1> PICK m : m = {MoveOf(d, None, p.item, "transfer", p.qty),
        MoveOf(d, None, p.item, "transfer", -p.qty)}
    OBVIOUS
  <1> PICK t : t = [tx[d] EXCEPT !.moved = @ \cup m]
    OBVIOUS
  <1>1. Like(d, "transfer", t) /\ t.moved = tx[d].moved \cup m
    BY DEF Like, Shape, Fields, FieldsOf, Sound, LegSteps
  <1>2. At(d, "transfer") /\ Writes(d, r, Val(d, r), t)
    BY DEF Transfer, MoveOf
  <1>3. Ours(d, "transfer", r) /\ "w" \in FieldsOf("transfer")
    BY DEF Item, Ours, RowsOf, FieldsOf
  <1>4. Makes(d, "transfer") /\ Becomes(d, t) /\ Wrote(d, r, Val(d, r))
    BY <1>1, <1>2, <1>3, WritesMakes
  <1> QED BY <1>1, <1>4 DEF Becomes, Fields

LEMMA UseMakes ==
  ASSUME NEW d \in Txs, Sound(d), Use(d)
  PROVE  LET p == Payload(d) IN
         /\ Makes(d, "use") /\ Drew(d, p.from, p.qty, None, tx[d].w)
         /\ tx'[d].moved = tx[d].moved \cup {MoveOf(d, None, p.from, "prep", -p.qty)}
  <1> PICK i, q, lots : i = Payload(d).from /\ q = -Payload(d).qty
        /\ lots = DrawDown(d, i, Payload(d).qty, None)
    OBVIOUS
  <1>1. /\ At(d, "use") /\ Move(d, i, q, "prep", None, lots, tx[d])
        /\ \A l \in Shelved(d, i) : Free(d, LotRow(l))
    BY DEF Use, Out
  <1>2. \A r \in DOMAIN lots : r[1] \in RowsOf("use") \cap {"lot", "draws"}
    BY DrawnRows DEF RowsOf
  <1>3. MayMove(d, "use", tx[d], lots)
    BY <1>1, <1>2 DEF MayMove, Sound, Own, FieldsOf, RowsOf
  <1>4. Makes(d, "use") /\ HasMoved(d, tx[d], i, q, "prep", None, lots)
    BY <1>1, <1>3, MoveMakes
  <1> QED BY <1>1, <1>4 DEF HasMoved, Drew

LEMMA MakeMakes ==
  ASSUME NEW d \in Txs, Sound(d), Make(d)
  PROVE  LET p == Payload(d) IN
         /\ Makes(d, "make") /\ Carries(d, p.item, p.qty, <<>>, tx[d].w)
         /\ tx'[d].moved = tx[d].moved \cup {MoveOf(d, None, p.item, "produce", p.qty)}
  <1> PICK i, q, lots : i = Payload(d).item /\ q = Payload(d).qty /\ lots = <<>>
    OBVIOUS
  <1>1. At(d, "make") /\ Move(d, i, q, "produce", None, lots, tx[d])
    BY DEF Make, In
  <1>2. DOMAIN lots = {}
    OBVIOUS
  <1>3. MayMove(d, "make", tx[d], lots)
    BY <1>1, <1>2 DEF MayMove, Sound, Own, FieldsOf, RowsOf
  <1>4. Makes(d, "make") /\ HasMoved(d, tx[d], i, q, "produce", None, lots)
    BY <1>1, <1>3, MoveMakes
  <1> QED BY <1>1, <1>4 DEF HasMoved

LEMMA LotMakes ==
  ASSUME NEW d \in Txs, Sound(d), LookAtLot(d)
  PROVE  LET b == Val(d, LotRow(Payload(d).lot)) IN
         Skip(d) \/ (/\ Makes(d, "lot") /\ b.state \notin {"none", "used", "wasted"}
                     /\ tx'[d].seen = Most(0, Least(b.qty, Val(d, Item(b.item)))))
  <1> PICK b : b = Val(d, LotRow(Payload(d).lot))
    OBVIOUS
  <1> PICK n : n = Most(0, Least(b.qty, Val(d, Item(b.item))))
    OBVIOUS
  <1> PICK t : t = [tx[d] EXCEPT !.seen = n]
    OBVIOUS
  <1>1. Like(d, "lot", t) /\ t.seen = n
    BY DEF Like, Shape, Fields, FieldsOf, Sound, LegSteps
  <1>2. Skip(d) \/ (At(d, "lot") /\ b.state \notin {"none", "used", "wasted"} /\ Goes(d, t))
    BY DEF LookAtLot
  <1>3. Skip(d) \/ (Makes(d, "lot") /\ Becomes(d, t))
    BY <1>1, <1>2, GoesMakes
  <1> QED BY <1>1, <1>2, <1>3 DEF Becomes, Fields

LEMMA ThrowMakes ==
  ASSUME NEW d \in Txs, Sound(d), Throw(d)
  PROVE  LET b == Val(d, LotRow(Payload(d).lot)) n == tx[d].seen IN
         /\ Makes(d, "throw")
         /\ IF Payload(d).state # "wasted" \/ n = 0
            THEN tx'[d].w = tx[d].w /\ tx'[d].legs = tx[d].legs /\ tx'[d].moved = tx[d].moved
            ELSE /\ Carries(d, b.item, -n, <<>>, tx[d].w)
                 /\ tx'[d].legs = Lines(("5100" :> n) @@ ("1200" :> -n))
                 /\ tx'[d].moved = tx[d].moved \cup {MoveOf(d, None, b.item, "waste", -n)}
  <1> PICK n, i, q, lots, legs : /\ n = tx[d].seen /\ i = Val(d, LotRow(Payload(d).lot)).item
                                    /\ q = -n /\ lots = <<>>
                                 /\ legs = Lines(("5100" :> n) @@ ("1200" :> -n))
    OBVIOUS
  <1>1. CASE Payload(d).state # "wasted" \/ n = 0
    <2>1. At(d, "throw") /\ Goes(d, tx[d])
      BY <1>1 DEF Throw
    <2> QED BY <1>1, <2>1, LikeItself, GoesMakes DEF Becomes, Fields
  <1>2. CASE ~(Payload(d).state # "wasted" \/ n = 0)
    <2> PICK t : t = [tx[d] EXCEPT !.legs = legs]
      OBVIOUS
    <2>1. Like(d, "throw", t) /\ t.legs = legs /\ t.moved = tx[d].moved /\ t.op = tx[d].op
      BY DEF Like, Shape, Fields, FieldsOf, Sound, LegSteps
    <2>2. At(d, "throw") /\ Move(d, i, q, "waste", None, lots, t)
      BY <1>2 DEF Throw
    <2>3. DOMAIN lots = {} /\ t.w = tx[d].w
      BY <2>1 DEF Like
    <2>4. MayMove(d, "throw", t, lots)
      BY <2>1, <2>2, <2>3 DEF MayMove, Like, Own, FieldsOf, RowsOf
    <2>5. Makes(d, "throw") /\ HasMoved(d, t, i, q, "waste", None, lots)
      BY <2>2, <2>4, MoveMakes
    <2> QED BY <1>2, <2>1, <2>3, <2>5 DEF HasMoved, Fields
  <1> QED BY <1>1, <1>2

LEMMA EmptyMakes ==
  ASSUME NEW d \in Txs, Sound(d), Empty(d)
  PROVE  Makes(d, "empty")
      /\ Wrote(d, LotRow(Payload(d).lot),
          [Val(d, LotRow(Payload(d).lot)) EXCEPT !.away = @ + Val(d, LotRow(Payload(d).lot)).qty,
              !.qty = 0,
                                                         !.state = Payload(d).state])
  <1> PICK r, v : r = LotRow(Payload(d).lot)
        /\ v = [Val(d, LotRow(Payload(d).lot)) EXCEPT !.away
            = @ + Val(d, LotRow(Payload(d).lot)).qty, !.qty = 0,
                                                         !.state = Payload(d).state]
    OBVIOUS
  <1>1. Like(d, "empty", tx[d])
    BY LikeItself
  <1>2. At(d, "empty") /\ Writes(d, r, v, tx[d])
    BY DEF Empty
  <1>3. Ours(d, "empty", r) /\ "w" \in FieldsOf("empty")
    BY DEF LotRow, Ours, RowsOf, FieldsOf
  <1>4. Makes(d, "empty") /\ Becomes(d, tx[d]) /\ Wrote(d, r, v)
    BY <1>1, <1>2, <1>3, WritesMakes
  <1> QED BY <1>1, <1>2, <1>4 DEF Becomes, Fields

-----------------------------------------------------------------------------
(* The statements of the back office.                                      *)

LEMMA ClaimMonthMakes ==
  ASSUME NEW d \in Txs, Sound(d), ClaimMonth(d), Payload(d).kind \in ClaimKinds
  PROVE  LET r == ClaimRow(Payload(d).kind, Payload(d).for) IN
         Skip(d) \/ (/\ Makes(d, "claimMonth") /\ Wrote(d, r, Payload(d).amt) /\ Val(d, r) = 0
                     /\ tx'[d].legs = ClaimLegs(tx[d].op))
  <1> PICK r, v : r = ClaimRow(Payload(d).kind, Payload(d).for) /\ v = Payload(d).amt
    OBVIOUS
  <1> PICK t : t = [tx[d] EXCEPT !.legs = ClaimLegs(tx[d].op)]
    OBVIOUS
  <1>1. Like(d, "claimMonth", t) /\ t.legs = ClaimLegs(tx[d].op)
    BY DEF Like, Shape, Fields, FieldsOf, Sound, LegSteps
  <1>2. Skip(d) \/ (At(d, "claimMonth") /\ Writes(d, r, v, t) /\ Val(d, r) = 0)
    BY DEF ClaimMonth
  <1>3. Ours(d, "claimMonth", r) /\ "w" \in FieldsOf("claimMonth")
    BY DEF ClaimRow, ClaimKinds, Ours, RowsOf, FieldsOf
  <1>4. Skip(d) \/ (Makes(d, "claimMonth") /\ Becomes(d, t) /\ Wrote(d, r, v))
    BY <1>1, <1>2, <1>3, WritesMakes
  <1> QED BY <1>1, <1>2, <1>4 DEF Becomes, Fields

LEMMA NetMakes ==
  ASSUME NEW d \in Txs, Sound(d), ReadNet(d)
  PROVE  LET b == row[BatchRow(Payload(d).batch)] IN
         Makes(d, "net") /\ tx'[d].seen = b.net /\ tx'[d].fresh = (b.state = "none")
  <1> PICK b : b = row[BatchRow(Payload(d).batch)]
    OBVIOUS
  <1> PICK t : t = [tx[d] EXCEPT !.seen = b.net, !.fresh = b.state = "none"]
    OBVIOUS
  <1>1. Like(d, "net", t) /\ t.seen = b.net /\ t.fresh = (b.state = "none")
    BY DEF Like, Shape, Fields, FieldsOf, Sound, LegSteps
  <1>2. At(d, "net") /\ Goes(d, t)
    BY DEF ReadNet
  <1>3. Makes(d, "net") /\ Becomes(d, t)
    BY <1>1, <1>2, GoesMakes
  <1> QED BY <1>1, <1>3 DEF Becomes, Fields

LEMMA MatchMakes ==
  ASSUME NEW d \in Txs, Sound(d), Match(d)
  PROVE  LET p == Payload(d) r == BatchRow(p.batch) was == Val(d, r)
             legs == IF was.state = "none" THEN SettledLegs(p.gross, p.net)
                     ELSE IF tx[d].fresh THEN NoLegs ELSE Correction(p.net, tx[d].seen)
             exact == IF tx[d].fresh THEN was.state = "none" ELSE tx[d].seen = was.net
         IN /\ Makes(d, "match") /\ Wrote(d, r, [state |-> "matched", net |-> p.net])
            /\ tx'[d].legs = legs
            /\ tx'[d].drift = IF exact THEN tx[d].drift ELSE tx[d].drift \cup {r}
  <1> PICK p : p = Payload(d)
    OBVIOUS
  <1> PICK r : r = BatchRow(p.batch)
    OBVIOUS
  <1> PICK was : was = Val(d, r)
    OBVIOUS
  <1> DEFINE exact == IF tx[d].fresh THEN was.state = "none" ELSE tx[d].seen = was.net
  <1> PICK legs : legs = IF was.state = "none" THEN SettledLegs(p.gross, p.net)
                         ELSE IF tx[d].fresh THEN NoLegs ELSE Correction(p.net, tx[d].seen)
    OBVIOUS
  <1> PICK drift : drift = IF exact THEN tx[d].drift ELSE tx[d].drift \cup {r}
    OBVIOUS
  <1> PICK t, v : t = [tx[d] EXCEPT !.legs = legs, !.drift = drift]
        /\ v = [state |-> "matched", net |-> p.net]
    OBVIOUS
  <1>1. Like(d, "match", t) /\ t.drift = drift /\ t.legs = legs
    BY DEF Like, Shape, Fields, FieldsOf, Sound, LegSteps
  <1>2. At(d, "match") /\ Writes(d, r, v, t)
    BY DEF Match
  <1>3. Ours(d, "match", r) /\ "w" \in FieldsOf("match")
    BY DEF BatchRow, Ours, RowsOf, FieldsOf
  <1>4. Makes(d, "match") /\ Becomes(d, t) /\ Wrote(d, r, v)
    BY <1>1, <1>2, <1>3, WritesMakes
  <1>5. tx'[d].drift = drift /\ tx'[d].legs = legs
    BY <1>1, <1>4 DEF Becomes, Fields
  <1> QED BY <1>4, <1>5

LEMMA ReopenMakes ==
  ASSUME NEW d \in Txs, Sound(d), Reopen(d)
  PROVE  Skip(d)
      \/ (Makes(d, "reopen")
          /\ Wrote(d, BatchRow(Payload(d).batch),
              [Val(d, BatchRow(Payload(d).batch)) EXCEPT !.state = "reopened"])
                  /\ Val(d, BatchRow(Payload(d).batch)).state # "none")
  <1> PICK r, v : r = BatchRow(Payload(d).batch)
        /\ v = [Val(d, BatchRow(Payload(d).batch)) EXCEPT !.state = "reopened"]
    OBVIOUS
  <1>1. Like(d, "reopen", tx[d])
    BY LikeItself
  <1>2. Skip(d) \/ (At(d, "reopen") /\ Writes(d, r, v, tx[d])
        /\ Val(d, BatchRow(Payload(d).batch)).state # "none")
    BY DEF Reopen
  <1>3. Ours(d, "reopen", r) /\ "w" \in FieldsOf("reopen")
    BY DEF BatchRow, Ours, RowsOf, FieldsOf
  <1>4. Skip(d) \/ (Makes(d, "reopen") /\ Becomes(d, tx[d]) /\ Wrote(d, r, v))
    BY <1>1, <1>2, <1>3, WritesMakes
  <1> QED BY <1>1, <1>2, <1>4 DEF Becomes, Fields

LEMMA LookClockMakes ==
  ASSUME NEW d \in Txs, Sound(d), LookAtClock(d)
  PROVE  Makes(d, "shift?")
  <1>1. At(d, "shift?") /\ Goes(d, tx[d])
    BY DEF LookAtClock
  <1> QED BY <1>1, LikeItself, GoesMakes

LEMMA ClockInMakes ==
  ASSUME NEW d \in Txs, Sound(d), ClockIn(d)
  PROVE  LET p == Payload(d) r == PunchRow(p.cid)
             over == \/ OpenShifts(p.emp) # {}
                     \/ \E e \in Txs \ {d}, c \in Punches :
                          PunchRow(c) \in DOMAIN tx[e].w /\ tx[e].w[PunchRow(c)].emp = p.emp
         IN Skip(d) \/ (/\ Makes(d, "in") /\ Wrote(d, r, [emp |-> p.emp, state |-> "in"])
                        /\ Val(d, r).state = "none"
                        /\ tx'[d].drift = IF over THEN tx[d].drift \cup {Shifts(p.emp)} ELSE tx[d].drift)
  <1> PICK p : p = Payload(d)
    OBVIOUS
  <1> PICK r, v : r = PunchRow(p.cid) /\ v = [emp |-> p.emp, state |-> "in"]
    OBVIOUS
  <1> DEFINE over == \/ OpenShifts(p.emp) # {}
                     \/ \E e \in Txs \ {d}, c \in Punches :
                          PunchRow(c) \in DOMAIN tx[e].w /\ tx[e].w[PunchRow(c)].emp = p.emp
  <1> PICK drift : drift = IF over THEN tx[d].drift \cup {Shifts(p.emp)} ELSE tx[d].drift
    OBVIOUS
  <1> PICK t : t = [tx[d] EXCEPT !.drift = drift]
    OBVIOUS
  <1>1. Like(d, "in", t) /\ t.drift = drift
    BY DEF Like, Shape, Fields, FieldsOf, Sound, LegSteps
  <1>2. Skip(d) \/ (At(d, "in") /\ Writes(d, r, v, t) /\ Val(d, r).state = "none")
    BY DEF ClockIn
  <1>3. Ours(d, "in", r) /\ "w" \in FieldsOf("in")
    BY DEF PunchRow, Ours, RowsOf, FieldsOf
  <1>4. Skip(d) \/ (Makes(d, "in") /\ Becomes(d, t) /\ Wrote(d, r, v))
    BY <1>1, <1>2, <1>3, WritesMakes
  <1>5. Skip(d) \/ tx'[d].drift = drift
    BY <1>1, <1>4 DEF Becomes, Fields
  <1> QED BY <1>2, <1>4, <1>5

LEMMA ClockOutMakes ==
  ASSUME NEW d \in Txs, Sound(d), ClockOut(d)
  PROVE  Skip(d)
      \/ (Makes(d, "out")
          /\ Wrote(d, PunchRow(Payload(d).cid),
              [Val(d, PunchRow(Payload(d).cid)) EXCEPT !.state = "out"])
                  /\ row[PunchRow(Payload(d).cid)].state # "none")
  <1> PICK r, v : r = PunchRow(Payload(d).cid)
        /\ v = [Val(d, PunchRow(Payload(d).cid)) EXCEPT !.state = "out"]
    OBVIOUS
  <1>1. Like(d, "out", tx[d])
    BY LikeItself
  <1>2. Skip(d) \/ (At(d, "out") /\ Writes(d, r, v, tx[d])
        /\ row[PunchRow(Payload(d).cid)].state # "none")
    BY DEF ClockOut
  <1>3. Ours(d, "out", r) /\ "w" \in FieldsOf("out")
    BY DEF PunchRow, Ours, RowsOf, FieldsOf
  <1>4. Skip(d) \/ (Makes(d, "out") /\ Becomes(d, tx[d]) /\ Wrote(d, r, v))
    BY <1>1, <1>2, <1>3, WritesMakes
  <1> QED BY <1>1, <1>2, <1>4 DEF Becomes, Fields

\* The statements of a handler, as a set.
StepSet(k) ==
  IF k = "sale" THEN {"number", "credit", "sold", "earn", "land", "ensure", "insert", "post"}
  ELSE IF k = "refund" THEN {"number", "split", "ensure", "insert", "post", "credit", "return"}
  ELSE IF k = "void" THEN {"find", "claim", "ensure", "insert", "post", "return", "member"}
  ELSE IF k = "settle" THEN {"ensure", "insert", "post", "credit"}
  ELSE IF k = "points" THEN {"balance", "adjust", "ensure", "insert", "post"}
  ELSE IF k = "open" THEN {"look", "open"}
  ELSE IF k = "close" THEN {"look", "count", "ensure", "insert", "post"}
  ELSE IF k = "grn" THEN {"receive"}
  ELSE IF k = "door" THEN {"receive", "ensure", "insert", "post"}
  ELSE IF k = "price" THEN {"price", "ensure", "insert", "post"}
  ELSE IF k = "doorprice" THEN {"door", "rates", "ensure", "insert", "post"}
  ELSE IF k \in {"adjust", "count"} THEN {"shift", "ensure", "insert", "post"}
  ELSE IF k \in {"prep", "dispatch"} THEN {"shift"}
  ELSE IF k = "transfer" THEN {"transfer"}
  ELSE IF k = "produce" THEN {"use", "make"}
  ELSE IF k = "lot" THEN {"lot", "throw", "ensure", "insert", "post", "empty"}
  ELSE IF k \in ClaimKinds THEN {"claimMonth", "ensure", "insert", "post"}
  ELSE IF k = "match" THEN {"net", "match", "ensure", "insert", "post"}
  ELSE IF k = "reopen" THEN {"reopen"}
  ELSE IF k \in {"pay", "asset", "repair", "manual"} THEN {"ensure", "insert", "post"}
  ELSE IF k = "in" THEN {"shift?", "in"}
  ELSE IF k = "out" THEN {"out"}
  ELSE {"period"}

LEMMA StepsAre == ASSUME NEW k \in AllKinds PROVE Range(Steps(k)) = StepSet(k)
  <1> PICK S : S = Steps(k)
    OBVIOUS
  <1> SUFFICES Range(S) = StepSet(k)
    OBVIOUS
  <1>1. CASE k = "sale"
    <2>1. S = <<"number", "credit", "sold", "earn", "land", "ensure", "insert", "post">>
      BY <1>1 DEF Steps, SalesSteps, StockSteps, OfficeSteps, SalesKinds, StockKinds, ClaimKinds
    <2> QED BY <1>1, <2>1 DEF Range, StepSet, ClaimKinds
  <1>2. CASE k = "refund"
    <2>1. S = <<"number", "split", "ensure", "insert", "post", "credit", "return">>
      BY <1>2 DEF Steps, SalesSteps, StockSteps, OfficeSteps, SalesKinds, StockKinds, ClaimKinds
    <2> QED BY <1>2, <2>1 DEF Range, StepSet, ClaimKinds
  <1>3. CASE k = "void"
    <2>1. S = <<"find", "claim", "ensure", "insert", "post", "return", "member">>
      BY <1>3 DEF Steps, SalesSteps, StockSteps, OfficeSteps, SalesKinds, StockKinds, ClaimKinds
    <2> QED BY <1>3, <2>1 DEF Range, StepSet, ClaimKinds
  <1>4. CASE k = "settle"
    <2>1. S = <<"ensure", "insert", "post", "credit">>
      BY <1>4 DEF Steps, SalesSteps, StockSteps, OfficeSteps, SalesKinds, StockKinds, ClaimKinds
    <2> QED BY <1>4, <2>1 DEF Range, StepSet, ClaimKinds
  <1>5. CASE k = "points"
    <2>1. S = <<"balance", "adjust", "ensure", "insert", "post">>
      BY <1>5 DEF Steps, SalesSteps, StockSteps, OfficeSteps, SalesKinds, StockKinds, ClaimKinds
    <2> QED BY <1>5, <2>1 DEF Range, StepSet, ClaimKinds
  <1>6. CASE k = "open"
    <2>1. S = <<"look", "open">>
      BY <1>6 DEF Steps, SalesSteps, StockSteps, OfficeSteps, SalesKinds, StockKinds, ClaimKinds
    <2> QED BY <1>6, <2>1 DEF Range, StepSet, ClaimKinds
  <1>7. CASE k = "close"
    <2>1. S = <<"look", "count", "ensure", "insert", "post">>
      BY <1>7 DEF Steps, SalesSteps, StockSteps, OfficeSteps, SalesKinds, StockKinds, ClaimKinds
    <2> QED BY <1>7, <2>1 DEF Range, StepSet, ClaimKinds
  <1>8. CASE k = "grn"
    <2>1. S = <<"receive">>
      BY <1>8 DEF Steps, SalesSteps, StockSteps, OfficeSteps, SalesKinds, StockKinds, ClaimKinds
    <2> QED BY <1>8, <2>1 DEF Range, StepSet, ClaimKinds
  <1>9. CASE k = "door"
    <2>1. S = <<"receive", "ensure", "insert", "post">>
      BY <1>9 DEF Steps, SalesSteps, StockSteps, OfficeSteps, SalesKinds, StockKinds, ClaimKinds
    <2> QED BY <1>9, <2>1 DEF Range, StepSet, ClaimKinds
  <1>10. CASE k = "price"
    <2>1. S = <<"price", "ensure", "insert", "post">>
      BY <1>10 DEF Steps, SalesSteps, StockSteps, OfficeSteps, SalesKinds, StockKinds, ClaimKinds
    <2> QED BY <1>10, <2>1 DEF Range, StepSet, ClaimKinds
  <1>11. CASE k = "doorprice"
    <2>1. S = <<"door", "rates", "ensure", "insert", "post">>
      BY <1>11 DEF Steps, SalesSteps, StockSteps, OfficeSteps, SalesKinds, StockKinds, ClaimKinds
    <2> QED BY <1>11, <2>1 DEF Range, StepSet, ClaimKinds
  <1>12. CASE k \in {"adjust", "count"}
    <2>1. S = <<"shift", "ensure", "insert", "post">>
      BY <1>12 DEF Steps, SalesSteps, StockSteps, OfficeSteps, SalesKinds, StockKinds, ClaimKinds
    <2> QED BY <1>12, <2>1 DEF Range, StepSet, ClaimKinds
  <1>13. CASE k \in {"prep", "dispatch"}
    <2>1. S = <<"shift">>
      BY <1>13 DEF Steps, SalesSteps, StockSteps, OfficeSteps, SalesKinds, StockKinds, ClaimKinds
    <2> QED BY <1>13, <2>1 DEF Range, StepSet, ClaimKinds
  <1>14. CASE k = "transfer"
    <2>1. S = <<"transfer">>
      BY <1>14 DEF Steps, SalesSteps, StockSteps, OfficeSteps, SalesKinds, StockKinds, ClaimKinds
    <2> QED BY <1>14, <2>1 DEF Range, StepSet, ClaimKinds
  <1>15. CASE k = "produce"
    <2>1. S = <<"use", "make">>
      BY <1>15 DEF Steps, SalesSteps, StockSteps, OfficeSteps, SalesKinds, StockKinds, ClaimKinds
    <2> QED BY <1>15, <2>1 DEF Range, StepSet, ClaimKinds
  <1>16. CASE k = "lot"
    <2>1. S = <<"lot", "throw", "ensure", "insert", "post", "empty">>
      BY <1>16 DEF Steps, SalesSteps, StockSteps, OfficeSteps, SalesKinds, StockKinds, ClaimKinds
    <2> QED BY <1>16, <2>1 DEF Range, StepSet, ClaimKinds
  <1>17. CASE k \in ClaimKinds
    <2>1. S = <<"claimMonth", "ensure", "insert", "post">>
      BY <1>17 DEF Steps, SalesSteps, StockSteps, OfficeSteps, SalesKinds, StockKinds, ClaimKinds
    <2> QED BY <1>17, <2>1 DEF Range, StepSet, ClaimKinds
  <1>18. CASE k = "match"
    <2>1. S = <<"net", "match", "ensure", "insert", "post">>
      BY <1>18 DEF Steps, SalesSteps, StockSteps, OfficeSteps, SalesKinds, StockKinds, ClaimKinds
    <2> QED BY <1>18, <2>1 DEF Range, StepSet, ClaimKinds
  <1>19. CASE k = "reopen"
    <2>1. S = <<"reopen">>
      BY <1>19 DEF Steps, SalesSteps, StockSteps, OfficeSteps, SalesKinds, StockKinds, ClaimKinds
    <2> QED BY <1>19, <2>1 DEF Range, StepSet, ClaimKinds
  <1>20. CASE k \in {"pay", "asset", "repair", "manual"}
    <2>1. S = <<"ensure", "insert", "post">>
      BY <1>20 DEF Steps, SalesSteps, StockSteps, OfficeSteps, SalesKinds, StockKinds, ClaimKinds
    <2> QED BY <1>20, <2>1 DEF Range, StepSet, ClaimKinds
  <1>21. CASE k = "in"
    <2>1. S = <<"shift?", "in">>
      BY <1>21 DEF Steps, SalesSteps, StockSteps, OfficeSteps, SalesKinds, StockKinds, ClaimKinds
    <2> QED BY <1>21, <2>1 DEF Range, StepSet, ClaimKinds
  <1>22. CASE k = "out"
    <2>1. S = <<"out">>
      BY <1>22 DEF Steps, SalesSteps, StockSteps, OfficeSteps, SalesKinds, StockKinds, ClaimKinds
    <2> QED BY <1>22, <2>1 DEF Range, StepSet, ClaimKinds
  <1>23. CASE k \in {"shut", "reopenMonth"}
    <2>1. S = <<"period">>
      BY <1>23 DEF Steps, SalesSteps, StockSteps, OfficeSteps, SalesKinds, StockKinds, ClaimKinds
    <2> QED BY <1>23, <2>1 DEF Range, StepSet, ClaimKinds
  <1> QED BY <1>1, <1>2, <1>3, <1>4, <1>5, <1>6, <1>7, <1>8, <1>9, <1>10, <1>11, <1>12, <1>13,
        <1>14, <1>15, <1>16, <1>17, <1>18, <1>19, <1>20, <1>21, <1>22, <1>23
          DEF AllKinds, SalesKinds, StockKinds, OfficeKinds

\* Whose statement a is.
Whose(a, k) ==
  /\ a = "number" => k \in {"sale", "refund"}
  /\ a = "credit" => k \in {"sale", "refund", "settle"}
  /\ a \in {"sold", "earn", "land"} => k = "sale"
  /\ a = "split" => k = "refund"
  /\ a \in {"find", "claim", "member"} => k = "void"
  /\ a = "return" => k \in {"refund", "void"}
  /\ a \in {"balance", "adjust"} => k = "points"
  /\ a = "look" => k \in {"open", "close"}
  /\ a = "open" => k = "open"
  /\ a = "count" => k = "close"
  /\ a = "receive" => k \in {"grn", "door"}
  /\ a = "price" => k = "price"
  /\ a \in {"door", "rates"} => k = "doorprice"
  /\ a = "shift" => k \in {"adjust", "count", "prep", "dispatch"}
  /\ a = "transfer" => k = "transfer"
  /\ a \in {"use", "make"} => k = "produce"
  /\ a \in {"lot", "throw", "empty"} => k = "lot"
  /\ a = "claimMonth" => k \in ClaimKinds
  /\ a \in {"net", "match"} => k = "match"
  /\ a = "reopen" => k = "reopen"
  /\ a \in {"shift?", "in"} => k = "in"
  /\ a = "out" => k = "out"
  /\ a = "period" => k \in {"shut", "reopenMonth"}

LEMMA WhoseStep == ASSUME NEW k \in AllKinds, NEW a \in StepSet(k) PROVE Whose(a, k)
  BY DEF StepSet, Whose, AllKinds, SalesKinds, StockKinds, OfficeKinds, ClaimKinds

-----------------------------------------------------------------------------
(* What every transaction keeps to, whatever its handler.                  *)

RowNames ==
  {SeriesRow(k) : k \in Series} \cup {MonthRow(m) : m \in Months}
  \cup {Item(i) : i \in Items} \cup {LotRow(l) : l \in Lots}
  \cup {DeliveryRow(o) : o \in Kinds({"grn", "door"})} \cup {Draws(s) : s \in Sold}
  \cup {SaleRow(s) : s \in Sold} \cup {Member, Drawer}
  \cup {ClaimRow(k, m) : k \in ClaimKinds, m \in Months}
  \cup {BatchRow(b) : b \in Batches} \cup {PunchRow(c) : c \in Punches}

\* Transaction t runs its op's statements in their order, and writes of a sale or a
\* delivery only its op's own row or one that has been committed.
InHandOf(t, past) ==
  /\ Shape(t) /\ (t.op = None => t = Idle)
  /\ t.op # None =>
       /\ t.op \in Ops \ past /\ P[t.op].kind \in AllKinds
       /\ Ahead(Steps(P[t.op].kind), t.todo)
       /\ P[t.op].kind \in {"refund", "void", "price", "doorprice"} => P[t.op].of \in past
  /\ \A o : {SaleRow(o), DeliveryRow(o)} \cap DOMAIN t.w # {} => o = t.op \/ o \in past
\* No two transactions run one op, or have locked one row.
Apart(t, u) == DOMAIN t.w \cap DOMAIN u.w = {} /\ (t.op = u.op => t.op = None)
OnRecord(rows, past) ==
  /\ RowNames \subseteq DOMAIN rows
  /\ \A s \in Sold : rows[SaleRow(s)].state # "none" => s \in past
  /\ \A o \in Kinds({"grn", "door"}) : rows[DeliveryRow(o)] # "none" => o \in past

Base ==
  /\ tx = [d \in Txs |-> tx[d]]
  /\ \A d \in Txs : InHandOf(tx[d], applied)
  /\ \A d, e \in Txs : d # e => Apart(tx[d], tx[e])
  /\ OnRecord(row, applied)

Left(d) == Range(tx[d].todo)

\* Where a transaction is: what is left, and whose statement comes next.
LEMMA NextOf ==
  ASSUME Base, NEW d \in Txs, tx[d].op # None, tx[d].todo # <<>>
  PROVE  LET s == Head(tx[d].todo) IN
         /\ s \in StepSet(Payload(d).kind) /\ Whose(s, Payload(d).kind)
         /\ s \in Left(d) /\ Range(Tail(tx[d].todo)) = Left(d) \ {s}
         /\ Ahead(Steps(Payload(d).kind), Tail(tx[d].todo))
         /\ s # "credit" => \A a \in Left(d) \ {"credit"} : Rank(s) <= Rank(a)
  <1>1. PICK k \in AllKinds : k = Payload(d).kind /\ Ahead(Steps(k), tx[d].todo)
    BY DEF Base, InHandOf, Payload
  <1>2. PICK S : S = Steps(k)
    OBVIOUS
  <1>3. InOrder(S) /\ Range(S) = StepSet(k) /\ Ahead(S, tx[d].todo)
    BY <1>1, <1>2, StepsInOrder, StepsAre
  <1>4. PICK todo : todo = tx[d].todo
    OBVIOUS
  <1>5. /\ Ahead(S, Tail(todo)) /\ Head(todo) \in Range(todo) /\ Head(todo) \in Range(S)
        /\ Range(Tail(todo)) = Range(todo) \ {Head(todo)}
        /\ Head(todo) # "credit" => \A a \in Range(todo) \ {"credit"} : Rank(Head(todo)) <= Rank(a)
    BY <1>3, <1>4, OrderStep
  <1>6. Whose(Head(todo), k)
    BY <1>3, <1>5, WhoseStep
  <1> QED BY <1>1, <1>2, <1>3, <1>4, <1>5, <1>6 DEF Left

LEMMA LeftOf ==
  ASSUME Base, NEW d \in Txs, tx[d].op # None
  PROVE  Left(d) \subseteq StepSet(Payload(d).kind)
  <1>1. PICK k \in AllKinds : k = Payload(d).kind /\ Ahead(Steps(k), tx[d].todo)
    BY DEF Base, InHandOf, Payload
  <1>2. PICK S, todo : S = Steps(k) /\ todo = tx[d].todo
    OBVIOUS
  <1>3. InOrder(S) /\ Range(S) = StepSet(k) /\ Ahead(S, todo)
    BY <1>1, <1>2, StepsInOrder, StepsAre
  <1> QED BY <1>1, <1>2, <1>3, AheadIn DEF Left, InOrder

LEMMA BaseReady == ASSUME Base, NEW d \in Txs PROVE Sound(d)
  BY DEF Base, InHandOf, Sound

\* A statement.
LEMMA BaseMakes ==
  ASSUME Base, NEW d \in Txs, NEW s, Makes(d, s) PROVE Base'
  <1>1. /\ tx[d].op # None /\ tx[d].todo # <<>> /\ s = Head(tx[d].todo) /\ Stays
        /\ tx' = [e \in Txs |-> tx'[e]] /\ \A e \in Txs \ {d} : tx'[e] = tx[e]
        /\ Shape(tx'[d]) /\ tx'[d].todo = Tail(tx[d].todo)
    BY DEF Makes, Went
  <1>2. tx'[d].op = tx[d].op
    BY DEF Makes, Went, Fields, FieldsOf, LegSteps
  <1>3. PICK w, u : w = DOMAIN tx[d].w /\ u = DOMAIN tx'[d].w
    OBVIOUS
  <1>4. /\ w \subseteq u
        /\ \A r \in u \ w : Free(d, r) \/ r \in {SaleRow(tx[d].op), DeliveryRow(tx[d].op)}
        /\ \A o : {SaleRow(o), DeliveryRow(o)} \cap (u \ w) # {} =>
              o = tx[d].op \/ (s \in {"claim", "price", "rates"} /\ o = Payload(d).of)
    BY <1>3 DEF Makes, Locks
  <1>5. InHandOf(tx'[d], applied)
    <2>1. \A o : {SaleRow(o), DeliveryRow(o)} \cap u # {} => o = tx[d].op \/ o \in applied
      <3>1. \A o : {SaleRow(o), DeliveryRow(o)} \cap w # {} => o = tx[d].op \/ o \in applied
        BY <1>3 DEF Base, InHandOf
      <3>2. s \in {"claim", "price", "rates"} => Payload(d).of \in applied
        <4>1. Whose(s, Payload(d).kind)
          BY <1>1, NextOf
        <4>2. Payload(d).kind \in {"refund", "void", "price", "doorprice"} => Payload(d).of \in applied
          BY <1>1 DEF Base, InHandOf, Payload
        <4> QED BY <4>1, <4>2 DEF Whose
      <3> QED BY <1>4, <3>1, <3>2
    <2>2. Ahead(Steps(Payload(d).kind), Tail(tx[d].todo))
      BY <1>1, NextOf
    <2> QED BY <1>1, <1>2, <1>3, <2>1, <2>2 DEF Base, InHandOf, Payload
  <1>6. ASSUME NEW e \in Txs \ {d} PROVE Apart(tx'[d], tx[e]) /\ Apart(tx[e], tx'[d])
    <2>1. Apart(tx[d], tx[e])
      BY DEF Base
    <2>2. \A r \in u \ w : r \notin DOMAIN tx[e].w
      <3>1. ASSUME NEW o, o = tx[d].op PROVE {SaleRow(o), DeliveryRow(o)} \cap DOMAIN tx[e].w = {}
        <4>1. o # tx[e].op /\ o \notin applied
          BY <1>1, <2>1, <3>1 DEF Apart, Base, InHandOf
        <4> QED BY <4>1 DEF Base, InHandOf
      <3> QED BY <1>4, <3>1 DEF Free
    <2> QED BY <1>2, <1>3, <1>4, <2>1, <2>2 DEF Apart
  <1>7. row' = row /\ applied' = applied
    BY <1>1 DEF Stays
  <1> QED BY <1>1, <1>5, <1>6, <1>7 DEF Base

\* Nothing is left of a transaction: what it holds is nobody's.
LEMMA IdleBase ==
  ASSUME NEW past PROVE InHandOf(Idle, past) /\ \A t : Apart(Idle, t) /\ Apart(t, Idle)
  <1>1. DOMAIN Idle.w = {}
    <2>1. Idle.w = <<>>
      BY DEF Idle
    <2> QED BY <2>1
  <1>2. Shape(Idle) /\ Idle.op = None
    BY DEF Idle, Shape
  <1> QED BY <1>1, <1>2 DEF InHandOf, Apart

LEMMA DoneMore ==
  ASSUME NEW t, NEW past, NEW o, InHandOf(t, past), t.op # o \/ t.op = None
  PROVE  InHandOf(t, past \cup {o})
  BY DEF InHandOf

LEMMA BaseSkip ==
  ASSUME Base, NEW d \in Txs, tx[d].op # None, Skip(d) PROVE Base'
  <1>1. /\ tx' = [tx EXCEPT ![d] = Idle] /\ applied' = applied \cup {tx[d].op} /\ row' = row
    BY DEF Skip
  <1>2. tx' = [e \in Txs |-> tx'[e]] /\ tx'[d] = Idle /\ \A e \in Txs \ {d} : tx'[e] = tx[e]
    BY <1>1 DEF Base
  <1>3. \A e \in Txs : InHandOf(tx'[e], applied')
    <2>1. ASSUME NEW e \in Txs \ {d} PROVE InHandOf(tx[e], applied')
      <3>1. Apart(tx[e], tx[d]) /\ InHandOf(tx[e], applied)
        BY DEF Base
      <3> QED BY <1>1, <3>1, DoneMore DEF Apart
    <2> QED BY <1>2, <2>1, IdleBase
  <1>4. \A e, f \in Txs : e # f => Apart(tx'[e], tx'[f])
    BY <1>2, IdleBase DEF Base
  <1>5. OnRecord(row, applied')
    BY <1>1 DEF Base, OnRecord
  <1> QED BY <1>1, <1>2, <1>3, <1>4, <1>5 DEF Base

LEMMA BaseAbort ==
  ASSUME Base, NEW d \in Txs, Abort(d) PROVE Base'
  <1>1. tx' = [tx EXCEPT ![d] = Idle] /\ applied' = applied /\ row' = row
    BY DEF Abort, Stays
  <1>2. tx' = [e \in Txs |-> tx'[e]] /\ tx'[d] = Idle /\ \A e \in Txs \ {d} : tx'[e] = tx[e]
    BY <1>1 DEF Base
  <1> QED BY <1>1, <1>2, IdleBase DEF Base

\* what Begin hands to an op
Begun(d, o) ==
  /\ tx' = [e \in Txs |-> tx'[e]] /\ \A e \in Txs \ {d} : tx'[e] = tx[e]
  /\ Stays /\ tx[d].op = None /\ o \in Ops \ applied /\ P[o].kind \in AllKinds
  /\ \A e \in Txs : tx[e].op # o
  /\ Shape(tx'[d]) /\ tx'[d].op = o /\ tx'[d].todo = Steps(P[o].kind)
  /\ tx'[d].month = P[o].month /\ tx'[d].w = <<>> /\ tx'[d].entries = {} /\ tx'[d].moved = {}
  /\ tx'[d].drift = {} /\ tx'[d].session = row[Drawer].session
  /\ tx'[d].wasOpen = Months \ Closed /\ tx'[d].wasShut = Closed
  /\ P[o].kind \in {"refund", "void"} => row[SaleRow(P[o].of)].state # "none"
  /\ P[o].kind \in {"price", "doorprice"} => row[DeliveryRow(P[o].of)] # "none"
  /\ tx'[d].legs = IF P[o].kind \in SalesKinds THEN SettleLegs(o)
                   ELSE IF P[o].kind \in StockKinds THEN NoLegs ELSE OneEntry(o)

LEMMA BeginBegun ==
  ASSUME Base, NEW d \in Txs, NEW o \in Ops, StockBegin(d, o) \/ SalesBegin(d, o) \/ OfficeBegin(d, o)
  PROVE  Begun(d, o)
  <1>1. PICK legs : /\ Begin(d, o, Steps(P[o].kind), legs) /\ P[o].kind \in AllKinds
                    /\ legs = IF P[o].kind \in SalesKinds THEN SettleLegs(o)
                              ELSE IF P[o].kind \in StockKinds THEN NoLegs ELSE OneEntry(o)
                    /\ P[o].kind \in {"refund", "void"} => row[SaleRow(P[o].of)].state # "none"
                    /\ P[o].kind \in {"price", "doorprice"} => row[DeliveryRow(P[o].of)] # "none"
    <2>1. CASE SalesBegin(d, o)
      BY <2>1 DEF SalesBegin, Steps, AllKinds, SalesKinds
    <2>2. CASE StockBegin(d, o)
      BY <2>2 DEF StockBegin, Steps, AllKinds, SalesKinds, StockKinds
    <2>3. CASE OfficeBegin(d, o)
      BY <2>3 DEF OfficeBegin, Steps, AllKinds, SalesKinds, StockKinds, OfficeKinds, ClaimKinds
    <2> QED BY <2>1, <2>2, <2>3
  <1>2. PICK k : k = Steps(P[o].kind)
    OBVIOUS
  <1>3. PICK t : t = [Idle EXCEPT !.op = o, !.todo = k, !.legs = legs, !.month = P[o].month,
                        !.session = row[<<"drawer", "d">>].session,
                        !.wasOpen = Months \ Closed, !.wasShut = Closed]
    OBVIOUS
  <1>4. /\ Shape(t) /\ t.op = o /\ t.todo = k /\ t.legs = legs /\ t.month = P[o].month /\ t.w = <<>>
        /\ t.entries = {} /\ t.moved = {} /\ t.drift = {} /\ t.session = row[Drawer].session
        /\ t.wasOpen = Months \ Closed /\ t.wasShut = Closed
    BY <1>3 DEF Idle, Shape, Drawer
  <1>5. /\ tx' = [tx EXCEPT ![d] = t] /\ tx[d].op = None /\ o \notin applied /\ Stays
        /\ \A e \in Txs : tx[e].op # o
    BY <1>1, <1>2, <1>3 DEF Begin
  <1>6. tx' = [e \in Txs |-> tx'[e]] /\ tx'[d] = t /\ \A e \in Txs \ {d} : tx'[e] = tx[e]
    BY <1>5 DEF Base
  <1> QED BY <1>1, <1>2, <1>4, <1>5, <1>6 DEF Begun

LEMMA BaseBegun ==
  ASSUME Base, NEW d \in Txs, NEW o \in Ops, Begun(d, o) PROVE Base'
  <1>1. row' = row /\ applied' = applied
    BY DEF Begun, Stays
  <1>2. DOMAIN tx'[d].w = {}
    <2>1. tx'[d].w = <<>>
      BY DEF Begun
    <2> QED BY <2>1
  <1>3. Ahead(tx'[d].todo, tx'[d].todo)
    <2>1. PICK S : S = tx'[d].todo
      OBVIOUS
    <2>2. InOrder(S)
      BY <2>1, StepsInOrder DEF Begun
    <2> QED BY <2>1, <2>2, AheadAll DEF InOrder
  <1>4. P[o].kind \in {"refund", "void", "price", "doorprice"} => P[o].of \in applied
    <2>1. P[o].kind \in {"refund", "void"} => P[o].of \in Sold
      BY SalesAssumption DEF Kinds
    <2>2. P[o].kind = "price" => P[o].of \in Kinds({"grn", "door"})
      BY StockAssumption DEF Kinds
    <2>3. P[o].kind = "doorprice" => P[o].of \in Kinds({"grn", "door"})
      BY StockAssumption DEF Kinds
    <2> QED BY <2>1, <2>2, <2>3 DEF Begun, Base, OnRecord
  <1>5. InHandOf(tx'[d], applied)
    <2>1. o # None
      BY OpsAssumption
    <2> QED BY <1>2, <1>3, <1>4, <2>1 DEF InHandOf, Begun
  <1>6. \A e \in Txs \ {d} : Apart(tx'[d], tx[e]) /\ Apart(tx[e], tx'[d])
    BY <1>2 DEF Apart, Begun
  <1> QED BY <1>1, <1>5, <1>6 DEF Base, Begun

\* Every statement is one of the handlers', and the one whose turn it is.
LEMMA ByName ==
  ASSUME NEW d \in Txs, Statement(d)
  PROVE  /\ tx[d].op # None /\ tx[d].todo # <<>>
         /\ LET s == Head(tx[d].todo) IN
            /\ s = "land" => Land(d)
            /\ s = "ensure" => Ensure(d)
            /\ s = "insert" => InsertMonth(d)
            /\ s = "post" => Post(d)
            /\ s = "period" => Period(d)
            /\ s = "receive" => Receive(d)
            /\ s = "price" => Price(d)
            /\ s = "door" => LookAtDoor(d)
            /\ s = "rates" => PriceDoor(d)
            /\ s = "shift" => Shift(d)
            /\ s = "transfer" => Transfer(d)
            /\ s = "use" => Use(d)
            /\ s = "make" => Make(d)
            /\ s = "lot" => LookAtLot(d)
            /\ s = "throw" => Throw(d)
            /\ s = "empty" => Empty(d)
            /\ s = "number" => Number(d)
            /\ s = "credit" => Credit(d)
            /\ s = "sold" => SaleStock(d)
            /\ s = "earn" => Earn(d)
            /\ s = "split" => Split(d)
            /\ s = "find" => Find(d)
            /\ s = "claim" => Claim(d)
            /\ s = "return" => ReturnStock(d)
            /\ s = "member" => TakeBack(d)
            /\ s = "balance" => Balance(d)
            /\ s = "adjust" => Adjust(d)
            /\ s = "look" => LookAtDrawer(d)
            /\ s = "open" => OpenRegister(d)
            /\ s = "count" => CloseRegister(d)
            /\ s = "claimMonth" => ClaimMonth(d)
            /\ s = "net" => ReadNet(d)
            /\ s = "match" => Match(d)
            /\ s = "reopen" => Reopen(d)
            /\ s = "shift?" => LookAtClock(d)
            /\ s = "in" => ClockIn(d)
            /\ s = "out" => ClockOut(d)
            /\ s \in {"land", "ensure", "insert", "post", "period", "receive", "price", "door",
                "rates", "shift", "transfer", "use", "make", "lot", "throw", "empty", "number",
                    "credit", "sold",
                       "earn", "split", "find", "claim", "return", "member", "balance", "adjust",
                           "look", "open", "count", "claimMonth", "net", "match", "reopen",
                               "shift?", "in", "out"}
  <1> PICK s : s = Head(tx[d].todo)
    OBVIOUS
  <1>1. Land(d) => tx[d].op # None /\ tx[d].todo # <<>> /\ s = "land"
    BY DEF Land, At
  <1>2. Ensure(d) => tx[d].op # None /\ tx[d].todo # <<>> /\ s = "ensure"
    BY DEF Ensure, At
  <1>3. InsertMonth(d) => tx[d].op # None /\ tx[d].todo # <<>> /\ s = "insert"
    BY DEF InsertMonth, At
  <1>4. Post(d) => tx[d].op # None /\ tx[d].todo # <<>> /\ s = "post"
    BY DEF Post, At
  <1>5. Period(d) => tx[d].op # None /\ tx[d].todo # <<>> /\ s = "period"
    BY DEF Period, At
  <1>6. Receive(d) => tx[d].op # None /\ tx[d].todo # <<>> /\ s = "receive"
    BY DEF Receive, At
  <1>7. Price(d) => tx[d].op # None /\ tx[d].todo # <<>> /\ s = "price"
    BY DEF Price, At
  <1>8. LookAtDoor(d) => tx[d].op # None /\ tx[d].todo # <<>> /\ s = "door"
    BY DEF LookAtDoor, At
  <1>9. PriceDoor(d) => tx[d].op # None /\ tx[d].todo # <<>> /\ s = "rates"
    BY DEF PriceDoor, At
  <1>10. Shift(d) => tx[d].op # None /\ tx[d].todo # <<>> /\ s = "shift"
    BY DEF Shift, At
  <1>11. Transfer(d) => tx[d].op # None /\ tx[d].todo # <<>> /\ s = "transfer"
    BY DEF Transfer, At
  <1>12. Use(d) => tx[d].op # None /\ tx[d].todo # <<>> /\ s = "use"
    BY DEF Use, At
  <1>13. Make(d) => tx[d].op # None /\ tx[d].todo # <<>> /\ s = "make"
    BY DEF Make, At
  <1>14. LookAtLot(d) => tx[d].op # None /\ tx[d].todo # <<>> /\ s = "lot"
    BY DEF LookAtLot, At
  <1>15. Throw(d) => tx[d].op # None /\ tx[d].todo # <<>> /\ s = "throw"
    BY DEF Throw, At
  <1>16. Empty(d) => tx[d].op # None /\ tx[d].todo # <<>> /\ s = "empty"
    BY DEF Empty, At
  <1>17. Number(d) => tx[d].op # None /\ tx[d].todo # <<>> /\ s = "number"
    BY DEF Number, At
  <1>18. Credit(d) => tx[d].op # None /\ tx[d].todo # <<>> /\ s = "credit"
    BY DEF Credit, At
  <1>19. SaleStock(d) => tx[d].op # None /\ tx[d].todo # <<>> /\ s = "sold"
    BY DEF SaleStock, At
  <1>20. Earn(d) => tx[d].op # None /\ tx[d].todo # <<>> /\ s = "earn"
    BY DEF Earn, At
  <1>21. Split(d) => tx[d].op # None /\ tx[d].todo # <<>> /\ s = "split"
    BY DEF Split, At
  <1>22. Find(d) => tx[d].op # None /\ tx[d].todo # <<>> /\ s = "find"
    BY DEF Find, At
  <1>23. Claim(d) => tx[d].op # None /\ tx[d].todo # <<>> /\ s = "claim"
    BY DEF Claim, At
  <1>24. ReturnStock(d) => tx[d].op # None /\ tx[d].todo # <<>> /\ s = "return"
    BY DEF ReturnStock, At
  <1>25. TakeBack(d) => tx[d].op # None /\ tx[d].todo # <<>> /\ s = "member"
    BY DEF TakeBack, At
  <1>26. Balance(d) => tx[d].op # None /\ tx[d].todo # <<>> /\ s = "balance"
    BY DEF Balance, At
  <1>27. Adjust(d) => tx[d].op # None /\ tx[d].todo # <<>> /\ s = "adjust"
    BY DEF Adjust, At
  <1>28. LookAtDrawer(d) => tx[d].op # None /\ tx[d].todo # <<>> /\ s = "look"
    BY DEF LookAtDrawer, At
  <1>29. OpenRegister(d) => tx[d].op # None /\ tx[d].todo # <<>> /\ s = "open"
    BY DEF OpenRegister, At
  <1>30. CloseRegister(d) => tx[d].op # None /\ tx[d].todo # <<>> /\ s = "count"
    BY DEF CloseRegister, At
  <1>31. ClaimMonth(d) => tx[d].op # None /\ tx[d].todo # <<>> /\ s = "claimMonth"
    BY DEF ClaimMonth, At
  <1>32. ReadNet(d) => tx[d].op # None /\ tx[d].todo # <<>> /\ s = "net"
    BY DEF ReadNet, At
  <1>33. Match(d) => tx[d].op # None /\ tx[d].todo # <<>> /\ s = "match"
    BY DEF Match, At
  <1>34. Reopen(d) => tx[d].op # None /\ tx[d].todo # <<>> /\ s = "reopen"
    BY DEF Reopen, At
  <1>35. LookAtClock(d) => tx[d].op # None /\ tx[d].todo # <<>> /\ s = "shift?"
    BY DEF LookAtClock, At
  <1>36. ClockIn(d) => tx[d].op # None /\ tx[d].todo # <<>> /\ s = "in"
    BY DEF ClockIn, At
  <1>37. ClockOut(d) => tx[d].op # None /\ tx[d].todo # <<>> /\ s = "out"
    BY DEF ClockOut, At
  <1> QED BY <1>1, <1>2, <1>3, <1>4, <1>5, <1>6, <1>7, <1>8, <1>9, <1>10, <1>11, <1>12, <1>13,
        <1>14, <1>15, <1>16, <1>17, <1>18, <1>19, <1>20, <1>21, <1>22, <1>23, <1>24, <1>25, <1>26,
            <1>27, <1>28, <1>29, <1>30, <1>31, <1>32, <1>33, <1>34, <1>35, <1>36, <1>37
          DEF Statement, Entry, StockStatement, SalesStatement, OfficeStatement

LEMMA StatementMakes ==
  ASSUME Base, NEW d \in Txs, Statement(d)
  PROVE  tx[d].op # None /\ tx[d].todo # <<>> /\ (Skip(d) \/ Makes(d, Head(tx[d].todo)))
  <1> PICK s : s = Head(tx[d].todo)
    OBVIOUS
  <1>1. /\ tx[d].op # None /\ tx[d].todo # <<>> /\ Sound(d)
    BY ByName, BaseReady
  <1>2. s = "claimMonth" => Payload(d).kind \in ClaimKinds
    <2>1. Whose(s, Payload(d).kind)
      BY <1>1, NextOf
    <2> QED BY <2>1 DEF Whose
  <1>3. Land(d) => Skip(d) \/ Makes(d, "land")
    BY <1>1, LandMakes
  <1>4. Ensure(d) => Skip(d) \/ Makes(d, "ensure")
    BY <1>1, EnsureMakes
  <1>5. InsertMonth(d) => Skip(d) \/ Makes(d, "insert")
    BY <1>1, InsertMakes
  <1>6. Post(d) => Skip(d) \/ Makes(d, "post")
    BY <1>1, PostMakes
  <1>7. Period(d) => Skip(d) \/ Makes(d, "period")
    BY <1>1, PeriodMakes
  <1>8. Receive(d) => Skip(d) \/ Makes(d, "receive")
    BY <1>1, ReceiveMakes
  <1>9. Price(d) => Skip(d) \/ Makes(d, "price")
    BY <1>1, PriceMakes
  <1>10. LookAtDoor(d) => Skip(d) \/ Makes(d, "door")
    BY <1>1, DoorMakes
  <1>11. PriceDoor(d) => Skip(d) \/ Makes(d, "rates")
    BY <1>1, RatesMakes
  <1>12. Shift(d) => Skip(d) \/ Makes(d, "shift")
    BY <1>1, ShiftMakes
  <1>13. Transfer(d) => Skip(d) \/ Makes(d, "transfer")
    BY <1>1, TransferMakes
  <1>14. Use(d) => Skip(d) \/ Makes(d, "use")
    BY <1>1, UseMakes
  <1>15. Make(d) => Skip(d) \/ Makes(d, "make")
    BY <1>1, MakeMakes
  <1>16. LookAtLot(d) => Skip(d) \/ Makes(d, "lot")
    BY <1>1, LotMakes
  <1>17. Throw(d) => Skip(d) \/ Makes(d, "throw")
    BY <1>1, ThrowMakes
  <1>18. Empty(d) => Skip(d) \/ Makes(d, "empty")
    BY <1>1, EmptyMakes
  <1>19. Number(d) => Skip(d) \/ Makes(d, "number")
    BY <1>1, NumberMakes
  <1>20. Credit(d) => Skip(d) \/ Makes(d, "credit")
    BY <1>1, CreditMakes
  <1>21. SaleStock(d) => Skip(d) \/ Makes(d, "sold")
    BY <1>1, SoldMakes
  <1>22. Earn(d) => Skip(d) \/ Makes(d, "earn")
    BY <1>1, EarnMakes
  <1>23. Split(d) => Skip(d) \/ Makes(d, "split")
    BY <1>1, SplitMakes
  <1>24. Find(d) => Skip(d) \/ Makes(d, "find")
    BY <1>1, FindMakes
  <1>25. Claim(d) => Skip(d) \/ Makes(d, "claim")
    BY <1>1, ClaimMakes
  <1>26. ReturnStock(d) => Skip(d) \/ Makes(d, "return")
    BY <1>1, ReturnMakes
  <1>27. TakeBack(d) => Skip(d) \/ Makes(d, "member")
    BY <1>1, TakeBackMakes
  <1>28. Balance(d) => Skip(d) \/ Makes(d, "balance")
    BY <1>1, BalanceMakes
  <1>29. Adjust(d) => Skip(d) \/ Makes(d, "adjust")
    BY <1>1, AdjustMakes
  <1>30. LookAtDrawer(d) => Skip(d) \/ Makes(d, "look")
    BY <1>1, LookMakes
  <1>31. OpenRegister(d) => Skip(d) \/ Makes(d, "open")
    BY <1>1, OpenMakes
  <1>32. CloseRegister(d) => Skip(d) \/ Makes(d, "count")
    BY <1>1, CloseMakes
  <1>33. s = "claimMonth" /\ ClaimMonth(d) => Skip(d) \/ Makes(d, "claimMonth")
    BY <1>1, <1>2, ClaimMonthMakes
  <1>34. ReadNet(d) => Skip(d) \/ Makes(d, "net")
    BY <1>1, NetMakes
  <1>35. Match(d) => Skip(d) \/ Makes(d, "match")
    BY <1>1, MatchMakes
  <1>36. Reopen(d) => Skip(d) \/ Makes(d, "reopen")
    BY <1>1, ReopenMakes
  <1>37. LookAtClock(d) => Skip(d) \/ Makes(d, "shift?")
    BY <1>1, LookClockMakes
  <1>38. ClockIn(d) => Skip(d) \/ Makes(d, "in")
    BY <1>1, ClockInMakes
  <1>39. ClockOut(d) => Skip(d) \/ Makes(d, "out")
    BY <1>1, ClockOutMakes
  <1> QED BY <1>1, <1>3, <1>4, <1>5, <1>6, <1>7, <1>8, <1>9, <1>10, <1>11, <1>12, <1>13, <1>14,
        <1>15, <1>16, <1>17, <1>18, <1>19, <1>20, <1>21, <1>22, <1>23, <1>24, <1>25, <1>26, <1>27,
            <1>28, <1>29, <1>30, <1>31, <1>32, <1>33, <1>34, <1>35, <1>36, <1>37, <1>38, <1>39,
                ByName

\* What a commit makes of the rows, and of the others.
Commits(d) ==
  LET w == tx[d].w IN
  /\ tx[d].op # None /\ tx[d].todo = <<>>
  /\ DOMAIN row \subseteq DOMAIN row'
  /\ \A r \in DOMAIN row \cup DOMAIN w : row'[r] = IF r \in DOMAIN w THEN w[r] ELSE row[r]
  /\ applied' = applied \cup {tx[d].op} /\ moves' = moves \cup tx[d].moved
  /\ adrift' = adrift \cup tx[d].drift
  /\ journal' = journal \cup {[j EXCEPT !.open = tx[d].wasOpen, !.shut = tx[d].wasShut] :
                                j \in tx[d].entries}
  /\ tx' = [e \in Txs |-> tx'[e]] /\ tx'[d] = Idle
  /\ \A e \in Txs \ {d} :
       LET shut == {m \in Months : row'[MonthRow(m)] = "closed"} IN
       /\ Shape(tx'[e])
       /\ \A f \in Fields \ {"wasOpen", "wasShut"} : tx'[e][f] = tx[e][f]
       /\ tx[e].op # None => /\ tx'[e].wasOpen = tx[e].wasOpen \cup (Months \ shut)
                             /\ tx'[e].wasShut = tx[e].wasShut \cup shut
       /\ tx[e].op = None => tx'[e] = Idle

LEMMA CommitCommits ==
  ASSUME Base, NEW d \in Txs, CommitTx(d) PROVE Commits(d)
  <1> PICK w : w = tx[d].w
    OBVIOUS
  <1>1. row' = w @@ row
    BY DEF CommitTx
  <1>2. /\ DOMAIN row \subseteq DOMAIN row'
        /\ \A r \in DOMAIN row \cup DOMAIN w : row'[r] = IF r \in DOMAIN w THEN w[r] ELSE row[r]
    BY <1>1 DEF @@
  <1>3. /\ tx[d].op # None /\ tx[d].todo = <<>> /\ applied' = applied \cup {tx[d].op}
        /\ moves' = moves \cup tx[d].moved /\ adrift' = adrift \cup tx[d].drift
        /\ journal' = journal \cup {[j EXCEPT !.open = tx[d].wasOpen, !.shut = tx[d].wasShut] :
                                      j \in tx[d].entries}
        /\ tx' = [e \in Txs |-> IF e = d \/ tx[e].op = None THEN Idle ELSE Watch(tx[e])]
    BY DEF CommitTx
  <1>4. ASSUME NEW e \in Txs \ {d}
        PROVE  LET shut == {m \in Months : row'[MonthRow(m)] = "closed"} IN
               /\ Shape(tx'[e])
               /\ \A f \in Fields \ {"wasOpen", "wasShut"} : tx'[e][f] = tx[e][f]
               /\ tx[e].op # None => /\ tx'[e].wasOpen = tx[e].wasOpen \cup (Months \ shut)
                                     /\ tx'[e].wasShut = tx[e].wasShut \cup shut
               /\ tx[e].op = None => tx'[e] = Idle
    <2> PICK shut : shut = {m \in Months : row'[MonthRow(m)] = "closed"}
      OBVIOUS
    <2>1. CASE tx[e].op = None
      <3>1. tx'[e] = Idle /\ tx[e] = Idle
        BY <1>3, <2>1 DEF Base, InHandOf
      <3> QED BY <2>1, <3>1 DEF Idle, Shape
    <2>2. CASE tx[e].op # None
      <3>1. PICK t : t = [tx[e] EXCEPT !.wasOpen = @ \cup (Months \ shut), !.wasShut = @ \cup shut]
        OBVIOUS
      <3>2. tx'[e] = t
        BY <1>3, <2>2, <3>1 DEF Watch
      <3>3. Shape(tx[e])
        BY DEF Base, InHandOf
      <3>4. /\ Shape(t) /\ t.wasOpen = tx[e].wasOpen \cup (Months \ shut)
               /\ t.wasShut = tx[e].wasShut \cup shut
            /\ \A f \in Fields \ {"wasOpen", "wasShut"} : t[f] = tx[e][f]
        BY <3>1, <3>3 DEF Shape, Fields
      <3> QED BY <2>2, <3>2, <3>4
    <2> QED BY <2>1, <2>2
  <1> QED BY <1>2, <1>3, <1>4 DEF Commits

LEMMA BaseCommits ==
  ASSUME Base, NEW d \in Txs, Commits(d) PROVE Base'
  <1>1. \A e \in Txs \ {d} : tx'[e].op = tx[e].op /\ tx'[e].w = tx[e].w /\ tx'[e].todo = tx[e].todo
    BY DEF Commits, Fields
  <1>2. ASSUME NEW e \in Txs \ {d} PROVE InHandOf(tx'[e], applied')
    <2>1. InHandOf(tx[e], applied) /\ Apart(tx[e], tx[d])
      BY DEF Base
    <2>2. InHandOf(tx[e], applied')
      BY <2>1, DoneMore DEF Commits, Apart
    <2> QED BY <1>1, <2>2 DEF InHandOf, Commits
  <1>3. ASSUME NEW e \in Txs, NEW f \in Txs, e # f PROVE Apart(tx'[e], tx'[f])
    <2>1. Apart(tx[e], tx[f])
      BY <1>3 DEF Base
    <2> QED BY <1>1, <1>3, <2>1, IdleBase DEF Apart, Commits
  <1>4. OnRecord(row', applied')
    <2>1. RowNames \subseteq DOMAIN row'
      BY DEF Base, OnRecord, Commits
    <2>2. ASSUME NEW s \in Sold, row'[SaleRow(s)].state # "none" PROVE s \in applied'
      <3>1. SaleRow(s) \in DOMAIN row
        BY DEF Base, OnRecord, RowNames
      <3>2. CASE SaleRow(s) \in DOMAIN tx[d].w
        BY <3>2 DEF Base, InHandOf, Commits
      <3>3. CASE SaleRow(s) \notin DOMAIN tx[d].w
        BY <2>2, <3>1, <3>3 DEF Base, OnRecord, Commits
      <3> QED BY <3>2, <3>3
    <2>3. ASSUME NEW o \in Kinds({"grn", "door"}), row'[DeliveryRow(o)] # "none" PROVE o \in applied'
      <3>1. DeliveryRow(o) \in DOMAIN row
        BY DEF Base, OnRecord, RowNames
      <3>2. CASE DeliveryRow(o) \in DOMAIN tx[d].w
        BY <3>2 DEF Base, InHandOf, Commits
      <3>3. CASE DeliveryRow(o) \notin DOMAIN tx[d].w
        BY <2>3, <3>1, <3>3 DEF Base, OnRecord, Commits
      <3> QED BY <3>2, <3>3
    <2> QED BY <2>1, <2>2, <2>3 DEF OnRecord
  <1> QED BY <1>2, <1>3, <1>4, IdleBase DEF Base, Commits

\* A step of the books, by what it is.
StepOf(d) ==
  \/ \E o \in Ops : Begun(d, o)
  \/ tx[d].op # None /\ tx[d].todo # <<>> /\ Statement(d) /\ Makes(d, Head(tx[d].todo))
  \/ tx[d].op # None /\ Statement(d) /\ Skip(d)
  \/ Commits(d)
  \/ Abort(d)

LEMMA Stepping ==
  ASSUME Base, BooksNext PROVE \E d \in Txs : StepOf(d)
  BY BeginBegun, StatementMakes, CommitCommits DEF BooksNext, StepOf

LEMMA BaseStep ==
  ASSUME Base, [BooksNext]_bookVars PROVE Base'
  <1>1. CASE BooksNext
    BY <1>1, Stepping, BaseBegun, BaseMakes, BaseSkip, BaseCommits, BaseAbort DEF StepOf
  <1>2. CASE UNCHANGED bookVars
    BY <1>2 DEF bookVars, Base
  <1> QED BY <1>1, <1>2

\* What a row begins as.
LEMMA FirstRow ==
  ASSUME BooksInit
  PROVE  /\ RowNames \subseteq DOMAIN row
         /\ \A k \in Series : row[SeriesRow(k)] = 1
         /\ \A m \in Months : row[MonthRow(m)] = "none"
         /\ \A i \in Items : row[Item(i)] = OnHand0
         /\ \A l \in Lots : row[LotRow(l)] = NoLot
         /\ \A o \in Kinds({"grn", "door"}) : row[DeliveryRow(o)] = "none"
         /\ \A s \in Sold : row[Draws(s)] = [by |-> NothingDrawn, undone |-> FALSE]
         /\ \A s \in Sold : row[SaleRow(s)] = NoSale
         /\ row[Member] = [points |-> Points0, used |-> 0]
         /\ row[Drawer] = [session |-> 0, open |-> FALSE, float |-> 0]
         /\ \A k \in ClaimKinds, m \in Months : row[ClaimRow(k, m)] = 0
         /\ \A b \in Batches : row[BatchRow(b)] = [state |-> "none", net |-> 0]
         /\ \A c \in Punches : row[PunchRow(c)] = [emp |-> None, state |-> "none"]
  <1> PICK A, B, C, D : A = FirstRows /\ B = StockRows /\ C = SalesRows /\ D = OfficeRows
    OBVIOUS
  <1>1. /\ row = A @@ B @@ C @@ D
    BY DEF BooksInit
  <1>2. /\ \A r \in DOMAIN A : r[1] \in {"series", "month"}
        /\ \A k \in Series : SeriesRow(k) \in DOMAIN A /\ A[SeriesRow(k)] = 1
        /\ \A m \in Months : MonthRow(m) \in DOMAIN A /\ A[MonthRow(m)] = "none"
    <2> PICK F, G : F = [r \in {SeriesRow(k) : k \in Series} |-> 1]
          /\ G = [r \in {MonthRow(m) : m \in Months} |-> "none"]
      OBVIOUS
    <2>1. A = F @@ G
      BY DEF FirstRows
    <2>2. /\ DOMAIN A = DOMAIN F \cup DOMAIN G /\ \A r \in DOMAIN F : A[r] = F[r]
          /\ \A r \in DOMAIN G \ DOMAIN F : A[r] = G[r]
      BY <2>1 DEF @@
    <2>3. /\ \A k \in Series : SeriesRow(k) \in DOMAIN F /\ F[SeriesRow(k)] = 1
          /\ \A m \in Months : MonthRow(m) \in DOMAIN G /\ G[MonthRow(m)] = "none"
          /\ \A r \in DOMAIN F : \E k : r = SeriesRow(k)
          /\ \A r \in DOMAIN G : \E m : r = MonthRow(m)
      OBVIOUS
    <2>4. \A x, y : SeriesRow(x) # MonthRow(y) /\ SeriesRow(x)[1] = "series" /\ MonthRow(y)[1] = "month"
      BY DEF SeriesRow, MonthRow
    <2>5. /\ \A r \in DOMAIN F : r[1] = "series"
          /\ \A r \in DOMAIN G : r[1] = "month" /\ r \notin DOMAIN F
      BY <2>3, <2>4
    <2>6. \A m \in Months : MonthRow(m) \in DOMAIN A /\ A[MonthRow(m)] = "none"
      BY <2>2, <2>3, <2>5
    <2> QED BY <2>2, <2>3, <2>5, <2>6
  <1>3. /\ \A r \in DOMAIN B : r[1] \in {"item", "lot", "delivery", "draws"}
        /\ \A i \in Items : Item(i) \in DOMAIN B /\ B[Item(i)] = OnHand0
        /\ \A l \in Lots : LotRow(l) \in DOMAIN B /\ B[LotRow(l)] = NoLot
        /\ \A o \in Kinds({"grn", "door"}) : DeliveryRow(o) \in DOMAIN B /\ B[DeliveryRow(o)] = "none"
        /\ \A s \in Sold : Draws(s) \in DOMAIN B /\ B[Draws(s)] = [by |-> NothingDrawn, undone |-> FALSE]
    <2> PICK F, G, H, I, Z : /\ F = [r \in {Item(i) : i \in Items} |-> OnHand0]
                             /\ G = [r \in {LotRow(l) : l \in Lots} |-> NoLot]
                             /\ H = [r \in {DeliveryRow(o) : o \in Kinds({"grn", "door"})} |-> "none"]
                             /\ Z = [by |-> NothingDrawn, undone |-> FALSE]
                             /\ I = [r \in {Draws(s) : s \in Kinds({"sale"})} |-> Z]
      OBVIOUS
    <2>1. B = F @@ G @@ H @@ I
      BY DEF StockRows
    <2>2. /\ DOMAIN B = DOMAIN F \cup DOMAIN G \cup DOMAIN H \cup DOMAIN I
          /\ \A r \in DOMAIN F : B[r] = F[r]
          /\ \A r \in DOMAIN G \ DOMAIN F : B[r] = G[r]
          /\ \A r \in DOMAIN H \ (DOMAIN F \cup DOMAIN G) : B[r] = H[r]
          /\ \A r \in DOMAIN I \ (DOMAIN F \cup DOMAIN G \cup DOMAIN H) : B[r] = I[r]
      BY <2>1 DEF @@
    <2>a. \A i \in Items : Item(i) \in DOMAIN F /\ F[Item(i)] = OnHand0
      OBVIOUS
    <2>b. \A l \in Lots : LotRow(l) \in DOMAIN G /\ G[LotRow(l)] = NoLot
      OBVIOUS
    <2>c. \A r \in DOMAIN F : \E x : r = Item(x)
      OBVIOUS
    <2>d. \A r \in DOMAIN G : \E x : r = LotRow(x)
      OBVIOUS
    <2>e. \A o \in Kinds({"grn", "door"}) : DeliveryRow(o) \in DOMAIN H /\ H[DeliveryRow(o)] = "none"
      OBVIOUS
    <2>f. \A s \in Sold : Draws(s) \in DOMAIN I /\ I[Draws(s)] = Z
      BY DEF Sold
    <2>g. \A r \in DOMAIN H : \E x : r = DeliveryRow(x)
      OBVIOUS
    <2>h. \A r \in DOMAIN I : \E x : r = Draws(x)
      OBVIOUS
    <2>3. /\ \A i \in Items : Item(i) \in DOMAIN F /\ F[Item(i)] = OnHand0
          /\ \A l \in Lots : LotRow(l) \in DOMAIN G /\ G[LotRow(l)] = NoLot
          /\ \A r \in DOMAIN F : \E x : r = Item(x)
          /\ \A r \in DOMAIN G : \E x : r = LotRow(x)
      BY <2>a, <2>b, <2>c, <2>d
    <2>4. /\ \A o \in Kinds({"grn", "door"}) : DeliveryRow(o) \in DOMAIN H /\ H[DeliveryRow(o)] = "none"
          /\ \A s \in Sold : Draws(s) \in DOMAIN I /\ I[Draws(s)] = Z
          /\ \A r \in DOMAIN H : \E x : r = DeliveryRow(x)
          /\ \A r \in DOMAIN I : \E x : r = Draws(x)
      BY <2>e, <2>f, <2>g, <2>h
    <2>5. \A x : /\ Item(x)[1] = "item" /\ LotRow(x)[1] = "lot"
                 /\ DeliveryRow(x)[1] = "delivery" /\ Draws(x)[1] = "draws"
      BY DEF Item, LotRow, DeliveryRow, Draws
    <2>6. /\ \A r \in DOMAIN F : r[1] = "item"
          /\ \A r \in DOMAIN G : r[1] = "lot"
          /\ \A r \in DOMAIN H : r[1] = "delivery"
          /\ \A r \in DOMAIN I : r[1] = "draws"
      BY <2>3, <2>4, <2>5
    <2>i. \A i \in Items : Item(i) \in DOMAIN B /\ B[Item(i)] = OnHand0
      BY <2>2, <2>a
    <2>j. \A l \in Lots : LotRow(l) \in DOMAIN B /\ B[LotRow(l)] = NoLot
      BY <2>2, <2>b, <2>6
    <2>7. /\ \A i \in Items : Item(i) \in DOMAIN B /\ B[Item(i)] = OnHand0
          /\ \A l \in Lots : LotRow(l) \in DOMAIN B /\ B[LotRow(l)] = NoLot
      BY <2>i, <2>j
    <2>o. \A r \in DOMAIN H : r \notin DOMAIN F \cup DOMAIN G
      BY <2>6
    <2>p. \A r \in DOMAIN H : r \in DOMAIN B /\ B[r] = H[r]
      BY <2>2, <2>o
    <2>k. \A o \in Kinds({"grn", "door"}) : DeliveryRow(o) \in DOMAIN B /\ B[DeliveryRow(o)] = "none"
      BY <2>e, <2>p
    <2>m. \A r \in DOMAIN I : r \notin DOMAIN F \cup DOMAIN G \cup DOMAIN H
      BY <2>6
    <2>n. \A r \in DOMAIN I : r \in DOMAIN B /\ B[r] = I[r]
      BY <2>2, <2>m
    <2>l. \A s \in Sold : Draws(s) \in DOMAIN B /\ B[Draws(s)] = Z
      BY <2>f, <2>n
    <2>8. /\ \A o \in Kinds({"grn", "door"}) : DeliveryRow(o) \in DOMAIN B /\ B[DeliveryRow(o)] = "none"
          /\ \A s \in Sold : Draws(s) \in DOMAIN B /\ B[Draws(s)] = Z
      BY <2>k, <2>l
    <2>9. \A r \in DOMAIN B : r[1] \in {"item", "lot", "delivery", "draws"}
      BY <2>2, <2>6
    <2> QED BY <2>7, <2>8, <2>9
  <1>4. /\ \A r \in DOMAIN C : r[1] \in {"sale", "member", "drawer"}
        /\ \A s \in Sold : SaleRow(s) \in DOMAIN C /\ C[SaleRow(s)] = NoSale
        /\ Member \in DOMAIN C /\ C[Member] = [points |-> Points0, used |-> 0]
        /\ Drawer \in DOMAIN C /\ C[Drawer] = [session |-> 0, open |-> FALSE, float |-> 0]
    <2> PICK F, G, H : /\ F = [r \in {SaleRow(s) : s \in Sold} |-> NoSale]
                       /\ G = [points |-> Points0, used |-> 0]
                       /\ H = [session |-> 0, open |-> FALSE, float |-> 0]
      OBVIOUS
    <2>1. C = F @@ (Member :> G) @@ (Drawer :> H)
      BY DEF SalesRows
    <2>2. /\ DOMAIN C = DOMAIN F \cup {Member, Drawer}
          /\ \A r \in DOMAIN F : C[r] = F[r]
          /\ Member \notin DOMAIN F => C[Member] = G
          /\ Drawer \notin DOMAIN F \cup {Member} => C[Drawer] = H
      BY <2>1 DEF @@, :>
    <2> QED BY <2>2 DEF SaleRow, Member, Drawer
  <1>5. /\ \A r \in DOMAIN D : r[1] \in ClaimKinds \cup {"batch", "punch"}
        /\ \A k \in ClaimKinds, m \in Months : ClaimRow(k, m) \in DOMAIN D /\ D[ClaimRow(k, m)] = 0
        /\ \A b \in Batches : BatchRow(b) \in DOMAIN D /\ D[BatchRow(b)] = [state |-> "none", net |-> 0]
        /\ \A c \in Punches : PunchRow(c) \in DOMAIN D
            /\ D[PunchRow(c)] = [emp |-> None, state |-> "none"]
    <2> PICK Y, Z : Y = [state |-> "none", net |-> 0] /\ Z = [emp |-> None, state |-> "none"]
      OBVIOUS
    <2> DEFINE X == {ClaimRow(k, m) : k \in ClaimKinds, m \in Months}
               F == [r \in X |-> 0]
    <2>30. /\ DOMAIN F = X /\ \A k \in ClaimKinds, m \in Months : ClaimRow(k, m) \in X
           /\ \A r \in X : F[r] = 0
           /\ \A r \in X : \E k \in ClaimKinds, m \in Months : r = ClaimRow(k, m)
      OBVIOUS
    <2> PICK G, H : /\ G = [r \in {BatchRow(b) : b \in Batches} |-> Y]
                    /\ H = [r \in {PunchRow(c) : c \in Punches} |-> Z]
      OBVIOUS
    <2>1. D = F @@ G @@ H
      BY DEF OfficeRows
    <2> HIDE DEF X, F
    <2>2. /\ DOMAIN D = DOMAIN F \cup DOMAIN G \cup DOMAIN H
          /\ \A r \in DOMAIN F : D[r] = F[r]
          /\ \A r \in DOMAIN G \ DOMAIN F : D[r] = G[r]
          /\ \A r \in DOMAIN H \ (DOMAIN F \cup DOMAIN G) : D[r] = H[r]
      BY <2>1 DEF @@
    <2>3. \A k \in ClaimKinds, m \in Months : ClaimRow(k, m) \in DOMAIN F /\ F[ClaimRow(k, m)] = 0
      BY <2>30
    <2>4. \A r \in DOMAIN F : r[1] \in ClaimKinds
      BY <2>30 DEF ClaimRow
    <2>5. \A b : BatchRow(b) \notin DOMAIN F /\ PunchRow(b) \notin DOMAIN F
      BY <2>4 DEF BatchRow, PunchRow, ClaimKinds
    <2>6. \A b, c : BatchRow(b) # PunchRow(c) /\ BatchRow(b)[1] = "batch" /\ PunchRow(c)[1] = "punch"
      BY DEF BatchRow, PunchRow
    <2>7. /\ \A b \in Batches : BatchRow(b) \in DOMAIN G /\ G[BatchRow(b)] = Y
          /\ \A c \in Punches : PunchRow(c) \in DOMAIN H /\ H[PunchRow(c)] = Z
          /\ \A r \in DOMAIN G : \E b : r = BatchRow(b)
          /\ \A r \in DOMAIN H : \E b : r = PunchRow(b)
      OBVIOUS
    <2>8. /\ \A r \in DOMAIN G : r[1] = "batch" /\ r \notin DOMAIN F
          /\ \A r \in DOMAIN H : r[1] = "punch" /\ r \notin DOMAIN F \cup DOMAIN G
      BY <2>5, <2>6, <2>7
    <2>9. \A k \in ClaimKinds, m \in Months : ClaimRow(k, m) \in DOMAIN D /\ D[ClaimRow(k, m)] = 0
      BY <2>2, <2>3
    <2>10. /\ \A b \in Batches : BatchRow(b) \in DOMAIN D /\ D[BatchRow(b)] = Y
           /\ \A c \in Punches : PunchRow(c) \in DOMAIN D /\ D[PunchRow(c)] = Z
      BY <2>2, <2>7, <2>8
    <2>11. \A r \in DOMAIN D : r[1] \in ClaimKinds \cup {"batch", "punch"}
      BY <2>2, <2>4, <2>8
    <2> QED BY <2>9, <2>10, <2>11
  <1>6. /\ DOMAIN row = DOMAIN A \cup DOMAIN B \cup DOMAIN C \cup DOMAIN D
        /\ \A r \in DOMAIN A : row[r] = A[r]
        /\ \A r \in DOMAIN B \ DOMAIN A : row[r] = B[r]
        /\ \A r \in DOMAIN C \ (DOMAIN A \cup DOMAIN B) : row[r] = C[r]
        /\ \A r \in DOMAIN D \ (DOMAIN A \cup DOMAIN B \cup DOMAIN C) : row[r] = D[r]
    BY <1>1 DEF @@
  <1>7. /\ \A r \in DOMAIN B : r \notin DOMAIN A
        /\ \A r \in DOMAIN C : r \notin DOMAIN A \cup DOMAIN B
        /\ \A r \in DOMAIN D : r \notin DOMAIN A \cup DOMAIN B \cup DOMAIN C
    BY <1>2, <1>3, <1>4, <1>5 DEF ClaimKinds
  <1>8. RowNames \subseteq DOMAIN row
    BY <1>2, <1>3, <1>4, <1>5, <1>6 DEF RowNames
  <1>9. /\ \A r \in DOMAIN B : row[r] = B[r]
        /\ \A r \in DOMAIN C : row[r] = C[r]
        /\ \A r \in DOMAIN D : row[r] = D[r]
    BY <1>6, <1>7
  <1>10. /\ \A k \in Series : row[SeriesRow(k)] = 1
         /\ \A m \in Months : row[MonthRow(m)] = "none"
    BY <1>2, <1>6
  <1>11. /\ \A i \in Items : row[Item(i)] = OnHand0
         /\ \A l \in Lots : row[LotRow(l)] = NoLot
         /\ \A o \in Kinds({"grn", "door"}) : row[DeliveryRow(o)] = "none"
         /\ \A s \in Sold : row[Draws(s)] = [by |-> NothingDrawn, undone |-> FALSE]
    BY <1>3, <1>9
  <1>12. /\ \A s \in Sold : row[SaleRow(s)] = NoSale
         /\ row[Member] = [points |-> Points0, used |-> 0]
         /\ row[Drawer] = [session |-> 0, open |-> FALSE, float |-> 0]
    BY <1>4, <1>9
  <1>13. /\ \A k \in ClaimKinds, m \in Months : row[ClaimRow(k, m)] = 0
         /\ \A b \in Batches : row[BatchRow(b)] = [state |-> "none", net |-> 0]
         /\ \A c \in Punches : row[PunchRow(c)] = [emp |-> None, state |-> "none"]
    BY <1>5, <1>9
  <1> QED BY <1>8, <1>10, <1>11, <1>12, <1>13

LEMMA BaseInit ==
  ASSUME BooksInit PROVE Base
  <1>1. tx = [d \in Txs |-> Idle] /\ applied = {}
    BY DEF BooksInit
  <1>2. OnRecord(row, applied)
    BY FirstRow DEF OnRecord, NoSale
  <1> QED BY <1>1, <1>2, IdleBase DEF Base

\* The rows of the books, and what their transactions hold, are as they should be.
THEOREM BooksInvariance == BooksSpec => []Base
  BY BaseInit, BaseStep, PTL DEF BooksSpec

\* A statement made ranks below each still to come.
LEMMA Past ==
  ASSUME NEW S, InOrder(S), NEW todo, Ahead(S, todo), NEW a \in Range(S) \ Range(todo),
         NEW b \in Range(todo), "credit" \notin {a, b}
  PROVE  Rank(a) < Rank(b)
  <1>1. PICK n \in 0..Len(S) : todo = SubSeq(S, n + 1, Len(S))
    BY DEF Ahead
  <1>2. /\ Len(todo) = Len(S) - n /\ DOMAIN todo = 1..Len(todo) /\ DOMAIN S = 1..Len(S)
        /\ \A i \in 1..Len(todo) : todo[i] = S[n + i]
    BY <1>1 DEF InOrder
  <1>3. PICK i \in 1..Len(S) : a = S[i]
    BY <1>2 DEF Range
  <1>4. PICK j \in 1..Len(todo) : b = S[n + j]
    BY <1>2 DEF Range
  <1>5. i <= n
    <2>1. SUFFICES ASSUME ~(i <= n) PROVE FALSE
      OBVIOUS
    <2>2. i - n \in 1..Len(todo) /\ todo[i - n] = S[i]
      BY <1>2, <2>1
    <2> QED BY <1>2, <1>3, <2>2 DEF Range
  <1>6. i < n + j /\ n + j \in 1..Len(S)
    BY <1>2, <1>5
  <1> QED BY <1>3, <1>4, <1>6 DEF InOrder, Ranked

LEMMA Passed ==
  ASSUME Base, NEW d \in Txs, tx[d].op # None, NEW a \in StepSet(Payload(d).kind) \ Left(d),
         NEW b \in Left(d), "credit" \notin {a, b}
  PROVE  Rank(a) < Rank(b)
  <1>1. PICK k \in AllKinds : k = Payload(d).kind /\ Ahead(Steps(k), tx[d].todo)
    BY DEF Base, InHandOf, Payload
  <1>2. PICK S, todo : S = Steps(k) /\ todo = tx[d].todo
    OBVIOUS
  <1>3. InOrder(S) /\ Range(S) = StepSet(k) /\ Ahead(S, todo)
    BY <1>1, <1>2, StepsInOrder, StepsAre
  <1> QED BY <1>1, <1>2, <1>3, Past DEF Left

\* What follows postJournal.
LEMMA AfterPost ==
  ASSUME Base, NEW d \in Txs, tx[d].op # None, "post" \in StepSet(Payload(d).kind) \ Left(d),
         NEW s \in Left(d)
  PROVE  s \in {"return", "empty", "member", "credit"}
  <1>1. CASE s = "credit"
    BY <1>1
  <1>2. CASE s # "credit"
    <2>1. Rank("post") < Rank(s)
      BY <1>2, Passed
    <2>2. s \in StepSet(Payload(d).kind)
      BY LeftOf
    <2>3. s \notin {"number", "find", "balance", "look", "net", "lot", "door", "shift?", "use"}
      BY <2>1 DEF Rank
    <2>4. s \notin {"sold", "split", "claim", "adjust", "open", "count", "receive", "price", "rates",
                 "shift", "transfer", "make", "throw", "claimMonth", "match", "reopen", "in",
                 "out", "period"}
      BY <2>1 DEF Rank
    <2>5. s \notin {"earn", "land", "ensure", "insert", "post"}
      BY <2>1 DEF Rank
    <2> QED BY <2>2, <2>3, <2>4, <2>5 DEF StepSet, ClaimKinds
  <1> QED BY <1>1, <1>2

\* What a statement keeps.
LEMMA Keeps ==
  ASSUME Base, NEW d \in Txs, tx[d].op # None, tx[d].todo # <<>>, NEW s, s = Head(tx[d].todo), Makes(d, s)
  PROVE  /\ s \in Left(d) /\ s \in StepSet(Payload(d).kind) /\ Whose(s, Payload(d).kind)
         /\ Left(d)' = Left(d) \ {s} /\ tx'[d].op = tx[d].op
         /\ row' = row /\ journal' = journal /\ moves' = moves /\ applied' = applied /\ adrift' = adrift
         /\ \A e \in Txs \ {d} : tx'[e] = tx[e]
         /\ \A f \in Fields \ FieldsOf(s) : f # "todo" => tx'[d][f] = tx[d][f]
         /\ DOMAIN tx[d].w \subseteq DOMAIN tx'[d].w
         /\ \A r : r[1] \notin RowsOf(s) => /\ r \in DOMAIN tx'[d].w <=> r \in DOMAIN tx[d].w
                                            /\ r \in DOMAIN tx[d].w => tx'[d].w[r] = tx[d].w[r]
  <1>1. tx'[d].op = tx[d].op
    BY DEF Makes, Went, Fields, FieldsOf, LegSteps
  <1> QED BY <1>1, NextOf DEF Makes, Went, Locks, Stays, Left

-----------------------------------------------------------------------------
(* The entry of a transaction.                                             *)

JV == SeriesRow("JV")
EntryOf(d) ==
  [jv |-> row[JV], src |-> Payload(d).kind, op |-> tx[d].op,
   ref |-> IF "of" \in DOMAIN Payload(d) THEN Payload(d).of ELSE tx[d].op,
   no |-> tx[d].no, legs |-> Squared(tx[d].legs), month |-> tx[d].month,
   session |-> tx[d].session, open |-> {}, shut |-> {}]
\* It is made at "post", where there is something to book, and never again.
HasPosted(d) == "post" \in StepSet(Payload(d).kind) \ Left(d) /\ Books(d)
Posting(d) ==
  tx[d].op # None =>
    IF HasPosted(d)
    THEN tx[d].entries = {EntryOf(d)} /\ JV \in DOMAIN tx[d].w /\ tx[d].w[JV] = row[JV] + 1
    ELSE tx[d].entries = {} /\ JV \notin DOMAIN tx[d].w

LEMMA PostingMakes ==
  ASSUME Base, NEW d \in Txs, Posting(d), tx[d].op # None, tx[d].todo # <<>>, Statement(d),
         Makes(d, Head(tx[d].todo))
  PROVE  Posting(d)'
  <1> PICK s : s = Head(tx[d].todo)
    OBVIOUS
  <1>1. /\ s \in Left(d) /\ s \in StepSet(Payload(d).kind) /\ Whose(s, Payload(d).kind)
        /\ Left(d)' = Left(d) \ {s} /\ tx'[d].op = tx[d].op /\ row' = row
        /\ \A f \in Fields \ FieldsOf(s) : f # "todo" => tx'[d][f] = tx[d][f]
        /\ \A r : r[1] \notin RowsOf(s) => /\ r \in DOMAIN tx'[d].w <=> r \in DOMAIN tx[d].w
                                           /\ r \in DOMAIN tx[d].w => tx'[d].w[r] = tx[d].w[r]
    BY Keeps
  <1>2. Payload(d)' = Payload(d)
    BY <1>1 DEF Payload
  <1>3. CASE s = "post"
    <2>1. Post(d) /\ Sound(d)
      BY <1>3, ByName, BaseReady
    <2>2. /\ ~Books(d) => tx'[d].w = tx[d].w /\ tx'[d].entries = tx[d].entries
          /\ Books(d) => /\ Wrote(d, JV, Val(d, JV) + 1)
                         /\ tx'[d].entries = tx[d].entries \cup {Made(d)}
      BY <2>1, PostMakes DEF JV
    <2>3. tx[d].entries = {} /\ JV \notin DOMAIN tx[d].w
      BY <1>1, <1>3 DEF Posting, HasPosted
    <2>4. /\ tx'[d].legs = tx[d].legs /\ tx'[d].no = tx[d].no /\ tx'[d].month = tx[d].month
          /\ tx'[d].session = tx[d].session
      BY <1>1, <1>3 DEF FieldsOf, Fields, LegSteps
    <2>5. Val(d, JV) = row[JV]
      BY <2>3 DEF Val
    <2>6. Books(d)' = Books(d) /\ EntryOf(d)' = Made(d)
      BY <1>1, <1>2, <2>4, <2>5 DEF Books, EntryOf, Made, JV
    <2>7. CASE Books(d)
      <3>1. JV \in DOMAIN tx'[d].w /\ tx'[d].w[JV] = row[JV] + 1
        BY <2>2, <2>5, <2>7 DEF Wrote, Put, @@, :>
      <3>2. HasPosted(d)'
        BY <1>1, <1>2, <1>3, <2>6, <2>7 DEF HasPosted
      <3> QED BY <1>1, <2>2, <2>3, <2>6, <2>7, <3>1, <3>2 DEF Posting
    <2>8. CASE ~Books(d)
      <3>1. ~HasPosted(d)'
        BY <2>6, <2>8 DEF HasPosted
      <3> QED BY <2>2, <2>3, <2>8, <3>1 DEF Posting
    <2> QED BY <2>7, <2>8
  <1>4. CASE s # "post"
    <2>1. tx'[d].entries = tx[d].entries
      BY <1>1, <1>4 DEF FieldsOf, Fields
    <2>2. (JV \in DOMAIN tx'[d].w <=> JV \in DOMAIN tx[d].w)
          /\ (JV \in DOMAIN tx[d].w => tx'[d].w[JV] = tx[d].w[JV])
      <3>1. CASE s = "number"
        <4>1. PICK r, v : Wrote(d, r, v) /\ r # JV
          <5>1. Number(d) /\ Sound(d)
            BY <3>1, ByName, BaseReady
          <5>2. PICK k : k = IF Is(d, "sale") THEN "SALE" ELSE "CN"
            OBVIOUS
          <5>3. Wrote(d, SeriesRow(k), Val(d, SeriesRow(k)) + 1)
            BY <5>1, <5>2, NumberMakes
          <5>4. SeriesRow(k) # JV
            BY <5>2 DEF JV, SeriesRow
          <5> QED BY <5>3, <5>4
        <4> QED BY <4>1 DEF Wrote, Put, @@, :>
      <3>2. CASE s # "number"
        <4>1. JV[1] \notin RowsOf(s)
          BY <1>4, <3>2 DEF JV, SeriesRow, RowsOf, ClaimKinds
        <4> QED BY <1>1, <4>1
      <3> QED BY <3>1, <3>2
    <2>3. CASE "post" \in StepSet(Payload(d).kind) \ Left(d)
      <3>1. s \in {"return", "empty", "member", "credit"}
        BY <1>1, <2>3, AfterPost
      <3>2. /\ tx'[d].legs = tx[d].legs /\ tx'[d].no = tx[d].no /\ tx'[d].month = tx[d].month
            /\ tx'[d].session = tx[d].session
        BY <1>1, <3>1 DEF FieldsOf, Fields, LegSteps
      <3>3. HasPosted(d)' = HasPosted(d)
        BY <1>1, <1>2, <2>3, <3>2 DEF HasPosted, Books
      <3>4. EntryOf(d)' = EntryOf(d)
        BY <1>1, <1>2, <3>2 DEF EntryOf, JV
      <3>5. row'[JV] = row[JV]
        BY <1>1
      <3> QED BY <1>1, <2>1, <2>2, <3>3, <3>4, <3>5 DEF Posting, JV
    <2>4. CASE "post" \notin StepSet(Payload(d).kind) \ Left(d)
      <3>1. ~HasPosted(d) /\ ~HasPosted(d)'
        BY <1>1, <1>2, <1>4, <2>4 DEF HasPosted
      <3> QED BY <1>1, <2>1, <2>2, <3>1 DEF Posting, JV
    <2> QED BY <2>3, <2>4
  <1> QED BY <1>3, <1>4

\* A transaction that ends without a trace, and what one that commits leaves the others.
LEMMA Ends ==
  ASSUME Base, NEW d \in Txs, (tx[d].op # None /\ Skip(d)) \/ Abort(d)
  PROVE  /\ tx'[d].op = None /\ \A e \in Txs \ {d} : tx'[e] = tx[e]
         /\ row' = row /\ journal' = journal /\ moves' = moves /\ adrift' = adrift
         /\ applied' = applied \/ (applied' = applied \cup {tx[d].op} /\ Skip(d))
  <1>1. tx' = [tx EXCEPT ![d] = Idle] /\ tx = [e \in Txs |-> tx[e]]
    BY DEF Skip, Abort, Base
  <1>2. tx'[d] = Idle /\ \A e \in Txs \ {d} : tx'[e] = tx[e]
    BY <1>1
  <1>3. tx'[d].op = None
    BY <1>2 DEF Idle
  <1> QED BY <1>2, <1>3 DEF Skip, Abort, Stays

LEMMA Leaves ==
  ASSUME Base, NEW d \in Txs, Commits(d)
  PROVE  /\ tx'[d].op = None /\ tx[d].op # None /\ Left(d) = {}
         /\ \A e \in Txs \ {d} : \A f \in Fields \ {"wasOpen", "wasShut"} : tx'[e][f] = tx[e][f]
         /\ \A r \in RowNames : row'[r] = IF r \in DOMAIN tx[d].w THEN tx[d].w[r] ELSE row[r]
         /\ \A e \in Txs \ {d} : \A r \in RowNames : r \in DOMAIN tx[e].w => row'[r] = row[r]
         /\ tx[d].op \in Ops \ applied /\ applied' = applied \cup {tx[d].op}
         /\ \A e \in Txs \ {d} : tx[e].op # tx[d].op
  <1>1. tx'[d].op = None
    <2>1. tx'[d] = Idle
      BY DEF Commits
    <2> QED BY <2>1 DEF Idle
  <1>2. Left(d) = {}
    <2>1. tx[d].todo = <<>>
      BY DEF Commits
    <2> QED BY <2>1 DEF Left, Range
  <1>3. \A e \in Txs \ {d} : DOMAIN tx[d].w \cap DOMAIN tx[e].w = {} /\ tx[e].op # tx[d].op
    BY DEF Base, Apart, Commits
  <1>4. \A r \in RowNames : row'[r] = IF r \in DOMAIN tx[d].w THEN tx[d].w[r] ELSE row[r]
    BY DEF Commits, Base, OnRecord
  <1>5. tx[d].op \in Ops \ applied
    BY DEF Commits, Base, InHandOf
  <1> QED BY <1>1, <1>2, <1>3, <1>4, <1>5 DEF Commits

\* An op that begins.
LEMMA Begins ==
  ASSUME Base, NEW d \in Txs, NEW o \in Ops, Begun(d, o)
  PROVE  /\ tx'[d].op = o /\ Left(d)' = StepSet(P[o].kind) /\ Payload(d)' = P[o] /\ P[o].kind \in AllKinds
         /\ \A e \in Txs \ {d} : tx'[e] = tx[e]
         /\ row' = row /\ journal' = journal /\ moves' = moves /\ adrift' = adrift /\ applied' = applied
         /\ DOMAIN tx'[d].w = {} /\ tx'[d].entries = {} /\ o # None
  <1>1. tx'[d].w = <<>>
    BY DEF Begun
  <1>2. Left(d)' = StepSet(P[o].kind)
    BY StepsAre DEF Left, Begun
  <1> QED BY <1>1, <1>2, OpsAssumption DEF Begun, Stays, Payload

LEMMA JVRow == JV \in RowNames
  BY DEF JV, RowNames, Series

-----------------------------------------------------------------------------
(* The journal.                                                            *)

\* the entry as it is committed
Enters(d) ==
  [jv |-> row[JV], src |-> Payload(d).kind, op |-> tx[d].op,
   ref |-> IF "of" \in DOMAIN Payload(d) THEN Payload(d).of ELSE tx[d].op,
   no |-> tx[d].no, legs |-> Squared(tx[d].legs), month |-> tx[d].month,
   session |-> tx[d].session, open |-> tx[d].wasOpen, shut |-> tx[d].wasShut]
HasEntry(d) == "post" \in StepSet(Payload(d).kind) /\ Books(d)

LEMMA CommitEnters ==
  ASSUME Base, NEW d \in Txs, Posting(d), Commits(d)
  PROVE  /\ HasEntry(d) => /\ journal' = journal \cup {Enters(d)} /\ row'[JV] = row[JV] + 1
         /\ ~HasEntry(d) => journal' = journal /\ row'[JV] = row[JV]
  <1>1. /\ journal' = journal \cup {[j EXCEPT !.open = tx[d].wasOpen, !.shut = tx[d].wasShut] :
                                      j \in tx[d].entries}
        /\ tx[d].op # None /\ Left(d) = {}
            /\ row'[JV] = IF JV \in DOMAIN tx[d].w THEN tx[d].w[JV] ELSE row[JV]
    BY Leaves, JVRow DEF Commits
  <1>2. HasPosted(d) <=> HasEntry(d)
    BY <1>1 DEF HasPosted, HasEntry
  <1>3. CASE HasEntry(d)
    <2>1. tx[d].entries = {EntryOf(d)} /\ row'[JV] = row[JV] + 1
      BY <1>1, <1>2, <1>3 DEF Posting
    <2>2. [EntryOf(d) EXCEPT !.open = tx[d].wasOpen, !.shut = tx[d].wasShut] = Enters(d)
      <3> PICK jv, src, op, ref, no, legs, month, session, open, shut :
            /\ jv = row[JV] /\ src = Payload(d).kind /\ op = tx[d].op
            /\ ref = (IF "of" \in DOMAIN Payload(d) THEN Payload(d).of ELSE tx[d].op)
            /\ no = tx[d].no /\ legs = Squared(tx[d].legs) /\ month = tx[d].month
            /\ session = tx[d].session /\ open = tx[d].wasOpen /\ shut = tx[d].wasShut
        OBVIOUS
      <3>1. EntryOf(d) = [jv |-> jv, src |-> src, op |-> op, ref |-> ref, no |-> no, legs |-> legs,
                          month |-> month, session |-> session, open |-> {}, shut |-> {}]
        BY DEF EntryOf
      <3>2. Enters(d) = [jv |-> jv, src |-> src, op |-> op, ref |-> ref, no |-> no, legs |-> legs,
                         month |-> month, session |-> session, open |-> open, shut |-> shut]
        BY DEF Enters
      <3>3. PICK x, y : x = EntryOf(d) /\ y = Enters(d)
        OBVIOUS
      <3>4. [x EXCEPT !.open = open, !.shut = shut] = y
        <4>1. PICK z : z = [x EXCEPT !.open = open, !.shut = shut]
          OBVIOUS
        <4>2. z = [jv |-> z.jv, src |-> z.src, op |-> z.op, ref |-> z.ref, no |-> z.no, legs |-> z.legs,
                   month |-> z.month, session |-> z.session, open |-> z.open, shut |-> z.shut]
          BY <3>1, <3>3, <4>1
        <4>3. /\ z.jv = jv /\ z.src = src /\ z.op = op /\ z.ref = ref /\ z.no = no /\ z.legs = legs
              /\ z.month = month /\ z.session = session /\ z.open = open /\ z.shut = shut
          BY <3>1, <3>3, <4>1
        <4> QED BY <3>2, <3>3, <4>1, <4>2, <4>3
      <3> QED BY <3>3, <3>4
    <2>3. journal' = journal \cup {Enters(d)}
      BY <1>1, <2>1, <2>2
    <2> QED BY <1>3, <2>1, <2>3
  <1>4. CASE ~HasEntry(d)
    <2>1. tx[d].entries = {} /\ row'[JV] = row[JV]
      BY <1>1, <1>2, <1>4 DEF Posting
    <2> QED BY <1>1, <1>4, <2>1
  <1> QED BY <1>3, <1>4

Numbered(n) == IsFiniteSet(journal) /\ Cardinality(journal) = n /\ {j.jv : j \in journal} = 1..n
Ledger ==
  /\ row[JV] \in Nat \ {0} /\ Numbered(row[JV] - 1)
  /\ \A j \in journal : j.op \in applied /\ j.op \in Ops /\ j.src = P[j.op].kind
  /\ \A i, j \in journal : i.op = j.op => i = j

LEMMA EntriesStep ==
  ASSUME Base, \A d \in Txs : Posting(d), Ledger, [BooksNext]_bookVars PROVE Ledger'
  <1>1. ASSUME NEW d \in Txs, Commits(d) PROVE Ledger'
    <2>1. tx[d].op \in Ops \ applied /\ applied' = applied \cup {tx[d].op}
      BY <1>1, Leaves
    <2>2. CASE HasEntry(d)
      <3>1. journal' = journal \cup {Enters(d)} /\ row'[JV] = row[JV] + 1
        BY <1>1, <2>2, CommitEnters
      <3>2. PICK e : e = Enters(d)
        OBVIOUS
      <3>3. e.op = tx[d].op /\ e.jv = row[JV] /\ e.src = P[e.op].kind
        BY <3>2 DEF Enters, Payload
      <3>4. e \notin journal
        BY <2>1, <3>3 DEF Ledger
      <3>5. PICK n \in Nat : n = row[JV] - 1
        BY DEF Ledger
      <3>6. row[JV] = n + 1 /\ row'[JV] = n + 2
        BY <3>1, <3>5 DEF Ledger
      <3>7. IsFiniteSet(journal') /\ Cardinality(journal') = n + 1
        <4>1. IsFiniteSet(journal) /\ Cardinality(journal) = n
          BY <3>5 DEF Ledger, Numbered
        <4>2. IsFiniteSet(journal \cup {e}) /\ Cardinality(journal \cup {e}) = Cardinality(journal) + 1
          BY <3>4, <4>1, FS_AddElement
        <4> QED BY <3>1, <3>2, <4>1, <4>2
      <3>8. {j.jv : j \in journal'} = 1..(n + 1)
        <4>1. {j.jv : j \in journal'} = {j.jv : j \in journal} \cup {e.jv}
          BY <3>1, <3>2
        <4>2. {j.jv : j \in journal} = 1..n
          BY <3>5 DEF Ledger, Numbered
        <4>3. e.jv = n + 1
          BY <3>3, <3>6
        <4>4. 1..(n + 1) = (1..n) \cup {n + 1}
          BY <3>5
        <4> QED BY <4>1, <4>2, <4>3, <4>4
      <3>9. \A j \in journal' : j.op \in applied' /\ j.op \in Ops /\ j.src = P[j.op].kind
        BY <2>1, <3>1, <3>2, <3>3 DEF Ledger
      <3>10. \A i, j \in journal' : i.op = j.op => i = j
        BY <2>1, <3>1, <3>2, <3>3 DEF Ledger
      <3>11. row'[JV] \in Nat \ {0} /\ row'[JV] - 1 = n + 1
        BY <3>6
      <3> QED BY <3>7, <3>8, <3>9, <3>10, <3>11 DEF Ledger, Numbered, JV
    <2>3. CASE ~HasEntry(d)
      <3>1. journal' = journal /\ row'[JV] = row[JV]
        BY <1>1, <2>3, CommitEnters
      <3> QED BY <2>1, <3>1 DEF Ledger, Numbered, JV
    <2> QED BY <2>2, <2>3
  <1>2. ASSUME row' = row, journal' = journal, applied \subseteq applied' PROVE Ledger'
    BY <1>2 DEF Ledger, Numbered, JV
  <1>3. CASE BooksNext
    <2>1. PICK d \in Txs : StepOf(d)
      BY <1>3, Stepping
    <2>2. ASSUME NEW o \in Ops, Begun(d, o) PROVE Ledger'
      BY <1>2, <2>2, Begins
    <2>3. ASSUME tx[d].op # None, tx[d].todo # <<>>, Makes(d, Head(tx[d].todo)) PROVE Ledger'
      BY <1>2, <2>3, Keeps
    <2>4. ASSUME (tx[d].op # None /\ Skip(d)) \/ Abort(d) PROVE Ledger'
      <3>1. row' = row /\ journal' = journal /\ applied \subseteq applied'
        BY <2>4, Ends
      <3> QED BY <1>2, <3>1
    <2> QED BY <1>1, <2>1, <2>2, <2>3, <2>4 DEF StepOf
  <1>4. CASE UNCHANGED bookVars
    BY <1>2, <1>4 DEF bookVars
  <1> QED BY <1>3, <1>4

-----------------------------------------------------------------------------
(* Numbers.                                                                *)

SeriesOf(k) == IF k = "sale" THEN "SALE" ELSE IF k = "refund" THEN "CN" ELSE "none"
\* A number is taken at "number", by who holds the series from then on.
Drawing(d) ==
  tx[d].op # None =>
    \A k \in {"SALE", "CN"} :
      IF k = SeriesOf(Payload(d).kind) /\ "number" \notin Left(d)
      THEN SeriesRow(k) \in DOMAIN tx[d].w /\ tx[d].w[SeriesRow(k)] = row[SeriesRow(k)] + 1
           /\ tx[d].no = row[SeriesRow(k)]
      ELSE SeriesRow(k) \notin DOMAIN tx[d].w

LEMMA DrawingMakes ==
  ASSUME Base, NEW d \in Txs, Drawing(d), tx[d].op # None, tx[d].todo # <<>>, Statement(d),
         Makes(d, Head(tx[d].todo))
  PROVE  Drawing(d)'
  <1> PICK s : s = Head(tx[d].todo)
    OBVIOUS
  <1>1. /\ s \in Left(d) /\ s \in StepSet(Payload(d).kind) /\ Whose(s, Payload(d).kind)
        /\ Left(d)' = Left(d) \ {s} /\ tx'[d].op = tx[d].op /\ row' = row
        /\ \A f \in Fields \ FieldsOf(s) : f # "todo" => tx'[d][f] = tx[d][f]
        /\ \A r : r[1] \notin RowsOf(s) => /\ r \in DOMAIN tx'[d].w <=> r \in DOMAIN tx[d].w
                                           /\ r \in DOMAIN tx[d].w => tx'[d].w[r] = tx[d].w[r]
    BY Keeps
  <1>2. Payload(d)' = Payload(d)
    BY <1>1 DEF Payload
  <1>3. CASE s = "number"
    <2>1. Number(d) /\ Sound(d) /\ Payload(d).kind \in {"sale", "refund"}
      BY <1>1, <1>3, ByName, BaseReady DEF Whose
    <2>2. PICK k : k = IF Is(d, "sale") THEN "SALE" ELSE "CN"
      OBVIOUS
    <2>3. k = SeriesOf(Payload(d).kind) /\ k \in {"SALE", "CN"}
      BY <2>1, <2>2 DEF SeriesOf, Is
    <2>4. Wrote(d, SeriesRow(k), Val(d, SeriesRow(k)) + 1) /\ tx'[d].no = Val(d, SeriesRow(k))
      BY <2>1, <2>2, NumberMakes
    <2>5. \A j \in {"SALE", "CN"} : SeriesRow(j) \notin DOMAIN tx[d].w
          /\ (j # k => SeriesRow(j) # SeriesRow(k))
      BY <1>1, <1>3, <2>3 DEF Drawing, SeriesRow
    <2>6. Val(d, SeriesRow(k)) = row[SeriesRow(k)]
      BY <2>3, <2>5 DEF Val
    <2>7. tx'[d].w = Put(tx[d].w, SeriesRow(k), row[SeriesRow(k)] + 1) /\ tx'[d].no = row[SeriesRow(k)]
      BY <2>4, <2>6 DEF Wrote
    <2>8. PICK w, r, v : w = tx[d].w /\ r = SeriesRow(k) /\ v = row[SeriesRow(k)] + 1
      OBVIOUS
    <2>9. DOMAIN tx'[d].w = DOMAIN tx[d].w \cup {SeriesRow(k)}
          /\ tx'[d].w[SeriesRow(k)] = row[SeriesRow(k)] + 1
      BY <2>7, <2>8 DEF Put, @@, :>
    <2>10. "number" \notin Left(d)'
      BY <1>1, <1>3
    <2> QED BY <1>1, <1>2, <2>3, <2>5, <2>7, <2>9, <2>10 DEF Drawing
  <1>4. CASE s # "number"
    <2>1. \A k \in {"SALE", "CN"} : /\ SeriesRow(k) \in DOMAIN tx'[d].w <=> SeriesRow(k) \in DOMAIN tx[d].w
                                    /\ SeriesRow(k) \in DOMAIN tx[d].w
                                        => tx'[d].w[SeriesRow(k)] = tx[d].w[SeriesRow(k)]
      <3>1. CASE s = "post"
        <4>1. Post(d) /\ Sound(d)
          BY <3>1, ByName, BaseReady
        <4>2. tx'[d].w = tx[d].w \/ tx'[d].w = Put(tx[d].w, JV, Val(d, JV) + 1)
          BY <4>1, PostMakes DEF Wrote, JV
        <4>3. \A k \in {"SALE", "CN"} : SeriesRow(k) # JV
          BY DEF JV, SeriesRow
        <4>4. PICK v : v = Val(d, JV) + 1
          OBVIOUS
        <4>5. PICK w : w = tx[d].w
          OBVIOUS
        <4>6. DOMAIN Put(w, JV, v) = DOMAIN w \cup {JV} /\ \A q \in DOMAIN w : q # JV
              => Put(w, JV, v)[q] = w[q]
          BY DEF Put, @@, :>
        <4> QED BY <4>2, <4>3, <4>4, <4>5, <4>6
      <3>2. CASE s # "post"
        <4>1. \A k : SeriesRow(k)[1] \notin RowsOf(s)
          BY <1>4, <3>2 DEF SeriesRow, RowsOf, ClaimKinds
        <4> QED BY <1>1, <4>1
      <3> QED BY <3>1, <3>2
    <2>2. tx'[d].no = tx[d].no
      BY <1>1, <1>4 DEF FieldsOf, Fields, LegSteps
    <2>3. "number" \in Left(d)' <=> "number" \in Left(d)
      BY <1>1, <1>4
    <2>4. \A k \in {"SALE", "CN"} : row'[SeriesRow(k)] = row[SeriesRow(k)]
      BY <1>1
    <2> QED BY <1>1, <1>2, <2>1, <2>2, <2>3, <2>4 DEF Drawing
  <1> QED BY <1>3, <1>4

-----------------------------------------------------------------------------
(* The sale's row: written by its sale, and claimed by its void.           *)

NewSale(d) == [state |-> "live", no |-> tx[d].no, earned |-> EarnedBy(tx[d].op),
    session |-> tx[d].session]
Selling(d) ==
  tx[d].op # None =>
    LET o == tx[d].op k == Payload(d).kind of == Payload(d).of IN
    /\ k = "sale" => IF "sold" \in Left(d) THEN SaleRow(o) \notin DOMAIN tx[d].w
                     ELSE SaleRow(o) \in DOMAIN tx[d].w /\ tx[d].w[SaleRow(o)] = NewSale(d)
    /\ k = "void" => IF "claim" \in Left(d) THEN SaleRow(of) \notin DOMAIN tx[d].w
                     ELSE /\ SaleRow(of) \in DOMAIN tx[d].w /\ row[SaleRow(of)].state = "live"
                          /\ tx[d].w[SaleRow(of)] = [row[SaleRow(of)] EXCEPT !.state = "void"]
    /\ \A p : SaleRow(p) \in DOMAIN tx[d].w => (k = "sale" /\ p = o) \/ (k = "void" /\ p = of)

LEMMA SellingMakes ==
  ASSUME Base, NEW d \in Txs, Selling(d), tx[d].op # None, tx[d].todo # <<>>, Statement(d),
         Makes(d, Head(tx[d].todo)), ~Skip(d)
  PROVE  Selling(d)'
  <1> PICK s : s = Head(tx[d].todo)
    OBVIOUS
  <1>1. /\ s \in Left(d) /\ s \in StepSet(Payload(d).kind) /\ Whose(s, Payload(d).kind)
        /\ Left(d)' = Left(d) \ {s} /\ tx'[d].op = tx[d].op /\ row' = row
        /\ \A f \in Fields \ FieldsOf(s) : f # "todo" => tx'[d][f] = tx[d][f]
        /\ \A r : r[1] \notin RowsOf(s) => /\ r \in DOMAIN tx'[d].w <=> r \in DOMAIN tx[d].w
                                           /\ r \in DOMAIN tx[d].w => tx'[d].w[r] = tx[d].w[r]
    BY Keeps
  <1>2. Payload(d)' = Payload(d)
    BY <1>1 DEF Payload
  <1>0. PICK o, k, of : o = tx[d].op /\ k = Payload(d).kind /\ of = Payload(d).of
    OBVIOUS
  <1>9. \A p, q : (SaleRow(p) = SaleRow(q) => p = q) /\ SaleRow(p)[1] = "sale"
    BY DEF SaleRow
  <1>3. CASE s = "sold"
    <2>1. SaleStock(d) /\ Sound(d) /\ k = "sale"
      BY <1>0, <1>1, <1>3, ByName, BaseReady DEF Whose
    <2>2. Drew(d, P[o].item, P[o].qty, o, Put(tx[d].w, SaleRow(o), NewSale(d)))
      BY <1>0, <2>1, SoldMakes DEF NewSale
    <2>3. PICK i, v, lots, w : /\ tx'[d].w = (Item(i) :> v) @@ lots @@ w
                                  /\ w = Put(tx[d].w, SaleRow(o), NewSale(d))
                               /\ lots = DrawDown(d, P[o].item, P[o].qty, o)
      BY <2>2 DEF Drew, Carries
    <2>4. \A p : SaleRow(p) # Item(i) /\ SaleRow(p) \notin DOMAIN lots
      BY <1>9, <2>3, DrawnRows DEF Item, Draws
    <2>5. \A p : /\ SaleRow(p) \in DOMAIN tx'[d].w <=> SaleRow(p) \in DOMAIN w
                 /\ SaleRow(p) \in DOMAIN w => tx'[d].w[SaleRow(p)] = w[SaleRow(p)]
      BY <2>3, <2>4 DEF @@, :>
    <2>6. DOMAIN w = DOMAIN tx[d].w \cup {SaleRow(o)} /\ w[SaleRow(o)] = NewSale(d)
      <3>1. PICK x, r, y : x = tx[d].w /\ r = SaleRow(o) /\ y = NewSale(d)
        OBVIOUS
      <3> QED BY <2>3, <3>1 DEF Put, @@, :>
    <2>7. NewSale(d)' = NewSale(d)
      BY <1>1, <1>3 DEF NewSale, FieldsOf, Fields, LegSteps
    <2>8. \A p : SaleRow(p) \in DOMAIN tx'[d].w => p = o
      BY <1>0, <1>9, <2>1, <2>5, <2>6 DEF Selling
    <2> QED BY <1>0, <1>1, <1>2, <1>3, <2>1, <2>5, <2>6, <2>7, <2>8 DEF Selling
  <1>4. CASE s = "claim"
    <2>1. Claim(d) /\ Sound(d) /\ k = "void"
      BY <1>0, <1>1, <1>4, ByName, BaseReady DEF Whose
    <2>2. /\ Wrote(d, SaleRow(of), [Val(d, SaleRow(of)) EXCEPT !.state = "void"])
          /\ Val(d, SaleRow(of)).state = "live"
      BY <1>0, <2>1, ClaimMakes
    <2>3. SaleRow(of) \notin DOMAIN tx[d].w
      BY <1>0, <1>1, <1>4, <2>1 DEF Selling
    <2>4. PICK w, r, v : w = tx[d].w /\ r = SaleRow(of) /\ v = [row[SaleRow(of)] EXCEPT !.state = "void"]
      OBVIOUS
    <2>5. row[r].state = "live" /\ tx'[d].w = Put(w, r, v)
      BY <2>2, <2>3, <2>4 DEF Val, Wrote
    <2>6. DOMAIN tx'[d].w = DOMAIN w \cup {r} /\ tx'[d].w[r] = v
      BY <2>5 DEF Put, @@, :>
    <2>7. \A p : SaleRow(p) \in DOMAIN tx'[d].w => p = of
      BY <1>0, <1>9, <2>1, <2>4, <2>6 DEF Selling
    <2> QED BY <1>0, <1>1, <1>2, <1>4, <2>1, <2>4, <2>5, <2>6, <2>7 DEF Selling
  <1>5. CASE s \notin {"sold", "claim"}
    <2>1. "sale" \notin RowsOf(s)
      BY <1>5 DEF RowsOf, ClaimKinds
    <2>2. \A p : /\ SaleRow(p) \in DOMAIN tx'[d].w <=> SaleRow(p) \in DOMAIN tx[d].w
                 /\ SaleRow(p) \in DOMAIN tx[d].w => tx'[d].w[SaleRow(p)] = tx[d].w[SaleRow(p)]
      BY <1>1, <1>9, <2>1
    <2>3. k = "sale" /\ "sold" \notin Left(d) => NewSale(d)' = NewSale(d)
      <3>1. ASSUME k = "sale", "sold" \notin Left(d) PROVE s # "number"
        <4>1. "sold" \in StepSet(Payload(d).kind)
          BY <1>0, <3>1 DEF StepSet
        <4>2. s = "number" => Rank("sold") < Rank(s)
          BY <1>1, <3>1, <4>1, Passed
        <4> QED BY <4>2 DEF Rank
      <3> QED BY <1>1, <3>1 DEF NewSale, FieldsOf, Fields, LegSteps
    <2>4. ("sold" \in Left(d)' <=> "sold" \in Left(d)) /\ ("claim" \in Left(d)' <=> "claim" \in Left(d))
      BY <1>1, <1>5
    <2> QED BY <1>0, <1>1, <1>2, <2>2, <2>3, <2>4 DEF Selling
  <1> QED BY <1>3, <1>4, <1>5

-----------------------------------------------------------------------------
(* What a transaction books.                                               *)

Bill(d, k, s, legs) == Payload(d).kind = k => tx[d].legs = IF s \in Left(d) THEN NoLegs ELSE legs
Unbilled(d, k, s) == Payload(d).kind = k /\ s \in Left(d) => tx[d].legs = NoLegs
Billing(d) ==
  tx[d].op # None =>
    LET o == tx[d].op of == Payload(d).of IN
    /\ Bill(d, "sale", "sold", SaleJournal(o))
    /\ Bill(d, "refund", "split", RefundJournal(o))
    /\ \A k \in ClaimKinds : Bill(d, k, "claimMonth", ClaimLegs(o))
    /\ Bill(d, "grn", "receive", NoLegs)
    /\ Bill(d, "door", "receive", IF P[o].priced THEN Payable(P[o].qty, PaidBy(o)) ELSE NoLegs)
    /\ Bill(d, "price", "price", Payable(P[of].qty, "2100"))
    /\ Bill(d, "doorprice", "rates", Payable(P[of].qty, PaidBy(of)))
    /\ \A k \in {"adjust", "count", "prep", "dispatch"} : Bill(d, k, "shift", AdjustLegs(o))
    /\ Payload(d).kind = "settle" => tx[d].legs = SettleLegs(o)
    /\ Payload(d).kind \in {"pay", "asset", "repair", "manual"} => tx[d].legs = OneEntry(o)
    /\ Payload(d).kind \in {"transfer", "produce", "open", "reopen", "in", "out", "shut",
        "reopenMonth"} =>
         tx[d].legs = NoLegs
    /\ Unbilled(d, "void", "claim") /\ Unbilled(d, "points", "adjust") /\ Unbilled(d, "close", "count")
    /\ Unbilled(d, "lot", "throw") /\ Unbilled(d, "match", "match")

LEMMA BillingMakes ==
  ASSUME Base, NEW d \in Txs, Billing(d), tx[d].op # None, tx[d].todo # <<>>, Statement(d),
         Makes(d, Head(tx[d].todo)), ~Skip(d)
  PROVE  Billing(d)'
  <1> PICK s : s = Head(tx[d].todo)
    OBVIOUS
  <1>1. /\ s \in Left(d) /\ s \in StepSet(Payload(d).kind) /\ Whose(s, Payload(d).kind)
        /\ Left(d)' = Left(d) \ {s} /\ tx'[d].op = tx[d].op
        /\ \A f \in Fields \ FieldsOf(s) : f # "todo" => tx'[d][f] = tx[d][f]
    BY Keeps
  <1>2. Payload(d)' = Payload(d) /\ Sound(d)
    BY <1>1, BaseReady DEF Payload
  <1> PICK o, k, of : o = tx[d].op /\ k = Payload(d).kind /\ of = Payload(d).of
    OBVIOUS
  <1>3. CASE s \notin LegSteps
    <2>1. tx'[d].legs = tx[d].legs
      BY <1>1, <1>3 DEF FieldsOf, Fields
    <2>2. \A a \in LegSteps : a \in Left(d)' <=> a \in Left(d)
      BY <1>1, <1>3
    <2> QED BY <1>1, <1>2, <2>1, <2>2 DEF Billing, Unbilled, Bill, LegSteps
  <1>4. CASE s = "sold"
    <2>1. SaleStock(d) /\ k = "sale"
      BY <1>1, <1>4, ByName DEF Whose
    <2>2. tx'[d].legs = SaleJournal(o)
      BY <1>2, <2>1, SoldMakes
    <2> QED BY <1>1, <1>2, <1>4, <2>1, <2>2 DEF Billing, Unbilled, Bill, ClaimKinds
  <1>5. CASE s = "split"
    <2>1. Split(d) /\ k = "refund"
      BY <1>1, <1>5, ByName DEF Whose
    <2>2. tx'[d].legs = RefundJournal(o)
      BY <1>2, <2>1, SplitMakes
    <2> QED BY <1>1, <1>2, <1>5, <2>1, <2>2 DEF Billing, Unbilled, Bill, ClaimKinds
  <1>6. CASE s = "claimMonth"
    <2>1. ClaimMonth(d) /\ k \in ClaimKinds
      BY <1>1, <1>6, ByName DEF Whose
    <2>2. tx'[d].legs = ClaimLegs(o)
      BY <1>2, <2>1, ClaimMonthMakes
    <2> QED BY <1>1, <1>2, <1>6, <2>1, <2>2 DEF Billing, Unbilled, Bill, ClaimKinds
  <1>7. CASE s = "receive"
    <2>1. Receive(d) /\ k \in {"grn", "door"}
      BY <1>1, <1>7, ByName DEF Whose
    <2>2. tx'[d].legs = IF k = "door" /\ P[o].priced THEN Payable(P[o].qty, PaidBy(o)) ELSE NoLegs
      BY <1>2, <2>1, ReceiveMakes DEF Payload
    <2> QED BY <1>1, <1>2, <1>7, <2>1, <2>2 DEF Billing, Unbilled, Bill, ClaimKinds
  <1>8. CASE s = "price"
    <2>1. Price(d) /\ k = "price"
      BY <1>1, <1>8, ByName DEF Whose
    <2>2. tx'[d].legs = Payable(P[of].qty, "2100")
      BY <1>2, <2>1, PriceMakes
    <2> QED BY <1>1, <1>2, <1>8, <2>1, <2>2 DEF Billing, Unbilled, Bill, ClaimKinds
  <1>9. CASE s = "rates"
    <2>1. PriceDoor(d) /\ k = "doorprice"
      BY <1>1, <1>9, ByName DEF Whose
    <2>2. tx'[d].legs = Payable(P[of].qty, PaidBy(of))
      BY <1>2, <2>1, RatesMakes
    <2> QED BY <1>1, <1>2, <1>9, <2>1, <2>2 DEF Billing, Unbilled, Bill, ClaimKinds
  <1>10. CASE s = "shift"
    <2>1. Shift(d) /\ k \in {"adjust", "count", "prep", "dispatch"}
      BY <1>1, <1>10, ByName DEF Whose
    <2>2. tx'[d].legs = AdjustLegs(o)
      BY <1>2, <2>1, ShiftMakes
    <2> QED BY <1>1, <1>2, <1>10, <2>1, <2>2 DEF Billing, Unbilled, Bill, ClaimKinds
  <1>11. CASE s \in {"claim", "adjust", "count", "throw", "match"}
    <2>1. k \in {"void", "points", "close", "lot", "match"}
      BY <1>1, <1>11 DEF Whose
    <2>2. \A a \in {"claim", "adjust", "count", "throw", "match"} : a \notin Left(d)'
      <3>1. Left(d) \subseteq StepSet(k)
        BY LeftOf
      <3>2. \A a, b \in {"claim", "adjust", "count", "throw", "match"} : a \in StepSet(k)
            /\ b \in StepSet(k) => a = b
        BY <2>1 DEF StepSet, ClaimKinds
      <3> QED BY <1>1, <1>11, <3>1, <3>2
    <2> QED BY <1>1, <1>2, <1>11, <2>1, <2>2 DEF Billing, Unbilled, Bill, ClaimKinds
  <1> QED BY <1>3, <1>4, <1>5, <1>6, <1>7, <1>8, <1>9, <1>10, <1>11 DEF LegSteps

-----------------------------------------------------------------------------
(* Months.                                                                 *)

Opening(d) ==
  tx[d].op # None =>
    LET t == tx[d] k == Payload(d).kind IN
    /\ t.month \in Months /\ Months \ Closed \subseteq t.wasOpen /\ Closed \subseteq t.wasShut
    /\ "insert" \in Left(d) => \A m : MonthRow(m) \notin DOMAIN t.w
    /\ "ensure" \in StepSet(k) \ Left(d) /\ Books(d) => t.month \in t.wasOpen
    /\ k = "sale" => P[t.op].month .. (t.month - 1) \subseteq t.wasShut
    /\ k = "sale" /\ "land" \in Left(d) => t.month = P[t.op].month

LEMMA FirstOpenIs ==
  ASSUME NEW m \in Months
  PROVE  LET n == FirstOpen(m) IN n \in m .. (LastMonth + 1) /\ n \notin Closed
      /\ m .. (n - 1) \subseteq Closed
  <1> DEFINE Good(n) == n \in m .. (LastMonth + 1) /\ n \notin Closed
             T == {n \in Nat : Good(n)}
             R == OpToRel(<, Nat)
  <1>1. LastMonth \in Nat /\ m \in Nat /\ m <= LastMonth /\ Closed \subseteq Months
    BY OpsAssumption DEF Months, Closed
  <1>2. LastMonth + 1 \in T
    BY <1>1 DEF Months
  <1>3. PICK n \in T : \A k \in T : ~(k < n)
    <2>1. PICK n \in T : \A k \in T : <<k, n>> \notin R
      BY <1>2, NatLessThanWellFounded, WFMin
    <2>2. \A k \in T : k \in Nat /\ n \in Nat /\ (k < n => <<k, n>> \in R)
      BY DEF OpToRel
    <2> QED BY <2>1, <2>2
  <1>4. m .. (n - 1) \subseteq Closed
    <2> SUFFICES ASSUME NEW k \in m .. (n - 1), k \notin Closed PROVE FALSE
      OBVIOUS
    <2>1. k \in Nat /\ k < n /\ k \in m .. (LastMonth + 1)
      BY <1>1, <1>3
    <2> QED BY <1>3, <2>1
  <1>5. n \in m .. (LastMonth + 1) /\ n \notin Closed /\ m .. (n - 1) \subseteq Closed
    BY <1>3, <1>4
  <1> HIDE DEF T, Good, R
  <1> QED BY <1>5 DEF FirstOpen

LEMMA OpeningMakes ==
  ASSUME Base, NEW d \in Txs, Opening(d), tx[d].op # None, tx[d].todo # <<>>, Statement(d),
         Makes(d, Head(tx[d].todo))
  PROVE  Opening(d)'
  <1> PICK s : s = Head(tx[d].todo)
    OBVIOUS
  <1>1. /\ s \in Left(d) /\ s \in StepSet(Payload(d).kind) /\ Whose(s, Payload(d).kind)
        /\ Left(d)' = Left(d) \ {s} /\ tx'[d].op = tx[d].op /\ row' = row
        /\ \A f \in Fields \ FieldsOf(s) : f # "todo" => tx'[d][f] = tx[d][f]
        /\ \A r : r[1] \notin RowsOf(s) => (r \in DOMAIN tx'[d].w <=> r \in DOMAIN tx[d].w)
    BY Keeps
  <1>2. Payload(d)' = Payload(d) /\ Sound(d) /\ Closed' = Closed
    BY <1>1, BaseReady DEF Payload, Closed
  <1>3. tx'[d].wasOpen = tx[d].wasOpen /\ tx'[d].wasShut = tx[d].wasShut
    BY <1>1 DEF FieldsOf, Fields, LegSteps
  <1> PICK k : k = Payload(d).kind
    OBVIOUS
  <1>4. "insert" \in Left(d)' => \A m : MonthRow(m) \notin DOMAIN tx'[d].w
    <2> SUFFICES ASSUME "insert" \in Left(d)' PROVE \A m : MonthRow(m) \notin DOMAIN tx'[d].w
      OBVIOUS
    <2>1. "insert" \in Left(d) /\ s # "insert" /\ s # "period"
      BY <1>1, LeftOf DEF Whose, StepSet, ClaimKinds
    <2>2. \A m : MonthRow(m)[1] \notin RowsOf(s)
      BY <2>1 DEF MonthRow, RowsOf, ClaimKinds
    <2> QED BY <1>1, <2>1, <2>2 DEF Opening
  <1>5. CASE s = "land"
    <2>1. /\ FirstOpen(tx[d].month) \in Months /\ tx'[d].month = FirstOpen(tx[d].month) /\ k = "sale"
      BY <1>1, <1>2, <1>5, ByName, LandMakes DEF Whose
    <2>2. tx[d].month = P[tx[d].op].month /\ tx[d].month \in Months
      BY <1>1, <1>5, <2>1 DEF Opening
    <2>3. PICK n, m : n = FirstOpen(tx[d].month) /\ m = tx[d].month
      OBVIOUS
    <2>4. m .. (n - 1) \subseteq Closed
      BY <2>2, <2>3, FirstOpenIs
    <2>5. P[tx[d].op].month .. (tx'[d].month - 1) \subseteq tx'[d].wasShut
      BY <1>3, <2>1, <2>2, <2>3, <2>4 DEF Opening
    <2>6. "ensure" \in Left(d)'
      <3>1. "ensure" \in StepSet(k) /\ "ensure" \notin Left(d) => Rank("ensure") < Rank("land")
        BY <1>1, <1>5, Passed
      <3>2. "ensure" \in StepSet(k)
        BY <2>1 DEF StepSet
      <3> QED BY <1>1, <1>5, <3>1, <3>2 DEF Rank
    <2>7. "land" \notin Left(d)'
      BY <1>1, <1>5
    <2> QED BY <1>1, <1>2, <1>3, <1>4, <2>1, <2>5, <2>6, <2>7 DEF Opening
  <1>6. CASE s # "land"
    <2>1. tx'[d].month = tx[d].month
      BY <1>1, <1>6 DEF FieldsOf, Fields, LegSteps
    <2>2. "ensure" \in StepSet(k) \ Left(d)' /\ Books(d)' => tx[d].month \in tx[d].wasOpen
      <3> SUFFICES ASSUME "ensure" \in StepSet(k) \ Left(d)', Books(d)'
                   PROVE  tx[d].month \in tx[d].wasOpen
        OBVIOUS
      <3>1. CASE s = "ensure"
        <4>1. Books(d) => Val(d, MonthRow(tx[d].month)) # "closed"
          BY <1>2, <3>1, ByName, EnsureMakes
        <4>2. tx'[d].legs = tx[d].legs
          BY <1>1, <3>1 DEF FieldsOf, Fields, LegSteps
        <4>3. "insert" \in Left(d)
          <5>1. "insert" \in StepSet(k) /\ "insert" \notin Left(d) => Rank("insert") < Rank("ensure")
            BY <1>1, <3>1, Passed
          <5>2. "insert" \in StepSet(k)
            BY <1>1, <3>1 DEF StepSet
          <5> QED BY <5>1, <5>2 DEF Rank
        <4>4. row[MonthRow(tx[d].month)] # "closed" /\ tx[d].month \in Months
              /\ Months \ Closed \subseteq tx[d].wasOpen
          BY <4>1, <4>2, <4>3 DEF Opening, Val, Books
        <4> QED BY <4>4 DEF Closed
      <3>2. CASE s # "ensure"
        <4>1. "ensure" \in StepSet(k) \ Left(d)
          BY <1>1, <3>2
        <4>2. s \notin LegSteps
          <5>1. s # "credit" => Rank("ensure") < Rank(s)
            BY <1>1, <4>1, Passed
          <5> QED BY <5>1 DEF Rank, LegSteps
        <4>3. tx'[d].legs = tx[d].legs
          BY <1>1, <4>2 DEF FieldsOf, Fields
        <4> QED BY <4>1, <4>3 DEF Opening, Books
      <3> QED BY <3>1, <3>2
    <2>3. "land" \in Left(d)' <=> "land" \in Left(d)
      BY <1>1, <1>6
    <2> QED BY <1>1, <1>2, <1>3, <1>4, <2>1, <2>2, <2>3 DEF Opening
  <1> QED BY <1>5, <1>6

-----------------------------------------------------------------------------
(* All that a transaction keeps to.                                        *)

Standing(d) == Posting(d) /\ Drawing(d) /\ Selling(d) /\ Billing(d) /\ Opening(d)

LEMMA StandingStays ==
  ASSUME NEW e, Standing(e), tx'[e] = tx[e], row' = row PROVE Standing(e)'
  <1>1. Posting(e)' /\ Drawing(e)'
    BY DEF Standing, Posting, HasPosted, EntryOf, Left, Payload, Books, JV, Drawing
  <1>2. Selling(e)' /\ Billing(e)'
    BY DEF Standing, Selling, NewSale, Left, Payload, Billing, Bill, Unbilled
  <1>3. Opening(e)'
    BY DEF Standing, Opening, Left, Payload, Books, Closed
  <1> QED BY <1>1, <1>2, <1>3 DEF Standing

LEMMA StandingIdle ==
  ASSUME NEW e, tx'[e].op = None PROVE Standing(e)'
  BY DEF Standing, Posting, Drawing, Selling, Billing, Opening

LEMMA StandingBegins ==
  ASSUME Base, NEW d \in Txs, NEW o \in Ops, Begun(d, o) PROVE Standing(d)'
  <1>1. /\ tx'[d].op = o /\ Left(d)' = StepSet(P[o].kind) /\ Payload(d)' = P[o] /\ P[o].kind \in AllKinds
        /\ row' = row /\ DOMAIN tx'[d].w = {} /\ tx'[d].entries = {}
    BY Begins
  <1>2. Posting(d)' /\ Drawing(d)'
    <2>1. SeriesOf(P[o].kind) \in {"SALE", "CN"} => "number" \in StepSet(P[o].kind)
      BY DEF SeriesOf, StepSet
    <2> QED BY <1>1, <2>1 DEF Posting, HasPosted, Drawing
  <1>3. Selling(d)'
    BY <1>1 DEF Selling, StepSet
  <1>4. Billing(d)'
    <2>1. tx'[d].legs = IF P[o].kind \in SalesKinds THEN SettleLegs(o)
                   ELSE IF P[o].kind \in StockKinds THEN NoLegs ELSE OneEntry(o)
      BY DEF Begun
    <2>2. /\ P[o].kind \in SalesKinds \ {"settle"} => tx'[d].legs = NoLegs
          /\ P[o].kind \in StockKinds => tx'[d].legs = NoLegs
          /\ P[o].kind = "settle" => tx'[d].legs = SettleLegs(o)
          /\ P[o].kind \in {"pay", "asset", "repair", "manual"} => tx'[d].legs = OneEntry(o)
          /\ P[o].kind \in OfficeKinds \ {"pay", "asset", "repair", "manual"} => tx'[d].legs = NoLegs
      BY <1>1, <2>1 DEF SettleLegs, OneEntry, SalesKinds, StockKinds, OfficeKinds, ClaimKinds
    <2>3. P[o].kind \in AllKinds \ {"settle", "pay", "asset", "repair", "manual"} => tx'[d].legs = NoLegs
      BY <2>2 DEF AllKinds
    <2>4. /\ P[o].kind = "sale" => "sold" \in Left(d)'
          /\ P[o].kind = "refund" => "split" \in Left(d)'
          /\ P[o].kind \in ClaimKinds => "claimMonth" \in Left(d)'
          /\ P[o].kind = "door" => "receive" \in Left(d)'
          /\ P[o].kind = "price" => "price" \in Left(d)'
          /\ P[o].kind = "doorprice" => "rates" \in Left(d)'
          /\ P[o].kind \in {"adjust", "count", "prep", "dispatch"} => "shift" \in Left(d)'
      BY <1>1 DEF StepSet, ClaimKinds
    <2> QED BY <1>1, <2>2, <2>3, <2>4 DEF Billing, Bill, Unbilled, ClaimKinds
  <1>5. Opening(d)'
    <2>1. /\ tx'[d].month = P[o].month /\ tx'[d].wasOpen = Months \ Closed /\ tx'[d].wasShut = Closed
      BY DEF Begun
    <2>2. Closed' = Closed /\ P[o].month \in Months
      BY <1>1, OpsAssumption DEF Closed
    <2>3. P[o].month .. (P[o].month - 1) = {}
      BY <2>2 DEF Months
    <2> QED BY <1>1, <2>1, <2>2, <2>3 DEF Opening
  <1> QED BY <1>2, <1>3, <1>4, <1>5 DEF Standing

LEMMA StandingCommits ==
  ASSUME Base, NEW d \in Txs, Commits(d), NEW e \in Txs \ {d}, Standing(e) PROVE Standing(e)'
  <1>1. /\ \A f \in Fields \ {"wasOpen", "wasShut"} : tx'[e][f] = tx[e][f]
        /\ \A r \in RowNames : r \in DOMAIN tx[e].w => row'[r] = row[r]
    BY Leaves
  <1>2. /\ tx'[e].op = tx[e].op /\ tx'[e].todo = tx[e].todo /\ tx'[e].legs = tx[e].legs
        /\ tx'[e].no = tx[e].no /\ tx'[e].month = tx[e].month /\ tx'[e].session = tx[e].session
        /\ tx'[e].w = tx[e].w /\ tx'[e].entries = tx[e].entries
    BY <1>1 DEF Fields
  <1>3. Payload(e)' = Payload(e) /\ Left(e)' = Left(e) /\ HasPosted(e)' = HasPosted(e)
        /\ Books(e)' = Books(e)
    BY <1>2 DEF HasPosted, Left, Payload, Books
  <1>4. Posting(e)'
    <2>1. CASE tx[e].op # None /\ HasPosted(e)
      <3>1. JV \in DOMAIN tx[e].w /\ tx[e].entries = {EntryOf(e)} /\ tx[e].w[JV] = row[JV] + 1
        BY <2>1 DEF Posting, Standing
      <3>2. row'[JV] = row[JV]
        BY <1>1, <3>1, JVRow
      <3>3. EntryOf(e)' = EntryOf(e)
        BY <1>2, <3>2 DEF EntryOf, Payload, JV
      <3> QED BY <1>2, <1>3, <2>1, <3>1, <3>2, <3>3 DEF Posting, JV
    <2>2. CASE ~(tx[e].op # None /\ HasPosted(e))
      BY <1>2, <1>3, <2>2 DEF Posting, JV, Standing
    <2> QED BY <2>1, <2>2
  <1>5. Drawing(e)'
    <2>1. \A k \in {"SALE", "CN"} : SeriesRow(k) \in RowNames
      BY DEF RowNames, Series
    <2> QED BY <1>1, <1>2, <1>3, <2>1 DEF Drawing, Standing
  <1>6. Selling(e)'
    <2>1. tx[e].op # None => \A p : SaleRow(p) \in DOMAIN tx[e].w => SaleRow(p) \in RowNames
      <3>1. tx[e].op # None => tx[e].op \in Ops /\ (Payload(e).kind = "void" => Payload(e).of \in Sold)
        BY SalesAssumption DEF Base, InHandOf, Kinds, Payload
      <3>2. tx[e].op # None /\ Payload(e).kind = "sale" => tx[e].op \in Sold
        BY <3>1 DEF Sold, Kinds, Payload
      <3> QED BY <3>1, <3>2 DEF Selling, Standing, RowNames
    <2>2. NewSale(e)' = NewSale(e)
      BY <1>2 DEF NewSale
    <2> QED BY <1>1, <1>2, <1>3, <2>1, <2>2 DEF Selling, Standing
  <1>7. Billing(e)'
    BY <1>2, <1>3 DEF Billing, Bill, Unbilled, Standing
  <1>8. Opening(e)'
    <2>1. tx[e].op # None => /\ tx'[e].wasOpen = tx[e].wasOpen \cup (Months \ Closed')
                             /\ tx'[e].wasShut = tx[e].wasShut \cup Closed'
      BY DEF Commits, Closed
    <2> QED BY <1>2, <1>3, <2>1 DEF Opening, Standing
  <1> QED BY <1>4, <1>5, <1>6, <1>7, <1>8 DEF Standing

LEMMA StandingStep ==
  ASSUME Base, \A d \in Txs : Standing(d), [BooksNext]_bookVars PROVE \A d \in Txs : Standing(d)'
  <1>1. ASSUME NEW d \in Txs, StepOf(d) PROVE \A e \in Txs : Standing(e)'
    <2>1. ASSUME NEW o \in Ops, Begun(d, o) PROVE \A e \in Txs : Standing(e)'
      <3>1. row' = row /\ \A e \in Txs \ {d} : tx'[e] = tx[e]
        BY <2>1, Begins
      <3> QED BY <2>1, <3>1, StandingBegins, StandingStays
    <2>2. ASSUME (tx[d].op # None /\ Skip(d)) \/ Abort(d) PROVE \A e \in Txs : Standing(e)'
      <3>1. tx'[d].op = None /\ row' = row /\ \A e \in Txs \ {d} : tx'[e] = tx[e]
        BY <2>2, Ends
      <3> QED BY <3>1, StandingIdle, StandingStays
    <2>3. ASSUME tx[d].op # None, tx[d].todo # <<>>, Statement(d), Makes(d, Head(tx[d].todo)), ~Skip(d)
          PROVE  \A e \in Txs : Standing(e)'
      <3>1. row' = row /\ \A e \in Txs \ {d} : tx'[e] = tx[e]
        BY <2>3, Keeps
      <3>2. Standing(d)'
        BY <2>3, PostingMakes, DrawingMakes, SellingMakes, BillingMakes, OpeningMakes DEF Standing
      <3> QED BY <3>1, <3>2, StandingStays
    <2>4. ASSUME Commits(d) PROVE \A e \in Txs : Standing(e)'
      BY <2>4, Leaves, StandingCommits, StandingIdle
    <2> QED BY <1>1, <2>1, <2>2, <2>3, <2>4 DEF StepOf
  <1>2. CASE BooksNext
    BY <1>1, <1>2, Stepping
  <1>3. CASE UNCHANGED bookVars
    BY <1>3, StandingStays DEF bookVars
  <1> QED BY <1>2, <1>3

\* What is booked is something, where the payload says what.
LEMMA LineNot ==
  ASSUME NEW f, NEW a \in DOMAIN f, f[a] # 0
  PROVE  Lines(f) # NoLegs /\ a \in DOMAIN Lines(f) /\ Lines(f)[a] = f[a]
  <1>1. a \in DOMAIN Lines(f) /\ Lines(f)[a] = f[a]
    BY DEF Lines
  <1>2. DOMAIN NoLegs = {}
    BY DEF NoLegs
  <1> QED BY <1>1, <1>2

LEMMA RefundBooks ==
  ASSUME NEW o \in Kinds({"refund"}) PROVE RefundJournal(o) # NoLegs
  <1>1. P[o].amt \in Nat \ {0} /\ P[o].tender \in Tenders
    BY SalesAssumption
  <1>2. PICK x, y, a, t : RefundJournal(o) = Lines(("4000" :> x) @@ ("2200" :> y) @@ (t :> -a))
        /\ a = P[o].amt /\ t = P[o].tender
    BY DEF RefundJournal
  <1>3. PICK f : f = ("4000" :> x) @@ ("2200" :> y) @@ (t :> -a)
    OBVIOUS
  <1>4. t \notin {"4000", "2200"}
    BY <1>1, <1>2 DEF Tenders
  <1>5. t \in DOMAIN f /\ f[t] = -a
    BY <1>3, <1>4 DEF @@, :>
  <1>6. f[t] # 0
    BY <1>1, <1>2, <1>5
  <1> QED BY <1>2, <1>3, <1>5, <1>6, LineNot

SALE == SeriesRow("SALE")
CN == SeriesRow("CN")
Notes == {j \in journal : j.src = "refund"}
SalesNumbered ==
  /\ row[SALE] \in Nat \ {0} /\ IsFiniteSet(Taken) /\ Cardinality(Taken) = row[SALE] - 1
  /\ {row[SaleRow(s)].no : s \in Taken} = 1 .. (row[SALE] - 1)
NotesNumbered ==
  /\ row[CN] \in Nat \ {0} /\ IsFiniteSet(Notes) /\ Cardinality(Notes) = row[CN] - 1
  /\ {j.no : j \in Notes} = 1 .. (row[CN] - 1)

\* One more number.
LEMMA NextNumber ==
  ASSUME NEW S, IsFiniteSet(S), NEW n \in Nat \ {0}, Cardinality(S) = n - 1, NEW x, x \notin S
  PROVE  IsFiniteSet(S \cup {x}) /\ Cardinality(S \cup {x}) = n /\ (1 .. (n - 1)) \cup {n} = 1 .. n
  <1>1. IsFiniteSet(S \cup {x}) /\ Cardinality(S \cup {x}) = Cardinality(S) + 1
    BY FS_AddElement
  <1> QED BY <1>1

\* What a commit does to the sales' rows and the two series.
LEMMA CommitSells ==
  ASSUME Base, NEW d \in Txs, Standing(d), Commits(d)
  PROVE  LET k == Payload(d).kind o == tx[d].op of == Payload(d).of IN
         /\ k = "sale" => /\ row'[SALE] = row[SALE] + 1 /\ tx[d].no = row[SALE]
                          /\ o \in Sold /\ row'[SaleRow(o)] = NewSale(d)
         /\ k # "sale" => row'[SALE] = row[SALE]
         /\ k = "refund" => row'[CN] = row[CN] + 1 /\ tx[d].no = row[CN]
         /\ k # "refund" => row'[CN] = row[CN]
         /\ k = "void" => /\ of \in Sold /\ row[SaleRow(of)].state = "live"
                          /\ row'[SaleRow(of)] = [row[SaleRow(of)] EXCEPT !.state = "void"]
         /\ \A s \in Sold : ~(k = "sale" /\ s = o) /\ ~(k = "void" /\ s = of) =>
              row'[SaleRow(s)] = row[SaleRow(s)]
  <1> PICK k, o, of : k = Payload(d).kind /\ o = tx[d].op /\ of = Payload(d).of
    OBVIOUS
  <1>1. /\ o # None /\ Left(d) = {} /\ o \in Ops
        /\ \A r \in RowNames : row'[r] = IF r \in DOMAIN tx[d].w THEN tx[d].w[r] ELSE row[r]
    BY Leaves
  <1>2. SALE \in RowNames /\ CN \in RowNames /\ \A s \in Sold : SaleRow(s) \in RowNames
    BY DEF SALE, CN, RowNames, Series
  <1>3. /\ k = "sale" => SALE \in DOMAIN tx[d].w /\ tx[d].w[SALE] = row[SALE] + 1 /\ tx[d].no = row[SALE]
        /\ k # "sale" => SALE \notin DOMAIN tx[d].w
        /\ k = "refund" => CN \in DOMAIN tx[d].w /\ tx[d].w[CN] = row[CN] + 1 /\ tx[d].no = row[CN]
        /\ k # "refund" => CN \notin DOMAIN tx[d].w
    BY <1>1 DEF Standing, Drawing, SeriesOf, SALE, CN
  <1>4. (k = "sale" => o \in Sold) /\ (k = "void" => of \in Sold)
    BY <1>1, SalesAssumption DEF Sold, Kinds, Payload
  <1>5. /\ k = "sale" => SaleRow(o) \in DOMAIN tx[d].w /\ tx[d].w[SaleRow(o)] = NewSale(d)
        /\ k = "void" => /\ SaleRow(of) \in DOMAIN tx[d].w /\ row[SaleRow(of)].state = "live"
                         /\ tx[d].w[SaleRow(of)] = [row[SaleRow(of)] EXCEPT !.state = "void"]
        /\ \A p : SaleRow(p) \in DOMAIN tx[d].w => (k = "sale" /\ p = o) \/ (k = "void" /\ p = of)
    BY <1>1 DEF Standing, Selling
  <1>6. k = "void" => row'[SaleRow(of)] = [row[SaleRow(of)] EXCEPT !.state = "void"]
    BY <1>1, <1>2, <1>4, <1>5
  <1>7. k = "sale" => row'[SaleRow(o)] = NewSale(d)
    BY <1>1, <1>2, <1>4, <1>5
  <1>8. \A s \in Sold : ~(k = "sale" /\ s = o) /\ ~(k = "void" /\ s = of)
        => row'[SaleRow(s)] = row[SaleRow(s)]
    BY <1>1, <1>2, <1>5
  <1>9. /\ k = "sale" => row'[SALE] = row[SALE] + 1
        /\ k # "sale" => row'[SALE] = row[SALE]
        /\ k = "refund" => row'[CN] = row[CN] + 1
        /\ k # "refund" => row'[CN] = row[CN]
    BY <1>1, <1>2, <1>3
  <1> QED BY <1>3, <1>4, <1>5, <1>6, <1>7, <1>8, <1>9

\* A sale's row keeps its shape.
SaleRowsKept == \A s \in Sold : LET q == row[SaleRow(s)] IN
  q = [state |-> q.state, no |-> q.no, earned |-> q.earned, session |-> q.session]
  /\ q.state \in {"none", "live", "void"}

LEMMA SalesNumberedCommits ==
  ASSUME Base, NEW d \in Txs, Standing(d), Commits(d), SalesNumbered, SaleRowsKept
  PROVE  SalesNumbered' /\ SaleRowsKept'
  <1> PICK k, o, of : k = Payload(d).kind /\ o = tx[d].op /\ of = Payload(d).of
    OBVIOUS
  <1>1. /\ k = "sale" => /\ row'[SALE] = row[SALE] + 1 /\ tx[d].no = row[SALE]
                          /\ o \in Sold /\ row'[SaleRow(o)] = NewSale(d)
        /\ k # "sale" => row'[SALE] = row[SALE]
        /\ k = "void" => /\ of \in Sold /\ row[SaleRow(of)].state = "live"
                          /\ row'[SaleRow(of)] = [row[SaleRow(of)] EXCEPT !.state = "void"]
        /\ \A s \in Sold : ~(k = "sale" /\ s = o) /\ ~(k = "void" /\ s = of)
            => row'[SaleRow(s)] = row[SaleRow(s)]
    BY CommitSells
  <1>2. SALE' = SALE /\ Taken' = {s \in Sold : row'[SaleRow(s)].state \in {"live", "void"}}
        /\ Taken = {s \in Sold : row[SaleRow(s)].state \in {"live", "void"}}
    BY DEF Taken, Live, Void, SALE
  <1>3. CASE k = "sale"
    <2>1. o \in Sold /\ row'[SaleRow(o)] = NewSale(d) /\ NewSale(d).state = "live"
          /\ NewSale(d).no = row[SALE]
      BY <1>1, <1>3 DEF NewSale
    <2>2. \A s \in Sold : s # o => row'[SaleRow(s)] = row[SaleRow(s)]
      BY <1>1, <1>3
    <2>3. o \notin Taken
      <3>1. o \notin applied
        BY Leaves
      <3> QED BY <1>2, <3>1 DEF Base, OnRecord
    <2>4. Taken' = Taken \cup {o}
      BY <1>2, <2>1, <2>2
    <2>5. PICK n \in Nat \ {0} : n = row[SALE]
      BY DEF SalesNumbered
    <2>6. IsFiniteSet(Taken') /\ Cardinality(Taken') = n /\ (1 .. (n - 1)) \cup {n} = 1 .. n
      <3>1. PICK T : T = Taken
        OBVIOUS
      <3>2. IsFiniteSet(T) /\ Cardinality(T) = n - 1 /\ o \notin T
        BY <2>3, <2>5, <3>1 DEF SalesNumbered
      <3>3. IsFiniteSet(T \cup {o}) /\ Cardinality(T \cup {o}) = n /\ (1 .. (n - 1)) \cup {n} = 1 .. n
        BY <3>2, NextNumber
      <3> QED BY <2>4, <3>1, <3>3
    <2>7. {row'[SaleRow(s)].no : s \in Taken'} = {row[SaleRow(s)].no : s \in Taken} \cup {n}
      <3>1. \A s \in Taken : row'[SaleRow(s)].no = row[SaleRow(s)].no
        BY <1>2, <2>2, <2>3
      <3>2. row'[SaleRow(o)].no = n
        BY <2>1, <2>5
      <3> QED BY <2>4, <3>1, <3>2
    <2>8. row'[SALE] = n + 1 /\ row'[SALE] \in Nat \ {0} /\ row'[SALE] - 1 = n
      BY <1>1, <1>3, <2>5
    <2>9. SalesNumbered'
      BY <1>2, <2>5, <2>6, <2>7, <2>8 DEF SalesNumbered
    <2>10. \A s \in Sold : s # o => LET q == row'[SaleRow(s)] IN
             q = [state |-> q.state, no |-> q.no, earned |-> q.earned, session |-> q.session]
             /\ q.state \in {"none", "live", "void"}
      BY <2>2 DEF SaleRowsKept
    <2>11. NewSale(d)
          = [state |-> NewSale(d).state, no |-> NewSale(d).no, earned |-> NewSale(d).earned,
              session |-> NewSale(d).session]
      BY DEF NewSale
    <2> QED BY <2>1, <2>9, <2>10, <2>11 DEF SaleRowsKept
  <1>4. CASE k # "sale"
    <2>1. \A s \in Sold : LET q == row'[SaleRow(s)] p == row[SaleRow(s)] IN
            /\ q.no = p.no /\ (q.state \in {"live", "void"} <=> p.state \in {"live", "void"})
            /\ q = [state |-> q.state, no |-> q.no, earned |-> q.earned, session |-> q.session]
            /\ q.state \in {"none", "live", "void"}
      <3>1. ASSUME NEW s \in Sold, k = "void", s = of
            PROVE  LET q == row'[SaleRow(s)] p == row[SaleRow(s)] IN
                   /\ q.no = p.no /\ q.state = "void" /\ p.state = "live"
                   /\ q = [state |-> q.state, no |-> q.no, earned |-> q.earned, session |-> q.session]
        <4>1. PICK p, q : p = row[SaleRow(s)] /\ q = row'[SaleRow(s)]
          OBVIOUS
        <4>2. /\ q = [p EXCEPT !.state = "void"] /\ p.state = "live"
              /\ p = [state |-> p.state, no |-> p.no, earned |-> p.earned, session |-> p.session]
          BY <1>1, <3>1, <4>1 DEF SaleRowsKept
        <4>3. /\ q.no = p.no /\ q.state = "void"
              /\ q = [state |-> q.state, no |-> q.no, earned |-> q.earned, session |-> q.session]
          BY <4>2
        <4> QED BY <4>1, <4>2, <4>3
      <3>2. ASSUME NEW s \in Sold, ~(k = "void" /\ s = of)
            PROVE  row'[SaleRow(s)] = row[SaleRow(s)]
        BY <1>1, <1>4, <3>2
      <3> QED BY <3>1, <3>2 DEF SaleRowsKept
    <2>2. Taken' = Taken
      BY <1>2, <2>1
    <2>3. \A s \in Taken : row'[SaleRow(s)].no = row[SaleRow(s)].no
      BY <1>2, <2>1
    <2>4. {row'[SaleRow(s)].no : s \in Taken'} = {row[SaleRow(s)].no : s \in Taken}
      BY <2>2, <2>3
    <2>5. row'[SALE] = row[SALE]
      BY <1>1, <1>4
    <2>6. SalesNumbered'
      BY <1>2, <2>2, <2>4, <2>5 DEF SalesNumbered
    <2> QED BY <2>1, <2>6 DEF SaleRowsKept
  <1> QED BY <1>3, <1>4

LEMMA NotesNumberedCommits ==
  ASSUME Base, NEW d \in Txs, Standing(d), Commits(d), NotesNumbered, Ledger
  PROVE  NotesNumbered'
  <1> PICK k : k = Payload(d).kind
    OBVIOUS
  <1>1. /\ k = "refund" => row'[CN] = row[CN] + 1 /\ tx[d].no = row[CN]
        /\ k # "refund" => row'[CN] = row[CN]
    BY CommitSells
  <1>2. /\ HasEntry(d) => journal' = journal \cup {Enters(d)}
        /\ ~HasEntry(d) => journal' = journal
    BY CommitEnters DEF Standing
  <1>3. Enters(d).src = k /\ Enters(d).no = tx[d].no /\ Enters(d).op = tx[d].op /\ CN' = CN
    BY DEF Enters, CN
  <1>4. PICK e : e = Enters(d)
    OBVIOUS
  <1>5. CASE k = "refund"
    <2>1. HasEntry(d)
      <3>1. tx[d].legs = RefundJournal(tx[d].op) /\ tx[d].op \in Kinds({"refund"})
        BY <1>5, Leaves DEF Standing, Billing, Bill, Kinds, Payload
      <3> QED BY <1>5, <3>1, RefundBooks DEF HasEntry, StepSet, Books
    <2>2. Notes' = Notes \cup {e}
      BY <1>2, <1>3, <1>4, <1>5, <2>1 DEF Notes
    <2>3. e \notin Notes
      <3>1. tx[d].op \notin applied
        BY Leaves
      <3> QED BY <1>3, <1>4, <3>1 DEF Ledger, Notes
    <2>4. PICK n \in Nat \ {0} : n = row[CN]
      BY DEF NotesNumbered
    <2>5. PICK T : T = Notes
      OBVIOUS
    <2>6. IsFiniteSet(T) /\ Cardinality(T) = n - 1 /\ e \notin T /\ {j.no : j \in T} = 1 .. (n - 1)
      BY <2>3, <2>4, <2>5 DEF NotesNumbered
    <2>7. IsFiniteSet(T \cup {e}) /\ Cardinality(T \cup {e}) = n /\ (1 .. (n - 1)) \cup {n} = 1 .. n
      BY <2>6, NextNumber
    <2>8. {j.no : j \in T \cup {e}} = 1 .. n
      <3>1. e.no = n
        BY <1>1, <1>3, <1>4, <1>5, <2>4
      <3>2. {j.no : j \in T \cup {e}} = {j.no : j \in T} \cup {e.no}
        OBVIOUS
      <3> QED BY <2>6, <2>7, <3>1, <3>2
    <2>9. row'[CN] = n + 1 /\ row'[CN] \in Nat \ {0} /\ row'[CN] - 1 = n
      BY <1>1, <1>5, <2>4
    <2> QED BY <1>3, <2>2, <2>5, <2>7, <2>8, <2>9 DEF NotesNumbered
  <1>6. CASE k # "refund"
    <2>1. Notes' = Notes
      BY <1>2, <1>3, <1>6 DEF Notes
    <2> QED BY <1>1, <1>3, <1>6, <2>1 DEF NotesNumbered
  <1> QED BY <1>5, <1>6

LEMMA LandsCommits ==
  ASSUME Base, NEW d \in Txs, Standing(d), Commits(d), LandsOpen
  PROVE  LandsOpen'
  <1>1. /\ HasEntry(d) => journal' = journal \cup {Enters(d)}
        /\ ~HasEntry(d) => journal' = journal
    BY CommitEnters DEF Standing
  <1>2. PICK e : e = Enters(d)
    OBVIOUS
  <1>3. /\ e.month = tx[d].month /\ e.open = tx[d].wasOpen /\ e.src = Payload(d).kind /\ e.op = tx[d].op
        /\ e.shut = tx[d].wasShut
    BY <1>2 DEF Enters
  <1>4. tx[d].op # None /\ Left(d) = {}
    BY Leaves
  <1>5. Payload(d).kind = "sale" => P[tx[d].op].month .. (tx[d].month - 1) \subseteq tx[d].wasShut
    BY <1>4 DEF Standing, Opening
  <1>6. HasEntry(d) => tx[d].month \in tx[d].wasOpen
    <2>1. "post" \in StepSet(Payload(d).kind) => "ensure" \in StepSet(Payload(d).kind)
      BY DEF StepSet, ClaimKinds
    <2> QED BY <1>4, <2>1 DEF Standing, Opening, HasEntry
  <1> QED BY <1>1, <1>2, <1>3, <1>5, <1>6 DEF LandsOpen

Documents ==
  /\ Base /\ \A d \in Txs : Standing(d)
  /\ Ledger /\ SalesNumbered /\ SaleRowsKept /\ NotesNumbered /\ LandsOpen

LEMMA DocumentsStep ==
  ASSUME Documents, [BooksNext]_bookVars PROVE Documents'
  <1>0. Base /\ (\A d \in Txs : Standing(d)) /\ (\A d \in Txs : Posting(d)) /\ Ledger
    BY DEF Documents, Standing
  <1>1. Base' /\ (\A d \in Txs : Standing(d)') /\ Ledger'
    BY <1>0, BaseStep, StandingStep, EntriesStep
  <1>2. ASSUME row' = row, journal' = journal
        PROVE  SalesNumbered' /\ SaleRowsKept' /\ NotesNumbered' /\ LandsOpen'
    BY <1>2 DEF Documents, SalesNumbered, SaleRowsKept, NotesNumbered, LandsOpen, Taken, Live, Void,
        Notes, SALE, CN
  <1>3. CASE BooksNext
    <2>1. PICK d \in Txs : StepOf(d)
      BY <1>0, <1>3, Stepping
    <2>2. CASE Commits(d)
      <3>1. SalesNumbered' /\ SaleRowsKept' /\ NotesNumbered' /\ LandsOpen'
        BY <1>0, <2>2, SalesNumberedCommits, NotesNumberedCommits, LandsCommits DEF Documents
      <3> QED BY <1>1, <3>1 DEF Documents
    <2>3. CASE ~Commits(d)
      <3>1. row' = row /\ journal' = journal
        BY <1>0, <2>1, <2>3, Begins, Keeps, Ends DEF StepOf
      <3> QED BY <1>1, <1>2, <3>1 DEF Documents
    <2> QED BY <2>2, <2>3
  <1>4. CASE UNCHANGED bookVars
    <2>1. row' = row /\ journal' = journal
      BY <1>4 DEF bookVars
    <2> QED BY <1>1, <1>2, <2>1 DEF Documents
  <1> QED BY <1>3, <1>4

LEMMA DocumentsInit ==
  ASSUME BooksInit PROVE Documents
  <1>1. Base /\ journal = {} /\ applied = {}
    BY BaseInit DEF BooksInit
  <1>2. \A d \in Txs : tx[d].op = None
    <2>1. tx = [d \in Txs |-> Idle] /\ Idle.op = None
      BY DEF BooksInit, Idle
    <2> QED BY <2>1
  <1>3. \A d \in Txs : Standing(d)
    BY <1>2 DEF Standing, Posting, Drawing, Selling, Billing, Opening
  <1>4. row[JV] = 1 /\ row[SALE] = 1 /\ row[CN] = 1 /\ \A s \in Sold : row[SaleRow(s)] = NoSale
    BY FirstRow DEF JV, SALE, CN, Series
  <1>5. Ledger
    BY <1>1, <1>4, FS_EmptySet DEF Ledger, Numbered
  <1>6. NoSale.state = "none"
        /\ NoSale = [state |-> NoSale.state, no |-> NoSale.no, earned |-> NoSale.earned,
            session |-> NoSale.session]
    BY DEF NoSale
  <1>7. Taken = {} /\ Notes = {}
    BY <1>1, <1>4, <1>6 DEF Taken, Live, Void, Notes
  <1>8. SalesNumbered /\ NotesNumbered
    BY <1>4, <1>7, FS_EmptySet DEF SalesNumbered, NotesNumbered
  <1>9. SaleRowsKept
    BY <1>4, <1>6 DEF SaleRowsKept
  <1>10. LandsOpen
    BY <1>1 DEF LandsOpen
  <1> QED BY <1>1, <1>3, <1>5, <1>8, <1>9, <1>10 DEF Documents

LEMMA DocumentsHold == ASSUME Documents PROVE DocumentsRunOn
  <1>1. \A n \in Nat \ {0} : Cardinality(1 .. (n - 1)) = n - 1
    BY FS_Interval
  <1>2. RunsOn("SALE", {row[SaleRow(s)].no : s \in Taken}, Cardinality(Taken))
    BY <1>1 DEF Documents, SalesNumbered, RunsOn, SALE
  <1>3. RunsOn("CN", {j.no : j \in Notes}, Cardinality(Notes))
    BY <1>1 DEF Documents, NotesNumbered, RunsOn, CN
  <1>4. RunsOn("JV", {j.jv : j \in journal}, Cardinality(journal))
    BY <1>1 DEF Documents, Ledger, Numbered, RunsOn, JV
  <1> QED BY <1>2, <1>3, <1>4 DEF DocumentsRunOn, SeriesRunOn, Documents, Notes

\* Each series is handed out without a gap and without a number twice, and no entry
\* is in a month that was closed the whole time it was being made.
THEOREM DocumentsAlwaysRunOn == BooksSpec => []DocumentsRunOn
  <1>1. BooksInit => Documents
    BY DocumentsInit
  <1>2. Documents /\ [BooksNext]_bookVars => Documents'
    BY DocumentsStep
  <1>3. Documents => DocumentsRunOn
    BY DocumentsHold
  <1> QED BY <1>1, <1>2, <1>3, PTL DEF BooksSpec

-----------------------------------------------------------------------------
(* Sums over the journal.                                                  *)

LEMMA BookedMore ==
  ASSUME NEW S, IsFiniteSet(S), NEW e, e \notin S, NEW a, \A j \in S \cup {e} : Leg(j.legs, a) \in Int
  PROVE  BookedOn(a, S \cup {e}) = BookedOn(a, S) + Leg(e.legs, a) /\ BookedOn(a, S) \in Int
  <1>1. PICK f, g : f = [j \in S |-> Leg(j.legs, a)] /\ g = [j \in S \cup {e} |-> Leg(j.legs, a)]
    OBVIOUS
  <1>0. /\ DOMAIN f = S /\ DOMAIN g = S \cup {e} /\ \A x \in S : f[x] = g[x]
        /\ \A x \in S \cup {e} : g[x] \in Int
    BY <1>1
  <1>2. SumFunction(g) = SumFunctionOnSet(g, S \cup {e}) /\ SumFunction(f) = SumFunctionOnSet(f, S)
    BY <1>0 DEF SumFunction
  <1>3. SumFunctionOnSet(g, S \cup {e}) = SumFunctionOnSet(g, S) + g[e]
    BY <1>0, SumMore
  <1>4. SumFunctionOnSet(f, S) = SumFunctionOnSet(g, S)
    BY <1>0, SumSame
  <1>5. SumFunctionOnSet(f, S) \in Int
    BY <1>0, SumType
  <1> QED BY <1>1, <1>2, <1>3, <1>4, <1>5 DEF BookedOn

LEMMA BookedNone == ASSUME NEW a PROVE BookedOn(a, {}) = 0
  <1>1. PICK f : f = [j \in {} |-> Leg(j.legs, a)]
    OBVIOUS
  <1> QED BY <1>1, SumNothing DEF BookedOn, SumFunction

\* Squaring an entry touches 4900, and no other account.
LEMMA SquaredLeg ==
  ASSUME NEW legs, NEW a, a # "4900" PROVE Leg(Squared(legs), a) = Leg(legs, a)
  <1>1. PICK x, f : f = ("4900" :> x) @@ legs /\ Squared(legs) = Lines(f)
    BY DEF Squared
  <1>2. (a \in DOMAIN f <=> a \in DOMAIN legs) /\ (a \in DOMAIN legs => f[a] = legs[a])
    BY <1>1 DEF @@, :>
  <1> QED BY <1>1, <1>2 DEF Leg, Lines

-----------------------------------------------------------------------------
(* What is paid once a month.                                              *)

Claiming(d) ==
  tx[d].op # None =>
    LET k == Payload(d).kind C == ClaimRow(k, Payload(d).for) IN
    /\ k \in ClaimKinds => IF "claimMonth" \in Left(d) THEN C \notin DOMAIN tx[d].w
                           ELSE C \in DOMAIN tx[d].w /\ tx[d].w[C] = Payload(d).amt /\ row[C] = 0
    /\ \A j \in ClaimKinds : \A m : ClaimRow(j, m) \in DOMAIN tx[d].w => k = j /\ m = Payload(d).for

LEMMA ClaimingMakes ==
  ASSUME Base, NEW d \in Txs, Claiming(d), tx[d].op # None, tx[d].todo # <<>>, Statement(d),
         Makes(d, Head(tx[d].todo)), ~Skip(d)
  PROVE  Claiming(d)'
  <1> PICK s : s = Head(tx[d].todo)
    OBVIOUS
  <1>1. /\ s \in Left(d) /\ s \in StepSet(Payload(d).kind) /\ Whose(s, Payload(d).kind)
        /\ Left(d)' = Left(d) \ {s} /\ tx'[d].op = tx[d].op /\ row' = row
        /\ \A r : r[1] \notin RowsOf(s) => /\ r \in DOMAIN tx'[d].w <=> r \in DOMAIN tx[d].w
                                           /\ r \in DOMAIN tx[d].w => tx'[d].w[r] = tx[d].w[r]
    BY Keeps
  <1>2. Payload(d)' = Payload(d) /\ Sound(d)
    BY <1>1, BaseReady DEF Payload
  <1> PICK k, C : k = Payload(d).kind /\ C = ClaimRow(k, Payload(d).for)
    OBVIOUS
  <1>3. CASE s = "claimMonth"
    <2>1. ClaimMonth(d) /\ k \in ClaimKinds
      BY <1>1, <1>3, ByName DEF Whose
    <2>2. Wrote(d, C, Payload(d).amt) /\ Val(d, C) = 0
      BY <1>2, <2>1, ClaimMonthMakes
    <2>3. C \notin DOMAIN tx[d].w /\ \A j \in ClaimKinds : \A m : ClaimRow(j, m) \notin DOMAIN tx[d].w
      BY <1>1, <1>3, <2>1 DEF Claiming
    <2>4. row[C] = 0
      BY <2>2, <2>3 DEF Val
    <2>5. DOMAIN tx'[d].w = DOMAIN tx[d].w \cup {C} /\ tx'[d].w[C] = Payload(d).amt
      BY <2>2 DEF Wrote, Put, @@, :>
    <2>6. \A j \in ClaimKinds : \A m : ClaimRow(j, m) \in DOMAIN tx'[d].w => k = j /\ m = Payload(d).for
      BY <2>3, <2>5 DEF ClaimRow
    <2> QED BY <1>1, <1>2, <1>3, <2>1, <2>4, <2>5, <2>6 DEF Claiming
  <1>4. CASE s # "claimMonth"
    <2>1. \A j \in ClaimKinds : \A m : ClaimRow(j, m)[1] \notin RowsOf(s)
      BY <1>4 DEF RowsOf, ClaimKinds, ClaimRow
    <2>2. \A j \in ClaimKinds : \A m :
            /\ ClaimRow(j, m) \in DOMAIN tx'[d].w <=> ClaimRow(j, m) \in DOMAIN tx[d].w
            /\ ClaimRow(j, m) \in DOMAIN tx[d].w => tx'[d].w[ClaimRow(j, m)] = tx[d].w[ClaimRow(j, m)]
      BY <1>1, <2>1
    <2>3. "claimMonth" \in Left(d)' <=> "claimMonth" \in Left(d)
      BY <1>1, <1>4
    <2> QED BY <1>1, <1>2, <2>2, <2>3 DEF Claiming
  <1> QED BY <1>3, <1>4

-----------------------------------------------------------------------------
(* Settlement batches.                                                     *)

BatchesKept ==
  \A b \in Batches : LET q == row[BatchRow(b)] IN
    q = [state |-> q.state, net |-> q.net] /\ q.net \in Int /\ (q.state = "none" => q.net = 0)
Batching(d) ==
  tx[d].op # None =>
    LET k == Payload(d).kind B == BatchRow(Payload(d).batch) w == tx[d].w IN
    /\ k = "match" => IF "match" \in Left(d) THEN B \notin DOMAIN w
                      ELSE /\ B \in DOMAIN w /\ w[B] = [state |-> "matched", net |-> Payload(d).net]
                           /\ Leg(tx[d].legs, "1020") \in Int
                           /\ B \notin tx[d].drift => w[B].net = row[B].net + Leg(tx[d].legs, "1020")
    /\ k = "match" /\ "net" \notin Left(d) => tx[d].seen \in Int
    /\ k = "reopen" => IF "reopen" \in Left(d) THEN B \notin DOMAIN w
                       ELSE /\ B \in DOMAIN w /\ w[B] = [row[B] EXCEPT !.state = "reopened"]
                            /\ row[B].state # "none"
    /\ \A b : BatchRow(b) \in DOMAIN w => k \in {"match", "reopen"} /\ b = Payload(d).batch

LEMMA SettledLeg ==
  ASSUME NEW g \in Int, NEW n \in Int PROVE Leg(SettledLegs(g, n), "1020") = n
  <1>1. PICK f, x, y : /\ SettledLegs(g, n) = Lines(f)
                          /\ f = ("1020" :> n) @@ ("5600" :> x) @@ ("1030" :> y)
    BY DEF SettledLegs
  <1>2. "1020" \in DOMAIN f /\ f["1020"] = n
    BY <1>1 DEF @@, :>
  <1> QED BY <1>1, <1>2 DEF Leg, Lines

LEMMA CorrectionLeg ==
  ASSUME NEW n \in Int, NEW p \in Int PROVE Leg(Correction(n, p), "1020") = n - p
  <1>1. PICK h, z, q : /\ Correction(n, p) = Lines(h) /\ h = ("1020" :> q) @@ ("5600" :> z) /\ q = n - p
    BY DEF Correction
  <1>2. "1020" \in DOMAIN h /\ h["1020"] = q
    BY <1>1 DEF @@, :>
  <1> QED BY <1>1, <1>2 DEF Leg, Lines

LEMMA NoLeg == ASSUME NEW a PROVE Leg(NoLegs, a) = 0
  <1>1. DOMAIN NoLegs = {}
    BY DEF NoLegs
  <1> QED BY <1>1 DEF Leg

LEMMA BatchingMakes ==
  ASSUME Base, BatchesKept, NEW d \in Txs, Batching(d), tx[d].op # None, tx[d].todo # <<>>, Statement(d),
         Makes(d, Head(tx[d].todo)), ~Skip(d)
  PROVE  Batching(d)'
  <1> PICK s : s = Head(tx[d].todo)
    OBVIOUS
  <1>1. /\ s \in Left(d) /\ s \in StepSet(Payload(d).kind) /\ Whose(s, Payload(d).kind)
        /\ Left(d)' = Left(d) \ {s} /\ tx'[d].op = tx[d].op /\ row' = row
        /\ \A f \in Fields \ FieldsOf(s) : f # "todo" => tx'[d][f] = tx[d][f]
        /\ \A r : r[1] \notin RowsOf(s) => /\ r \in DOMAIN tx'[d].w <=> r \in DOMAIN tx[d].w
                                           /\ r \in DOMAIN tx[d].w => tx'[d].w[r] = tx[d].w[r]
    BY Keeps
  <1>2. Payload(d)' = Payload(d) /\ Sound(d)
    BY <1>1, BaseReady DEF Payload
  <1> PICK k, b, B : k = Payload(d).kind /\ b = Payload(d).batch /\ B = BatchRow(b)
    OBVIOUS
  <1>3. (k \in {"match", "reopen"} => b \in Batches)
        /\ (k = "match" => Payload(d).gross \in Int /\ Payload(d).net \in Int)
    <2>1. tx[d].op \in Ops
      BY DEF Base, InHandOf
    <2> QED BY <2>1, OfficeAssumption DEF Kinds, Payload
  <1>4. k \in {"match", "reopen"} => row[B] = [state |-> row[B].state, net |-> row[B].net]
        /\ row[B].net \in Int
                                     /\ (row[B].state = "none" => row[B].net = 0)
    BY <1>3 DEF BatchesKept
  <1>5. \A x, y : (BatchRow(x) = BatchRow(y) => x = y) /\ BatchRow(x)[1] = "batch"
    BY DEF BatchRow
  <1>6. CASE s = "match"
    <2>1. Match(d) /\ k = "match"
      BY <1>1, <1>6, ByName DEF Whose
    <2>2. B \notin DOMAIN tx[d].w /\ \A x : BatchRow(x) \notin DOMAIN tx[d].w
      BY <1>1, <1>6, <2>1 DEF Batching
    <2>3. Val(d, B) = row[B]
      BY <2>2 DEF Val
    <2>4. tx[d].seen \in Int /\ "net" \notin Left(d)
      <3>1. "net" \notin Left(d)
        <4>1. "net" \in Left(d) => Rank(s) <= Rank("net")
          BY <1>6, NextOf
        <4> QED BY <1>6, <4>1 DEF Rank
      <3> QED BY <2>1, <3>1 DEF Batching
    <2> PICK gross, net, seen, fresh, was, v :
          /\ gross = Payload(d).gross /\ net = Payload(d).net /\ seen = tx[d].seen /\ fresh = tx[d].fresh
          /\ was = row[B] /\ v = [state |-> "matched", net |-> net]
      OBVIOUS
    <2>5. /\ Wrote(d, B, v)
          /\ tx'[d].legs = IF was.state = "none" THEN SettledLegs(gross, net)
                           ELSE IF fresh THEN NoLegs ELSE Correction(net, seen)
          /\ tx'[d].drift = IF (IF fresh THEN was.state = "none" ELSE seen = was.net)
                            THEN tx[d].drift ELSE tx[d].drift \cup {B}
      BY <1>2, <2>1, <2>3, MatchMakes
    <2>6. DOMAIN tx'[d].w = DOMAIN tx[d].w \cup {B} /\ tx'[d].w[B] = v
      BY <2>5 DEF Wrote, Put, @@, :>
    <2>7. net \in Int /\ gross \in Int /\ seen \in Int /\ was.net \in Int
          /\ (was.state = "none" => was.net = 0)
      BY <1>3, <1>4, <2>1, <2>4
    <2>8. /\ Leg(SettledLegs(gross, net), "1020") = net /\ Leg(Correction(net, seen), "1020") = net - seen
          /\ Leg(NoLegs, "1020") = 0
      BY <2>7, SettledLeg, CorrectionLeg, NoLeg
    <2>9. PICK leg : leg = Leg(tx'[d].legs, "1020")
      OBVIOUS
    <2>10. leg \in Int
      BY <2>5, <2>7, <2>8, <2>9
    <2>11. B \notin tx'[d].drift => net = was.net + leg
      <3>1. CASE was.state = "none"
        BY <2>5, <2>7, <2>8, <2>9, <3>1
      <3>2. CASE was.state # "none"
        <4> SUFFICES ASSUME B \notin tx'[d].drift PROVE net = was.net + leg
          OBVIOUS
        <4>1. ~fresh /\ seen = was.net
          BY <2>5, <3>2
        <4> QED BY <2>5, <2>7, <2>8, <2>9, <3>2, <4>1
      <3> QED BY <3>1, <3>2
    <2>12. \A x : BatchRow(x) \in DOMAIN tx'[d].w => x = b
      BY <1>5, <2>2, <2>6
    <2>13. tx'[d].seen = tx[d].seen
      BY <1>1, <1>6 DEF FieldsOf, Fields, LegSteps
    <2> QED BY <1>1, <1>2, <1>6, <2>1, <2>4, <2>6, <2>9, <2>10, <2>11, <2>12, <2>13 DEF Batching
  <1>7. CASE s = "reopen"
    <2>1. Reopen(d) /\ k = "reopen"
      BY <1>1, <1>7, ByName DEF Whose
    <2>2. B \notin DOMAIN tx[d].w /\ \A x : BatchRow(x) \notin DOMAIN tx[d].w
      BY <1>1, <1>7, <2>1 DEF Batching
    <2>3. Val(d, B) = row[B]
      BY <2>2 DEF Val
    <2>4. PICK v : v = [row[B] EXCEPT !.state = "reopened"]
      OBVIOUS
    <2>5. Wrote(d, B, v) /\ row[B].state # "none"
      BY <1>2, <2>1, <2>3, <2>4, ReopenMakes
    <2>6. DOMAIN tx'[d].w = DOMAIN tx[d].w \cup {B} /\ tx'[d].w[B] = v
      BY <2>5 DEF Wrote, Put, @@, :>
    <2>7. \A x : BatchRow(x) \in DOMAIN tx'[d].w => x = b
      BY <1>5, <2>2, <2>6
    <2> QED BY <1>1, <1>2, <1>7, <2>1, <2>4, <2>5, <2>6, <2>7 DEF Batching
  <1>8. CASE s \notin {"match", "reopen"}
    <2>1. "batch" \notin RowsOf(s)
      BY <1>8 DEF RowsOf, ClaimKinds
    <2>2. \A x : /\ BatchRow(x) \in DOMAIN tx'[d].w <=> BatchRow(x) \in DOMAIN tx[d].w
                 /\ BatchRow(x) \in DOMAIN tx[d].w => tx'[d].w[BatchRow(x)] = tx[d].w[BatchRow(x)]
      BY <1>1, <1>5, <2>1
    <2>3. ("match" \in Left(d)' <=> "match" \in Left(d))
          /\ ("reopen" \in Left(d)' <=> "reopen" \in Left(d))
      BY <1>1, <1>8
    <2>4. k = "match" /\ "match" \notin Left(d) => tx'[d].legs = tx[d].legs /\ tx'[d].drift = tx[d].drift
      <3> SUFFICES ASSUME k = "match", "match" \notin Left(d)
                   PROVE  tx'[d].legs = tx[d].legs /\ tx'[d].drift = tx[d].drift
        OBVIOUS
      <3>1. s \in {"net", "ensure", "insert", "post"}
        BY <1>1, <1>8 DEF StepSet, ClaimKinds
      <3> QED BY <1>1, <3>1 DEF FieldsOf, Fields, LegSteps
    <2>5. k = "match" /\ "net" \notin Left(d)' => tx'[d].seen \in Int
      <3>1. CASE s = "net"
        <4>1. ReadNet(d) /\ k = "match"
          BY <1>1, <3>1, ByName DEF Whose
        <4>2. tx'[d].seen = row[B].net
          BY <1>2, <4>1, NetMakes
        <4> QED BY <1>4, <4>1, <4>2
      <3>2. ASSUME k = "match", s # "net", "net" \notin Left(d)' PROVE tx'[d].seen \in Int
        <4>1. s \in {"ensure", "insert", "post"} /\ "net" \notin Left(d)
          BY <1>1, <1>8, <3>2 DEF StepSet, ClaimKinds
        <4>2. tx'[d].seen = tx[d].seen
          BY <1>1, <4>1 DEF FieldsOf, Fields, LegSteps
        <4> QED BY <3>2, <4>1, <4>2 DEF Batching
      <3> QED BY <3>1, <3>2
    <2> QED BY <1>1, <1>2, <2>2, <2>3, <2>4, <2>5 DEF Batching
  <1> QED BY <1>6, <1>7, <1>8

-----------------------------------------------------------------------------
(* The time clock.                                                         *)

OnShift(e) == [emp |-> e, state |-> "in"]
IsPunch(q) == q = [emp |-> q.emp, state |-> q.state]
PunchesKept == \A c \in Punches : IsPunch(row[PunchRow(c)])
\* A punch in was made over no open shift, or the person is adrift, or will be.
Clocking(d) ==
  tx[d].op # None =>
    LET k == Payload(d).kind c == Payload(d).cid e == Payload(d).emp w == tx[d].w IN
    /\ \A x : PunchRow(x) \in DOMAIN w => k \in {"in", "out"} /\ x = c
    /\ k \in {"in", "out"} => (PunchRow(c) \in DOMAIN w <=> k \notin Left(d))
    /\ k = "in" /\ PunchRow(c) \in DOMAIN w =>
         /\ w[PunchRow(c)] = OnShift(e)
         /\ Shifts(e) \in tx[d].drift \/ Shifts(e) \in adrift \/ OpenShifts(e) = {}
    /\ k = "out" /\ PunchRow(c) \in DOMAIN w =>
         w[PunchRow(c)].state = "out" /\ IsPunch(w[PunchRow(c)])
\* Of two punches in of one person, one saw the other.
Clashing(d, e) ==
  /\ tx[d].op # None /\ tx[e].op # None /\ Payload(d).kind = "in" /\ Payload(e).kind = "in"
  /\ PunchRow(Payload(d).cid) \in DOMAIN tx[d].w /\ PunchRow(Payload(e).cid) \in DOMAIN tx[e].w
  /\ Payload(d).emp = Payload(e).emp
Seen(d, e) ==
  Clashing(d, e) => Shifts(Payload(d).emp) \in tx[d].drift \/ Shifts(Payload(d).emp) \in tx[e].drift

LEMMA OfficePayload ==
  ASSUME Base, NEW d \in Txs, tx[d].op # None
  PROVE  /\ Payload(d).kind \in ClaimKinds => Payload(d).for \in Months /\ Payload(d).amt \in Nat \ {0}
         /\ Payload(d).kind \in {"match", "reopen"} => Payload(d).batch \in Batches
         /\ Payload(d).kind = "match" => Payload(d).gross \in Int /\ Payload(d).net \in Int
         /\ Payload(d).kind \in {"in", "out"} => Payload(d).cid \in Punches
         /\ Payload(d).kind = "in" => Payload(d).emp \in Staff
  <1>1. tx[d].op \in Ops
    BY DEF Base, InHandOf
  <1> QED BY <1>1, OfficeAssumption DEF Kinds, Payload

LEMMA ClockingMakes ==
  ASSUME Base, PunchesKept, NEW d \in Txs, Clocking(d), tx[d].op # None, tx[d].todo # <<>>, Statement(d),
         Makes(d, Head(tx[d].todo)), ~Skip(d), \A e \in Txs : Clocking(e), \A e \in Txs \ {d} : Seen(d, e)
  PROVE  Clocking(d)' /\ \A e \in Txs \ {d} : Seen(d, e)' /\ Seen(e, d)'
  <1> PICK s : s = Head(tx[d].todo)
    OBVIOUS
  <1>1. /\ s \in Left(d) /\ s \in StepSet(Payload(d).kind) /\ Whose(s, Payload(d).kind)
        /\ Left(d)' = Left(d) \ {s} /\ tx'[d].op = tx[d].op /\ row' = row /\ adrift' = adrift
        /\ \A e \in Txs \ {d} : tx'[e] = tx[e]
        /\ \A f \in Fields \ FieldsOf(s) : f # "todo" => tx'[d][f] = tx[d][f]
        /\ \A r : r[1] \notin RowsOf(s) => /\ r \in DOMAIN tx'[d].w <=> r \in DOMAIN tx[d].w
                                           /\ r \in DOMAIN tx[d].w => tx'[d].w[r] = tx[d].w[r]
    BY Keeps
  <1>2. Payload(d)' = Payload(d) /\ Sound(d) /\ \A e \in Txs \ {d} : Payload(e)' = Payload(e)
    BY <1>1, BaseReady DEF Payload
  <1>0. \A e : OpenShifts(e)' = OpenShifts(e)
    BY <1>1 DEF OpenShifts
  <1> PICK k, c, p : k = Payload(d).kind /\ c = Payload(d).cid /\ p = Payload(d).emp
    OBVIOUS
  <1>3. \A x, y : (PunchRow(x) = PunchRow(y) => x = y) /\ PunchRow(x)[1] = "punch"
    BY DEF PunchRow
  <1>4. CASE s = "in"
    <2>1. ClockIn(d) /\ k = "in"
      BY <1>1, <1>4, ByName DEF Whose
    <2> DEFINE over == \/ OpenShifts(p) # {}
                       \/ \E e \in Txs \ {d}, x \in Punches :
                            PunchRow(x) \in DOMAIN tx[e].w /\ tx[e].w[PunchRow(x)].emp = p
    <2>2. /\ Wrote(d, PunchRow(c), OnShift(p))
          /\ tx'[d].drift = IF over THEN tx[d].drift \cup {Shifts(p)} ELSE tx[d].drift
      BY <1>2, <2>1, ClockInMakes DEF OnShift
    <2>3. DOMAIN tx'[d].w = DOMAIN tx[d].w \cup {PunchRow(c)} /\ tx'[d].w[PunchRow(c)] = OnShift(p)
      BY <2>2 DEF Wrote, Put, @@, :>
    <2>4. \A x : PunchRow(x) \in DOMAIN tx'[d].w => x = c
      BY <1>3, <2>3 DEF Clocking
    <2>5. Shifts(p) \in tx'[d].drift \/ OpenShifts(p) = {}
      BY <2>2
    <2>6. Clocking(d)'
      BY <1>0, <1>1, <1>2, <1>4, <2>1, <2>3, <2>4, <2>5 DEF Clocking
    <2>7. ASSUME NEW e \in Txs \ {d}, Clashing(d, e)' \/ Clashing(e, d)'
          PROVE  Shifts(p) \in tx'[d].drift /\ Payload(e)'.emp = p
      <3>1. /\ tx[e].op # None /\ Payload(e).kind = "in" /\ PunchRow(Payload(e).cid) \in DOMAIN tx[e].w
            /\ Payload(e).emp = p
        BY <1>1, <1>2, <2>7 DEF Clashing
      <3>2. tx[e].w[PunchRow(Payload(e).cid)] = OnShift(p) /\ Payload(e).cid \in Punches
        BY <3>1, OfficePayload DEF Clocking
      <3>3. OnShift(p).emp = p
        BY DEF OnShift
      <3>4. over
        BY <3>1, <3>2, <3>3
      <3> QED BY <1>2, <2>2, <3>1, <3>4
    <2>8. \A e \in Txs \ {d} : Seen(d, e)' /\ Seen(e, d)'
      BY <1>2, <2>7 DEF Seen
    <2> QED BY <2>6, <2>8
  <1>5. CASE s = "out"
    <2>1. ClockOut(d) /\ k = "out"
      BY <1>1, <1>5, ByName DEF Whose
    <2>2. PICK q, v : q = Val(d, PunchRow(c)) /\ v = [q EXCEPT !.state = "out"]
      OBVIOUS
    <2>3. Wrote(d, PunchRow(c), v)
      BY <1>2, <2>1, <2>2, ClockOutMakes
    <2>4. DOMAIN tx'[d].w = DOMAIN tx[d].w \cup {PunchRow(c)} /\ tx'[d].w[PunchRow(c)] = v
      BY <2>3 DEF Wrote, Put, @@, :>
    <2>5. v.state = "out" /\ IsPunch(v)
      <3>1. PunchRow(c) \notin DOMAIN tx[d].w /\ c \in Punches
        BY <1>1, <1>5, <2>1, OfficePayload DEF Clocking
      <3>2. q = [emp |-> q.emp, state |-> q.state]
        BY <2>2, <3>1 DEF Val, PunchesKept, IsPunch
      <3> QED BY <2>2, <3>2 DEF IsPunch
    <2>6. \A x : PunchRow(x) \in DOMAIN tx'[d].w => x = c
      BY <1>3, <2>4 DEF Clocking
    <2>7. Clocking(d)'
      BY <1>1, <1>2, <1>5, <2>1, <2>4, <2>5, <2>6 DEF Clocking
    <2>8. \A e \in Txs \ {d} : Seen(d, e)' /\ Seen(e, d)'
      BY <1>2, <2>1 DEF Seen, Clashing
    <2> QED BY <2>7, <2>8
  <1>6. CASE s \notin {"in", "out"}
    <2>1. \A x : /\ PunchRow(x) \in DOMAIN tx'[d].w <=> PunchRow(x) \in DOMAIN tx[d].w
                 /\ PunchRow(x) \in DOMAIN tx[d].w => tx'[d].w[PunchRow(x)] = tx[d].w[PunchRow(x)]
      <3>1. "punch" \notin RowsOf(s)
        BY <1>6 DEF RowsOf, ClaimKinds
      <3> QED BY <1>1, <1>3, <3>1
    <2>2. k = "in" => tx'[d].drift = tx[d].drift
      <3>1. k = "in" => s = "shift?"
        BY <1>1, <1>6 DEF StepSet, ClaimKinds
      <3> QED BY <1>1, <3>1 DEF FieldsOf, Fields, LegSteps
    <2>3. Clocking(d)'
      BY <1>0, <1>1, <1>2, <1>6, <2>1, <2>2 DEF Clocking
    <2>4. \A e \in Txs \ {d} : Clashing(d, e)' \/ Clashing(e, d)' => Clashing(d, e) /\ k = "in"
      BY <1>1, <1>2, <2>1 DEF Clashing
    <2>5. \A e \in Txs \ {d} : Seen(d, e)' /\ Seen(e, d)'
      BY <1>1, <1>2, <2>2, <2>4 DEF Seen, Clashing
    <2> QED BY <2>3, <2>5
  <1> QED BY <1>4, <1>5, <1>6

-----------------------------------------------------------------------------
(* What a commit does to the back office.                                  *)

LEMMA OfficeRowNames ==
  /\ \A k \in ClaimKinds, m \in Months : ClaimRow(k, m) \in RowNames
  /\ \A b \in Batches : BatchRow(b) \in RowNames
  /\ \A c \in Punches : PunchRow(c) \in RowNames
  BY DEF RowNames

Desk(d) == Claiming(d) /\ Batching(d) /\ Clocking(d)

LEMMA DeskStays ==
  ASSUME NEW e, Desk(e), tx'[e] = tx[e], row' = row, adrift' = adrift PROVE Desk(e)'
  BY DEF Desk, Claiming, Batching, Clocking, Left, Payload, OpenShifts

LEMMA DeskIdle ==
  ASSUME NEW e, tx'[e].op = None PROVE Desk(e)'
  BY DEF Desk, Claiming, Batching, Clocking

LEMMA DeskBegins ==
  ASSUME Base, NEW d \in Txs, NEW o \in Ops, Begun(d, o) PROVE Desk(d)'
  <1>1. /\ tx'[d].op = o /\ Left(d)' = StepSet(P[o].kind) /\ Payload(d)' = P[o]
        /\ row' = row /\ DOMAIN tx'[d].w = {}
    BY Begins
  <1>2. /\ P[o].kind \in ClaimKinds => "claimMonth" \in Left(d)'
        /\ P[o].kind = "match" => {"match", "net"} \subseteq Left(d)'
        /\ P[o].kind = "reopen" => "reopen" \in Left(d)'
        /\ P[o].kind \in {"in", "out"} => P[o].kind \in Left(d)'
    BY <1>1 DEF StepSet, ClaimKinds
  <1> QED BY <1>1, <1>2 DEF Desk, Claiming, Batching, Clocking

\* A commit puts a person on shift only from a punch in, which saw no open shift or
\* leaves the person adrift.
LEMMA CommitShifts ==
  ASSUME Base, NEW d \in Txs, Clocking(d), Commits(d), NEW e
  PROVE  LET own == Payload(d).kind = "in" /\ Payload(d).emp = e IN
         /\ OpenShifts(e)' \subseteq OpenShifts(e) \cup (IF own THEN {Payload(d).cid} ELSE {})
         /\ own => Shifts(e) \in adrift' \/ OpenShifts(e) = {}
  <1> PICK k, c, p : k = Payload(d).kind /\ c = Payload(d).cid /\ p = Payload(d).emp
    OBVIOUS
  <1>1. /\ tx[d].op # None /\ Left(d) = {}
        /\ \A r \in RowNames : row'[r] = IF r \in DOMAIN tx[d].w THEN tx[d].w[r] ELSE row[r]
    BY Leaves
  <1>2. adrift' = adrift \cup tx[d].drift
    BY DEF Commits
  <1>3. k = "in" /\ p = e => Shifts(e) \in adrift' \/ OpenShifts(e) = {}
    BY <1>1, <1>2 DEF Clocking
  <1>4. ASSUME NEW x \in OpenShifts(e)', x \notin OpenShifts(e) PROVE k = "in" /\ p = e /\ x = c
    <2>1. x \in Punches /\ PunchRow(x) \in RowNames /\ row'[PunchRow(x)] = OnShift(e)
          /\ row[PunchRow(x)] # OnShift(e)
      BY <1>4, OfficeRowNames DEF OpenShifts, OnShift
    <2>2. PunchRow(x) \in DOMAIN tx[d].w /\ tx[d].w[PunchRow(x)] = OnShift(e)
      BY <1>1, <2>1
    <2>3. k \in {"in", "out"} /\ x = c
      BY <1>1, <2>2 DEF Clocking
    <2>4. OnShift(e).state = "in" /\ OnShift(e).emp = e /\ OnShift(p).emp = p
      BY DEF OnShift
    <2>5. k = "in"
      BY <1>1, <2>2, <2>3, <2>4 DEF Clocking
    <2>6. tx[d].w[PunchRow(x)] = OnShift(p)
      BY <1>1, <2>2, <2>3, <2>5 DEF Clocking
    <2> QED BY <2>2, <2>3, <2>4, <2>5, <2>6
  <1> QED BY <1>3, <1>4

LEMMA DeskCommits ==
  ASSUME Base, NEW d \in Txs, Commits(d), Clocking(d), NEW e \in Txs \ {d}, Desk(e), Seen(d, e)
  PROVE  Desk(e)'
  <1>1. /\ \A f \in Fields \ {"wasOpen", "wasShut"} : tx'[e][f] = tx[e][f]
        /\ \A r \in RowNames : r \in DOMAIN tx[e].w => row'[r] = row[r]
        /\ tx[d].op # None /\ Left(d) = {}
    BY Leaves
  <1>2. /\ tx'[e].op = tx[e].op /\ tx'[e].todo = tx[e].todo /\ tx'[e].legs = tx[e].legs
        /\ tx'[e].seen = tx[e].seen /\ tx'[e].w = tx[e].w /\ tx'[e].drift = tx[e].drift
    BY <1>1 DEF Fields
  <1>3. Payload(e)' = Payload(e) /\ Left(e)' = Left(e) /\ adrift' = adrift \cup tx[d].drift
    BY <1>2 DEF Left, Payload, Commits
  <1>4. Claiming(e)'
    <2>1. tx[e].op # None /\ Payload(e).kind \in ClaimKinds
          => ClaimRow(Payload(e).kind, Payload(e).for) \in RowNames
      BY OfficePayload, OfficeRowNames
    <2> QED BY <1>1, <1>2, <1>3, <2>1 DEF Claiming, Desk
  <1>5. Batching(e)'
    <2>1. tx[e].op # None /\ Payload(e).kind \in {"match", "reopen"}
          => BatchRow(Payload(e).batch) \in RowNames
      BY OfficePayload, OfficeRowNames
    <2> QED BY <1>1, <1>2, <1>3, <2>1 DEF Batching, Desk
  <1>6. Clocking(e)'
    <2> PICK p : p = Payload(e).emp
      OBVIOUS
    <2>1. ASSUME tx[e].op # None, Payload(e).kind = "in", PunchRow(Payload(e).cid) \in DOMAIN tx[e].w
          PROVE  Shifts(p) \in tx[e].drift \/ Shifts(p) \in adrift' \/ OpenShifts(p)' = {}
      <3>1. Shifts(p) \in tx[e].drift \/ Shifts(p) \in adrift \/ OpenShifts(p) = {}
        BY <2>1 DEF Desk, Clocking
      <3>2. OpenShifts(p)' \subseteq OpenShifts(p)
              \cup (IF Payload(d).kind = "in" /\ Payload(d).emp = p THEN {Payload(d).cid} ELSE {})
        BY CommitShifts
      <3>3. CASE Payload(d).kind = "in" /\ Payload(d).emp = p
        <4>1. Clashing(d, e)
          BY <1>1, <2>1, <3>3 DEF Clashing, Clocking
        <4> QED BY <1>3, <3>3, <4>1 DEF Seen
      <3>4. CASE ~(Payload(d).kind = "in" /\ Payload(d).emp = p)
        BY <1>3, <3>1, <3>2, <3>4
      <3> QED BY <3>3, <3>4
    <2> QED BY <1>2, <1>3, <2>1 DEF Clocking, Desk
  <1> QED BY <1>4, <1>5, <1>6 DEF Desk

Desks == (\A d \in Txs : Desk(d)) /\ \A d, e \in Txs : d # e => Seen(d, e)

LEMMA DesksStep ==
  ASSUME Base, BatchesKept, PunchesKept, Desks, [BooksNext]_bookVars PROVE Desks'
  <1>1. ASSUME NEW d \in Txs, StepOf(d) PROVE Desks'
    <2>1. ASSUME \A e \in Txs \ {d} : tx'[e] = tx[e], tx'[d].op = None \/ DOMAIN tx'[d].w = {}
          PROVE  \A a, e \in Txs : a # e => Seen(a, e)'
      BY <2>1 DEF Desks, Seen, Clashing, Payload
    <2>2. ASSUME NEW o \in Ops, Begun(d, o) PROVE Desks'
      <3>1. row' = row /\ adrift' = adrift /\ (\A e \in Txs \ {d} : tx'[e] = tx[e])
            /\ DOMAIN tx'[d].w = {}
        BY <2>2, Begins
      <3> QED BY <2>1, <2>2, <3>1, DeskBegins, DeskStays DEF Desks
    <2>3. ASSUME (tx[d].op # None /\ Skip(d)) \/ Abort(d) PROVE Desks'
      <3>1. tx'[d].op = None /\ row' = row /\ adrift' = adrift /\ \A e \in Txs \ {d} : tx'[e] = tx[e]
        BY <2>3, Ends
      <3> QED BY <2>1, <3>1, DeskIdle, DeskStays DEF Desks
    <2>4. ASSUME tx[d].op # None, tx[d].todo # <<>>, Statement(d), Makes(d, Head(tx[d].todo)),
          ~Skip(d) PROVE Desks'
      <3>1. row' = row /\ adrift' = adrift /\ \A e \in Txs \ {d} : tx'[e] = tx[e]
        BY <2>4, Keeps
      <3>2. Desk(d)' /\ \A e \in Txs \ {d} : Seen(d, e)' /\ Seen(e, d)'
        BY <2>4, ClaimingMakes, BatchingMakes, ClockingMakes DEF Desks, Desk
      <3>3. \A a, e \in Txs \ {d} : a # e => Seen(a, e)'
        BY <3>1 DEF Desks, Seen, Clashing, Payload
      <3> QED BY <3>1, <3>2, <3>3, DeskStays DEF Desks
    <2>5. ASSUME Commits(d) PROVE Desks'
      <3>1. /\ tx'[d].op = None
            /\ \A e \in Txs \ {d} : \A f \in Fields \ {"wasOpen", "wasShut"} : tx'[e][f] = tx[e][f]
        BY <2>5, Leaves
      <3>2. \A e \in Txs \ {d} : tx'[e].op = tx[e].op /\ tx'[e].w = tx[e].w /\ tx'[e].drift = tx[e].drift
        BY <3>1 DEF Fields
      <3>3. \A a, e \in Txs : a # e => Seen(a, e)'
        BY <3>1, <3>2 DEF Desks, Seen, Clashing, Payload
      <3>4. Desk(d)'
        BY <3>1, DeskIdle
      <3>5. ASSUME NEW e \in Txs \ {d} PROVE Desk(e)'
        BY <2>5, DeskCommits DEF Desks, Desk
      <3> QED BY <3>3, <3>4, <3>5 DEF Desks
    <2> QED BY <1>1, <2>2, <2>3, <2>4, <2>5 DEF StepOf
  <1>2. CASE BooksNext
    BY <1>1, <1>2, Stepping
  <1>3. CASE UNCHANGED bookVars
    <2>1. tx' = tx /\ row' = row /\ adrift' = adrift
      BY <1>3 DEF bookVars
    <2>2. \A a, e \in Txs : a # e => Seen(a, e)'
      BY <2>1 DEF Desks, Seen, Clashing, Payload
    <2> QED BY <2>1, <2>2, DeskStays DEF Desks
  <1> QED BY <1>2, <1>3

-----------------------------------------------------------------------------
(* What the back office has committed.                                     *)

PaidRows ==
  \A k \in ClaimKinds, m \in Months :
    IF row[ClaimRow(k, m)] = 0 THEN EntriesOf(k, m) = {}
    ELSE \E j : EntriesOf(k, m) = {j} /\ P[j.op].amt = row[ClaimRow(k, m)]
Matches(b) == {j \in journal : j.src = "match" /\ P[j.op].batch = b}
BatchTies ==
  /\ \A b \in Batches : BatchRow(b) \notin adrift => row[BatchRow(b)].net = BookedOn("1020", Matches(b))
  /\ \A j \in journal : j.src = "match" => Leg(j.legs, "1020") \in Int
ShiftTies == \A e \in Staff : Shifts(e) \notin adrift => \A x, y \in OpenShifts(e) : x = y

\* What is claimed for a month books an entry.
LEMMA ClaimBooks ==
  ASSUME NEW o \in Kinds(ClaimKinds) PROVE ClaimLegs(o) # NoLegs
  <1>1. P[o].amt \in Nat \ {0} /\ P[o].kind \in ClaimKinds
    BY OfficeAssumption DEF Kinds
  <1>2. PICK f, a, x, b, y : ClaimLegs(o) = Lines(f) /\ f = (a :> x) @@ (b :> y) /\ x = P[o].amt
    BY <1>1 DEF ClaimLegs, ClaimKinds, WagesLegs, OpexLegs, WearLegs
  <1>3. a \in DOMAIN f /\ f[a] = x
    BY <1>2 DEF @@, :>
  <1> QED BY <1>1, <1>2, <1>3, LineNot

LEMMA PaidCommits ==
  ASSUME Base, NEW d \in Txs, Standing(d), Claiming(d), Commits(d), Ledger, PaidRows PROVE PaidRows'
  <1> PICK k, e, amt, m : k = Payload(d).kind /\ e = Enters(d) /\ amt = Payload(d).amt
        /\ m = Payload(d).for
    OBVIOUS
  <1>1. /\ tx[d].op # None /\ Left(d) = {} /\ tx[d].op \in Ops
        /\ \A r \in RowNames : row'[r] = IF r \in DOMAIN tx[d].w THEN tx[d].w[r] ELSE row[r]
    BY Leaves
  <1>2. (HasEntry(d) => journal' = journal \cup {e}) /\ (~HasEntry(d) => journal' = journal)
    BY CommitEnters DEF Standing
  <1>3. e.src = k /\ e.op = tx[d].op /\ P[e.op] = Payload(d)
    BY DEF Enters, Payload
  <1>4. \A j \in ClaimKinds : \A n : ClaimRow(j, n) \in DOMAIN tx[d].w => k = j /\ n = m
    BY <1>1 DEF Claiming
  <1>5. ASSUME NEW j \in ClaimKinds, NEW n \in Months, ~(k = j /\ n = m)
        PROVE  row'[ClaimRow(j, n)] = row[ClaimRow(j, n)] /\ EntriesOf(j, n)' = EntriesOf(j, n)
    <2>1. row'[ClaimRow(j, n)] = row[ClaimRow(j, n)]
      BY <1>1, <1>4, <1>5, OfficeRowNames
    <2>2. EntriesOf(j, n)' = EntriesOf(j, n)
      BY <1>2, <1>3, <1>5 DEF EntriesOf
    <2> QED BY <2>1, <2>2
  <1>6. ASSUME k \in ClaimKinds PROVE row'[ClaimRow(k, m)] = amt /\ amt # 0 /\ EntriesOf(k, m)' = {e}
    <2>1. m \in Months /\ amt \in Nat \ {0}
      BY <1>1, <1>6, OfficePayload
    <2>2. ClaimRow(k, m) \in DOMAIN tx[d].w /\ tx[d].w[ClaimRow(k, m)] = amt /\ row[ClaimRow(k, m)] = 0
      BY <1>1, <1>6 DEF Claiming
    <2>3. row'[ClaimRow(k, m)] = amt
      BY <1>1, <1>6, <2>1, <2>2, OfficeRowNames
    <2>4. EntriesOf(k, m) = {}
      BY <1>6, <2>1, <2>2 DEF PaidRows
    <2>5. HasEntry(d)
      <3>1. tx[d].legs = ClaimLegs(tx[d].op)
        BY <1>1, <1>6 DEF Standing, Billing, Bill
      <3>2. tx[d].op \in Kinds(ClaimKinds)
        BY <1>1, <1>6 DEF Kinds, Payload
      <3>3. "post" \in StepSet(k)
        BY <1>6 DEF StepSet, ClaimKinds
      <3> QED BY <3>1, <3>2, <3>3, ClaimBooks DEF HasEntry, Books
    <2>6. EntriesOf(k, m)' = {e}
      BY <1>2, <1>3, <2>4, <2>5 DEF EntriesOf
    <2> QED BY <2>1, <2>3, <2>6
  <1>7. P[e.op].amt = amt
    BY <1>3
  <1>8. ASSUME NEW j \in ClaimKinds, NEW n \in Months
        PROVE  IF row'[ClaimRow(j, n)] = 0 THEN EntriesOf(j, n)' = {}
               ELSE \E i : EntriesOf(j, n)' = {i} /\ P[i.op].amt = row'[ClaimRow(j, n)]
    <2>1. CASE k = j /\ n = m
      BY <1>6, <1>7, <2>1
    <2>2. CASE ~(k = j /\ n = m)
      BY <1>5, <2>2 DEF PaidRows
    <2> QED BY <2>1, <2>2
  <1> QED BY <1>8 DEF PaidRows

LEMMA BatchCommits ==
  ASSUME Base, NEW d \in Txs, Standing(d), Batching(d), Commits(d), Ledger, BatchesKept, BatchTies
  PROVE  BatchTies' /\ BatchesKept'
  <1> PICK k, e, b : k = Payload(d).kind /\ e = Enters(d) /\ b = Payload(d).batch
    OBVIOUS
  <1>1. /\ tx[d].op # None /\ Left(d) = {} /\ tx[d].op \in Ops \ applied
           /\ adrift' = adrift \cup tx[d].drift
        /\ \A r \in RowNames : row'[r] = IF r \in DOMAIN tx[d].w THEN tx[d].w[r] ELSE row[r]
    BY Leaves DEF Commits
  <1>2. (HasEntry(d) => journal' = journal \cup {e}) /\ (~HasEntry(d) => journal' = journal)
    BY CommitEnters DEF Standing
  <1>3. /\ e.src = k /\ e.op = tx[d].op /\ P[e.op] = Payload(d) /\ e \notin journal
        /\ Leg(e.legs, "1020") = Leg(tx[d].legs, "1020")
    <2>1. e.src = k /\ e.op = tx[d].op /\ P[e.op] = Payload(d) /\ e.legs = Squared(tx[d].legs)
      BY DEF Enters, Payload
    <2>2. Leg(Squared(tx[d].legs), "1020") = Leg(tx[d].legs, "1020")
      BY SquaredLeg
    <2> QED BY <1>1, <2>1, <2>2 DEF Ledger
  <1>4. \A x : BatchRow(x) \in DOMAIN tx[d].w => k \in {"match", "reopen"} /\ x = b
    BY <1>1 DEF Batching
  <1>5. ASSUME NEW x \in Batches, ~(k \in {"match", "reopen"} /\ x = b)
        PROVE  row'[BatchRow(x)] = row[BatchRow(x)] /\ Matches(x)' = Matches(x)
    <2>1. row'[BatchRow(x)] = row[BatchRow(x)]
      BY <1>1, <1>4, <1>5, OfficeRowNames
    <2>2. Matches(x)' = Matches(x)
      BY <1>2, <1>3, <1>5 DEF Matches
    <2> QED BY <2>1, <2>2
  <1>6. CASE k = "match"
    <2> PICK B, net, leg, q : B = BatchRow(b) /\ net = Payload(d).net
          /\ leg = Leg(tx[d].legs, "1020") /\ q = row[B]
      OBVIOUS
    <2>1. b \in Batches /\ net \in Int
      BY <1>1, <1>6, OfficePayload
    <2>2. /\ B \in DOMAIN tx[d].w /\ tx[d].w[B] = [state |-> "matched", net |-> net] /\ leg \in Int
          /\ B \notin tx[d].drift => tx[d].w[B].net = q.net + leg
      BY <1>1, <1>6 DEF Batching
    <2>3. row'[B] = [state |-> "matched", net |-> net]
      BY <1>1, <2>1, <2>2, OfficeRowNames
    <2>4. B \notin tx[d].drift => net = q.net + leg
      BY <2>2
    <2>5. BookedOn("1020", Matches(b)') = BookedOn("1020", Matches(b)) + leg
      <3>1. IsFiniteSet(Matches(b)) /\ \A j \in Matches(b) : Leg(j.legs, "1020") \in Int
        <4>1. IsFiniteSet(journal) /\ Matches(b) \subseteq journal
          BY DEF Ledger, Numbered, Matches
        <4>2. IsFiniteSet(Matches(b))
          BY <4>1, FS_Subset
        <4> QED BY <4>2 DEF BatchTies, Matches
      <3>2. CASE HasEntry(d)
        <4>1. Matches(b)' = Matches(b) \cup {e}
          BY <1>2, <1>3, <1>6, <3>2 DEF Matches
        <4>2. e \notin Matches(b)
          BY <1>3 DEF Matches
        <4>3. PICK M : M = Matches(b)
          OBVIOUS
        <4>4. IsFiniteSet(M) /\ e \notin M /\ \A j \in M \cup {e} : Leg(j.legs, "1020") \in Int
          BY <1>3, <2>2, <3>1, <4>2, <4>3
        <4>5. BookedOn("1020", M \cup {e}) = BookedOn("1020", M) + Leg(e.legs, "1020")
          BY <4>4, BookedMore
        <4> QED BY <1>3, <4>1, <4>3, <4>5
      <3>3. CASE ~HasEntry(d)
        <4>1. tx[d].legs = NoLegs
          BY <1>6, <3>3 DEF HasEntry, Books, StepSet
        <4>2. leg = 0
          BY <4>1, NoLeg
        <4>3. Matches(b)' = Matches(b)
          BY <1>2, <3>3 DEF Matches
        <4>4. BookedOn("1020", Matches(b)) \in Int
          <5>1. PICK M : M = Matches(b)
            OBVIOUS
          <5>2. PICK x : x \notin M
            BY <1>3, <5>1 DEF Matches
          <5>3. PICK f : f = [j \in M |-> Leg(j.legs, "1020")]
            OBVIOUS
          <5>4. SumFunctionOnSet(f, M) \in Int
            BY <3>1, <5>1, <5>3, SumType
          <5> QED BY <5>1, <5>3, <5>4 DEF BookedOn, SumFunction
        <4> QED BY <4>2, <4>3, <4>4
      <3> QED BY <3>2, <3>3
    <2>6. \A j \in journal' : j.src = "match" => Leg(j.legs, "1020") \in Int
      BY <1>2, <1>3, <2>2 DEF BatchTies
    <2>7. ASSUME NEW x \in Batches, BatchRow(x) \notin adrift'
          PROVE  row'[BatchRow(x)].net = BookedOn("1020", Matches(x)')
      <3>1. CASE x = b
        <4>1. q.net = BookedOn("1020", Matches(b)) /\ net = q.net + leg
          BY <1>1, <2>4, <2>7, <3>1 DEF BatchTies
        <4>2. row'[B].net = net
          BY <2>3
        <4> QED BY <2>5, <3>1, <4>1, <4>2
      <3>2. CASE x # b
        BY <1>1, <1>5, <2>7, <3>2 DEF BatchTies
      <3> QED BY <3>1, <3>2
    <2>8. BatchTies'
      <3>1. \A x \in Batches : BatchRow(x) \notin adrift'
            => row'[BatchRow(x)].net = BookedOn("1020", Matches(x)')
        BY <2>7
      <3> QED BY <2>6, <3>1 DEF BatchTies, BatchRow, BookedOn
    <2>9. BatchesKept'
      <3>1. \A x \in Batches : x # b => row'[BatchRow(x)] = row[BatchRow(x)]
        BY <1>5
      <3> QED BY <2>1, <2>3, <3>1 DEF BatchesKept
    <2> QED BY <2>8, <2>9
  <1>7. CASE k # "match"
    <2>1. journal' = journal \/ (journal' = journal \cup {e} /\ e.src # "match")
      BY <1>2, <1>3, <1>7
    <2>2. \A x : Matches(x)' = Matches(x)
      BY <2>1 DEF Matches
    <2>3. ASSUME NEW x \in Batches
          PROVE  LET q == row[BatchRow(x)] p == row'[BatchRow(x)] IN
                 p.net = q.net /\ p = [state |-> p.state, net |-> p.net]
                     /\ (p.state = "none" => q.state = "none")
      <3>1. PICK q, p : q = row[BatchRow(x)] /\ p = row'[BatchRow(x)]
        OBVIOUS
      <3>2. q = [state |-> q.state, net |-> q.net]
        BY <3>1 DEF BatchesKept
      <3>3. CASE k = "reopen" /\ x = b
        <4>1. p = [q EXCEPT !.state = "reopened"]
          <5>1. BatchRow(b) \in DOMAIN tx[d].w
                /\ tx[d].w[BatchRow(b)] = [row[BatchRow(b)] EXCEPT !.state = "reopened"]
            BY <1>1, <3>3 DEF Batching
          <5> QED BY <1>1, <3>1, <3>3, <5>1, OfficeRowNames
        <4>2. p.net = q.net /\ p = [state |-> p.state, net |-> p.net] /\ p.state = "reopened"
          BY <3>2, <4>1
        <4> QED BY <3>1, <4>2
      <3>4. CASE ~(k = "reopen" /\ x = b)
        <4>1. p = q
          BY <1>5, <1>7, <3>1, <3>4
        <4> QED BY <3>1, <3>2, <4>1
      <3> QED BY <3>3, <3>4
    <2>4. BatchesKept'
      BY <2>3 DEF BatchesKept
    <2>5. \A j \in journal' : j.src = "match" => Leg(j.legs, "1020") \in Int
      BY <2>1 DEF BatchTies
    <2>6. \A x \in Batches : BatchRow(x) \notin adrift'
          => row'[BatchRow(x)].net = BookedOn("1020", Matches(x)')
      BY <1>1, <2>2, <2>3 DEF BatchTies
    <2> QED BY <2>4, <2>5, <2>6 DEF BatchTies, BatchRow, BookedOn
  <1> QED BY <1>6, <1>7

LEMMA ShiftCommits ==
  ASSUME Base, NEW d \in Txs, Clocking(d), Commits(d), PunchesKept, ShiftTies
  PROVE  ShiftTies' /\ PunchesKept'
  <1>1. /\ tx[d].op # None /\ Left(d) = {} /\ adrift \subseteq adrift'
        /\ \A r \in RowNames : row'[r] = IF r \in DOMAIN tx[d].w THEN tx[d].w[r] ELSE row[r]
    BY Leaves DEF Commits
  <1>2. ASSUME NEW c \in Punches PROVE IsPunch(row'[PunchRow(c)])
    <2>1. CASE PunchRow(c) \in DOMAIN tx[d].w
      <3>1. IsPunch(tx[d].w[PunchRow(c)])
        <4>1. Payload(d).kind \in {"in", "out"} /\ c = Payload(d).cid
          BY <1>1, <2>1 DEF Clocking
        <4>2. \A p : IsPunch(OnShift(p))
          BY DEF IsPunch, OnShift
        <4> QED BY <1>1, <2>1, <4>1, <4>2 DEF Clocking
      <3> QED BY <1>1, <2>1, <3>1, OfficeRowNames
    <2>2. CASE PunchRow(c) \notin DOMAIN tx[d].w
      BY <1>1, <2>2, OfficeRowNames DEF PunchesKept
    <2> QED BY <2>1, <2>2
  <1>3. ASSUME NEW e \in Staff, Shifts(e) \notin adrift', NEW x \in OpenShifts(e)',
        NEW y \in OpenShifts(e)'
        PROVE  x = y
    <2> PICK own : own = (Payload(d).kind = "in" /\ Payload(d).emp = e)
      OBVIOUS
    <2>1. /\ OpenShifts(e)' \subseteq OpenShifts(e) \cup (IF own THEN {Payload(d).cid} ELSE {})
          /\ own => Shifts(e) \in adrift' \/ OpenShifts(e) = {}
      BY CommitShifts
    <2>2. \A a, c \in OpenShifts(e) : a = c
      BY <1>1, <1>3 DEF ShiftTies
    <2> QED BY <1>3, <2>1, <2>2
  <1>4. \A e \in Staff : Shifts(e) \notin adrift' => \A x, y \in OpenShifts(e)' : x = y
    BY <1>3
  <1> QED BY <1>2, <1>4 DEF ShiftTies, PunchesKept, Shifts, PunchRow

Office ==
  Documents /\ Desks /\ PaidRows /\ BatchTies /\ BatchesKept /\ ShiftTies /\ PunchesKept

LEMMA OfficeStep ==
  ASSUME Office, [BooksNext]_bookVars PROVE Office'
  <1>0. Base /\ (\A d \in Txs : Standing(d)) /\ Ledger /\ (\A d \in Txs : Desk(d)) /\ BatchesKept
        /\ PunchesKept
    BY DEF Office, Documents, Desks
  <1>1. Documents' /\ Desks'
    BY <1>0, DocumentsStep, DesksStep DEF Office
  <1>2. ASSUME row' = row, journal' = journal, adrift' = adrift
        PROVE  PaidRows' /\ BatchTies' /\ BatchesKept' /\ ShiftTies' /\ PunchesKept'
    <2>1. /\ \A k, m : EntriesOf(k, m)' = EntriesOf(k, m)
          /\ \A b : Matches(b)' = Matches(b)
          /\ \A e : OpenShifts(e)' = OpenShifts(e)
      BY <1>2 DEF EntriesOf, Matches, OpenShifts
    <2> QED BY <1>2, <2>1 DEF Office, PaidRows, BatchTies, BatchesKept, ShiftTies, PunchesKept, BatchRow,
                              PunchRow, ClaimRow, Shifts, BookedOn
  <1>3. CASE BooksNext
    <2>1. PICK d \in Txs : StepOf(d)
      BY <1>0, <1>3, Stepping
    <2>2. CASE Commits(d)
      <3>1. Standing(d) /\ Claiming(d) /\ Batching(d) /\ Clocking(d)
        BY <1>0 DEF Desk
      <3>2. PaidRows'
        BY <1>0, <2>2, <3>1, PaidCommits DEF Office
      <3>3. BatchTies' /\ BatchesKept'
        BY <1>0, <2>2, <3>1, BatchCommits DEF Office
      <3>4. ShiftTies' /\ PunchesKept'
        BY <1>0, <2>2, <3>1, ShiftCommits DEF Office
      <3> QED BY <1>1, <3>2, <3>3, <3>4 DEF Office
    <2>3. CASE ~Commits(d)
      <3>1. row' = row /\ journal' = journal /\ adrift' = adrift
        BY <1>0, <2>1, <2>3, Begins, Keeps, Ends DEF StepOf
      <3> QED BY <1>1, <1>2, <3>1 DEF Office
    <2> QED BY <2>2, <2>3
  <1>4. CASE UNCHANGED bookVars
    <2>1. row' = row /\ journal' = journal /\ adrift' = adrift
      BY <1>4 DEF bookVars
    <2> QED BY <1>1, <1>2, <2>1 DEF Office
  <1> QED BY <1>3, <1>4

LEMMA OfficeInit ==
  ASSUME BooksInit PROVE Office
  <1>1. Documents /\ journal = {} /\ adrift = {}
    BY DocumentsInit DEF BooksInit
  <1>2. \A d \in Txs : tx[d].op = None
    <2>1. tx = [d \in Txs |-> Idle] /\ Idle.op = None
      BY DEF BooksInit, Idle
    <2> QED BY <2>1
  <1>3. Desks
    BY <1>2 DEF Desks, Desk, Claiming, Batching, Clocking, Seen, Clashing
  <1>4. /\ \A k \in ClaimKinds, m \in Months : row[ClaimRow(k, m)] = 0
        /\ \A b \in Batches : row[BatchRow(b)] = [state |-> "none", net |-> 0]
        /\ \A c \in Punches : row[PunchRow(c)] = [emp |-> None, state |-> "none"]
    BY FirstRow
  <1>5. PaidRows
    BY <1>1, <1>4 DEF PaidRows, EntriesOf
  <1>6. BatchTies
    <2>1. \A b : Matches(b) = {}
      BY <1>1 DEF Matches
    <2>2. BookedOn("1020", {}) = 0
      BY BookedNone
    <2> QED BY <1>1, <1>4, <2>1, <2>2 DEF BatchTies
  <1>7. BatchesKept
    BY <1>4 DEF BatchesKept
  <1>8. ShiftTies /\ PunchesKept
    <2>1. \A e : OpenShifts(e) = {}
      BY <1>4 DEF OpenShifts
    <2> QED BY <1>4, <2>1 DEF ShiftTies, PunchesKept, IsPunch
  <1> QED BY <1>1, <1>3, <1>5, <1>6, <1>7, <1>8 DEF Office

LEMMA OfficeHeld == ASSUME Office PROVE OfficeHolds
  <1>1. PaidOnce
    <2>1. ASSUME NEW k \in ClaimKinds, NEW m \in Months
          PROVE  LET js == EntriesOf(k, m) IN
                 IF row[ClaimRow(k, m)] = 0 THEN js = {}
                 ELSE Cardinality(js) = 1 /\ \A j \in js : P[j.op].amt = row[ClaimRow(k, m)]
      <3>1. CASE row[ClaimRow(k, m)] = 0
        BY <3>1 DEF Office, PaidRows
      <3>2. CASE row[ClaimRow(k, m)] # 0
        <4>1. PICK j : EntriesOf(k, m) = {j} /\ P[j.op].amt = row[ClaimRow(k, m)]
          BY <3>2 DEF Office, PaidRows
        <4>2. Cardinality({j}) = 1
          BY FS_Singleton
        <4> QED BY <3>2, <4>1, <4>2
      <3> QED BY <3>1, <3>2
    <2> QED BY <2>1 DEF PaidOnce
  <1>2. OfficeTies
    <2>1. ASSUME NEW e \in Staff, Shifts(e) \notin adrift PROVE Cardinality(OpenShifts(e)) <= 1
      <3>1. \A x, y \in OpenShifts(e) : x = y
        BY <2>1 DEF Office, ShiftTies
      <3>2. CASE OpenShifts(e) = {}
        BY <3>2, FS_EmptySet
      <3>3. CASE OpenShifts(e) # {}
        <4>1. PICK x : OpenShifts(e) = {x}
          BY <3>1, <3>3
        <4>2. Cardinality({x}) = 1
          BY FS_Singleton
        <4> QED BY <4>1, <4>2
      <3> QED BY <3>2, <3>3
    <2>2. \A b \in Batches : BatchRow(b) \notin adrift =>
            row[BatchRow(b)].net
                = BookedOn("1020", {j \in journal : j.src = "match" /\ P[j.op].batch = b})
      BY DEF Office, BatchTies, Matches
    <2> QED BY <2>1, <2>2 DEF OfficeTies
  <1> QED BY <1>1, <1>2 DEF OfficeHolds

\* Wages, a cost and wear are booked once a month and at what their row says, a
\* settlement batch has moved the bank by its last net, and a person has one open shift.
THEOREM OfficeAlwaysHolds == BooksSpec => []OfficeHolds
  <1>1. BooksInit => Office
    BY OfficeInit
  <1>2. Office /\ [BooksNext]_bookVars => Office'
    BY OfficeStep
  <1>3. Office => OfficeHolds
    BY OfficeHeld
  <1> QED BY <1>1, <1>2, <1>3, PTL DEF BooksSpec

-----------------------------------------------------------------------------
(* More on sums, and what squaring comes to.                               *)

\* What is zero adds nothing.
LEMMA SumZeros ==
  ASSUME NEW f, NEW S, NEW T, IsFiniteSet(S), T \subseteq S, \A x \in S : f[x] \in Int,
         \A x \in S \ T : f[x] = 0
  PROVE  SumFunctionOnSet(f, S) = SumFunctionOnSet(f, T)
  <1> DEFINE Good(n) == \A r \in SUBSET (S \ T) : Cardinality(r) = n =>
                          SumFunctionOnSet(f, T \cup r) = SumFunctionOnSet(f, T)
             N == {n \in Nat : Good(n)}
  <1>0. IsFiniteSet(T) /\ IsFiniteSet(S \ T)
    BY FS_Subset
  <1>1. 0 \in N
    <2>1. \A r \in SUBSET (S \ T) : Cardinality(r) = 0 => r = {}
      BY <1>0, FS_Subset, FS_EmptySet
    <2>2. T \cup {} = T
      OBVIOUS
    <2> QED BY <2>1, <2>2
  <1>2. ASSUME NEW n \in Nat, n \in N PROVE n + 1 \in N
    <2> SUFFICES ASSUME NEW r \in SUBSET (S \ T), Cardinality(r) = n + 1
                 PROVE  SumFunctionOnSet(f, T \cup r) = SumFunctionOnSet(f, T)
      OBVIOUS
    <2>1. IsFiniteSet(r) /\ r # {}
      BY <1>0, FS_Subset, FS_EmptySet
    <2>2. PICK y \in r : TRUE
      BY <2>1
    <2>3. PICK q : q = r \ {y}
      OBVIOUS
    <2>4. q \in SUBSET (S \ T) /\ Cardinality(q) = n
      <3>1. Cardinality(q) = Cardinality(r) - 1
        BY <2>1, <2>2, <2>3, FS_RemoveElement
      <3> QED BY <2>1, <2>2, <2>3, <3>1, FS_Subset
    <2>5. SumFunctionOnSet(f, T \cup q) = SumFunctionOnSet(f, T)
      BY <1>2, <2>4
    <2>6. PICK U : U = T \cup q
      OBVIOUS
    <2>7. IsFiniteSet(U) /\ y \notin U /\ U \cup {y} = T \cup r /\ \A x \in U \cup {y} : f[x] \in Int
      <3>1. U \subseteq S
        BY <2>4, <2>6
      <3>2. IsFiniteSet(U)
        BY <3>1, FS_Subset
      <3> QED BY <2>2, <2>3, <2>6, <3>1, <3>2
    <2>8. SumFunctionOnSet(f, U \cup {y}) = SumFunctionOnSet(f, U) + f[y]
      BY <2>7, SumMore
    <2>9. f[y] = 0 /\ SumFunctionOnSet(f, U) \in Int
      BY <2>2, <2>7, SumType
    <2>10. PICK c \in Int : c = SumFunctionOnSet(f, U)
      BY <2>9
    <2>11. SumFunctionOnSet(f, U \cup {y}) = c
      BY <2>8, <2>9, <2>10
    <2> QED BY <2>5, <2>6, <2>7, <2>10, <2>11
  <1>3. \A n \in Nat : n \in N
    <2> HIDE DEF N
    <2> QED BY <1>1, <1>2, Counting
  <1>4. PICK r : r = S \ T
    OBVIOUS
  <1>5. Cardinality(r) \in N /\ T \cup r = S
    <2>1. Cardinality(r) \in Nat
      BY <1>0, <1>4, FS_CardinalityType
    <2> QED BY <1>3, <1>4, <2>1
  <1> QED BY <1>4, <1>5

\* Two sums that cancel term by term.
LEMMA SumOpposite ==
  ASSUME NEW f, NEW e, NEW S, IsFiniteSet(S), \A x \in S : f[x] \in Int /\ e[x] = -f[x]
  PROVE  SumFunctionOnSet(e, S) = -SumFunctionOnSet(f, S)
  <1> DEFINE Good(n) == \A r \in SUBSET S : Cardinality(r) = n =>
                          SumFunctionOnSet(e, r) = -SumFunctionOnSet(f, r)
             N == {n \in Nat : Good(n)}
  <1>1. 0 \in N
    <2>1. \A r \in SUBSET S : Cardinality(r) = 0 => r = {}
      BY FS_Subset, FS_EmptySet
    <2>2. SumFunctionOnSet(e, {}) = 0 /\ SumFunctionOnSet(f, {}) = 0
      BY SumNothing
    <2> QED BY <2>1, <2>2
  <1>2. ASSUME NEW n \in Nat, n \in N PROVE n + 1 \in N
    <2> SUFFICES ASSUME NEW r \in SUBSET S, Cardinality(r) = n + 1
                 PROVE  SumFunctionOnSet(e, r) = -SumFunctionOnSet(f, r)
      OBVIOUS
    <2>1. IsFiniteSet(r) /\ r # {}
      BY FS_Subset, FS_EmptySet
    <2>2. PICK y \in r : TRUE
      BY <2>1
    <2>3. PICK q : q = r \ {y}
      OBVIOUS
    <2>4. q \in SUBSET S /\ Cardinality(q) = n /\ IsFiniteSet(q) /\ y \notin q /\ q \cup {y} = r
      <3>1. Cardinality(q) = Cardinality(r) - 1
        BY <2>1, <2>2, <2>3, FS_RemoveElement
      <3> QED BY <2>1, <2>2, <2>3, <3>1, FS_Subset
    <2>5. SumFunctionOnSet(e, q) = -SumFunctionOnSet(f, q)
      BY <1>2, <2>4
    <2>6. \A x \in q \cup {y} : f[x] \in Int /\ e[x] \in Int
      BY <2>4
    <2>7. /\ SumFunctionOnSet(f, q \cup {y}) = SumFunctionOnSet(f, q) + f[y]
          /\ SumFunctionOnSet(e, q \cup {y}) = SumFunctionOnSet(e, q) + e[y]
          /\ SumFunctionOnSet(f, q) \in Int
      BY <2>4, <2>6, SumMore, SumType
    <2>8. PICK c, b \in Int : c = SumFunctionOnSet(f, q) /\ b = f[y] /\ e[y] = -b
      BY <2>2, <2>7
    <2>9. SumFunctionOnSet(f, q \cup {y}) = c + b /\ SumFunctionOnSet(e, q \cup {y}) = -c + -b
      BY <2>5, <2>7, <2>8
    <2>10. SumFunctionOnSet(f, r) = c + b /\ SumFunctionOnSet(e, r) = -c + -b
      BY <2>4, <2>9
    <2> QED BY <2>8, <2>10
  <1>3. \A n \in Nat : n \in N
    <2> HIDE DEF N
    <2> QED BY <1>1, <1>2, Counting
  <1>4. Cardinality(S) \in N
    <2>1. Cardinality(S) \in Nat
      BY FS_CardinalityType
    <2> QED BY <1>3, <2>1
  <1> QED BY <1>4

\* An entry's legs: finitely many, of whole amounts.
IsLegs(f) == IsFiniteSet(DOMAIN f) /\ \A a \in DOMAIN f : f[a] \in Int
Opposite(f) == [a \in DOMAIN f |-> -f[a]]

LEMMA LinesLegs ==
  ASSUME NEW f, IsLegs(f)
  PROVE  IsLegs(Lines(f)) /\ Total(Lines(f)) = Total(f) /\ \A a : Leg(Lines(f), a) = Leg(f, a)
  <1>1. PICK g : g = Lines(f)
    OBVIOUS
  <1>2. DOMAIN g = {x \in DOMAIN f : f[x] # 0} /\ \A a \in DOMAIN g : g[a] = f[a]
    BY <1>1 DEF Lines
  <1>3. IsFiniteSet(DOMAIN g) /\ IsLegs(g)
    BY <1>2, FS_Subset DEF IsLegs
  <1>4. \A a : Leg(g, a) = Leg(f, a)
    BY <1>2 DEF Leg
  <1>5. SumFunctionOnSet(f, DOMAIN f) = SumFunctionOnSet(f, DOMAIN g)
    BY <1>2, SumZeros DEF IsLegs
  <1>6. SumFunctionOnSet(f, DOMAIN g) = SumFunctionOnSet(g, DOMAIN g)
    BY <1>2, <1>3, SumSame
  <1> QED BY <1>1, <1>3, <1>4, <1>5, <1>6 DEF Total, SumFunction

\* One leg set to another amount.
LEMMA SetLeg ==
  ASSUME NEW f, IsLegs(f), NEW a, NEW n \in Int
  PROVE  LET g == (a :> n) @@ f IN
         /\ IsLegs(g) /\ Total(g) = Total(f) - Leg(f, a) + n /\ Total(f) \in Int /\ Leg(f, a) \in Int
         /\ \A b : Leg(g, b) = IF b = a THEN n ELSE Leg(f, b)
  <1>1. PICK g : g = (a :> n) @@ f
    OBVIOUS
  <1>2. DOMAIN g = DOMAIN f \cup {a} /\ g[a] = n /\ \A b \in DOMAIN f : b # a => g[b] = f[b]
    BY <1>1 DEF @@, :>
  <1>3. PICK D : D = DOMAIN f \ {a}
    OBVIOUS
  <1>4. IsFiniteSet(D) /\ a \notin D /\ \A b \in D : f[b] \in Int /\ g[b] = f[b]
    BY <1>2, <1>3, FS_Subset DEF IsLegs
  <1>5. IsFiniteSet(DOMAIN g) /\ D \cup {a} = DOMAIN g /\ \A b \in DOMAIN g : g[b] \in Int
    <2>1. IsFiniteSet(D \cup {a})
      BY <1>4, FS_AddElement
    <2>2. D \cup {a} = DOMAIN g
      BY <1>2, <1>3
    <2> QED BY <1>2, <1>3, <1>4, <2>1, <2>2
  <1>6. SumFunctionOnSet(g, D \cup {a}) = SumFunctionOnSet(g, D) + n
    BY <1>2, <1>4, SumMore
  <1>7. SumFunctionOnSet(g, D) = SumFunctionOnSet(f, D) /\ SumFunctionOnSet(f, D) \in Int
    BY <1>4, SumSame, SumType
  <1>8. SumFunctionOnSet(f, DOMAIN f) = SumFunctionOnSet(f, D) + Leg(f, a) /\ Leg(f, a) \in Int
    <2>1. CASE a \in DOMAIN f
      <3>1. D \cup {a} = DOMAIN f /\ \A b \in D \cup {a} : f[b] \in Int
        BY <1>3, <2>1 DEF IsLegs
      <3> QED BY <1>4, <2>1, <3>1, SumMore DEF Leg
    <2>2. CASE a \notin DOMAIN f
      <3>1. D = DOMAIN f
        BY <1>3, <2>2
      <3> QED BY <1>7, <2>2, <3>1 DEF Leg
    <2> QED BY <2>1, <2>2
  <1>9. PICK x, y \in Int : x = SumFunctionOnSet(f, D) /\ y = Leg(f, a)
    BY <1>7, <1>8
  <1>10. Total(g) = x + n /\ Total(f) = x + y
    BY <1>5, <1>6, <1>7, <1>8, <1>9 DEF Total, SumFunction
  <1>11. \A b : Leg(g, b) = IF b = a THEN n ELSE Leg(f, b)
    BY <1>2 DEF Leg
  <1>12. IsLegs(g)
    BY <1>5 DEF IsLegs
  <1>13. Total(g) = Total(f) - Leg(f, a) + n /\ Total(f) \in Int
    BY <1>9, <1>10
  <1> QED BY <1>1, <1>8, <1>11, <1>12, <1>13

\* An entry as it is posted is square.
LEMMA SquaredIs ==
  ASSUME NEW f, IsLegs(f)
  PROVE  IsLegs(Squared(f)) /\ Total(Squared(f)) = 0
  <1>1. PICK t, n : t = Total(f) /\ n = Leg(f, "4900")
    OBVIOUS
  <1>2. t \in Int /\ n \in Int
    <2>1. 0 \in Int
      OBVIOUS
    <2> QED BY <1>1, <2>1, SetLeg
  <1>3. PICK g : g = ("4900" :> (n - t)) @@ f
    OBVIOUS
  <1>4. IsLegs(g) /\ Total(g) = t - n + (n - t)
    BY <1>1, <1>2, <1>3, SetLeg
  <1>5. Squared(f) = Lines(g)
    BY <1>1, <1>3 DEF Squared
  <1> QED BY <1>2, <1>4, <1>5, LinesLegs

\* The opposite of a square entry is square: posted, it cancels every leg.
LEMMA OppositeCancels ==
  ASSUME NEW f, IsLegs(f), Total(f) = 0
  PROVE  \A a : Leg(Squared(Opposite(f)), a) = -Leg(f, a)
  <1>1. PICK e : e = Opposite(f)
    OBVIOUS
  <1>2. DOMAIN e = DOMAIN f /\ \A a \in DOMAIN f : e[a] = -f[a]
    BY <1>1 DEF Opposite
  <1>3. IsLegs(e) /\ Total(e) = 0
    <2>1. IsLegs(e)
      BY <1>2 DEF IsLegs
    <2>2. SumFunctionOnSet(e, DOMAIN f) = -SumFunctionOnSet(f, DOMAIN f)
      BY <1>2, SumOpposite DEF IsLegs
    <2> QED BY <1>2, <2>1, <2>2 DEF Total, SumFunction
  <1>4. PICK n : n = Leg(e, "4900")
    OBVIOUS
  <1>5. n \in Int
    <2>1. 0 \in Int
      OBVIOUS
    <2> QED BY <1>3, <1>4, <2>1, SetLeg
  <1>6. PICK g : g = ("4900" :> n) @@ e
    OBVIOUS
  <1>7. Squared(e) = Lines(g)
    <2>1. n - 0 = n
      BY <1>5
    <2> QED BY <1>3, <1>4, <1>6, <2>1 DEF Squared
  <1>8. IsLegs(g) /\ \A a : Leg(g, a) = Leg(e, a)
    BY <1>3, <1>4, <1>5, <1>6, SetLeg
  <1>9. \A a : Leg(Lines(g), a) = Leg(e, a)
    BY <1>8, LinesLegs
  <1>10. \A a : Leg(e, a) = -Leg(f, a)
    BY <1>2 DEF Leg
  <1> QED BY <1>1, <1>7, <1>9, <1>10

-----------------------------------------------------------------------------
(* What a sale posts, and what its void takes back.                        *)

LEMMA OneLeg == ASSUME NEW a, NEW n \in Int PROVE IsLegs(a :> n)
  <1>1. DOMAIN (a :> n) = {a} /\ (a :> n)[a] = n
    BY DEF :>
  <1> QED BY <1>1, FS_Singleton DEF IsLegs

LEMMA JoinLegs ==
  ASSUME NEW f, NEW g, IsLegs(f), IsLegs(g) PROVE IsLegs(f @@ g)
  <1>1. PICK h : h = f @@ g
    OBVIOUS
  <1>2. DOMAIN h = DOMAIN f \cup DOMAIN g
        /\ \A a \in DOMAIN h : h[a] = IF a \in DOMAIN f THEN f[a] ELSE g[a]
    BY <1>1 DEF @@
  <1>3. IsFiniteSet(DOMAIN f \cup DOMAIN g)
    BY FS_Union DEF IsLegs
  <1> QED BY <1>1, <1>2, <1>3 DEF IsLegs

LEMMA SoldPayload ==
  ASSUME NEW s \in Sold
  PROVE  /\ P[s].qty \in Nat \ {0} /\ P[s].tender \in Tenders /\ P[s].item \in Items
         /\ P[s].net \in Nat /\ P[s].tax \in Nat /\ P[s].paid \in Nat /\ P[s].spend \in Nat
         /\ EarnedBy(s) \in Nat /\ TaxOf(s) \in Nat /\ Rounding(s) \in Nat
         /\ s \in Ops /\ P[s].kind = "sale" /\ "of" \notin DOMAIN P[s]
  <1>1. /\ P[s].qty \in Nat \ {0} /\ P[s].tender \in Tenders /\ P[s].item \in Items
        /\ P[s].net \in Nat /\ P[s].tax \in Nat /\ P[s].paid \in Nat /\ P[s].spend \in Nat
        /\ "of" \notin DOMAIN P[s] /\ PointsPer \in Nat \ {0}
    BY SalesAssumption
  <1>2. Most(0, P[s].net - P[s].spend) \in Nat
    BY <1>1 DEF Most
  <1>3. EarnedBy(s) \in Nat
    <2>1. PICK n \in Nat, m \in Nat \ {0} : n = Most(0, P[s].net - P[s].spend) /\ m = PointsPer
      BY <1>1, <1>2
    <2>2. n \div m \in Nat
      BY <2>1
    <2> QED BY <2>1, <2>2 DEF EarnedBy
  <1>4. TaxOf(s) \in Nat /\ Rounding(s) \in Nat
    BY <1>1 DEF TaxOf, Rounding
  <1>5. s \in Ops /\ P[s].kind = "sale"
    BY DEF Sold, Kinds
  <1> QED BY <1>1, <1>3, <1>4, <1>5

SaleLegs(s) == Squared(SaleJournal(s))

LEMMA SaleJournalIs ==
  ASSUME NEW s \in Sold
  PROVE  /\ IsLegs(SaleJournal(s)) /\ SaleJournal(s) # NoLegs
         /\ Leg(SaleJournal(s), "5000") = P[s].qty /\ Leg(SaleJournal(s), "1200") = -P[s].qty
         /\ Leg(SaleJournal(s), "1040") = OnCredit(s)
         /\ Leg(SaleJournal(s), "2350") = P[s].spend - EarnedBy(s)
  <1> PICK t, p, n, x, r, e, q, m : /\ t = P[s].tender /\ p = P[s].paid /\ n = -P[s].net /\ x = -TaxOf(s)
                                    /\ r = -Rounding(s) /\ e = EarnedBy(s) /\ q = P[s].qty
                                    /\ m = P[s].spend - EarnedBy(s)
    OBVIOUS
  <1>1. /\ p \in Int /\ n \in Int /\ x \in Int /\ r \in Int /\ e \in Int /\ q \in Nat \ {0} /\ m \in Int
        /\ t \in {"1010", "1020", "1030", "1040"}
    BY SoldPayload DEF Tenders
  <1>2. PICK f : f = (t :> p) @@ ("4000" :> n) @@ ("2200" :> x) @@ ("4900" :> r) @@ ("2350" :> m)
                       @@ ("6550" :> e) @@ ("5000" :> q) @@ ("1200" :> -q)
    OBVIOUS
  <1>3. SaleJournal(s) = Lines(f)
    BY <1>2 DEF SaleJournal
  <1>4. IsLegs(f)
    <2>1. /\ IsLegs(t :> p) /\ IsLegs("4000" :> n) /\ IsLegs("2200" :> x) /\ IsLegs("4900" :> r)
          /\ IsLegs("2350" :> m) /\ IsLegs("6550" :> e) /\ IsLegs("5000" :> q) /\ IsLegs("1200" :> -q)
      <3>1. -q \in Int /\ q \in Int
        BY <1>1
      <3> QED BY <1>1, <3>1, OneLeg
    <2>2. IsLegs((t :> p) @@ ("4000" :> n) @@ ("2200" :> x) @@ ("4900" :> r))
      BY <2>1, JoinLegs
    <2> QED BY <1>2, <2>1, <2>2, JoinLegs
  <1>5. \A a : Leg(Lines(f), a) = Leg(f, a)
    BY <1>4, LinesLegs
  <1>6. /\ {"5000", "1200", "2350", t} \subseteq DOMAIN f
        /\ f["5000"] = q /\ f["1200"] = -q /\ f["2350"] = m /\ f[t] = p
        /\ "1040" \in DOMAIN f => t = "1040"
    BY <1>1, <1>2 DEF @@, :>
  <1>7. /\ Leg(f, "5000") = q /\ Leg(f, "1200") = -q /\ Leg(f, "2350") = m
        /\ Leg(f, "1040") = IF t = "1040" THEN p ELSE 0
    BY <1>6 DEF Leg
  <1>8. Lines(f) # NoLegs
    BY <1>1, <1>6, LineNot
  <1>9. IsLegs(Lines(f))
    BY <1>4, LinesLegs
  <1> QED BY <1>3, <1>5, <1>7, <1>8, <1>9 DEF OnCredit

LEMMA SaleLegsIs ==
  ASSUME NEW s \in Sold
  PROVE  /\ IsLegs(SaleLegs(s)) /\ Total(SaleLegs(s)) = 0 /\ Opposite(SaleLegs(s)) # NoLegs
  <1>1. IsLegs(SaleLegs(s)) /\ Total(SaleLegs(s)) = 0
    BY SaleJournalIs, SquaredIs DEF SaleLegs
  <1>2. Leg(SaleLegs(s), "5000") = P[s].qty /\ P[s].qty \in Nat \ {0}
    BY SaleJournalIs, SquaredLeg, SoldPayload DEF SaleLegs
  <1>3. "5000" \in DOMAIN Opposite(SaleLegs(s))
    BY <1>2 DEF Leg, Opposite
  <1>4. DOMAIN NoLegs = {}
    BY DEF NoLegs
  <1> QED BY <1>1, <1>3, <1>4

SaleEntries(s) == {j \in journal : j.src = "sale" /\ j.ref = s}
VoidEntries(s) == {j \in journal : j.src = "void" /\ j.ref = s}
SaleMoves(s) == {v \in moves : v.sale = s /\ v.reason = "sale"}
VoidMoves(s) == {v \in moves : v.sale = s /\ v.reason = "void"}
SoldMove(s) == [op |-> s, sale |-> s, item |-> P[s].item, reason |-> "sale", qty |-> -P[s].qty]
VoidMove(o) == LET s == P[o].of IN
  [op |-> o, sale |-> s, item |-> P[s].item, reason |-> "void", qty |-> P[s].qty]
Reverses(j, s) == j.legs = Squared(Opposite(SaleLegs(s)))

\* What a sale has in the books by what its row says.
Sale(s) ==
  LET state == row[SaleRow(s)].state IN
  /\ IF state = "none" THEN SaleEntries(s) = {} /\ SaleMoves(s) = {}
     ELSE SaleMoves(s) = {SoldMove(s)} /\ \E j : SaleEntries(s) = {j} /\ j.legs = SaleLegs(s)
  /\ IF state # "void" THEN VoidEntries(s) = {} /\ VoidMoves(s) = {}
     ELSE /\ \E j : VoidEntries(s) = {j} /\ Reverses(j, s)
          /\ \E o \in Ops : P[o].of = s /\ VoidMoves(s) = {VoidMove(o)}
SalesBooked == \A s \in Sold : Sale(s)

\* What a void finds of the sale it has claimed.
LEMMA LiveSale ==
  ASSUME NEW s \in Sold, Sale(s), row[SaleRow(s)].state = "live"
  PROVE  Reversal(s) = Opposite(SaleLegs(s)) /\ TakenBy(s) = P[s].qty
  <1>1. PICK j : SaleEntries(s) = {j} /\ j.legs = SaleLegs(s)
    BY DEF Sale
  <1>2. IsLegs(j.legs)
    BY <1>1, SaleLegsIs
  <1>3. \A a \in DOMAIN j.legs : BookedOn(a, {j}) = j.legs[a]
    <2> SUFFICES ASSUME NEW a \in DOMAIN j.legs PROVE BookedOn(a, {j}) = j.legs[a]
      OBVIOUS
    <2>1. Leg(j.legs, a) = j.legs[a] /\ j.legs[a] \in Int
      BY <1>2 DEF Leg, IsLegs
    <2>2. IsFiniteSet({}) /\ j \notin {} /\ {} \cup {j} = {j}
      BY FS_EmptySet
    <2>3. BookedOn(a, {} \cup {j}) = BookedOn(a, {}) + Leg(j.legs, a)
      BY <2>1, <2>2, BookedMore
    <2> QED BY <2>1, <2>2, <2>3, BookedNone
  <1>4. Reversal(s) = Opposite(SaleLegs(s))
    <2>1. {i \in journal : i.src = "sale" /\ i.ref = s} = {j}
      BY <1>1 DEF SaleEntries
    <2>2. UNION {DOMAIN i.legs : i \in {j}} = DOMAIN j.legs
      OBVIOUS
    <2>3. Reversal(s) = [a \in DOMAIN j.legs |-> -BookedOn(a, {j})]
      BY <2>1, <2>2 DEF Reversal
    <2> QED BY <1>1, <1>3, <2>3 DEF Opposite
  <1>5. PICK v : v = SoldMove(s)
    OBVIOUS
  <1>6. {u \in moves : u.sale = s /\ u.reason = "sale"} = {v} /\ v.qty = -P[s].qty /\ P[s].qty \in Nat
    BY <1>5, SoldPayload DEF Sale, SaleMoves, SoldMove
  <1>7. PICK f : f = [u \in {v} |-> u.qty]
    OBVIOUS
  <1>8. SumFunctionOnSet(f, {v}) = v.qty
    <2>1. IsFiniteSet({}) /\ v \notin {} /\ {} \cup {v} = {v} /\ \A x \in {} \cup {v} : f[x] \in Int
      BY <1>6, <1>7, FS_EmptySet
    <2>2. SumFunctionOnSet(f, {} \cup {v}) = SumFunctionOnSet(f, {}) + f[v]
      BY <2>1, SumMore
    <2>3. f[v] = v.qty /\ f[v] \in Int
      BY <1>6, <1>7
    <2> QED BY <2>1, <2>2, <2>3, SumNothing
  <1>9. Moved({v}) = v.qty
    BY <1>7, <1>8 DEF Moved, SumFunction
  <1>10. TakenBy(s) = P[s].qty
    BY <1>6, <1>9 DEF TakenBy
  <1> QED BY <1>4, <1>10

-----------------------------------------------------------------------------
(* What the transaction of a sale or a void has in hand.                   *)

\* Each kind of op but "produce" moves stock once.
MoveSteps == {"sold", "return", "receive", "shift", "transfer", "use", "throw"}
Reversing(d) ==
  tx[d].op # None =>
    LET k == Payload(d).kind o == tx[d].op IN
    /\ k = "void" /\ "claim" \notin Left(d) => tx[d].legs = Opposite(SaleLegs(Payload(d).of))
    /\ k = "sale" => tx[d].moved = IF "sold" \in Left(d) THEN {} ELSE {SoldMove(o)}
    /\ k = "void" => tx[d].moved = IF "return" \in Left(d) THEN {} ELSE {VoidMove(o)}
    /\ \A v \in tx[d].moved : v.op = o /\ (v.reason \in {"sale", "void"} => k = v.reason)
    /\ MoveSteps \cap Left(d) # {} => tx[d].moved = {}
    /\ k = "produce" /\ "make" \in Left(d) => \A v \in tx[d].moved : v.reason = "prep"

\* What a statement moves.
MovesWith(d, v) == tx'[d].moved = tx[d].moved \cup {v} /\ v.op = tx[d].op

LEMMA Movings ==
  ASSUME Base, NEW d \in Txs, tx[d].op # None, tx[d].todo # <<>>, Statement(d), ~Skip(d),
         NEW s, s = Head(tx[d].todo), s \in MoveSteps \cup {"make"}, s \notin {"sold", "return"}
  PROVE  LET k == Payload(d).kind IN
         \/ tx'[d].moved = tx[d].moved
         \/ \E v : MovesWith(d, v) /\ v.reason \notin {"sale", "void"}
             /\ (k = "produce" /\ s = "use" => v.reason = "prep")
                   /\ (s = "make" => v.reason = "produce")
         \/ s = "transfer" /\ \E u, v : /\ tx'[d].moved = tx[d].moved \cup {u, v}
                          /\ u.op = tx[d].op /\ v.op = tx[d].op
                          /\ u.reason = "transfer" /\ v.reason = "transfer"
  <1>0. Sound(d)
    BY BaseReady
  <1>1. \A c, i, r, q : MoveOf(d, c, i, r, q).op = tx[d].op /\ MoveOf(d, c, i, r, q).reason = r
    BY DEF MoveOf
  <1>2. CASE s = "receive"
    <2>1. \E i, q : tx'[d].moved = tx[d].moved \cup {MoveOf(d, None, i, "purchase", q)}
      BY <1>0, <1>2, ByName, ReceiveMakes
    <2> QED BY <1>1, <1>2, <2>1 DEF MovesWith
  <1>3. CASE s = "shift"
    <2>1. \E i, q : tx'[d].moved = tx[d].moved \cup {MoveOf(d, None, i, ReasonOf(Payload(d).kind), q)}
      BY <1>0, <1>3, ByName, ShiftMakes
    <2>2. Payload(d).kind \in {"adjust", "count", "prep", "dispatch"}
      BY <1>3, NextOf DEF Whose
    <2>3. ReasonOf(Payload(d).kind) \in {"manual", "audit", "prep", "dispatch"}
      BY <2>2 DEF ReasonOf
    <2> QED BY <1>1, <1>3, <2>1, <2>2, <2>3 DEF MovesWith
  <1>4. CASE s = "transfer"
    <2>1. \E i, q, p : tx'[d].moved = tx[d].moved
          \cup {MoveOf(d, None, i, "transfer", q), MoveOf(d, None, i, "transfer", p)}
      BY <1>0, <1>4, ByName, TransferMakes
    <2> QED BY <1>1, <1>4, <2>1
  <1>5. CASE s = "use"
    <2>1. \E i, q : tx'[d].moved = tx[d].moved \cup {MoveOf(d, None, i, "prep", q)}
      BY <1>0, <1>5, ByName, UseMakes
    <2> QED BY <1>1, <1>5, <2>1 DEF MovesWith
  <1>6. CASE s = "make"
    <2>1. \E i, q : tx'[d].moved = tx[d].moved \cup {MoveOf(d, None, i, "produce", q)}
      BY <1>0, <1>6, ByName, MakeMakes
    <2> QED BY <1>1, <1>6, <2>1 DEF MovesWith
  <1>7. CASE s = "throw"
    <2>1. \/ tx'[d].moved = tx[d].moved
          \/ \E i, q : tx'[d].moved = tx[d].moved \cup {MoveOf(d, None, i, "waste", q)}
      BY <1>0, <1>7, ByName, ThrowMakes
    <2> QED BY <1>1, <1>7, <2>1 DEF MovesWith
  <1> QED BY <1>2, <1>3, <1>4, <1>5, <1>6, <1>7 DEF MoveSteps

LEMMA VoidOf ==
  ASSUME Base, NEW d \in Txs, tx[d].op # None, Payload(d).kind \in {"void", "refund"}
  PROVE  /\ Payload(d).of \in Sold /\ "of" \in DOMAIN Payload(d) /\ tx[d].op \in Ops
         /\ Payload(d) = P[tx[d].op]
  <1>1. tx[d].op \in Ops /\ Payload(d) = P[tx[d].op]
    BY DEF Base, InHandOf, Payload
  <1> QED BY <1>1, SalesAssumption DEF Kinds

LEMMA SaleOf ==
  ASSUME Base, NEW d \in Txs, tx[d].op # None, Payload(d).kind = "sale"
  PROVE  tx[d].op \in Sold
  <1>1. tx[d].op \in Ops /\ Payload(d) = P[tx[d].op]
    BY DEF Base, InHandOf, Payload
  <1> QED BY <1>1 DEF Sold, Kinds

LEMMA ReversingMakes ==
  ASSUME Base, SalesBooked, NEW d \in Txs, Selling(d), Reversing(d), tx[d].op # None, tx[d].todo # <<>>,
         Statement(d), Makes(d, Head(tx[d].todo)), ~Skip(d)
  PROVE  Reversing(d)'
  <1> PICK s : s = Head(tx[d].todo)
    OBVIOUS
  <1>1. /\ s \in Left(d) /\ s \in StepSet(Payload(d).kind) /\ Whose(s, Payload(d).kind)
        /\ Left(d)' = Left(d) \ {s} /\ tx'[d].op = tx[d].op
        /\ \A f \in Fields \ FieldsOf(s) : f # "todo" => tx'[d][f] = tx[d][f]
    BY Keeps
  <1>2. Payload(d)' = Payload(d) /\ Sound(d)
    BY <1>1, BaseReady DEF Payload
  <1>10. Left(d) \subseteq StepSet(Payload(d).kind)
    BY LeftOf
  <1> PICK k, o, of : k = Payload(d).kind /\ o = tx[d].op /\ of = Payload(d).of
    OBVIOUS
  <1>3. CASE s = "sold"
    <2>1. k = "sale" /\ SaleStock(d)
      BY <1>1, <1>3, ByName DEF Whose
    <2>2. tx'[d].moved = tx[d].moved \cup {MoveOf(d, o, P[o].item, "sale", -P[o].qty)}
      BY <1>2, <2>1, SoldMakes
    <2>3. tx[d].moved = {} /\ MoveOf(d, o, P[o].item, "sale", -P[o].qty) = SoldMove(o)
      BY <1>1, <1>3, <2>1 DEF Reversing, MoveOf, SoldMove
    <2>4. tx'[d].moved = {SoldMove(o)} /\ SoldMove(o).op = o /\ SoldMove(o).reason = "sale"
      BY <2>2, <2>3 DEF SoldMove
    <2>5. MoveSteps \cap Left(d)' = {}
      BY <1>1, <1>3, <1>10, <2>1 DEF MoveSteps, StepSet
    <2> QED BY <1>1, <1>2, <1>3, <2>1, <2>4, <2>5 DEF Reversing
  <1>4. CASE s = "claim"
    <2>1. k = "void" /\ Claim(d)
      BY <1>1, <1>4, ByName DEF Whose
    <2>2. of \in Sold
      BY <2>1, VoidOf
    <2>3. Val(d, SaleRow(of)) = row[SaleRow(of)]
      BY <1>1, <1>4, <2>1 DEF Selling, Val
    <2>4. tx'[d].legs = Reversal(of) /\ row[SaleRow(of)].state = "live"
      BY <1>2, <2>1, <2>3, ClaimMakes
    <2>5. tx'[d].legs = Opposite(SaleLegs(of))
      BY <2>2, <2>4, LiveSale DEF SalesBooked
    <2>6. tx'[d].moved = tx[d].moved
      BY <1>1, <1>4 DEF FieldsOf, Fields, LegSteps
    <2> QED BY <1>1, <1>2, <1>4, <2>1, <2>5, <2>6 DEF Reversing
  <1>5. CASE s = "return"
    <2>1. ReturnStock(d) /\ k \in {"void", "refund"} /\ of \in Sold
      BY <1>1, <1>5, ByName, VoidOf DEF Whose
    <2>2. tx'[d].legs = tx[d].legs
      BY <1>1, <1>5 DEF FieldsOf, Fields, LegSteps
    <2>3. tx[d].moved = {}
      BY <1>1, <1>5 DEF Reversing, MoveSteps
    <2>5. MoveSteps \cap Left(d)' = {}
      BY <1>1, <1>5, <1>10, <2>1 DEF MoveSteps, StepSet
    <2>6. CASE k = "void"
      <3>1. "claim" \notin Left(d)
        <4>1. \A a \in Left(d) \ {"credit"} : Rank("return") <= Rank(a)
          BY <1>5, NextOf
        <4> QED BY <4>1 DEF Rank
      <3>2. row[SaleRow(of)].state = "live"
        BY <2>6, <3>1 DEF Selling
      <3>3. TakenBy(of) = P[of].qty /\ P[of].qty \in Nat \ {0}
        BY <2>1, <3>2, LiveSale, SoldPayload DEF SalesBooked
      <3>4. tx'[d].moved = tx[d].moved \cup {MoveOf(d, of, P[of].item, "void", P[of].qty)}
        BY <1>2, <2>1, <2>6, <3>3, ReturnMakes DEF Is
      <3>5. MoveOf(d, of, P[of].item, "void", P[of].qty) = VoidMove(o) /\ VoidMove(o).op = o
            /\ VoidMove(o).reason = "void"
        BY DEF MoveOf, VoidMove, Payload
      <3>6. tx'[d].moved = {VoidMove(o)}
        BY <2>3, <3>4, <3>5
      <3> QED BY <1>1, <1>2, <1>5, <2>2, <2>5, <2>6, <3>1, <3>5, <3>6 DEF Reversing
    <2>7. CASE k = "refund"
      <3>1. tx'[d].moved = tx[d].moved
            \/ \E q : tx'[d].moved = tx[d].moved \cup {MoveOf(d, of, P[of].item, "refund", q)}
        BY <1>2, <2>1, <2>7, ReturnMakes
      <3>2. \A v \in tx'[d].moved : v.op = o /\ v.reason = "refund"
        BY <2>3, <3>1 DEF MoveOf
      <3> QED BY <1>1, <1>2, <2>5, <2>7, <3>2 DEF Reversing
    <2> QED BY <2>1, <2>6, <2>7
  <1>6. CASE s \in MoveSteps \cup {"make"} /\ s \notin {"sold", "return"}
    <2>1. k \notin {"sale", "void"}
      BY <1>1, <1>6 DEF Whose, MoveSteps
    <2>2. MoveSteps \cap Left(d)' = {}
      <3>1. s = "make" => "use" \notin Left(d)
        <4>1. s = "make" => \A a \in Left(d) \ {"credit"} : Rank("make") <= Rank(a)
          BY NextOf
        <4> QED BY <4>1 DEF Rank
      <3>2. \A a \in StepSet(k) \cap MoveSteps : a = s \/ s = "make"
        <4>1. CASE k \in {"grn", "door", "adjust", "count", "prep", "dispatch", "transfer",
              "produce", "lot"}
          BY <1>1, <1>6, <2>1, <4>1 DEF MoveSteps, StepSet
        <4> QED BY <1>1, <1>6, <4>1 DEF MoveSteps, Whose
      <3>3. s = "make" => StepSet(k) \cap MoveSteps = {"use"}
        BY <1>1 DEF MoveSteps, StepSet, Whose
      <3> QED BY <1>1, <1>10, <3>1, <3>2, <3>3
    <2>3. s # "make" => tx[d].moved = {}
      BY <1>1, <1>6 DEF Reversing
    <2>4. \A v \in tx'[d].moved : v.op = o /\ v.reason \notin {"sale", "void"}
                                  /\ (k = "produce" /\ s = "use" => v.reason = "prep")
      <3>1. \A v \in tx[d].moved : v.op = o /\ v.reason \notin {"sale", "void"}
        BY <2>1 DEF Reversing
      <3> QED BY <1>6, <2>3, <3>1, Movings DEF MovesWith
    <2>5. k = "produce" /\ "make" \in Left(d)' => s = "use"
      BY <1>1, <1>6 DEF StepSet, MoveSteps
    <2> QED BY <1>1, <1>2, <2>1, <2>2, <2>4, <2>5 DEF Reversing
  <1>7. CASE s \notin MoveSteps \cup {"make", "claim"}
    <2>1. tx'[d].moved = tx[d].moved
      BY <1>1, <1>7 DEF FieldsOf, Fields, LegSteps, MoveSteps
    <2>2. k = "void" => tx'[d].legs = tx[d].legs
      <3>1. k = "void" => s \notin LegSteps
        BY <1>1, <1>7 DEF StepSet, LegSteps, MoveSteps
      <3> QED BY <1>1, <3>1 DEF FieldsOf, Fields
    <2>3. s \notin {"sold", "return", "claim"}
      BY <1>7 DEF MoveSteps
    <2> QED BY <1>1, <1>2, <2>1, <2>2, <2>3 DEF Reversing
  <1> QED BY <1>3, <1>4, <1>5, <1>6, <1>7 DEF MoveSteps

LEMMA ReversingStays ==
  ASSUME NEW e, Reversing(e), tx'[e].op = tx[e].op, tx'[e].todo = tx[e].todo, tx'[e].legs = tx[e].legs,
         tx'[e].moved = tx[e].moved
  PROVE  Reversing(e)'
  <1>1. Payload(e)' = Payload(e) /\ Left(e)' = Left(e)
    BY DEF Payload, Left
  <1> QED BY <1>1 DEF Reversing

LEMMA ReversingStep ==
  ASSUME Base, SalesBooked, \A d \in Txs : Standing(d), \A d \in Txs : Reversing(d), [BooksNext]_bookVars
  PROVE  \A d \in Txs : Reversing(d)'
  <1>1. ASSUME NEW d \in Txs, StepOf(d) PROVE \A e \in Txs : Reversing(e)'
    <2>1. ASSUME \A e \in Txs \ {d} : tx'[e] = tx[e], Reversing(d)' PROVE \A e \in Txs : Reversing(e)'
      BY <2>1, ReversingStays
    <2>2. ASSUME NEW o \in Ops, Begun(d, o) PROVE \A e \in Txs : Reversing(e)'
      <3>1. /\ tx'[d].op = o /\ Left(d)' = StepSet(P[o].kind) /\ Payload(d)' = P[o]
            /\ \A e \in Txs \ {d} : tx'[e] = tx[e]
        BY <2>2, Begins
      <3>2. tx'[d].moved = {}
        BY <2>2 DEF Begun
      <3>3. P[o].kind = "void" => {"claim", "return"} \subseteq Left(d)'
        BY <3>1 DEF StepSet
      <3>4. P[o].kind = "sale" => "sold" \in Left(d)'
        BY <3>1 DEF StepSet
      <3>5. Reversing(d)'
        BY <3>1, <3>2, <3>3, <3>4 DEF Reversing
      <3> QED BY <2>1, <3>1, <3>5
    <2>3. ASSUME (tx[d].op # None /\ Skip(d)) \/ Abort(d) PROVE \A e \in Txs : Reversing(e)'
      <3>1. tx'[d].op = None /\ \A e \in Txs \ {d} : tx'[e] = tx[e]
        BY <2>3, Ends
      <3> QED BY <2>1, <3>1 DEF Reversing
    <2>4. ASSUME tx[d].op # None, tx[d].todo # <<>>, Statement(d), Makes(d, Head(tx[d].todo)), ~Skip(d)
          PROVE \A e \in Txs : Reversing(e)'
      <3>1. \A e \in Txs \ {d} : tx'[e] = tx[e]
        BY <2>4, Keeps
      <3> QED BY <2>1, <2>4, <3>1, ReversingMakes DEF Standing
    <2>5. ASSUME Commits(d) PROVE \A e \in Txs : Reversing(e)'
      <3>1. /\ tx'[d].op = None
            /\ \A e \in Txs \ {d} : \A f \in Fields \ {"wasOpen", "wasShut"} : tx'[e][f] = tx[e][f]
        BY <2>5, Leaves
      <3>2. \A e \in Txs \ {d} : /\ tx'[e].op = tx[e].op /\ tx'[e].todo = tx[e].todo
                                 /\ tx'[e].legs = tx[e].legs /\ tx'[e].moved = tx[e].moved
        BY <3>1 DEF Fields
      <3>3. Reversing(d)'
        BY <3>1 DEF Reversing
      <3>4. \A e \in Txs \ {d} : Reversing(e)
        OBVIOUS
      <3>5. \A e \in Txs \ {d} : Reversing(e)'
        BY <3>2, <3>4, ReversingStays
      <3> QED BY <3>3, <3>5
    <2> QED BY <1>1, <2>2, <2>3, <2>4, <2>5 DEF StepOf
  <1>2. CASE BooksNext
    BY <1>1, <1>2, Stepping
  <1>3. CASE UNCHANGED bookVars
    <2>1. tx' = tx
      BY <1>3 DEF bookVars
    <2> QED BY <2>1, ReversingStays
  <1> QED BY <1>2, <1>3

LEMMA SaleStays ==
  ASSUME NEW s, Sale(s), row'[SaleRow(s)] = row[SaleRow(s)], SaleEntries(s)' = SaleEntries(s),
         VoidEntries(s)' = VoidEntries(s), SaleMoves(s)' = SaleMoves(s), VoidMoves(s)' = VoidMoves(s)
  PROVE  Sale(s)'
  BY DEF Sale

LEMMA SalesBookedCommits ==
  ASSUME Base, NEW d \in Txs, Standing(d), Reversing(d), Commits(d), SaleRowsKept, SalesBooked
  PROVE  SalesBooked'
  <1> PICK k, o, of, e : k = Payload(d).kind /\ o = tx[d].op /\ of = Payload(d).of /\ e = Enters(d)
    OBVIOUS
  <1>1. /\ tx[d].op # None /\ Left(d) = {} /\ tx[d].op \in Ops \ applied
        /\ moves' = moves \cup tx[d].moved
    BY Leaves DEF Commits
  <1>2. (HasEntry(d) => journal' = journal \cup {e}) /\ (~HasEntry(d) => journal' = journal)
    BY CommitEnters DEF Standing
  <1>3. /\ e.src = k /\ e.op = o /\ e.legs = Squared(tx[d].legs)
        /\ e.ref = IF "of" \in DOMAIN Payload(d) THEN of ELSE o
    BY DEF Enters
  <1>4. /\ k = "sale" => o \in Sold /\ row'[SaleRow(o)] = NewSale(d)
        /\ k = "void" => /\ of \in Sold /\ row[SaleRow(of)].state = "live"
                          /\ row'[SaleRow(of)] = [row[SaleRow(of)] EXCEPT !.state = "void"]
        /\ \A s \in Sold : ~(k = "sale" /\ s = o) /\ ~(k = "void" /\ s = of)
            => row'[SaleRow(s)] = row[SaleRow(s)]
    BY CommitSells
  <1>5. \A v \in tx[d].moved : v.reason \in {"sale", "void"} => k = v.reason
    BY <1>1 DEF Reversing
  <1>6. CASE k = "sale"
    <2>1. o \in Sold /\ row'[SaleRow(o)].state = "live" /\ row[SaleRow(o)].state = "none"
      <3>1. NewSale(d).state = "live"
        BY DEF NewSale
      <3> QED BY <1>1, <1>4, <1>6, <3>1 DEF Base, OnRecord
    <2>2. SaleEntries(o) = {} /\ SaleMoves(o) = {} /\ VoidEntries(o) = {} /\ VoidMoves(o) = {}
      BY <2>1 DEF SalesBooked, Sale
    <2>3. tx[d].legs = SaleJournal(o)
      BY <1>1, <1>6 DEF Standing, Billing, Bill
    <2>4. e.ref = o /\ e.legs = SaleLegs(o)
      <3>1. Payload(d) = P[o]
        BY DEF Payload
      <3> QED BY <1>3, <2>1, <2>3, <3>1, SoldPayload DEF SaleLegs
    <2>5. HasEntry(d)
      <3>1. "post" \in StepSet(k)
        BY <1>6 DEF StepSet
      <3> QED BY <2>1, <2>3, <3>1, SaleJournalIs DEF HasEntry, Books
    <2>6. journal' = journal \cup {e} /\ moves' = moves \cup {SoldMove(o)}
      BY <1>1, <1>2, <1>6, <2>5 DEF Reversing
    <2>7. SoldMove(o).sale = o /\ SoldMove(o).reason = "sale"
      BY DEF SoldMove
    <2>8. SaleEntries(o)' = {e} /\ SaleMoves(o)' = {SoldMove(o)} /\ VoidEntries(o)' = {}
          /\ VoidMoves(o)' = {}
      BY <1>3, <1>6, <2>2, <2>4, <2>6, <2>7 DEF SaleEntries, VoidEntries, SaleMoves, VoidMoves
    <2>9. Sale(o)'
      BY <2>1, <2>4, <2>8 DEF Sale
    <2>10. ASSUME NEW s \in Sold, s # o PROVE Sale(s)'
      <3>1. /\ SaleEntries(s)' = SaleEntries(s) /\ VoidEntries(s)' = VoidEntries(s)
            /\ SaleMoves(s)' = SaleMoves(s) /\ VoidMoves(s)' = VoidMoves(s)
        BY <2>4, <2>6, <2>7, <2>10 DEF SaleEntries, VoidEntries, SaleMoves, VoidMoves
      <3> QED BY <1>4, <1>6, <2>10, <3>1, SaleStays DEF SalesBooked
    <2> QED BY <2>9, <2>10 DEF SalesBooked
  <1>7. CASE k = "void"
    <2>1. of \in Sold /\ row'[SaleRow(of)].state = "void" /\ row[SaleRow(of)].state = "live"
      <3>1. PICK p, q : p = row[SaleRow(of)] /\ q = row'[SaleRow(of)]
        OBVIOUS
      <3>2. q = [p EXCEPT !.state = "void"]
            /\ p = [state |-> p.state, no |-> p.no, earned |-> p.earned, session |-> p.session]
        BY <1>4, <1>7, <3>1 DEF SaleRowsKept
      <3>3. q.state = "void"
        BY <3>2
      <3> QED BY <1>4, <1>7, <3>1, <3>3
    <2>2. VoidEntries(of) = {} /\ VoidMoves(of) = {} /\ SaleMoves(of) = {SoldMove(of)}
          /\ \E j : SaleEntries(of) = {j} /\ j.legs = SaleLegs(of)
      BY <2>1 DEF SalesBooked, Sale
    <2>3. tx[d].legs = Opposite(SaleLegs(of)) /\ tx[d].moved = {VoidMove(o)}
      BY <1>1, <1>7 DEF Reversing
    <2>4. e.ref = of /\ Reverses(e, of) /\ Payload(d) = P[o]
      BY <1>1, <1>3, <1>7, <2>3, VoidOf DEF Reverses
    <2>5. HasEntry(d)
      <3>1. "post" \in StepSet(k)
        BY <1>7 DEF StepSet
      <3> QED BY <2>1, <2>3, <3>1, SaleLegsIs DEF HasEntry, Books
    <2>6. journal' = journal \cup {e} /\ moves' = moves \cup {VoidMove(o)}
      BY <1>1, <1>2, <2>3, <2>5
    <2>7. VoidMove(o).sale = of /\ VoidMove(o).reason = "void" /\ P[o].of = of
      BY <2>4 DEF VoidMove
    <2>8. SaleEntries(of)' = SaleEntries(of) /\ SaleMoves(of)' = SaleMoves(of)
          /\ VoidEntries(of)' = {e} /\ VoidMoves(of)' = {VoidMove(o)}
      BY <1>3, <1>7, <2>2, <2>4, <2>6, <2>7 DEF SaleEntries, VoidEntries, SaleMoves, VoidMoves
    <2>9. Sale(of)'
      BY <1>1, <2>1, <2>2, <2>4, <2>7, <2>8 DEF Sale, Reverses
    <2>10. ASSUME NEW s \in Sold, s # of PROVE Sale(s)'
      <3>1. /\ SaleEntries(s)' = SaleEntries(s) /\ VoidEntries(s)' = VoidEntries(s)
            /\ SaleMoves(s)' = SaleMoves(s) /\ VoidMoves(s)' = VoidMoves(s)
        BY <2>4, <2>6, <2>7, <2>10 DEF SaleEntries, VoidEntries, SaleMoves, VoidMoves
      <3> QED BY <1>4, <1>7, <2>10, <3>1, SaleStays DEF SalesBooked
    <2> QED BY <2>9, <2>10 DEF SalesBooked
  <1>8. CASE k \notin {"sale", "void"}
    <2>1. ASSUME NEW s \in Sold PROVE Sale(s)'
      <3>1. /\ SaleEntries(s)' = SaleEntries(s) /\ VoidEntries(s)' = VoidEntries(s)
        BY <1>2, <1>3, <1>8 DEF SaleEntries, VoidEntries
      <3>2. SaleMoves(s)' = SaleMoves(s) /\ VoidMoves(s)' = VoidMoves(s)
        BY <1>1, <1>5, <1>8 DEF SaleMoves, VoidMoves
      <3> QED BY <1>4, <1>8, <2>1, <3>1, <3>2, SaleStays DEF SalesBooked
    <2> QED BY <2>1 DEF SalesBooked
  <1> QED BY <1>6, <1>7, <1>8

-----------------------------------------------------------------------------
(* A sale is reversed once or never.                                       *)

SalesInv == Documents /\ SalesBooked /\ \A d \in Txs : Reversing(d)

LEMMA SalesStep ==
  ASSUME SalesInv, [BooksNext]_bookVars PROVE SalesInv'
  <1>0. Base /\ (\A d \in Txs : Standing(d)) /\ SaleRowsKept /\ SalesBooked
        /\ (\A d \in Txs : Reversing(d))
    BY DEF SalesInv, Documents
  <1>1. Documents' /\ \A d \in Txs : Reversing(d)'
    BY <1>0, DocumentsStep, ReversingStep DEF SalesInv
  <1>2. ASSUME row' = row, journal' = journal, moves' = moves PROVE SalesBooked'
    <2>1. \A s : /\ SaleEntries(s)' = SaleEntries(s) /\ VoidEntries(s)' = VoidEntries(s)
                 /\ SaleMoves(s)' = SaleMoves(s) /\ VoidMoves(s)' = VoidMoves(s)
      BY <1>2 DEF SaleEntries, VoidEntries, SaleMoves, VoidMoves
    <2> QED BY <1>0, <1>2, <2>1, SaleStays DEF SalesBooked
  <1>3. CASE BooksNext
    <2>1. PICK d \in Txs : StepOf(d)
      BY <1>0, <1>3, Stepping
    <2>2. CASE Commits(d)
      <3>1. SalesBooked'
        BY <1>0, <2>2, SalesBookedCommits
      <3> QED BY <1>1, <3>1 DEF SalesInv
    <2>3. CASE ~Commits(d)
      <3>1. row' = row /\ journal' = journal /\ moves' = moves
        BY <1>0, <2>1, <2>3, Begins, Keeps, Ends DEF StepOf
      <3> QED BY <1>1, <1>2, <3>1 DEF SalesInv
    <2> QED BY <2>2, <2>3
  <1>4. CASE UNCHANGED bookVars
    <2>1. row' = row /\ journal' = journal /\ moves' = moves
      BY <1>4 DEF bookVars
    <2> QED BY <1>1, <1>2, <2>1 DEF SalesInv
  <1> QED BY <1>3, <1>4

LEMMA SalesInit ==
  ASSUME BooksInit PROVE SalesInv
  <1>1. Documents /\ journal = {} /\ moves = {}
    BY DocumentsInit DEF BooksInit
  <1>2. \A d \in Txs : Reversing(d)
    <2>1. tx = [d \in Txs |-> Idle] /\ Idle.op = None
      BY DEF BooksInit, Idle
    <2> QED BY <2>1 DEF Reversing
  <1>3. \A s \in Sold : row[SaleRow(s)].state = "none"
    <2>1. NoSale.state = "none"
      BY DEF NoSale
    <2> QED BY <2>1, FirstRow
  <1>4. SalesBooked
    BY <1>1, <1>3 DEF SalesBooked, Sale, SaleEntries, VoidEntries, SaleMoves, VoidMoves
  <1> QED BY <1>1, <1>2, <1>4 DEF SalesInv

\* Two entries that cancel.
LEMMA TwoCancel ==
  ASSUME NEW i, NEW j, i # j, NEW a, Leg(i.legs, a) \in Int, Leg(j.legs, a) = -Leg(i.legs, a)
  PROVE  BookedOn(a, {i, j}) = 0
  <1>1. IsFiniteSet({}) /\ IsFiniteSet({i}) /\ {} \cup {i} = {i} /\ {i} \cup {j} = {i, j}
        /\ i \notin {} /\ j \notin {i}
    BY FS_EmptySet, FS_Singleton
  <1>2. Leg(j.legs, a) \in Int
    OBVIOUS
  <1>3. BookedOn(a, {} \cup {i}) = BookedOn(a, {}) + Leg(i.legs, a)
    BY <1>1, BookedMore
  <1>4. BookedOn(a, {i} \cup {j}) = BookedOn(a, {i}) + Leg(j.legs, a)
    BY <1>1, <1>2, BookedMore
  <1>5. PICK x \in Int : x = Leg(i.legs, a) /\ Leg(j.legs, a) = -x
    OBVIOUS
  <1>6. BookedOn(a, {i}) = 0 + x
    BY <1>1, <1>3, <1>5, BookedNone
  <1>7. BookedOn(a, {i}) = x
    BY <1>6
  <1>8. BookedOn(a, {i, j}) = x + -x
    BY <1>1, <1>4, <1>5, <1>7
  <1> QED BY <1>8

LEMMA SalesHeld == ASSUME SalesInv PROVE ReversedOnce
  <1> SUFFICES ASSUME NEW s \in Sold
               PROVE  LET of == {j \in journal : j.ref = s /\ j.src \in {"sale", "void"}}
                          back == {v \in moves : v.sale = s /\ v.reason = "void"} IN
                      /\ Void(s) => /\ \A j \in of : \A a \in DOMAIN j.legs : BookedOn(a, of) = 0
                                    /\ {v.qty : v \in back} = {P[s].qty} /\ Cardinality(back) = 1
                      /\ Live(s) => Cardinality(of) = 1 /\ back = {}
    BY DEF ReversedOnce
  <1>1. Sale(s)
    BY DEF SalesInv, SalesBooked
  <1>2. PICK own, back : /\ own = {j \in journal : j.ref = s /\ j.src \in {"sale", "void"}}
                         /\ back = {v \in moves : v.sale = s /\ v.reason = "void"}
    OBVIOUS
  <1>3. own = SaleEntries(s) \cup VoidEntries(s) /\ back = VoidMoves(s)
    BY <1>2 DEF SaleEntries, VoidEntries, VoidMoves
  <1>4. ASSUME Void(s)
        PROVE  /\ \A j \in own : \A a \in DOMAIN j.legs : BookedOn(a, own) = 0
               /\ {v.qty : v \in back} = {P[s].qty} /\ Cardinality(back) = 1
    <2>1. row[SaleRow(s)].state = "void"
      BY <1>4 DEF Void
    <2>a. row[SaleRow(s)].state # "none"
      BY <2>1
    <2>b. PICK i : SaleEntries(s) = {i} /\ i.legs = SaleLegs(s)
      BY <1>1, <2>a DEF Sale
    <2>c. PICK j : VoidEntries(s) = {j} /\ Reverses(j, s)
      BY <1>1, <2>1 DEF Sale
    <2>d. PICK o \in Ops : P[o].of = s /\ VoidMoves(s) = {VoidMove(o)}
      BY <1>1, <2>1 DEF Sale
    <2>2. /\ SaleEntries(s) = {i} /\ i.legs = SaleLegs(s)
          /\ VoidEntries(s) = {j} /\ Reverses(j, s)
          /\ P[o].of = s /\ VoidMoves(s) = {VoidMove(o)}
      BY <2>b, <2>c, <2>d
    <2>3. own = {i, j} /\ i # j
      BY <1>3, <2>2 DEF SaleEntries, VoidEntries
    <2>4. \A a : Leg(j.legs, a) = -Leg(i.legs, a) /\ Leg(i.legs, a) \in Int
      <3>1. IsLegs(i.legs) /\ Total(i.legs) = 0
        BY <2>2, SaleLegsIs
      <3>2. \A a : Leg(i.legs, a) \in Int
        BY <3>1 DEF IsLegs, Leg
      <3>3. j.legs = Squared(Opposite(i.legs))
        BY <2>2 DEF Reverses
      <3> QED BY <3>1, <3>2, <3>3, OppositeCancels
    <2>5. \A a : BookedOn(a, own) = 0
      BY <2>3, <2>4, TwoCancel
    <2>6. VoidMove(o).qty = P[s].qty
      BY <2>2 DEF VoidMove
    <2>7. PICK m : m = VoidMove(o)
      OBVIOUS
    <2>8. back = {m} /\ m.qty = P[s].qty
      BY <1>3, <2>2, <2>6, <2>7
    <2>9. {v.qty : v \in back} = {P[s].qty}
      BY <2>8
    <2>10. Cardinality(back) = 1
      BY <2>8, FS_Singleton
    <2> QED BY <2>5, <2>9, <2>10
  <1>5. ASSUME Live(s) PROVE Cardinality(own) = 1 /\ back = {}
    <2>1. row[SaleRow(s)].state = "live"
      BY <1>5 DEF Live
    <2>2. VoidEntries(s) = {} /\ VoidMoves(s) = {} /\ \E i : SaleEntries(s) = {i}
      BY <1>1, <2>1 DEF Sale
    <2> QED BY <1>3, <2>2, FS_Singleton
  <1> QED BY <1>2, <1>4, <1>5

\* A sale is reversed once or never: its void's entry cancels its own on every
\* account and puts its stock back once; a sale that stands has lost neither.
THEOREM ReversedAtMostOnce == BooksSpec => []ReversedOnce
  <1>1. BooksInit => SalesInv
    BY SalesInit
  <1>2. SalesInv /\ [BooksNext]_bookVars => SalesInv'
    BY SalesStep
  <1>3. SalesInv => ReversedOnce
    BY SalesHeld
  <1> QED BY <1>1, <1>2, <1>3, PTL DEF BooksSpec

-----------------------------------------------------------------------------
(* What a member owes and is owed.                                         *)

\* The accounts that a member's row answers to, and an entry that leaves them alone.
MemberAccounts == {"1040", "2350"}
MemberKinds == {"sale", "refund", "void", "settle", "points"}
Away(legs) == \A a \in MemberAccounts : Leg(legs, a) = 0

LEMMA AwayNothing == Away(NoLegs)
  BY NoLeg DEF Away

LEMMA AwayTwo ==
  ASSUME NEW x, NEW y, NEW m, NEW n, {x, y} \cap MemberAccounts = {}
  PROVE  Away(Lines((x :> m) @@ (y :> n)))
  <1>1. PICK f : f = (x :> m) @@ (y :> n)
    OBVIOUS
  <1>2. DOMAIN f = {x, y}
    BY <1>1 DEF @@, :>
  <1> QED BY <1>1, <1>2 DEF Away, Leg, Lines

LEMMA AwayThree ==
  ASSUME NEW x, NEW y, NEW z, NEW m, NEW n, NEW p, {x, y, z} \cap MemberAccounts = {}
  PROVE  Away(Lines((x :> m) @@ (y :> n) @@ (z :> p)))
  <1>1. PICK f : f = (x :> m) @@ (y :> n) @@ (z :> p)
    OBVIOUS
  <1>2. DOMAIN f = {x, y, z}
    BY <1>1 DEF @@, :>
  <1> QED BY <1>1, <1>2 DEF Away, Leg, Lines

\* The entries of the stock and the back office.
LEMMA AwayPayable ==
  ASSUME NEW q, NEW o PROVE Away(Payable(q, "2100")) /\ Away(Payable(q, PaidBy(o)))
  <1>1. PaidBy(o) \in {"1010", "2100"}
    BY DEF PaidBy
  <1> QED BY <1>1, AwayTwo DEF Payable, MemberAccounts

LEMMA AwayOffice ==
  ASSUME NEW o
  PROVE  /\ P[o].kind \in ClaimKinds => Away(ClaimLegs(o))
         /\ Away(OneEntry(o)) /\ Away(AdjustLegs(o))
  <1>1. \A n : /\ Away(WagesLegs(n)) /\ Away(OpexLegs(n)) /\ Away(WearLegs(n)) /\ Away(VendorLegs(n))
               /\ Away(AssetLegs(n)) /\ Away(RepairLegs(n)) /\ Away(ManualLegs(n))
    BY AwayTwo DEF WagesLegs, OpexLegs, WearLegs, VendorLegs, AssetLegs, RepairLegs, ManualLegs,
                   MemberAccounts
  <1>2. P[o].kind \in ClaimKinds => Away(ClaimLegs(o))
    BY <1>1 DEF ClaimLegs, ClaimKinds
  <1>3. Away(OneEntry(o))
    BY <1>1, AwayNothing DEF OneEntry
  <1>4. Away(AdjustLegs(o))
    BY AwayTwo, AwayNothing DEF AdjustLegs, MemberAccounts
  <1> QED BY <1>2, <1>3, <1>4

LEMMA AwayMatch ==
  ASSUME NEW g, NEW n, NEW p PROVE Away(SettledLegs(g, n)) /\ Away(Correction(n, p))
  BY AwayTwo, AwayThree DEF SettledLegs, Correction, MemberAccounts

\* An op that is no business of the member's books nothing there.
Quiet(d) == tx[d].op # None /\ Payload(d).kind \notin MemberKinds => Away(tx[d].legs)

LEMMA QuietMakes ==
  ASSUME Base, NEW d \in Txs, Quiet(d), tx[d].op # None, tx[d].todo # <<>>, Statement(d),
         Makes(d, Head(tx[d].todo)), ~Skip(d)
  PROVE  Quiet(d)'
  <1> PICK s : s = Head(tx[d].todo)
    OBVIOUS
  <1>1. /\ s \in Left(d) /\ s \in StepSet(Payload(d).kind) /\ Whose(s, Payload(d).kind)
        /\ tx'[d].op = tx[d].op
        /\ \A f \in Fields \ FieldsOf(s) : f # "todo" => tx'[d][f] = tx[d][f]
    BY Keeps
  <1>2. Payload(d)' = Payload(d) /\ Sound(d)
    BY <1>1, BaseReady DEF Payload
  <1> SUFFICES ASSUME Payload(d).kind \notin MemberKinds PROVE Away(tx'[d].legs)
    BY <1>1, <1>2 DEF Quiet
  <1>3. Away(tx[d].legs)
    BY DEF Quiet
  <1>4. s \notin {"sold", "split", "claim", "adjust"}
    BY <1>1 DEF Whose, MemberKinds
  <1>5. CASE s = "count"
    <2>1. CloseRegister(d)
      BY <1>5, ByName
    <2>2. PICK over : tx'[d].legs = IF over < 0 THEN Lines(("6300" :> -over) @@ ("1010" :> over))
                                    ELSE Lines(("1010" :> over) @@ ("4900" :> -over))
      BY <1>2, <2>1, CloseMakes
    <2> QED BY <2>2, AwayTwo DEF MemberAccounts
  <1>6. CASE s \in {"receive", "price", "rates"}
    <2>1. \/ tx'[d].legs = NoLegs \/ (\E q : tx'[d].legs = Payable(q, "2100"))
          \/ \E q, o : tx'[d].legs = Payable(q, PaidBy(o))
      <3>1. CASE s = "receive"
        <4>1. Receive(d)
          BY <3>1, ByName
        <4> QED BY <1>2, <4>1, ReceiveMakes
      <3>2. CASE s = "price"
        <4>1. Price(d)
          BY <3>2, ByName
        <4> QED BY <1>2, <4>1, PriceMakes
      <3>3. CASE s = "rates"
        <4>1. PriceDoor(d)
          BY <3>3, ByName
        <4> QED BY <1>2, <4>1, RatesMakes
      <3> QED BY <1>6, <3>1, <3>2, <3>3
    <2> QED BY <2>1, AwayPayable, AwayNothing
  <1>7. CASE s = "shift"
    <2>1. Shift(d)
      BY <1>7, ByName
    <2>2. tx'[d].legs = AdjustLegs(tx[d].op)
      BY <1>2, <2>1, ShiftMakes
    <2> QED BY <2>2, AwayOffice
  <1>8. CASE s = "throw"
    <2>1. Throw(d)
      BY <1>8, ByName
    <2>2. tx'[d].legs = tx[d].legs \/ \E n : tx'[d].legs = Lines(("5100" :> n) @@ ("1200" :> -n))
      BY <1>2, <2>1, ThrowMakes
    <2> QED BY <1>3, <2>2, AwayTwo DEF MemberAccounts
  <1>9. CASE s = "claimMonth"
    <2>1. ClaimMonth(d) /\ Payload(d).kind \in ClaimKinds
      BY <1>1, <1>9, ByName DEF Whose
    <2>2. tx'[d].legs = ClaimLegs(tx[d].op)
      BY <1>2, <2>1, ClaimMonthMakes
    <2> QED BY <2>1, <2>2, AwayOffice DEF Payload
  <1>10. CASE s = "match"
    <2>1. Match(d)
      BY <1>10, ByName
    <2>2. \/ tx'[d].legs = NoLegs \/ (\E g, n : tx'[d].legs = SettledLegs(g, n))
          \/ \E n, p : tx'[d].legs = Correction(n, p)
      BY <1>2, <2>1, MatchMakes
    <2> QED BY <2>2, AwayMatch, AwayNothing
  <1>11. CASE s \notin LegSteps
    <2>1. tx'[d].legs = tx[d].legs
      BY <1>1, <1>11 DEF FieldsOf, Fields, LegSteps
    <2> QED BY <1>3, <2>1
  <1> QED BY <1>4, <1>5, <1>6, <1>7, <1>8, <1>9, <1>10, <1>11 DEF LegSteps

\* The member's row, and what a sale's row says it earned.
IsMember(m) == m = [points |-> m.points, used |-> m.used] /\ m.points \in Int /\ m.used \in Int
EarnedKept == \A s \in Sold : row[SaleRow(s)].state # "none" => row[SaleRow(s)].earned = EarnedBy(s)

\* By how much an op under way has moved the two balances.
UsedBy(d) ==
  LET k == Payload(d).kind IN
  IF k \in {"sale", "refund", "settle"} /\ "credit" \notin Left(d) THEN CreditBy(tx[d].op)
  ELSE IF k = "void" /\ "member" \notin Left(d) THEN -OnCredit(Payload(d).of) ELSE 0
PointsBy(d) ==
  LET k == Payload(d).kind of == Payload(d).of IN
  IF k = "sale" /\ "earn" \notin Left(d) THEN EarnedBy(tx[d].op)
  ELSE IF k = "void" /\ "member" \notin Left(d) THEN P[of].spend - EarnedBy(of)
  ELSE IF k = "points" /\ "adjust" \notin Left(d)
  THEN IF Payload(d).redeem THEN Payload(d).by ELSE -Leg(tx[d].legs, "2350")
  ELSE 0
\* What an op has locked of the member's row it has moved by that.
Ties(d, m) == m.used = row[Member].used + UsedBy(d) /\ m.points = row[Member].points + PointsBy(d)
Granting(d) ==
  LET legs == tx[d].legs IN
  /\ Leg(legs, "1040") = 0 /\ Leg(legs, "2350") \in Int
  /\ Payload(d).redeem => Leg(legs, "2350") = 0
Carrying(d) ==
  tx[d].op # None =>
    LET w == tx[d].w k == Payload(d).kind IN
    /\ Member \in DOMAIN w => IsMember(w[Member])
    /\ k = "points" /\ "balance" \notin Left(d) => tx[d].seen \in Int
    /\ k = "points" /\ "adjust" \notin Left(d) => Granting(d)
    /\ Member \notin tx[d].drift =>
         IF Member \in DOMAIN w THEN Ties(d, w[Member]) ELSE UsedBy(d) = 0 /\ PointsBy(d) = 0

\* What the ops of the member's hold.
LEMMA MemberPayload ==
  ASSUME Base, NEW d \in Txs, tx[d].op # None
  PROVE  LET k == Payload(d).kind o == tx[d].op of == Payload(d).of IN
         /\ k \in {"sale", "refund", "settle"} => CreditBy(o) \in Int
         /\ k = "sale" => o \in Sold /\ EarnedBy(o) \in Nat
         /\ k = "void" => of \in Sold /\ EarnedBy(of) \in Nat /\ P[of].spend \in Nat
             /\ OnCredit(of) \in Nat
         /\ k = "points" => Payload(d).by \in Int /\ Payload(d).redeem \in BOOLEAN
  <1> PICK o, k, of : o = tx[d].op /\ k = Payload(d).kind /\ of = Payload(d).of
    OBVIOUS
  <1>1. o \in Ops /\ k = P[o].kind /\ of = P[o].of /\ Payload(d) = P[o]
    BY DEF Base, InHandOf, Payload
  <1>2. \A s \in Sold : OnCredit(s) \in Nat /\ EarnedBy(s) \in Nat /\ P[s].spend \in Nat
    BY SoldPayload DEF OnCredit
  <1>3. k = "sale" => o \in Sold /\ CreditBy(o) \in Int
    <2> SUFFICES ASSUME k = "sale" PROVE o \in Sold /\ CreditBy(o) \in Int
      OBVIOUS
    <2>1. o \in Sold
      BY <1>1 DEF Sold, Kinds
    <2> QED BY <1>1, <1>2, <2>1 DEF CreditBy
  <1>4. k = "refund" => CreditBy(o) \in Int
    <2> SUFFICES ASSUME k = "refund" PROVE CreditBy(o) \in Int
      OBVIOUS
    <2>1. P[o].amt \in Nat
      BY <1>1, SalesAssumption DEF Kinds
    <2>2. CreditBy(o) = IF P[o].tender = "1040" THEN -P[o].amt ELSE 0
      BY <1>1 DEF CreditBy
    <2> QED BY <2>1, <2>2
  <1>5. k = "settle" => CreditBy(o) \in Int
    <2> SUFFICES ASSUME k = "settle" PROVE CreditBy(o) \in Int
      OBVIOUS
    <2>1. P[o].amt \in Nat
      BY <1>1, SalesAssumption DEF Kinds
    <2>2. CreditBy(o) = -P[o].amt
      BY <1>1 DEF CreditBy
    <2> QED BY <2>1, <2>2
  <1>6. k = "void" => of \in Sold
    BY <1>1, SalesAssumption DEF Kinds
  <1>7. k = "points" => Payload(d).by \in Int /\ Payload(d).redeem \in BOOLEAN
    BY <1>1, SalesAssumption DEF Kinds
  <1> QED BY <1>2, <1>3, <1>4, <1>5, <1>6, <1>7

LEMMA MovedInt ==
  ASSUME Base, NEW d \in Txs, tx[d].op # None, Carrying(d)
  PROVE  UsedBy(d) \in Int /\ PointsBy(d) \in Int
  <1>1. UsedBy(d) \in Int
    BY MemberPayload DEF UsedBy
  <1>2. Payload(d).kind = "points" /\ "adjust" \notin Left(d) => Leg(tx[d].legs, "2350") \in Int
    BY DEF Carrying, Granting
  <1>3. PointsBy(d) \in Int
    BY <1>2, MemberPayload DEF PointsBy
  <1> QED BY <1>1, <1>3

\* What a transaction reads of the member is as far from what is committed.
LEMMA MemberRead ==
  ASSUME Base, NEW d \in Txs, tx[d].op # None, Carrying(d), IsMember(row[Member])
  PROVE  IsMember(Val(d, Member)) /\ (Member \notin tx[d].drift => Ties(d, Val(d, Member)))
  <1>1. CASE Member \in DOMAIN tx[d].w
    <2>1. Val(d, Member) = tx[d].w[Member]
      BY <1>1 DEF Val
    <2> QED BY <1>1, <2>1 DEF Carrying
  <1>2. CASE Member \notin DOMAIN tx[d].w
    <2>1. Val(d, Member) = row[Member]
      BY <1>2 DEF Val
    <2>2. row[Member].used + 0 = row[Member].used /\ row[Member].points + 0 = row[Member].points
      BY DEF IsMember
    <2>3. Member \notin tx[d].drift => UsedBy(d) = 0 /\ PointsBy(d) = 0
      BY <1>2 DEF Carrying
    <2> QED BY <2>1, <2>2, <2>3 DEF Ties
  <1> QED BY <1>1, <1>2

\* No statement takes back that a balance is adrift.
LEMMA DriftGrows ==
  ASSUME Base, NEW d \in Txs, tx[d].op # None, tx[d].todo # <<>>, Statement(d),
         Makes(d, Head(tx[d].todo)), ~Skip(d)
  PROVE  tx[d].drift \subseteq tx'[d].drift
  <1> PICK s : s = Head(tx[d].todo)
    OBVIOUS
  <1>1. /\ Whose(s, Payload(d).kind)
        /\ \A f \in Fields \ FieldsOf(s) : f # "todo" => tx'[d][f] = tx[d][f]
    BY Keeps
  <1>2. Sound(d)
    BY BaseReady
  <1>3. CASE s = "credit"
    <2>1. Credit(d)
      BY <1>3, ByName
    <2> QED BY <1>2, <2>1, CreditMakes
  <1>4. CASE s = "member"
    <2>1. TakeBack(d)
      BY <1>4, ByName
    <2> QED BY <1>2, <2>1, TakeBackMakes
  <1>5. CASE s = "adjust"
    <2>1. Adjust(d)
      BY <1>5, ByName
    <2> QED BY <1>2, <2>1, AdjustMakes
  <1>6. CASE s = "rates"
    <2>1. PriceDoor(d)
      BY <1>6, ByName
    <2> QED BY <1>2, <2>1, RatesMakes
  <1>7. CASE s = "match"
    <2>1. Match(d)
      BY <1>7, ByName
    <2> QED BY <1>2, <2>1, MatchMakes
  <1>8. CASE s = "in"
    <2>1. ClockIn(d)
      BY <1>8, ByName
    <2> QED BY <1>2, <2>1, ClockInMakes
  <1>9. CASE s \notin {"credit", "member", "adjust", "rates", "match", "in"}
    BY <1>1, <1>9 DEF FieldsOf, Fields
  <1> QED BY <1>3, <1>4, <1>5, <1>6, <1>7, <1>8, <1>9

\* What a statement that writes the member's row has to show.
LEMMA MemberWritten ==
  ASSUME NEW d \in Txs, NEW v, Wrote(d, Member, v), IsMember(v), row' = row,
         Member \notin tx'[d].drift => Ties(d, v)',
         LET k == Payload(d)'.kind IN
         /\ k = "points" /\ "balance" \notin Left(d)' => tx'[d].seen \in Int
         /\ k = "points" /\ "adjust" \notin Left(d)' => Granting(d)'
  PROVE  Carrying(d)'
  <1>1. Member \in DOMAIN tx'[d].w /\ tx'[d].w[Member] = v
    BY DEF Wrote, Put, @@, :>
  <1> QED BY <1>1 DEF Carrying

LEMMA CarryingMakes ==
  ASSUME Base, NEW d \in Txs, Carrying(d), Selling(d), EarnedKept, IsMember(row[Member]),
         tx[d].op # None, tx[d].todo # <<>>, Statement(d), Makes(d, Head(tx[d].todo)), ~Skip(d)
  PROVE  Carrying(d)'
  <1> PICK s, k, o, of, m : /\ s = Head(tx[d].todo) /\ k = Payload(d).kind /\ o = tx[d].op
                            /\ of = Payload(d).of /\ m = Val(d, Member)
    OBVIOUS
  <1>1. /\ s \in Left(d) /\ s \in StepSet(k) /\ Whose(s, k)
        /\ Left(d)' = Left(d) \ {s} /\ tx'[d].op = tx[d].op /\ row' = row
        /\ \A f \in Fields \ FieldsOf(s) : f # "todo" => tx'[d][f] = tx[d][f]
        /\ \A r : r[1] \notin RowsOf(s) => /\ r \in DOMAIN tx'[d].w <=> r \in DOMAIN tx[d].w
                                           /\ r \in DOMAIN tx[d].w => tx'[d].w[r] = tx[d].w[r]
    BY Keeps
  <1>2. Payload(d)' = Payload(d) /\ Sound(d) /\ k = P[o].kind
    BY <1>1, BaseReady DEF Payload
  <1>3. IsMember(m) /\ (Member \notin tx[d].drift => Ties(d, m))
    BY MemberRead
  <1>4. UsedBy(d) \in Int /\ PointsBy(d) \in Int /\ row[Member].used \in Int /\ row[Member].points \in Int
    BY MovedInt DEF IsMember
  <1>5. tx[d].drift \subseteq tx'[d].drift
    BY DriftGrows
  <1>6. CASE s = "credit"
    <2>1. Credit(d) /\ k \in {"sale", "refund", "settle"}
      BY <1>1, <1>6, ByName DEF Whose
    <2>2. UsedBy(d) = 0 /\ UsedBy(d)' = CreditBy(o) /\ CreditBy(o) \in Int
      BY <1>1, <1>2, <1>6, <2>1, MemberPayload DEF UsedBy
    <2>3. PointsBy(d)' = PointsBy(d)
      BY <1>1, <1>2, <1>6, <2>1 DEF PointsBy
    <2> PICK by, new : by = CreditBy(o) /\ new = m.used + by
      OBVIOUS
    <2>4. CASE by = 0
      <3>1. tx'[d].w = tx[d].w /\ tx'[d].drift = tx[d].drift
        BY <1>2, <2>1, <2>4, CreditMakes
      <3> QED BY <1>1, <1>2, <2>1, <2>2, <2>3, <2>4, <3>1 DEF Carrying, Ties
    <2>5. CASE by # 0
      <3>1. /\ Wrote(d, Member, [m EXCEPT !.used = Most(0, new)])
            /\ tx'[d].drift = IF new < 0 THEN tx[d].drift \cup {Member} ELSE tx[d].drift
        BY <1>2, <2>1, <2>5, CreditMakes
      <3> PICK v : v = [m EXCEPT !.used = Most(0, new)]
        OBVIOUS
      <3>2. new \in Int /\ Most(0, new) \in Int /\ (new >= 0 => Most(0, new) = new)
        BY <1>3, <2>2 DEF IsMember, Most
      <3>3. v = [points |-> m.points, used |-> Most(0, new)]
        BY <1>3 DEF IsMember
      <3>4. IsMember(v)
        BY <1>3, <3>2, <3>3 DEF IsMember
      <3>5. ASSUME Member \notin tx'[d].drift PROVE Ties(d, v)'
        <4>1. new >= 0 /\ Member \notin tx[d].drift
          BY <3>1, <3>2, <3>5
        <4>2. m.used = row[Member].used + 0 /\ m.points = row[Member].points + PointsBy(d)
          BY <1>3, <2>2, <4>1 DEF Ties
        <4>3. v.used = row[Member].used + by /\ v.points = row[Member].points + PointsBy(d)
          BY <1>4, <2>2, <3>2, <3>3, <4>1, <4>2
        <4> QED BY <1>1, <2>2, <2>3, <4>3 DEF Ties
      <3> QED BY <1>1, <1>2, <2>1, <3>1, <3>4, <3>5, MemberWritten
    <2> QED BY <2>4, <2>5
  <1>7. CASE s = "earn"
    <2>1. Earn(d) /\ k = "sale"
      BY <1>1, <1>7, ByName DEF Whose
    <2>2. PointsBy(d) = 0 /\ PointsBy(d)' = EarnedBy(o) /\ EarnedBy(o) \in Int
      <3>1. EarnedBy(o) \in Int
        <4>1. EarnedBy(o) \in Nat
          BY <2>1, MemberPayload
        <4> QED BY <4>1
      <3>2. PointsBy(d) = 0
        BY <1>7, <1>1, <2>1 DEF PointsBy
      <3>3. PointsBy(d)' = EarnedBy(o)
        BY <1>1, <1>2, <1>7, <2>1 DEF PointsBy
      <3> QED BY <3>1, <3>2, <3>3
    <2>3. UsedBy(d)' = UsedBy(d) /\ tx'[d].drift = tx[d].drift
      BY <1>1, <1>2, <1>7, <2>1 DEF UsedBy, FieldsOf, Fields, LegSteps
    <2> PICK e : e = EarnedBy(o)
      OBVIOUS
    <2>4. CASE e = 0
      <3>1. tx'[d].w = tx[d].w
        BY <1>2, <2>1, <2>4, EarnMakes
      <3> QED BY <1>1, <1>2, <2>1, <2>2, <2>3, <2>4, <3>1 DEF Carrying, Ties
    <2>5. CASE e # 0
      <3>1. Wrote(d, Member, [m EXCEPT !.points = m.points + e])
        BY <1>2, <2>1, <2>5, EarnMakes
      <3> PICK v : v = [m EXCEPT !.points = m.points + e]
        OBVIOUS
      <3>2. v = [points |-> m.points + e, used |-> m.used] /\ m.points + e \in Int
        BY <1>3, <2>2 DEF IsMember
      <3>3. IsMember(v)
        BY <1>3, <3>2 DEF IsMember
      <3>4. ASSUME Member \notin tx'[d].drift PROVE Ties(d, v)'
        <4>1. m.used = row[Member].used + UsedBy(d) /\ m.points = row[Member].points + 0
          BY <1>3, <2>2, <2>3, <3>4 DEF Ties
        <4>2. v.used = row[Member].used + UsedBy(d) /\ v.points = row[Member].points + e
          BY <1>4, <2>2, <3>2, <4>1
        <4> QED BY <1>1, <2>2, <2>3, <4>2 DEF Ties
      <3> QED BY <1>1, <1>2, <2>1, <3>1, <3>3, <3>4, MemberWritten
    <2> QED BY <2>4, <2>5
  <1>8. CASE s = "member"
    <2>1. TakeBack(d) /\ k = "void"
      BY <1>1, <1>8, ByName DEF Whose
    <2>2. of \in Sold /\ EarnedBy(of) \in Nat /\ P[of].spend \in Nat /\ OnCredit(of) \in Nat
      BY <2>1, MemberPayload
    <2>3. row[SaleRow(of)].earned = EarnedBy(of)
      <3>1. "claim" \notin Left(d)
        <4>1. "claim" \in Left(d) => Rank(s) <= Rank("claim")
          BY <1>8, NextOf
        <4> QED BY <1>8, <4>1 DEF Rank
      <3>2. row[SaleRow(of)].state = "live"
        BY <2>1, <3>1 DEF Selling
      <3> QED BY <2>2, <3>2 DEF EarnedKept
    <2> PICK hand, owed : hand = P[of].spend - EarnedBy(of) /\ owed = OnCredit(of)
      OBVIOUS
    <2>4. hand \in Int /\ owed \in Int /\ HandedBack(of) = hand
      BY <2>2, <2>3 DEF HandedBack
    <2>5. /\ UsedBy(d) = 0 /\ PointsBy(d) = 0 /\ UsedBy(d)' = -owed /\ PointsBy(d)' = hand
      BY <1>1, <1>2, <1>8, <2>1 DEF UsedBy, PointsBy
    <2> PICK points, used : points = m.points + hand /\ used = m.used - owed
      OBVIOUS
    <2> PICK v : v = [points |-> Most(0, points), used |-> Most(0, used)]
      OBVIOUS
    <2>6. /\ Wrote(d, Member, v)
          /\ tx'[d].drift = IF points < 0 \/ used < 0 THEN tx[d].drift \cup {Member} ELSE tx[d].drift
      BY <1>2, <2>1, <2>4, TakeBackMakes
    <2>7. /\ points \in Int /\ used \in Int /\ Most(0, points) \in Int /\ Most(0, used) \in Int
          /\ (points >= 0 => Most(0, points) = points) /\ (used >= 0 => Most(0, used) = used)
      BY <1>3, <2>4 DEF IsMember, Most
    <2>8. IsMember(v)
      BY <2>7 DEF IsMember
    <2>9. ASSUME Member \notin tx'[d].drift PROVE Ties(d, v)'
      <3>1. points >= 0 /\ used >= 0 /\ Member \notin tx[d].drift
        BY <2>6, <2>7, <2>9
      <3>2. m.used = row[Member].used + 0 /\ m.points = row[Member].points + 0
        BY <1>3, <2>5, <3>1 DEF Ties
      <3>3. v.used = row[Member].used + -owed /\ v.points = row[Member].points + hand
        BY <1>4, <2>4, <2>7, <3>1, <3>2
      <3> QED BY <1>1, <2>5, <3>3 DEF Ties
    <2> QED BY <1>1, <1>2, <2>1, <2>6, <2>8, <2>9, MemberWritten
  <1>9. CASE s = "adjust"
    <2>1. Adjust(d) /\ k = "points"
      BY <1>1, <1>9, ByName DEF Whose
    <2> PICK by, redeem, seen, now, new : /\ by = Payload(d).by /\ redeem = Payload(d).redeem
                                          /\ seen = tx[d].seen /\ now = m.points
                                          /\ new = Most(0, now + by)
      OBVIOUS
    <2>2. by \in Int /\ redeem \in BOOLEAN
      BY <2>1, MemberPayload
    <2>3. seen \in Int /\ tx'[d].seen = tx[d].seen
      <3>1. "balance" \notin Left(d)
        <4>1. "balance" \in Left(d) => Rank(s) <= Rank("balance")
          BY <1>9, NextOf
        <4> QED BY <1>9, <4>1 DEF Rank
      <3>2. tx'[d].seen = tx[d].seen
        BY <1>1, <1>9 DEF FieldsOf, Fields, LegSteps
      <3> QED BY <2>1, <3>1, <3>2 DEF Carrying
    <2> PICK moved : moved = new - seen
      OBVIOUS
    <2>4. now \in Int /\ new \in Int /\ moved \in Int /\ (now + by >= 0 => new = now + by)
      BY <1>3, <2>2, <2>3 DEF IsMember, Most
    <2>5. /\ Wrote(d, Member, [m EXCEPT !.points = new])
          /\ tx'[d].drift = IF (IF redeem THEN now + by >= 0 ELSE seen = now)
                            THEN tx[d].drift ELSE tx[d].drift \cup {Member}
          /\ tx'[d].legs = IF redeem THEN NoLegs ELSE Lines(("6550" :> moved) @@ ("2350" :> -moved))
      BY <1>2, <2>1, AdjustMakes
    <2> PICK v : v = [m EXCEPT !.points = new]
      OBVIOUS
    <2>6. v = [points |-> new, used |-> m.used] /\ IsMember(v)
      BY <1>3, <2>4 DEF IsMember
    <2>7. PICK legs : legs = tx'[d].legs
      OBVIOUS
    <2>8. Leg(legs, "1040") = 0 /\ Leg(legs, "2350") = IF redeem THEN 0 ELSE -moved
      <3>1. CASE redeem
        BY <2>5, <2>7, <3>1, NoLeg
      <3>2. CASE ~redeem
        <4>1. PICK f : f = ("6550" :> moved) @@ ("2350" :> -moved)
          OBVIOUS
        <4>2. DOMAIN f = {"6550", "2350"} /\ f["2350"] = -moved
          BY <4>1 DEF @@, :>
        <4> QED BY <2>4, <2>5, <2>7, <3>2, <4>1, <4>2 DEF Leg, Lines
      <3> QED BY <3>1, <3>2
    <2>9. Granting(d)'
      BY <1>2, <2>4, <2>7, <2>8 DEF Granting
    <2>10. /\ UsedBy(d) = 0 /\ PointsBy(d) = 0 /\ UsedBy(d)' = 0
           /\ PointsBy(d)' = IF redeem THEN by ELSE -Leg(legs, "2350")
      BY <1>1, <1>2, <1>9, <2>1, <2>7 DEF UsedBy, PointsBy
    <2>11. ASSUME Member \notin tx'[d].drift PROVE Ties(d, v)'
      <3>1. Member \notin tx[d].drift /\ IF redeem THEN now + by >= 0 ELSE seen = now
        BY <2>5, <2>11
      <3>2. m.used = row[Member].used + 0 /\ m.points = row[Member].points + 0
        BY <1>3, <2>10, <3>1 DEF Ties
      <3>3. new = now + PointsBy(d)' /\ PointsBy(d)' \in Int
        <4>1. CASE redeem
          BY <2>2, <2>4, <2>10, <3>1, <4>1
        <4>2. CASE ~redeem
          <5>1. PointsBy(d)' = -(-moved)
            BY <2>8, <2>10, <4>2
          <5> QED BY <2>3, <2>4, <3>1, <4>2, <5>1
        <4> QED BY <2>2, <4>1, <4>2
      <3>4. v.used = row[Member].used + 0 /\ v.points = row[Member].points + PointsBy(d)'
        BY <1>4, <2>6, <3>2, <3>3
      <3> QED BY <1>1, <2>10, <3>4 DEF Ties
    <2> QED BY <1>1, <1>2, <2>3, <2>5, <2>6, <2>9, <2>11, MemberWritten
  <1>10. CASE s \notin {"credit", "earn", "member", "adjust"}
    <2>1. "member" \notin RowsOf(s) /\ Member[1] = "member"
      BY <1>10 DEF RowsOf, ClaimKinds, Member
    <2>2. /\ Member \in DOMAIN tx'[d].w <=> Member \in DOMAIN tx[d].w
          /\ Member \in DOMAIN tx[d].w => tx'[d].w[Member] = tx[d].w[Member]
      BY <1>1, <2>1
    <2>3. \A a \in {"credit", "earn", "member", "adjust"} : a \in Left(d)' <=> a \in Left(d)
      BY <1>1, <1>10
    <2>4. k = "points" /\ "adjust" \notin Left(d) => tx'[d].legs = tx[d].legs
      <3>1. k = "points" => s \notin LegSteps
        BY <1>1, <1>10 DEF StepSet, LegSteps
      <3> QED BY <1>1, <3>1 DEF FieldsOf, Fields
    <2>5. k = "points" /\ "balance" \notin Left(d)' => tx'[d].seen \in Int
      <3>1. CASE s = "balance"
        <4>1. Balance(d)
          BY <3>1, ByName
        <4> QED BY <1>2, <1>4, <4>1, BalanceMakes
      <3>2. CASE s # "balance"
        <4>1. k = "points" => tx'[d].seen = tx[d].seen
          BY <1>1, <1>10, <3>2 DEF StepSet, FieldsOf, Fields, LegSteps
        <4>2. "balance" \in Left(d)' <=> "balance" \in Left(d)
          BY <1>1, <3>2
        <4> QED BY <4>1, <4>2 DEF Carrying
      <3> QED BY <3>1, <3>2
    <2>6. UsedBy(d)' = UsedBy(d)
      BY <1>1, <1>2, <2>3 DEF UsedBy
    <2>7. PointsBy(d)' = PointsBy(d)
      BY <1>1, <1>2, <2>3, <2>4 DEF PointsBy
    <2>8. k = "points" /\ "adjust" \notin Left(d)' => Granting(d)'
      BY <1>2, <2>3, <2>4 DEF Carrying, Granting
    <2>9. Member \notin tx'[d].drift => Member \notin tx[d].drift
      BY <1>5
    <2> QED BY <1>1, <1>2, <2>2, <2>5, <2>6, <2>7, <2>8, <2>9 DEF Carrying, Ties
  <1> QED BY <1>6, <1>7, <1>8, <1>9, <1>10

\* What an op's own legs say of the member's accounts when it commits: what the
\* row has moved by, but for the points a sale spends and those a redemption takes.
SpentIn(d) == IF Payload(d).kind = "sale" THEN P[tx[d].op].spend ELSE 0
RedeemedIn(d) == IF Payload(d).kind = "points" /\ Payload(d).redeem THEN Payload(d).by ELSE 0
Agree(d) ==
  LET legs == tx[d].legs IN
  /\ Leg(legs, "1040") \in Int /\ Leg(legs, "2350") \in Int
  /\ UsedBy(d) = Leg(legs, "1040")
  /\ PointsBy(d) = -Leg(legs, "2350") + SpentIn(d) + RedeemedIn(d)
  /\ SpentIn(d) \in Nat /\ RedeemedIn(d) \in Int

LEMMA RefundLegs ==
  ASSUME NEW o \in Kinds({"refund"})
  PROVE  /\ Leg(RefundJournal(o), "1040") = CreditBy(o) /\ Leg(RefundJournal(o), "2350") = 0
  <1>1. P[o].amt \in Nat \ {0} /\ P[o].tender \in Tenders /\ P[o].kind = "refund"
    BY SalesAssumption DEF Kinds
  <1>2. PICK x, y, a, t : /\ RefundJournal(o) = Lines(("4000" :> x) @@ ("2200" :> y) @@ (t :> -a))
                          /\ a = P[o].amt /\ t = P[o].tender
    BY DEF RefundJournal
  <1>3. PICK f : f = ("4000" :> x) @@ ("2200" :> y) @@ (t :> -a)
    OBVIOUS
  <1>4. t \in {"1010", "1020", "1030", "1040"} /\ -a # 0
    BY <1>1, <1>2 DEF Tenders
  <1>5. DOMAIN f = {"4000", "2200", t} /\ f[t] = -a
    BY <1>3, <1>4 DEF @@, :>
  <1>6. Leg(Lines(f), "2350") = 0
    BY <1>4, <1>5 DEF Leg, Lines
  <1>7. Leg(Lines(f), "1040") = IF t = "1040" THEN -a ELSE 0
    BY <1>4, <1>5 DEF Leg, Lines
  <1>8. CreditBy(o) = IF t = "1040" THEN -a ELSE 0
    BY <1>1, <1>2 DEF CreditBy
  <1> QED BY <1>2, <1>3, <1>6, <1>7, <1>8

LEMMA SettlingLegs ==
  ASSUME NEW o \in Kinds({"settle"})
  PROVE  /\ Leg(SettleLegs(o), "1040") = CreditBy(o) /\ Leg(SettleLegs(o), "2350") = 0
  <1>1. P[o].kind = "settle" /\ P[o].amt \in Nat
    BY SalesAssumption DEF Kinds
  <1>2. PICK a : a = P[o].amt
    OBVIOUS
  <1>3. PICK f : f = ("1010" :> a) @@ ("1040" :> -a)
    OBVIOUS
  <1>4. DOMAIN f = {"1010", "1040"} /\ f["1040"] = -a
    BY <1>3 DEF @@, :>
  <1>5. Leg(Lines(f), "1040") = -a /\ Leg(Lines(f), "2350") = 0
    BY <1>1, <1>2, <1>4 DEF Leg, Lines
  <1>6. CreditBy(o) = -a /\ SettleLegs(o) = Lines(f)
    BY <1>1, <1>2, <1>3 DEF CreditBy, SettleLegs
  <1> QED BY <1>5, <1>6

LEMMA VoidLegs ==
  ASSUME NEW s \in Sold
  PROVE  /\ Leg(Opposite(SaleLegs(s)), "1040") = -OnCredit(s)
         /\ Leg(Opposite(SaleLegs(s)), "2350") = -(P[s].spend - EarnedBy(s))
  <1>1. \A a : Leg(SaleLegs(s), a) \in Int /\ Leg(Opposite(SaleLegs(s)), a) = -Leg(SaleLegs(s), a)
    <2>1. PICK f : f = SaleLegs(s)
      OBVIOUS
    <2>2. \A a \in DOMAIN f : f[a] \in Int
      BY <2>1, SaleLegsIs DEF IsLegs
    <2> QED BY <2>1, <2>2 DEF Leg, Opposite
  <1>2. Leg(SaleLegs(s), "1040") = OnCredit(s) /\ Leg(SaleLegs(s), "2350") = P[s].spend - EarnedBy(s)
    BY SquaredLeg, SaleJournalIs DEF SaleLegs
  <1> QED BY <1>1, <1>2

LEMMA Agreeing ==
  ASSUME Base, NEW d \in Txs, tx[d].op # None, Left(d) = {}, Standing(d), Reversing(d), Carrying(d),
      Quiet(d)
  PROVE  Agree(d)
  <1> PICK k, o, of, legs : k = Payload(d).kind /\ o = tx[d].op /\ of = Payload(d).of /\ legs = tx[d].legs
    OBVIOUS
  <1>1. o \in Ops /\ k = P[o].kind /\ of = P[o].of /\ Payload(d) = P[o]
    BY DEF Base, InHandOf, Payload
  <1>2. CASE k = "sale"
    <2>1. o \in Sold /\ legs = SaleJournal(o)
      BY <1>1, <1>2 DEF Standing, Billing, Bill, Sold, Kinds
    <2>2. P[o].spend \in Nat /\ EarnedBy(o) \in Nat /\ OnCredit(o) \in Nat
      BY <2>1, SoldPayload DEF OnCredit
    <2>3. Leg(legs, "1040") = OnCredit(o) /\ Leg(legs, "2350") = P[o].spend - EarnedBy(o)
      BY <2>1, SaleJournalIs
    <2>4. UsedBy(d) = OnCredit(o)
      BY <1>1, <1>2 DEF UsedBy, CreditBy
    <2>5. PointsBy(d) = EarnedBy(o)
      BY <1>1, <1>2 DEF PointsBy
    <2>6. SpentIn(d) = P[o].spend /\ RedeemedIn(d) = 0
      BY <1>2 DEF SpentIn, RedeemedIn
    <2> QED BY <2>2, <2>3, <2>4, <2>5, <2>6 DEF Agree
  <1>3. CASE k \in {"refund", "settle"}
    <2>1. Leg(legs, "1040") = CreditBy(o) /\ Leg(legs, "2350") = 0
      <3>1. CASE k = "refund"
        <4>1. legs = RefundJournal(o) /\ o \in Kinds({"refund"})
          BY <1>1, <3>1 DEF Standing, Billing, Bill, Kinds
        <4> QED BY <4>1, RefundLegs
      <3>2. CASE k = "settle"
        <4>1. legs = SettleLegs(o) /\ o \in Kinds({"settle"})
          BY <1>1, <3>2 DEF Standing, Billing, Kinds
        <4> QED BY <4>1, SettlingLegs
      <3> QED BY <1>3, <3>1, <3>2
    <2>2. CreditBy(o) \in Int
      BY <1>3, MemberPayload
    <2>3. UsedBy(d) = CreditBy(o) /\ PointsBy(d) = 0 /\ SpentIn(d) = 0 /\ RedeemedIn(d) = 0
      BY <1>3 DEF UsedBy, PointsBy, SpentIn, RedeemedIn
    <2> QED BY <2>1, <2>2, <2>3 DEF Agree
  <1>4. CASE k = "void"
    <2>1. of \in Sold /\ EarnedBy(of) \in Nat /\ P[of].spend \in Nat /\ OnCredit(of) \in Nat
      BY <1>4, MemberPayload
    <2>2. legs = Opposite(SaleLegs(of))
      BY <1>4 DEF Reversing
    <2>3. Leg(legs, "1040") = -OnCredit(of) /\ Leg(legs, "2350") = -(P[of].spend - EarnedBy(of))
      BY <2>1, <2>2, VoidLegs
    <2>4. UsedBy(d) = -OnCredit(of) /\ PointsBy(d) = P[of].spend - EarnedBy(of)
      BY <1>4 DEF UsedBy, PointsBy
    <2>5. SpentIn(d) = 0 /\ RedeemedIn(d) = 0
      BY <1>4 DEF SpentIn, RedeemedIn
    <2> QED BY <2>1, <2>3, <2>4, <2>5 DEF Agree
  <1>5. CASE k = "points"
    <2>1. Granting(d) /\ Payload(d).by \in Int /\ Payload(d).redeem \in BOOLEAN
      BY <1>5, MemberPayload DEF Carrying
    <2>2. UsedBy(d) = 0 /\ SpentIn(d) = 0
      BY <1>5 DEF UsedBy, SpentIn
    <2>3. CASE Payload(d).redeem
      <3>1. PointsBy(d) = Payload(d).by /\ RedeemedIn(d) = Payload(d).by
        BY <1>5, <2>3 DEF PointsBy, RedeemedIn
      <3> QED BY <2>1, <2>2, <2>3, <3>1 DEF Agree, Granting
    <2>4. CASE ~Payload(d).redeem
      <3>1. PointsBy(d) = -Leg(legs, "2350") /\ RedeemedIn(d) = 0
        BY <1>5, <2>4 DEF PointsBy, RedeemedIn
      <3> QED BY <2>1, <2>2, <2>4, <3>1 DEF Agree, Granting
    <2> QED BY <2>3, <2>4
  <1>6. CASE k \notin MemberKinds
    <2>1. Leg(legs, "1040") = 0 /\ Leg(legs, "2350") = 0
      BY <1>6 DEF Quiet, Away, MemberAccounts
    <2>2. UsedBy(d) = 0 /\ PointsBy(d) = 0 /\ SpentIn(d) = 0 /\ RedeemedIn(d) = 0
      BY <1>6 DEF UsedBy, PointsBy, SpentIn, RedeemedIn, MemberKinds
    <2> QED BY <2>1, <2>2 DEF Agree
  <1> QED BY <1>2, <1>3, <1>4, <1>5, <1>6 DEF MemberKinds

LegsKept == \A j \in journal : Leg(j.legs, "1040") \in Int /\ Leg(j.legs, "2350") \in Int
Redeemed == {o \in applied : P[o].kind = "points" /\ P[o].redeem}
Spending == SumFunction([s \in Taken |-> P[s].spend])
Redeeming == SumFunction([o \in Redeemed |-> P[o].by])

\* An account grows by the entry that is committed.
LEMMA AccountGains ==
  ASSUME Base, NEW d \in Txs, Posting(d), Commits(d), Ledger, NEW a, a # "4900",
         \A j \in journal : Leg(j.legs, a) \in Int, Leg(tx[d].legs, a) \in Int,
         ~HasEntry(d) => Leg(tx[d].legs, a) = 0
  PROVE  /\ BookedOn(a, journal') = BookedOn(a, journal) + Leg(tx[d].legs, a)
         /\ BookedOn(a, journal) \in Int /\ \A j \in journal' : Leg(j.legs, a) \in Int
  <1> PICK e, J, leg : e = Enters(d) /\ J = journal /\ leg = Leg(tx[d].legs, a)
    OBVIOUS
  <1>1. (HasEntry(d) => journal' = J \cup {e}) /\ (~HasEntry(d) => journal' = J)
    BY CommitEnters
  <1>2. e \notin J /\ IsFiniteSet(J)
    <2>1. e.op = tx[d].op
      BY DEF Enters
    <2>2. tx[d].op \notin applied
      BY Leaves
    <2> QED BY <2>1, <2>2 DEF Ledger, Numbered
  <1>3. Leg(e.legs, a) = leg
    <2>1. e.legs = Squared(tx[d].legs)
      BY DEF Enters
    <2> QED BY <2>1, SquaredLeg
  <1>4. \A j \in J \cup {e} : Leg(j.legs, a) \in Int
    BY <1>3
  <1>5. BookedOn(a, J \cup {e}) = BookedOn(a, J) + Leg(e.legs, a) /\ BookedOn(a, J) \in Int
    BY <1>2, <1>4, BookedMore
  <1>6. CASE HasEntry(d)
    BY <1>1, <1>3, <1>4, <1>5, <1>6
  <1>7. CASE ~HasEntry(d)
    <2>1. leg = 0 /\ journal' = J /\ BookedOn(a, J) + 0 = BookedOn(a, J)
      BY <1>1, <1>5, <1>7
    <2> QED BY <1>5, <2>1
  <1> QED BY <1>6, <1>7

\* A sum over one more.
LEMMA SumAdds ==
  ASSUME NEW f, NEW g, NEW x, IsFiniteSet(DOMAIN f), x \notin DOMAIN f, DOMAIN g = DOMAIN f \cup {x},
         \A y \in DOMAIN f : g[y] = f[y], \A y \in DOMAIN g : g[y] \in Int
  PROVE  SumFunction(g) = SumFunction(f) + g[x] /\ SumFunction(f) \in Int
  <1> PICK S : S = DOMAIN f
    OBVIOUS
  <1>1. SumFunction(g) = SumFunctionOnSet(g, S \cup {x}) /\ SumFunction(f) = SumFunctionOnSet(f, S)
    BY DEF SumFunction
  <1>2. SumFunctionOnSet(g, S \cup {x}) = SumFunctionOnSet(g, S) + g[x]
    BY SumMore
  <1>3. SumFunctionOnSet(f, S) = SumFunctionOnSet(g, S)
    BY SumSame
  <1>4. SumFunctionOnSet(f, S) \in Int
    BY SumType
  <1> QED BY <1>1, <1>2, <1>3, <1>4

\* What has been spent grows by a sale's, and by nothing else's.
LEMMA SpendingGains ==
  ASSUME Base, NEW d \in Txs, Standing(d), Commits(d), SalesNumbered, SaleRowsKept
  PROVE  Spending' = Spending + SpentIn(d) /\ Spending \in Int
  <1> PICK k, o, of, f : /\ k = Payload(d).kind /\ o = tx[d].op /\ of = Payload(d).of
                         /\ f = [s \in Taken |-> P[s].spend]
    OBVIOUS
  <1>1. o \in Ops /\ k = P[o].kind /\ o \notin applied
    BY Leaves DEF Base, InHandOf, Payload
  <1>2. /\ k = "sale" => o \in Sold /\ row'[SaleRow(o)] = NewSale(d)
        /\ k = "void" => /\ of \in Sold /\ row[SaleRow(of)].state = "live"
                         /\ row'[SaleRow(of)] = [row[SaleRow(of)] EXCEPT !.state = "void"]
        /\ \A s \in Sold : ~(k = "sale" /\ s = o) /\ ~(k = "void" /\ s = of) =>
             row'[SaleRow(s)] = row[SaleRow(s)]
    BY CommitSells
  <1>3. IsFiniteSet(Taken) /\ Taken \subseteq Sold /\ DOMAIN f = Taken /\ \A s \in Taken : f[s] \in Int
    <2>1. Taken \subseteq Sold
      BY DEF Taken
    <2>2. \A s \in Sold : P[s].spend \in Int
      BY SoldPayload
    <2> QED BY <2>1, <2>2 DEF SalesNumbered
  <1>4. Spending \in Int
    <2>1. SumFunctionOnSet(f, Taken) \in Int
      BY <1>3, SumType
    <2> QED BY <1>3, <2>1 DEF Spending, SumFunction
  <1>5. CASE k = "sale"
    <2>1. o \in Sold /\ o \notin Taken
      <3>1. row[SaleRow(o)].state = "none"
        BY <1>1, <1>2, <1>5 DEF Base, OnRecord
      <3> QED BY <1>2, <1>5, <3>1 DEF Taken, Live, Void
    <2>2. Taken' = Taken \cup {o}
      <3>1. row'[SaleRow(o)].state = "live"
        BY <1>2, <1>5 DEF NewSale
      <3>2. \A s \in Sold : s # o => row'[SaleRow(s)] = row[SaleRow(s)]
        BY <1>2, <1>5
      <3> QED BY <2>1, <3>1, <3>2 DEF Taken, Live, Void
    <2>3. PICK g : g = [s \in Taken \cup {o} |-> P[s].spend]
      OBVIOUS
    <2>4. P[o].spend \in Int
      BY <2>1, SoldPayload
    <2>5. \A s \in DOMAIN g : g[s] \in Int
      BY <1>3, <2>3, <2>4
    <2>6. SumFunction(g) = SumFunction(f) + g[o]
      <3>1. /\ IsFiniteSet(DOMAIN f) /\ o \notin DOMAIN f /\ DOMAIN g = DOMAIN f \cup {o}
            /\ \A y \in DOMAIN f : g[y] = f[y]
            /\ \A y \in DOMAIN g : g[y] \in Int
        BY <1>3, <2>1, <2>3, <2>5
      <3> QED BY <3>1, SumAdds
    <2>7. Spending' = SumFunction(g) /\ Spending = SumFunction(f)
      BY <2>2, <2>3 DEF Spending
    <2>8. g[o] = SpentIn(d)
      BY <1>5, <2>3 DEF SpentIn
    <2> QED BY <1>4, <2>6, <2>7, <2>8
  <1>6. CASE k # "sale"
    <2>1. \A s \in Sold : row'[SaleRow(s)].state \in {"live",
          "void"} <=> row[SaleRow(s)].state \in {"live", "void"}
      <3> SUFFICES ASSUME NEW s \in Sold
                   PROVE  row'[SaleRow(s)].state \in {"live",
                       "void"} <=> row[SaleRow(s)].state \in {"live", "void"}
        OBVIOUS
      <3>1. CASE k = "void" /\ s = of
        <4>1. PICK p, q : p = row[SaleRow(of)] /\ q = row'[SaleRow(of)]
          OBVIOUS
        <4>2. q = [p EXCEPT !.state = "void"] /\ p.state = "live"
              /\ p = [state |-> p.state, no |-> p.no, earned |-> p.earned, session |-> p.session]
          BY <1>2, <3>1, <4>1 DEF SaleRowsKept
        <4>3. q.state = "void"
          BY <4>2
        <4> QED BY <3>1, <4>1, <4>2, <4>3
      <3>2. CASE ~(k = "void" /\ s = of)
        BY <1>2, <1>6, <3>2
      <3> QED BY <3>1, <3>2
    <2>2. Taken' = Taken
      BY <2>1 DEF Taken, Live, Void
    <2>3. Spending' = Spending
      BY <2>2 DEF Spending
    <2>4. SpentIn(d) = 0
      BY <1>6 DEF SpentIn
    <2> QED BY <1>4, <2>3, <2>4
  <1> QED BY <1>5, <1>6

\* And what redemptions took by one's own.
LEMMA RedeemingGains ==
  ASSUME Base, NEW d \in Txs, Commits(d), applied \subseteq Ops
  PROVE  Redeeming' = Redeeming + RedeemedIn(d) /\ Redeeming \in Int
  <1> PICK k, o, f : k = Payload(d).kind /\ o = tx[d].op /\ f = [p \in Redeemed |-> P[p].by]
    OBVIOUS
  <1>1. o \in Ops /\ k = P[o].kind /\ o \notin applied /\ Payload(d) = P[o] /\ applied' = applied \cup {o}
    BY Leaves DEF Base, InHandOf, Payload
  <1>2. \A p \in Redeemed : P[p].by \in Int
    BY SalesAssumption DEF Redeemed, Kinds
  <1>3. IsFiniteSet(Redeemed)
    <2>1. Redeemed \subseteq Ops
      BY DEF Redeemed
    <2> QED BY <2>1, FS_Subset, OpsAssumption
  <1>4. DOMAIN f = Redeemed /\ Redeeming = SumFunction(f)
    BY DEF Redeeming
  <1>5. Redeeming \in Int
    <2>1. SumFunctionOnSet(f, Redeemed) \in Int
      BY <1>2, <1>3, SumType
    <2> QED BY <1>4, <2>1 DEF SumFunction
  <1>6. CASE k = "points" /\ P[o].redeem
    <2>1. Redeemed' = Redeemed \cup {o} /\ o \notin Redeemed
      BY <1>1, <1>6 DEF Redeemed
    <2>2. PICK g : g = [p \in Redeemed \cup {o} |-> P[p].by]
      OBVIOUS
    <2>3. P[o].by \in Int
      BY <1>1, <1>6, SalesAssumption DEF Kinds
    <2>4. \A p \in DOMAIN g : g[p] \in Int
      BY <1>2, <2>2, <2>3
    <2>5. SumFunction(g) = SumFunction(f) + g[o]
      <3>1. /\ IsFiniteSet(DOMAIN f) /\ o \notin DOMAIN f /\ DOMAIN g = DOMAIN f \cup {o}
            /\ \A y \in DOMAIN f : g[y] = f[y]
            /\ \A y \in DOMAIN g : g[y] \in Int
        BY <1>3, <1>4, <2>1, <2>2, <2>4
      <3> QED BY <3>1, SumAdds
    <2>6. Redeeming' = SumFunction(g)
      BY <2>1, <2>2 DEF Redeeming
    <2>7. g[o] = RedeemedIn(d)
      BY <1>1, <1>6, <2>2 DEF RedeemedIn
    <2> QED BY <1>4, <1>5, <2>5, <2>6, <2>7
  <1>7. CASE ~(k = "points" /\ P[o].redeem)
    <2>1. Redeemed' = Redeemed
      BY <1>1, <1>7 DEF Redeemed
    <2>2. RedeemedIn(d) = 0
      BY <1>1, <1>7 DEF RedeemedIn
    <2>3. Redeeming' = Redeeming
      BY <2>1 DEF Redeeming
    <2> QED BY <1>5, <2>2, <2>3
  <1> QED BY <1>6, <1>7

\* What other transactions do leaves an op's account of the member as it is.
LEMMA CarryingStays ==
  ASSUME NEW e, Carrying(e), Quiet(e),
      \A f \in {"op", "todo", "w", "legs", "seen", "drift"} : tx'[e][f] = tx[e][f],
         Member \in DOMAIN tx[e].w => row'[Member] = row[Member]
  PROVE  Carrying(e)' /\ Quiet(e)'
  <1>1. /\ tx'[e].op = tx[e].op /\ tx'[e].todo = tx[e].todo /\ tx'[e].w = tx[e].w
           /\ tx'[e].legs = tx[e].legs
        /\ tx'[e].seen = tx[e].seen /\ tx'[e].drift = tx[e].drift
    OBVIOUS
  <1>2. Payload(e)' = Payload(e) /\ Left(e)' = Left(e)
    BY <1>1 DEF Payload, Left
  <1>3. UsedBy(e)' = UsedBy(e) /\ PointsBy(e)' = PointsBy(e) /\ (Granting(e)' <=> Granting(e))
    BY <1>1, <1>2 DEF UsedBy, PointsBy, Granting
  <1>4. Carrying(e)'
    BY <1>1, <1>2, <1>3 DEF Carrying, Ties
  <1>5. Quiet(e)'
    BY <1>1, <1>2 DEF Quiet
  <1> QED BY <1>4, <1>5

LEMMA CarryingIdle ==
  ASSUME NEW e, tx'[e].op = None PROVE Carrying(e)' /\ Quiet(e)'
  BY DEF Carrying, Quiet

LEMMA CarryingBegins ==
  ASSUME Base, NEW d \in Txs, NEW o \in Ops, Begun(d, o) PROVE Carrying(d)' /\ Quiet(d)'
  <1> PICK k : k = P[o].kind
    OBVIOUS
  <1>1. /\ tx'[d].op = o /\ Left(d)' = StepSet(k) /\ Payload(d)' = P[o] /\ k \in AllKinds
        /\ DOMAIN tx'[d].w = {} /\ o # None
    BY Begins
  <1>2. /\ k \in {"sale", "refund", "settle"} => "credit" \in StepSet(k)
        /\ k = "void" => "member" \in StepSet(k)
        /\ k = "sale" => "earn" \in StepSet(k)
        /\ k = "points" => {"balance", "adjust"} \subseteq StepSet(k)
    BY DEF StepSet
  <1>3. UsedBy(d)' = 0 /\ PointsBy(d)' = 0
    BY <1>1, <1>2 DEF UsedBy, PointsBy
  <1>4. Carrying(d)'
    BY <1>1, <1>2, <1>3 DEF Carrying
  <1>5. k \notin MemberKinds => Away(tx'[d].legs)
    <2> SUFFICES ASSUME k \notin MemberKinds PROVE Away(tx'[d].legs)
      OBVIOUS
    <2>1. tx'[d].legs = IF k \in SalesKinds THEN SettleLegs(o)
                        ELSE IF k \in StockKinds THEN NoLegs ELSE OneEntry(o)
      BY DEF Begun
    <2>2. k # "settle" => SettleLegs(o) = NoLegs
      BY DEF SettleLegs
    <2> QED BY <2>1, <2>2, AwayNothing, AwayOffice DEF MemberKinds
  <1>6. Quiet(d)'
    BY <1>1, <1>5 DEF Quiet
  <1> QED BY <1>4, <1>6

\* loyalty_update has no way out but its entry.
LEMMA PointsRunThrough ==
  ASSUME Base, NEW d \in Txs, tx[d].op # None, Statement(d), Skip(d)
  PROVE  Payload(d).kind # "points"
  <1> SUFFICES ASSUME Payload(d).kind = "points" PROVE FALSE
    OBVIOUS
  <1> PICK s : s = Head(tx[d].todo)
    OBVIOUS
  <1>1. tx[d].todo # <<>> /\ Sound(d)
    BY ByName, BaseReady
  <1>2. s \in {"balance", "adjust", "ensure", "insert", "post"}
    BY <1>1, NextOf DEF StepSet
  <1>3. Makes(d, s)
    <2>1. CASE s = "balance"
      <3>1. Balance(d)
        BY <2>1, ByName
      <3> QED BY <1>1, <2>1, <3>1, BalanceMakes
    <2>2. CASE s = "adjust"
      <3>1. Adjust(d)
        BY <2>2, ByName
      <3> QED BY <1>1, <2>2, <3>1, AdjustMakes
    <2>3. CASE s = "ensure"
      <3>1. Ensure(d)
        BY <2>3, ByName
      <3> QED BY <1>1, <2>3, <3>1, EnsureMakes
    <2>4. CASE s = "insert"
      <3>1. InsertMonth(d)
        BY <2>4, ByName
      <3> QED BY <1>1, <2>4, <3>1, InsertMakes
    <2>5. CASE s = "post"
      <3>1. Post(d)
        BY <2>5, ByName
      <3> QED BY <1>1, <2>5, <3>1, PostMakes
    <2> QED BY <1>2, <2>1, <2>2, <2>3, <2>4, <2>5
  <1>4. tx'[d].op = tx[d].op
    BY <1>1, <1>3, Keeps
  <1>5. tx'[d].op = None
    BY Ends
  <1> QED BY <1>4, <1>5

\* Every transaction's account of the member, from step to step.
Accounts == \A d \in Txs : Carrying(d) /\ Quiet(d)

LEMMA AccountsStep ==
  ASSUME Base, \A d \in Txs : Standing(d), Accounts, EarnedKept, IsMember(row[Member]),
      [BooksNext]_bookVars
  PROVE  Accounts'
  <1>1. ASSUME NEW d \in Txs, StepOf(d) PROVE Accounts'
    <2>0. Carrying(d) /\ Quiet(d) /\ Selling(d)
      BY DEF Accounts, Standing
    <2>1. ASSUME row' = row, \A e \in Txs \ {d} : tx'[e] = tx[e], Carrying(d)' /\ Quiet(d)'
          PROVE  Accounts'
      <3>1. ASSUME NEW e \in Txs \ {d} PROVE Carrying(e)' /\ Quiet(e)'
        <4>1. Carrying(e) /\ Quiet(e) /\ tx'[e] = tx[e]
          BY <2>1, <3>1 DEF Accounts
        <4>2. \A f \in {"op", "todo", "w", "legs", "seen", "drift"} : tx'[e][f] = tx[e][f]
          BY <4>1
        <4> QED BY <2>1, <4>1, <4>2, CarryingStays
      <3> QED BY <2>1, <3>1 DEF Accounts
    <2>2. ASSUME NEW o \in Ops, Begun(d, o) PROVE Accounts'
      <3>1. row' = row /\ \A e \in Txs \ {d} : tx'[e] = tx[e]
        BY <2>2, Begins
      <3>2. Carrying(d)' /\ Quiet(d)'
        BY <2>2, CarryingBegins
      <3> QED BY <2>1, <3>1, <3>2
    <2>3. ASSUME (tx[d].op # None /\ Skip(d)) \/ Abort(d) PROVE Accounts'
      <3>1. tx'[d].op = None /\ row' = row /\ \A e \in Txs \ {d} : tx'[e] = tx[e]
        BY <2>3, Ends
      <3> QED BY <2>1, <3>1, CarryingIdle
    <2>4. ASSUME tx[d].op # None, tx[d].todo # <<>>, Statement(d), Makes(d, Head(tx[d].todo)), ~Skip(d)
          PROVE Accounts'
      <3>1. row' = row /\ \A e \in Txs \ {d} : tx'[e] = tx[e]
        BY <2>4, Keeps
      <3>2. Carrying(d)'
        BY <2>0, <2>4, CarryingMakes
      <3>3. Quiet(d)'
        BY <2>0, <2>4, QuietMakes
      <3> QED BY <2>1, <3>1, <3>2, <3>3
    <2>5. ASSUME Commits(d) PROVE Accounts'
      <3>1. /\ tx'[d].op = None
            /\ \A e \in Txs \ {d} : \A f \in Fields \ {"wasOpen", "wasShut"} : tx'[e][f] = tx[e][f]
            /\ \A e \in Txs \ {d} : \A r \in RowNames : r \in DOMAIN tx[e].w => row'[r] = row[r]
        BY <2>5, Leaves
      <3>2. ASSUME NEW e \in Txs \ {d} PROVE Carrying(e)' /\ Quiet(e)'
        <4>1. \A f \in {"op", "todo", "w", "legs", "seen", "drift"} : tx'[e][f] = tx[e][f]
          BY <3>1, <3>2 DEF Fields
        <4>2. Member \in DOMAIN tx[e].w => row'[Member] = row[Member]
          BY <3>1, <3>2 DEF RowNames
        <4>3. Carrying(e) /\ Quiet(e)
          BY <3>2 DEF Accounts
        <4> QED BY <4>1, <4>2, <4>3, CarryingStays
      <3>3. Carrying(d)' /\ Quiet(d)'
        BY <3>1, CarryingIdle
      <3> QED BY <3>2, <3>3 DEF Accounts
    <2> QED BY <1>1, <2>2, <2>3, <2>4, <2>5 DEF StepOf
  <1>2. CASE BooksNext
    BY <1>1, <1>2, Stepping
  <1>3. CASE UNCHANGED bookVars
    <2>1. tx' = tx /\ row' = row
      BY <1>3 DEF bookVars
    <2>2. ASSUME NEW e \in Txs PROVE Carrying(e)' /\ Quiet(e)'
      <3>1. \A f \in {"op", "todo", "w", "legs", "seen", "drift"} : tx'[e][f] = tx[e][f]
        BY <2>1
      <3>2. Carrying(e) /\ Quiet(e)
        BY DEF Accounts
      <3> QED BY <2>1, <3>1, <3>2, CarryingStays
    <2> QED BY <2>2 DEF Accounts
  <1> QED BY <1>2, <1>3

\* What is committed of the member, the sales and the books ties.
Tied ==
  Member \notin adrift =>
    /\ row[Member].used = Bal("1040")
    /\ row[Member].points = Points0 - Bal("2350") + Spending + Redeeming
MemberBooks == EarnedKept /\ IsMember(row[Member]) /\ LegsKept /\ applied \subseteq Ops /\ Tied

LEMMA EarnedCommits ==
  ASSUME Base, NEW d \in Txs, Standing(d), Commits(d), SaleRowsKept, EarnedKept PROVE EarnedKept'
  <1> PICK k, o, of : k = Payload(d).kind /\ o = tx[d].op /\ of = Payload(d).of
    OBVIOUS
  <1>1. /\ k = "sale" => o \in Sold /\ row'[SaleRow(o)] = NewSale(d)
        /\ k = "void" => /\ of \in Sold /\ row[SaleRow(of)].state = "live"
                         /\ row'[SaleRow(of)] = [row[SaleRow(of)] EXCEPT !.state = "void"]
        /\ \A s \in Sold : ~(k = "sale" /\ s = o) /\ ~(k = "void" /\ s = of) =>
             row'[SaleRow(s)] = row[SaleRow(s)]
    BY CommitSells
  <1> SUFFICES ASSUME NEW s \in Sold, row'[SaleRow(s)].state # "none"
               PROVE  row'[SaleRow(s)].earned = EarnedBy(s)
    BY DEF EarnedKept
  <1>2. CASE k = "sale" /\ s = o
    BY <1>1, <1>2 DEF NewSale
  <1>3. CASE k = "void" /\ s = of
    <2>1. PICK p, q : p = row[SaleRow(of)] /\ q = row'[SaleRow(of)]
      OBVIOUS
    <2>2. q = [p EXCEPT !.state = "void"] /\ p.state = "live"
          /\ p = [state |-> p.state, no |-> p.no, earned |-> p.earned, session |-> p.session]
      BY <1>1, <1>3, <2>1 DEF SaleRowsKept
    <2>3. q.earned = p.earned
      BY <2>2
    <2> QED BY <1>3, <2>1, <2>2, <2>3 DEF EarnedKept
  <1>4. CASE ~(k = "sale" /\ s = o) /\ ~(k = "void" /\ s = of)
    BY <1>1, <1>4 DEF EarnedKept
  <1> QED BY <1>2, <1>3, <1>4

\* An op without an entry has no legs on these accounts.
LEMMA UnbookedAway ==
  ASSUME Base, NEW d \in Txs, tx[d].op # None, Quiet(d), ~HasEntry(d), NEW a \in MemberAccounts
  PROVE  Leg(tx[d].legs, a) = 0
  <1>1. CASE Payload(d).kind \in MemberKinds
    <2>1. "post" \in StepSet(Payload(d).kind)
      BY <1>1 DEF MemberKinds, StepSet
    <2>2. tx[d].legs = NoLegs
      BY <2>1 DEF HasEntry, Books
    <2> QED BY <2>2, NoLeg
  <1>2. CASE Payload(d).kind \notin MemberKinds
    BY <1>2 DEF Quiet, Away
  <1> QED BY <1>1, <1>2

LEMMA MemberCommits ==
  ASSUME Base, NEW d \in Txs, Standing(d), Reversing(d), Carrying(d), Quiet(d), Commits(d), Ledger,
         SalesNumbered, SaleRowsKept, MemberBooks
  PROVE  MemberBooks'
  <1>1. /\ tx[d].op # None /\ Left(d) = {} /\ tx[d].op \in Ops /\ applied' = applied \cup {tx[d].op}
        /\ row'[Member] = IF Member \in DOMAIN tx[d].w THEN tx[d].w[Member] ELSE row[Member]
    BY Leaves DEF RowNames
  <1>2. applied' \subseteq Ops
    BY <1>1 DEF MemberBooks
  <1>3. EarnedKept'
    BY EarnedCommits DEF MemberBooks
  <1>4. PICK owed, owing, spent, redeemed, used, points :
          /\ owed = Leg(tx[d].legs, "1040") /\ owing = Leg(tx[d].legs, "2350")
          /\ spent = SpentIn(d) /\ redeemed = RedeemedIn(d) /\ used = UsedBy(d) /\ points = PointsBy(d)
    OBVIOUS
  <1>5. /\ owed \in Int /\ owing \in Int /\ used = owed /\ points = -owing + spent + redeemed
        /\ spent \in Int /\ redeemed \in Int
    <2>1. Agree(d)
      BY <1>1, Agreeing
    <2> QED BY <1>4, <2>1 DEF Agree
  <1>6. /\ BookedOn("1040", journal') = Bal("1040") + owed /\ Bal("1040") \in Int
        /\ BookedOn("2350", journal') = Bal("2350") + owing /\ Bal("2350") \in Int
        /\ LegsKept'
    <2>1. ASSUME NEW a \in MemberAccounts, Leg(tx[d].legs, a) \in Int
          PROVE  /\ BookedOn(a, journal') = BookedOn(a, journal) + Leg(tx[d].legs, a)
                 /\ BookedOn(a, journal) \in Int /\ \A j \in journal' : Leg(j.legs, a) \in Int
      <3>1. a # "4900" /\ \A j \in journal : Leg(j.legs, a) \in Int
        BY <2>1 DEF MemberAccounts, MemberBooks, LegsKept
      <3>2. ~HasEntry(d) => Leg(tx[d].legs, a) = 0
        BY <1>1, <2>1, UnbookedAway
      <3> QED BY <2>1, <3>1, <3>2, AccountGains DEF Standing
    <2>2. "1040" \in MemberAccounts /\ "2350" \in MemberAccounts
      BY DEF MemberAccounts
    <2> QED BY <1>4, <1>5, <2>1, <2>2 DEF Bal, LegsKept
  <1>7. /\ Spending' = Spending + spent /\ Spending \in Int
        /\ Redeeming' = Redeeming + redeemed /\ Redeeming \in Int
    BY <1>4, SpendingGains, RedeemingGains DEF MemberBooks
  <1>8. IsMember(row[Member])
    BY DEF MemberBooks
  <1>9. IsMember(row'[Member])
    BY <1>1, <1>8 DEF Carrying
  <1>10. ASSUME Member \notin tx[d].drift
         PROVE row'[Member].used = row[Member].used + used
             /\ row'[Member].points = row[Member].points + points
    <2>1. CASE Member \in DOMAIN tx[d].w
      <3>1. Ties(d, tx[d].w[Member])
        BY <1>1, <1>10, <2>1 DEF Carrying
      <3> QED BY <1>1, <1>4, <2>1, <3>1 DEF Ties
    <2>2. CASE Member \notin DOMAIN tx[d].w
      <3>1. used = 0 /\ points = 0
        BY <1>1, <1>4, <1>10, <2>2 DEF Carrying
      <3> QED BY <1>1, <1>8, <2>2, <3>1 DEF IsMember
    <2> QED BY <2>1, <2>2
  <1>11. Tied'
    <2> SUFFICES ASSUME Member \notin adrift'
                 PROVE  /\ row'[Member].used = BookedOn("1040", journal')
                        /\ row'[Member].points
                            = Points0 - BookedOn("2350", journal') + Spending' + Redeeming'
      BY DEF Tied, Bal
    <2>1. Member \notin adrift /\ Member \notin tx[d].drift
      BY DEF Commits
    <2>2. PICK u, p, b, c, taken, given, z :
            /\ u = row[Member].used /\ p = row[Member].points /\ b = Bal("1040") /\ c = Bal("2350")
            /\ taken = Spending /\ given = Redeeming /\ z = Points0
      OBVIOUS
    <2>3. u = b /\ p = z - c + taken + given
      BY <2>1, <2>2 DEF MemberBooks, Tied
    <2>4. u \in Int /\ p \in Int /\ b \in Int /\ c \in Int /\ taken \in Int /\ given \in Int /\ z \in Int
      BY <1>6, <1>7, <1>8, <2>2, SalesAssumption DEF IsMember
    <2>5. row'[Member].used = u + used /\ row'[Member].points = p + points
      BY <1>10, <2>1, <2>2
    <2>6. u + used = b + owed /\ p + points = z - (c + owing) + (taken + spent) + (given + redeemed)
      BY <1>5, <2>3, <2>4
    <2> QED BY <1>6, <1>7, <2>2, <2>5, <2>6
  <1> QED BY <1>2, <1>3, <1>6, <1>9, <1>11 DEF MemberBooks

LEMMA MemberStays ==
  ASSUME MemberBooks, row' = row, journal' = journal, adrift' = adrift, Redeemed' = Redeemed,
         applied' \subseteq Ops
  PROVE  MemberBooks'
  <1>1. Taken' = Taken
    BY DEF Taken, Live, Void
  <1>2. Spending' = Spending /\ Redeeming' = Redeeming
    BY <1>1 DEF Spending, Redeeming
  <1>3. EarnedKept' /\ LegsKept'
    BY DEF MemberBooks, EarnedKept, LegsKept
  <1>4. Tied'
    BY <1>2 DEF MemberBooks, Tied, Bal
  <1> QED BY <1>3, <1>4 DEF MemberBooks

-----------------------------------------------------------------------------
(* The member's balances are what the books say of them.                   *)

MemberInv == SalesInv /\ Accounts /\ MemberBooks

LEMMA MemberStep ==
  ASSUME MemberInv, [BooksNext]_bookVars PROVE MemberInv'
  <1>0. /\ Base /\ (\A d \in Txs : Standing(d)) /\ SaleRowsKept /\ Ledger /\ SalesNumbered
        /\ (\A d \in Txs : Reversing(d)) /\ Accounts /\ MemberBooks
    BY DEF MemberInv, SalesInv, Documents
  <1>1. SalesInv' /\ Accounts'
    <2>1. EarnedKept /\ IsMember(row[Member])
      BY <1>0 DEF MemberBooks
    <2>2. Accounts'
      BY <1>0, <2>1, AccountsStep
    <2>3. SalesInv'
      BY SalesStep DEF MemberInv
    <2> QED BY <2>2, <2>3
  <1>2. ASSUME NEW d \in Txs, StepOf(d) PROVE MemberBooks'
    <2>1. CASE \E o \in Ops : Begun(d, o)
      <3>1. row' = row /\ journal' = journal /\ adrift' = adrift /\ applied' = applied
        BY <1>0, <2>1, Begins
      <3> QED BY <1>0, <3>1, MemberStays DEF Redeemed, MemberBooks
    <2>2. CASE tx[d].op # None /\ tx[d].todo # <<>> /\ Statement(d) /\ Makes(d, Head(tx[d].todo))
      <3>1. row' = row /\ journal' = journal /\ adrift' = adrift /\ applied' = applied
        BY <1>0, <2>2, Keeps
      <3> QED BY <1>0, <3>1, MemberStays DEF Redeemed, MemberBooks
    <2>3. CASE tx[d].op # None /\ Statement(d) /\ Skip(d)
      <3>1. row' = row /\ journal' = journal /\ adrift' = adrift
        BY <1>0, <2>3, Ends
      <3>2. applied' = applied \cup {tx[d].op}
        BY <2>3 DEF Skip
      <3>3. tx[d].op \in Ops /\ P[tx[d].op].kind # "points"
        <4>1. Payload(d).kind # "points"
          BY <1>0, <2>3, PointsRunThrough
        <4> QED BY <1>0, <2>3, <4>1 DEF Base, InHandOf, Payload
      <3>4. Redeemed' = Redeemed
        BY <3>2, <3>3 DEF Redeemed
      <3>5. applied' \subseteq Ops
        BY <1>0, <3>2, <3>3 DEF MemberBooks
      <3> QED BY <1>0, <3>1, <3>4, <3>5, MemberStays
    <2>4. CASE Commits(d)
      <3>1. Standing(d) /\ Reversing(d) /\ Carrying(d) /\ Quiet(d)
        BY <1>0 DEF Accounts
      <3> QED BY <1>0, <2>4, <3>1, MemberCommits
    <2>5. CASE Abort(d)
      <3>1. row' = row /\ journal' = journal /\ adrift' = adrift /\ applied' = applied
        BY <2>5 DEF Abort, Stays
      <3> QED BY <1>0, <3>1, MemberStays DEF Redeemed, MemberBooks
    <2> QED BY <1>2, <2>1, <2>2, <2>3, <2>4, <2>5 DEF StepOf
  <1>3. CASE BooksNext
    <2>1. MemberBooks'
      BY <1>0, <1>2, <1>3, Stepping
    <2> QED BY <1>1, <2>1 DEF MemberInv
  <1>4. CASE UNCHANGED bookVars
    <2>1. row' = row /\ journal' = journal /\ adrift' = adrift /\ applied' = applied
      BY <1>4 DEF bookVars
    <2>2. MemberBooks'
      BY <1>0, <2>1, MemberStays DEF Redeemed, MemberBooks
    <2> QED BY <1>1, <2>2 DEF MemberInv
  <1> QED BY <1>3, <1>4

LEMMA MemberInit ==
  ASSUME BooksInit PROVE MemberInv
  <1>1. journal = {} /\ applied = {} /\ tx = [d \in Txs |-> Idle] /\ Idle.op = None
    BY DEF BooksInit, Idle
  <1>2. Accounts
    BY <1>1 DEF Accounts, Carrying, Quiet
  <1>3. row[Member] = [points |-> Points0, used |-> 0] /\ \A s \in Sold : row[SaleRow(s)].state = "none"
    <2>1. NoSale.state = "none"
      BY DEF NoSale
    <2> QED BY <2>1, FirstRow
  <1>4. Points0 \in Int /\ row[Member].points = Points0 /\ row[Member].used = 0
    BY <1>3, SalesAssumption
  <1>5. IsMember(row[Member])
    BY <1>3, <1>4 DEF IsMember
  <1>6. Taken = {} /\ Redeemed = {}
    BY <1>1, <1>3 DEF Taken, Live, Void, Redeemed
  <1>7. Spending = 0 /\ Redeeming = 0
    <2>1. PICK f, g : f = [s \in Taken |-> P[s].spend] /\ g = [o \in Redeemed |-> P[o].by]
      OBVIOUS
    <2>2. DOMAIN f = {} /\ DOMAIN g = {}
      BY <1>6, <2>1
    <2>3. SumFunctionOnSet(f, {}) = 0 /\ SumFunctionOnSet(g, {}) = 0
      BY SumNothing
    <2> QED BY <2>1, <2>2, <2>3 DEF Spending, Redeeming, SumFunction
  <1>8. Bal("1040") = 0 /\ Bal("2350") = 0
    BY <1>1, BookedNone DEF Bal
  <1>9. Tied
    BY <1>4, <1>7, <1>8 DEF Tied
  <1>10. MemberBooks
    BY <1>1, <1>3, <1>5, <1>9 DEF MemberBooks, EarnedKept, LegsKept
  <1> QED BY <1>2, <1>10, SalesInit DEF MemberInv

LEMMA MemberHeld == ASSUME MemberInv PROVE MemberTies
  <1>1. Tied
    BY DEF MemberInv, MemberBooks
  <1> QED BY <1>1 DEF MemberTies, Tied, Spending, Redeeming, Redeemed

\* What a member owes and holds is what the books owe and are owed, whichever sales,
\* refunds, voids, settlements and adjustments overlap, arrive late or are rolled back.
THEOREM MemberAlwaysTies == BooksSpec => []MemberTies
  <1>1. BooksInit => MemberInv
    BY MemberInit
  <1>2. MemberInv /\ [BooksNext]_bookVars => MemberInv'
    BY MemberStep
  <1>3. MemberInv => MemberTies
    BY MemberHeld
  <1> QED BY <1>1, <1>2, <1>3, PTL DEF BooksSpec

-----------------------------------------------------------------------------
(* The push handler: it books every op once or never, answers only for   *)
(* what is booked, and implements OpLog.                                   *)

Inv == TypeOK /\ ExactlyOnce /\ OpenWork /\ AckedIsBooked

USE LamportAssumption, KindAssumption, ChunkAssumption

-----------------------------------------------------------------------------
(* The op in hand.                                                         *)

\* The positions of a delivery are numbers.
LEMMA Positions ==
  ASSUME TypeOK, NEW r \in Req
  PROVE  DOMAIN batch[r] = 1..Len(batch[r]) /\ Len(batch[r]) \in Nat
<1>1. batch[r] \in Seq(Op)
  BY DEF TypeOK
<1> QED BY <1>1

\* A delivery has at most one op in hand: the order of positions is total.
LEMMA OneInHand ==
  ASSUME TypeOK, NEW r \in Req, NEW o \in Op, NEW p \in Op, InHand(r, o), InHand(r, p)
  PROVE  o = p
<1>1. PICK i \in DOMAIN batch[r] : IsNext(r, i) /\ batch[r][i] = o
  BY DEF InHand
<1>2. PICK j \in DOMAIN batch[r] : IsNext(r, j) /\ batch[r][j] = p
  BY DEF InHand
<1>3. DOMAIN batch[r] \subseteq Nat
  BY Positions
<1>4. Lamport[o] \in Nat /\ Lamport[p] \in Nat
  OBVIOUS
<1>5. i = j
  BY <1>1, <1>2, <1>3, <1>4 DEF IsNext, Before
<1> QED BY <1>1, <1>2, <1>5

-----------------------------------------------------------------------------
(* Type correctness.                                                       *)

\* Answering the op in hand keeps the types of what it changes.
LEMMA AnsweredType ==
  ASSUME TypeOK, NEW r \in Req, NEW o \in Op, NEW v \in Verdicts, Answered(r, o, v)
  PROVE  /\ out' \in [Req -> SUBSET (Op \X Verdicts)]
         /\ done' \in [Req -> SUBSET Nat]
         /\ chunk' \in [Req -> Nat]
         /\ pc' \in [Req -> {"idle", "next", "apply", "insert", "check", "answer"}]
<1>1. {i \in DOMAIN batch[r] : IsNext(r, i)} \subseteq Nat
  BY Positions
<1>2. <<o, v>> \in Op \X Verdicts
  OBVIOUS
<1> QED BY <1>1, <1>2 DEF Answered, TypeOK

\* A fresh transaction is a transaction.
LEMMA NoWorkType == NoWork \in Transactions
BY DEF NoWork, Transactions

\* So is one after SET CONSTRAINTS, an op's work, or its op_log row.
LEMMA TransactionTypes ==
  ASSUME NEW t \in Transactions
  PROVE  /\ \A m \in BOOLEAN : SetImmediate(t, m) \in Transactions
         /\ \A o \in Op : Worked(t, o) \in Transactions /\ Logged(t, o) \in Transactions
BY DEF Transactions, SetImmediate, Worked, Logged

\* The verdicts, spelled out.
LEMMA VerdictsType == {"ok", "replay", "duplicate", "refused", "unbalanced", "aborted"} = Verdicts
BY DEF Verdicts, Errors

\* A handler that is gone leaves typed variables behind.
LEMMA ForgetType ==
  ASSUME TypeOK, NEW r \in Req, Forget(r)
  PROVE  /\ pc' \in [Req -> {"idle", "next", "apply", "insert", "check", "answer"}]
         /\ batch' \in [Req -> Seq(Op)] /\ done' \in [Req -> SUBSET Nat] /\ chunk' \in [Req -> Nat]
         /\ inBatch' \in [Req -> SUBSET Op] /\ txn' \in [Req -> Transactions] /\ sp' \in [Req -> Transactions]
         /\ out' \in [Req -> SUBSET (Op \X Verdicts)] /\ results' \in [Req -> SUBSET (Op \X Verdicts)]
BY NoWorkType DEF Forget, TypeOK

\* The initial states are typed.
LEMMA TypeInit == Init => TypeOK
<1>1. [r \in Req |-> <<>>] \in [Req -> Seq(Op)]
  OBVIOUS
<1> QED BY <1>1, NoWorkType DEF Init, TypeOK

\* Every statement of the handler keeps the types.
LEMMA TypeStep == TypeOK /\ [Next]_vars => TypeOK'
<1> SUFFICES ASSUME TypeOK, [Next]_vars PROVE TypeOK'
  OBVIOUS
<1> USE VerdictsType
<1>1. ASSUME NEW r \in Req, Arrive(r) PROVE TypeOK'
  <2>1. \A n \in 0..MaxPush : [1..n -> Op] \subseteq Seq(Op)
    OBVIOUS
  <2>2. Deliveries \subseteq Seq(Op)
    BY <2>1 DEF Deliveries
  <2> QED BY <1>1, <2>2 DEF Arrive, TypeOK, shared
<1>2. ASSUME NEW r \in Req, Look(r) PROVE TypeOK'
  <2>1. PICK o \in Op : /\ InHand(r, o)
                        /\ inBatch' = [inBatch EXCEPT ![r] = @ \cup {o}]
    BY <1>2 DEF Look
  <2>2. inBatch' \in [Req -> SUBSET Op]
    BY <2>1 DEF TypeOK
  <2>3. CASE \E p \in Op : /\ Answered(r, p, "duplicate") \/ Answered(r, p, "replay")
                           /\ UNCHANGED <<txn, sp>>
    BY <1>2, <2>2, <2>3, AnsweredType DEF Look, TypeOK, shared
  <2>4. CASE /\ sp' = [sp EXCEPT ![r] = txn[r]]
             /\ txn' = [txn EXCEPT ![r] = SetImmediate(@, FALSE)]
             /\ pc' = [pc EXCEPT ![r] = "apply"]
             /\ UNCHANGED <<done, chunk, out>>
    <3>1. SetImmediate(txn[r], FALSE) \in Transactions
      BY TransactionTypes DEF TypeOK
    <3>2. sp' \in [Req -> Transactions] /\ txn' \in [Req -> Transactions]
      BY <2>4, <3>1 DEF TypeOK
    <3> QED BY <1>2, <2>2, <2>4, <3>2 DEF Look, TypeOK, shared
  <2> QED BY <1>2, <2>3, <2>4 DEF Look
<1>3. ASSUME NEW r \in Req, Apply(r) PROVE TypeOK'
  <2>1. PICK o \in Op : IF txn[r].immediate /\ o \in Posts
            THEN Answered(r, o, "unbalanced") /\ RollBackToSavepoint(r)
            ELSE /\ txn' = [txn EXCEPT ![r] = Worked(@, o)]
                 /\ pc' = [pc EXCEPT ![r] = "insert"]
                 /\ UNCHANGED <<done, chunk, out>>
    BY <1>3 DEF Apply
  <2>a. UNCHANGED <<log, books, acked, noticed, batch, inBatch, sp, results>>
    BY <1>3 DEF Apply, shared
  <2>2. CASE txn[r].immediate /\ o \in Posts
    BY <2>a, <2>1, <2>2, AnsweredType DEF TypeOK, RollBackToSavepoint
  <2>3. CASE ~(txn[r].immediate /\ o \in Posts)
    <3>a. txn[r] \in Transactions /\ txn \in [Req -> Transactions]
      BY DEF TypeOK
    <3>b. Worked(txn[r], o) \in Transactions
      BY <3>a, TransactionTypes
    <3>c. txn' = [txn EXCEPT ![r] = Worked(txn[r], o)]
      BY <2>1, <2>3
    <3>1. txn' \in [Req -> Transactions]
      BY <3>a, <3>b, <3>c
    <3> QED BY <2>a, <2>1, <2>3, <3>1 DEF TypeOK
  <2> QED BY <2>2, <2>3
<1>4. ASSUME NEW r \in Req, Refuse(r) PROVE TypeOK'
  BY <1>4, AnsweredType DEF Refuse, TypeOK, shared, RollBackToSavepoint
<1>5. ASSUME NEW r \in Req, Insert(r) PROVE TypeOK'
  <2>1. PICK o \in Op : IF o \in log
            THEN Answered(r, o, "replay") /\ RollBackToSavepoint(r)
            ELSE /\ txn' = [txn EXCEPT ![r] = Logged(@, o)]
                 /\ pc' = [pc EXCEPT ![r] = "check"]
                 /\ UNCHANGED <<done, chunk, out>>
    BY <1>5 DEF Insert
  <2>a. UNCHANGED <<log, books, acked, noticed, batch, inBatch, sp, results>>
    BY <1>5 DEF Insert, shared
  <2>2. CASE o \in log
    BY <2>a, <2>1, <2>2, AnsweredType DEF TypeOK, RollBackToSavepoint
  <2>3. CASE o \notin log
    <3>a. txn[r] \in Transactions /\ txn \in [Req -> Transactions]
      BY DEF TypeOK
    <3>b. Logged(txn[r], o) \in Transactions
      BY <3>a, TransactionTypes
    <3>c. txn' = [txn EXCEPT ![r] = Logged(txn[r], o)]
      BY <2>1, <2>3
    <3>1. txn' \in [Req -> Transactions]
      BY <3>a, <3>b, <3>c
    <3> QED BY <2>a, <2>1, <2>3, <3>1 DEF TypeOK
  <2> QED BY <2>2, <2>3
<1>6. ASSUME NEW r \in Req, AbortWait(r) PROVE TypeOK'
  BY <1>6, AnsweredType DEF AbortWait, TypeOK, shared, RollBackToSavepoint
<1>7. ASSUME NEW r \in Req, Check(r) PROVE TypeOK'
  <2>1. PICK o \in Op : IF txn[r].pend = {}
            THEN /\ Answered(r, o, "ok")
                 /\ txn' = [txn EXCEPT ![r] = SetImmediate(@, TRUE)]
            ELSE /\ Answered(r, o, "unbalanced")
                 /\ RollBackToSavepoint(r)
    BY <1>7 DEF Check
  <2>a. UNCHANGED <<log, books, acked, noticed, batch, inBatch, sp, results>>
    BY <1>7 DEF Check, shared
  <2>2. txn' \in [Req -> Transactions]
    <3>1. txn[r] \in Transactions /\ txn \in [Req -> Transactions] /\ sp[r] \in Transactions
      BY DEF TypeOK
    <3>2. SetImmediate(txn[r], TRUE) \in Transactions
      BY <3>1, TransactionTypes
    <3> QED BY <2>1, <3>1, <3>2 DEF RollBackToSavepoint
  <2>3. \E v \in Verdicts : Answered(r, o, v)
    BY <2>1
  <2> QED BY <2>a, <2>2, <2>3, AnsweredType DEF TypeOK
<1>8. ASSUME NEW r \in Req, Committed(r)
      PROVE  log' \subseteq Op /\ books' \in [Op -> Nat] /\ acked' \subseteq Op
  BY <1>8 DEF Committed, TypeOK, Transactions
<1>9. ASSUME NEW r \in Req, Commit(r) PROVE TypeOK'
  <2>1. \A n \in Nat : Cap(n) \in 0..2
    BY DEF Cap
  <2>2. \A o \in Op : noticed[o] + 0 \in Nat /\ noticed[o] + 1 \in Nat
    <3>1. noticed \in [Op -> 0..2]
      BY DEF TypeOK
    <3> QED BY <3>1
  <2>3. noticed' \in [Op -> 0..2]
    BY <1>9, <2>1, <2>2 DEF Commit
  <2>4. results' \in [Req -> SUBSET (Op \X Verdicts)] /\ out' \in [Req -> SUBSET (Op \X Verdicts)]
    BY <1>9 DEF Commit, TypeOK
  <2> QED BY <1>8, <1>9, <2>3, <2>4, NoWorkType DEF Commit, TypeOK
<1>10. ASSUME NEW r \in Req, CommitUnheard(r) PROVE TypeOK'
  BY <1>8, <1>10, ForgetType DEF CommitUnheard, TypeOK
<1>11. ASSUME NEW r \in Req, Fail(r) PROVE TypeOK'
  BY <1>11, ForgetType DEF Fail, TypeOK, shared
<1>12. ASSUME NEW r \in Req, Answer(r) PROVE TypeOK'
  BY <1>12, ForgetType DEF Answer, TypeOK
<1>13. CASE UNCHANGED vars
  BY <1>13 DEF vars, TypeOK
<1> QED BY <1>1, <1>2, <1>3, <1>4, <1>5, <1>6, <1>7, <1>9, <1>10, <1>11, <1>12, <1>13 DEF Next, Step

-----------------------------------------------------------------------------
(* What a step of one delivery leaves alone.                               *)

\* A step of r: one of its handler's statements, its arrival or its failure.
Moves(r) == Arrive(r) \/ Step(r) \/ AbortWait(r) \/ CommitUnheard(r) \/ Fail(r)

Kept(s) ==
  /\ pc'[s] = pc[s] /\ batch'[s] = batch[s] /\ done'[s] = done[s] /\ inBatch'[s] = inBatch[s]
  /\ txn'[s] = txn[s] /\ sp'[s] = sp[s] /\ out'[s] = out[s] /\ results'[s] = results[s]

\* The op in hand depends on the batch and on what is dealt with, nothing else.
LEMMA KeptInHand ==
  ASSUME NEW s \in Req, NEW o \in Op, batch'[s] = batch[s], done'[s] = done[s]
  PROVE  InHand(s, o)' <=> InHand(s, o)
BY DEF InHand, IsNext

\* A statement of one delivery leaves the private state of the others alone.
LEMMA OthersKept ==
  ASSUME TypeOK, NEW r \in Req, NEW s \in Req \ {r}, Moves(r)
  PROVE  Kept(s)
<1> USE DEF TypeOK, Kept, shared
<1>1. CASE Arrive(r)
  BY <1>1 DEF Arrive
<1>2. CASE Look(r)
  BY <1>2 DEF Look, Answered
<1>3. CASE Apply(r)
  BY <1>3 DEF Apply, Answered, RollBackToSavepoint
<1>4. CASE Refuse(r)
  BY <1>4 DEF Refuse, Answered, RollBackToSavepoint
<1>5. CASE Insert(r)
  BY <1>5 DEF Insert, Answered, RollBackToSavepoint
<1>6. CASE AbortWait(r)
  BY <1>6 DEF AbortWait, Answered, RollBackToSavepoint
<1>7. CASE Check(r)
  <2>1. PICK o \in Op, v \in {"ok", "unbalanced"}, t \in {SetImmediate(txn[r], TRUE), sp[r]} :
          Answered(r, o, v) /\ txn' = [txn EXCEPT ![r] = t]
    BY <1>7 DEF Check, RollBackToSavepoint
  <2>2. UNCHANGED <<shared, batch, inBatch, sp, results>>
    BY <1>7 DEF Check
  <2> QED BY <2>1, <2>2 DEF Answered
<1>8. CASE Commit(r)
  BY <1>8 DEF Commit
<1>9. CASE CommitUnheard(r)
  BY <1>9 DEF CommitUnheard, Forget
<1>10. CASE Fail(r)
  BY <1>10 DEF Fail, Forget
<1>11. CASE Answer(r)
  BY <1>11 DEF Answer, Forget
<1> QED
  BY <1>1, <1>2, <1>3, <1>4, <1>5, <1>6, <1>7, <1>8, <1>9, <1>10, <1>11 DEF Moves, Step

\* The parts that speak of one delivery survive another's step.
LEMMA OthersHold ==
  ASSUME NEW s \in Req, Kept(s), WorkIsLogged(s), AnswersHold(s), log \subseteq log'
  PROVE  WorkIsLogged(s)' /\ AnswersHold(s)'
<1>1. \A o \in Op : InHand(s, o)' <=> InHand(s, o)
  BY KeptInHand DEF Kept
<1>2. WorkIsLogged(s)'
  BY <1>1 DEF Kept, WorkIsLogged, Tally
<1>3. AnswersHold(s)'
  BY <1>1 DEF Kept, AnswersHold, Says
<1> QED BY <1>2, <1>3

-----------------------------------------------------------------------------
(* The ways an op in hand is answered.                                     *)

\* Undone to its savepoint, and answered with anything but "ok".
LEMMA Undone ==
  ASSUME Inv, NEW r \in Req, NEW o \in Op, NEW v \in Verdicts \ {"ok", "duplicate"},
         InHand(r, o), pc[r] \in Busy, v = "replay" => o \in log,
         Answered(r, o, v), RollBackToSavepoint(r),
         UNCHANGED <<shared, batch, inBatch, sp, results>>,
         \A s \in Req \ {r} : Kept(s)
  PROVE  OpenWork'
<1> USE DEF Inv
<1>1. /\ pc'[r] = "next" /\ txn'[r] = sp[r] /\ sp'[r] = sp[r] /\ out'[r] = out[r] \cup {<<o, v>>}
      /\ results'[r] = results[r] /\ inBatch'[r] = inBatch[r] /\ log' = log
  BY DEF TypeOK, Answered, RollBackToSavepoint, shared
<1>2. KeysHeldOnce(r) /\ WorkIsLogged(r) /\ AnswersHold(r)
  BY DEF OpenWork
<1>3. WorkIsLogged(r)'
  BY <1>1, <1>2 DEF WorkIsLogged, Tally
<1>4. AnswersHold(r)'
  <2> SUFFICES ASSUME NEW p \in Op
               PROVE  /\ Says(results[r], p, {"ok", "replay"}) => p \in log
                      /\ Says(out'[r], p, {"ok", "replay"}) => p \in log \cup txn'[r].log
                      /\ Says(results[r] \cup out'[r], p, {"duplicate"}) => p \in inBatch[r]
                      /\ p \in inBatch[r] => Says(results[r] \cup out'[r], p, Verdicts \ {"duplicate"})
    BY <1>1 DEF AnswersHold, Busy
  <2>1. Says(out'[r], p, {"ok", "replay"}) => p \in log \cup txn'[r].log
    BY <1>1, <1>2 DEF AnswersHold, Says
  <2>2. Says(results[r] \cup out'[r], p, {"duplicate"}) => p \in inBatch[r]
    BY <1>1, <1>2 DEF AnswersHold, Says
  <2>3. ASSUME p \in inBatch[r] PROVE Says(results[r] \cup out'[r], p, Verdicts \ {"duplicate"})
    <3>1. CASE InHand(r, p)
      BY <1>1, <3>1, OneInHand DEF Says
    <3>2. CASE ~InHand(r, p)
      BY <1>1, <1>2, <2>3, <3>2 DEF AnswersHold, Says
    <3> QED BY <3>1, <3>2
  <2> QED BY <1>2, <2>1, <2>2, <2>3 DEF AnswersHold
<1>5. \A s \in Req : KeysHeldOnce(s)'
  BY <1>1 DEF OpenWork, KeysHeldOnce, Kept
<1>6. \A s \in Req \ {r} : WorkIsLogged(s)' /\ AnswersHold(s)'
  BY <1>1, OthersHold DEF OpenWork
<1> QED BY <1>3, <1>4, <1>5, <1>6 DEF OpenWork

\* A fresh transaction has nothing to account for.
LEMMA NoWorkTally == Tally(NoWork) /\ NoWork.log = {}
BY DEF Tally, NoWork

\* The handler is gone; what it committed first, if anything, is in the log.
LEMMA Forgotten ==
  ASSUME Inv, NEW r \in Req, Forget(r), \A s \in Req \ {r} : Kept(s),
         log' = log \/ log' = log \cup txn[r].log
  PROVE  OpenWork'
<1> USE DEF Inv
<1>1. /\ pc'[r] = "idle" /\ txn'[r] = NoWork /\ sp'[r] = NoWork /\ out'[r] = {}
      /\ results'[r] = {} /\ inBatch'[r] = {}
  BY DEF TypeOK, Forget
<1>2. WorkIsLogged(r)' /\ AnswersHold(r)'
  BY <1>1, NoWorkTally DEF WorkIsLogged, AnswersHold, Says, Busy, Tally
<1>3. \A s \in Req : KeysHeldOnce(s)'
  BY <1>1, NoWorkTally DEF OpenWork, KeysHeldOnce, Kept
<1>4. \A s \in Req \ {r} : WorkIsLogged(s)' /\ AnswersHold(s)'
  BY OthersHold DEF OpenWork
<1> QED BY <1>2, <1>3, <1>4 DEF OpenWork

-----------------------------------------------------------------------------
(* Every statement of the handler keeps what it holds.                     *)

\* A delivery arrives: OpenWork holds of it.
LEMMA ArriveHolds == ASSUME Inv, NEW r \in Req, Arrive(r) PROVE OpenWork'
<1> USE DEF Inv
<1>0. \A s \in Req \ {r} : Kept(s)
  BY OthersKept DEF Moves
<1>1. /\ pc[r] = "idle" /\ pc'[r] = "next" /\ log' = log
      /\ txn' = txn /\ sp' = sp /\ out' = out /\ results' = results /\ inBatch' = inBatch
  BY DEF Arrive, TypeOK, shared
<1>2. WorkIsLogged(r)' /\ AnswersHold(r)'
  BY <1>1 DEF OpenWork, WorkIsLogged, AnswersHold, Busy, Tally
<1>3. \A s \in Req : KeysHeldOnce(s)'
  BY <1>1 DEF OpenWork, KeysHeldOnce
<1> QED BY <1>0, <1>1, <1>2, <1>3, OthersHold DEF OpenWork

\* The loop head: duplicate, replay, or a savepoint, and OpenWork holds.
LEMMA LookHolds == ASSUME Inv, NEW r \in Req, Look(r) PROVE OpenWork'
<1> USE DEF Inv
<1>0. \A s \in Req \ {r} : Kept(s)
  BY OthersKept DEF Moves, Step
<1>1. PICK o \in Op :
       /\ InHand(r, o)
       /\ inBatch' = [inBatch EXCEPT ![r] = @ \cup {o}]
       /\ \/ o \in inBatch[r] /\ Answered(r, o, "duplicate") /\ UNCHANGED <<txn, sp>>
          \/ /\ o \in (log \cup txn[r].log) \ inBatch[r]
             /\ Answered(r, o, "replay")
             /\ UNCHANGED <<txn, sp>>
          \/ /\ o \notin log \cup txn[r].log \cup inBatch[r]
             /\ sp' = [sp EXCEPT ![r] = txn[r]]
             /\ txn' = [txn EXCEPT ![r] = SetImmediate(@, FALSE)]
             /\ pc' = [pc EXCEPT ![r] = "apply"]
             /\ UNCHANGED <<done, chunk, out>>
  BY DEF Look
<1>2. /\ pc[r] = "next" /\ log' = log /\ batch' = batch /\ results' = results
      /\ inBatch'[r] = inBatch[r] \cup {o}
  BY <1>1 DEF Look, shared, TypeOK
<1>3. KeysHeldOnce(r) /\ WorkIsLogged(r) /\ AnswersHold(r)
  BY DEF OpenWork
<1>4. CASE \E v \in {"duplicate", "replay"} :
             /\ v = "duplicate" => o \in inBatch[r]
             /\ v = "replay" => o \in log \cup txn[r].log
             /\ Answered(r, o, v) /\ UNCHANGED <<txn, sp>>
  <2>1. PICK v \in {"duplicate", "replay"} :
             /\ v = "duplicate" => o \in inBatch[r]
             /\ v = "replay" => o \in log \cup txn[r].log
             /\ Answered(r, o, v) /\ UNCHANGED <<txn, sp>>
    BY <1>4
  <2>2. out'[r] = out[r] \cup {<<o, v>>} /\ pc'[r] = "next"
    BY <2>1 DEF Answered, TypeOK
  <2>3. WorkIsLogged(r)'
    BY <1>2, <1>3, <2>1, <2>2 DEF WorkIsLogged, Tally
  <2>4. AnswersHold(r)'
    BY <1>2, <1>3, <2>1, <2>2, VerdictsType DEF AnswersHold, Says, Busy
  <2>5. \A s \in Req : KeysHeldOnce(s)'
    BY <1>2, <2>1 DEF OpenWork, KeysHeldOnce
  <2> QED BY <1>0, <1>2, <2>3, <2>4, <2>5, OthersHold DEF OpenWork
<1>5. CASE /\ o \notin log \cup txn[r].log \cup inBatch[r]
           /\ sp' = [sp EXCEPT ![r] = txn[r]]
           /\ txn' = [txn EXCEPT ![r] = SetImmediate(@, FALSE)]
           /\ pc' = [pc EXCEPT ![r] = "apply"]
           /\ UNCHANGED <<done, chunk, out>>
  <2>1. /\ sp'[r] = txn[r] /\ pc'[r] = "apply" /\ out'[r] = out[r]
        /\ txn'[r].log = txn[r].log /\ txn'[r].work = txn[r].work
    BY <1>5 DEF TypeOK, SetImmediate
  <2>2. \A p \in Op : InHand(r, p)' => p = o
    <3>1. \A p \in Op : InHand(r, p)' <=> InHand(r, p)
      BY <1>2, <1>5, KeptInHand
    <3> QED BY <1>1, <3>1, OneInHand
  <2>3. InHand(r, o)'
    BY <1>1, <1>2, <1>5, KeptInHand
  <2>4. WorkIsLogged(r)'
    BY <1>2, <1>3, <1>5, <2>1, <2>2 DEF WorkIsLogged, Tally
  <2>5. AnswersHold(r)'
    BY <1>2, <1>3, <2>1, <2>3 DEF AnswersHold, Says, Busy
  <2>6. \A s \in Req : KeysHeldOnce(s)'
    <3>1. KeysHeldOnce(r)'
      BY <1>0, <1>2, <1>3, <2>1 DEF KeysHeldOnce, Kept
    <3>2. ASSUME NEW s \in Req \ {r} PROVE KeysHeldOnce(s)'
      BY <1>0, <1>2, <1>3, <2>1 DEF OpenWork, KeysHeldOnce, Kept
    <3> QED BY <3>1, <3>2
  <2> QED BY <1>0, <1>2, <2>4, <2>5, <2>6, OthersHold DEF OpenWork
<1> QED BY <1>1, <1>4, <1>5

\* The op's work is done, ahead of its op_log row: OpenWork holds.
LEMMA ApplyHolds == ASSUME Inv, NEW r \in Req, Apply(r) PROVE OpenWork'
<1> USE DEF Inv
<1>0. \A s \in Req \ {r} : Kept(s)
  BY OthersKept DEF Moves, Step
<1>1. PICK o \in Op :
       /\ InHand(r, o)
       /\ IF txn[r].immediate /\ o \in Posts
            THEN Answered(r, o, "unbalanced") /\ RollBackToSavepoint(r)
            ELSE /\ txn' = [txn EXCEPT ![r] = Worked(@, o)]
                 /\ pc' = [pc EXCEPT ![r] = "insert"]
                 /\ UNCHANGED <<done, chunk, out>>
  BY DEF Apply
<1>2. pc[r] = "apply" /\ UNCHANGED <<shared, batch, inBatch, sp, results>>
  BY DEF Apply
<1>3. CASE txn[r].immediate /\ o \in Posts
  BY <1>0, <1>1, <1>2, <1>3, Undone, VerdictsType DEF Busy
<1>4. CASE ~(txn[r].immediate /\ o \in Posts)
  <2>1. /\ log' = log /\ sp'[r] = sp[r] /\ pc'[r] = "insert" /\ out'[r] = out[r]
        /\ results'[r] = results[r] /\ inBatch'[r] = inBatch[r]
        /\ txn'[r].log = txn[r].log /\ txn'[r].work = [txn[r].work EXCEPT ![o] = @ + 1]
    <3>1. txn' = [txn EXCEPT ![r] = Worked(txn[r], o)] /\ txn'[r] = Worked(txn[r], o)
      BY <1>1, <1>4 DEF TypeOK
    <3> QED BY <1>1, <1>2, <1>4, <3>1 DEF TypeOK, Worked, shared
  <2>2. \A p \in Op : InHand(r, p)' <=> InHand(r, p)
    BY <1>1, <1>2, <1>4, KeptInHand
  <2>3. KeysHeldOnce(r) /\ WorkIsLogged(r) /\ AnswersHold(r)
    BY DEF OpenWork
  <2>4. txn[r].work = sp[r].work
    <3>1. txn[r].work \in [Op -> Nat] /\ sp[r].work \in [Op -> Nat]
      BY DEF TypeOK, Transactions
    <3>2. \A p \in Op : txn[r].work[p] = sp[r].work[p]
      BY <1>2, <2>3 DEF WorkIsLogged, Tally
    <3> QED BY <3>1, <3>2
  <2>5. WorkIsLogged(r)'
    BY <1>1, <1>2, <2>1, <2>2, <2>3, <2>4, OneInHand DEF WorkIsLogged, Tally
  <2>6. AnswersHold(r)'
    BY <1>2, <2>1, <2>2, <2>3 DEF AnswersHold, Says, Busy
  <2>7. \A s \in Req : KeysHeldOnce(s)'
    <3>1. KeysHeldOnce(r)'
      BY <1>0, <2>1, <2>3 DEF KeysHeldOnce, Kept
    <3>2. ASSUME NEW s \in Req \ {r} PROVE KeysHeldOnce(s)'
      BY <1>0, <2>1, <2>3 DEF OpenWork, KeysHeldOnce, Kept
    <3> QED BY <3>1, <3>2
  <2> QED BY <1>0, <2>1, <2>5, <2>6, <2>7, OthersHold DEF OpenWork
<1> QED BY <1>3, <1>4

\* The handler threw and the savepoint is restored: OpenWork holds.
LEMMA RefuseHolds == ASSUME Inv, NEW r \in Req, Refuse(r) PROVE OpenWork'
<1>1. \A s \in Req \ {r} : Kept(s)
  BY OthersKept DEF Moves, Step, Inv
<1> QED BY <1>1, Undone, VerdictsType DEF Refuse, Busy

\* The wait for a key ended in an error: OpenWork holds.
LEMMA AbortWaitHolds == ASSUME Inv, NEW r \in Req, AbortWait(r) PROVE OpenWork'
<1>1. \A s \in Req \ {r} : Kept(s)
  BY OthersKept DEF Moves, Inv
<1> QED BY <1>1, Undone, VerdictsType DEF AbortWait, Busy, Blocks

\* The op_log row is written or found already there: OpenWork holds.
LEMMA InsertHolds == ASSUME Inv, NEW r \in Req, Insert(r) PROVE OpenWork'
<1> USE DEF Inv
<1>0. \A s \in Req \ {r} : Kept(s)
  BY OthersKept DEF Moves, Step
<1>1. PICK o \in Op :
       /\ InHand(r, o)
       /\ IF o \in log
            THEN Answered(r, o, "replay") /\ RollBackToSavepoint(r)
            ELSE /\ txn' = [txn EXCEPT ![r] = Logged(@, o)]
                 /\ pc' = [pc EXCEPT ![r] = "check"]
                 /\ UNCHANGED <<done, chunk, out>>
  BY DEF Insert
<1>2. /\ pc[r] = "insert" /\ UNCHANGED <<shared, batch, inBatch, sp, results>>
      /\ \A s \in Req : ~Blocks(s, r)
  BY DEF Insert
<1>3. CASE o \in log
  BY <1>0, <1>1, <1>2, <1>3, Undone, VerdictsType DEF Busy
<1>4. CASE o \notin log
  <2>1. /\ log' = log /\ sp'[r] = sp[r] /\ pc'[r] = "check" /\ out'[r] = out[r]
        /\ results'[r] = results[r] /\ inBatch'[r] = inBatch[r]
        /\ txn'[r].log = txn[r].log \cup {o} /\ txn'[r].work = txn[r].work
    BY <1>1, <1>2, <1>4 DEF TypeOK, Logged, shared
  <2>2. \A p \in Op : InHand(r, p)' <=> InHand(r, p)
    BY <1>1, <1>2, <1>4, KeptInHand
  <2>3. KeysHeldOnce(r) /\ WorkIsLogged(r) /\ AnswersHold(r)
    BY DEF OpenWork
  <2>4. WorkIsLogged(r)'
    <3>1. sp[r].work \in [Op -> Nat]
      BY DEF TypeOK, Transactions
    <3>2. txn'[r].work = [sp[r].work EXCEPT ![o] = @ + 1] /\ o \notin sp[r].log /\ txn[r].log = sp[r].log
      BY <1>1, <1>2, <2>1, <2>3 DEF WorkIsLogged
    <3>3. Tally(txn[r])'
      BY <2>1, <2>3, <3>1, <3>2 DEF WorkIsLogged, Tally
    <3>4. \A p \in Op : InHand(r, p)' => p \in txn'[r].log
      BY <1>1, <2>1, <2>2, OneInHand
    <3> QED BY <2>1, <2>3, <3>3, <3>4 DEF WorkIsLogged, Tally
  <2>5. AnswersHold(r)'
    BY <1>2, <2>1, <2>2, <2>3 DEF AnswersHold, Says, Busy
  <2>6. \A s \in Req \ {r} : o \notin txn[s].log
    BY <1>1, <1>2 DEF Blocks
  <2>7. \A s \in Req : KeysHeldOnce(s)'
    <3>1. KeysHeldOnce(r)'
      BY <1>0, <1>4, <2>1, <2>3, <2>6 DEF KeysHeldOnce, Kept
    <3>2. ASSUME NEW s \in Req \ {r} PROVE KeysHeldOnce(s)'
      BY <1>0, <2>1, <2>3, <2>6 DEF OpenWork, KeysHeldOnce, Kept
    <3> QED BY <3>1, <3>2
  <2> QED BY <1>0, <2>1, <2>4, <2>5, <2>7, OthersHold DEF OpenWork
<1> QED BY <1>3, <1>4

\* The deferred checks are forced: OpenWork holds.
LEMMA CheckHolds == ASSUME Inv, NEW r \in Req, Check(r) PROVE OpenWork'
<1> USE DEF Inv
<1>0. \A s \in Req \ {r} : Kept(s)
  BY OthersKept DEF Moves, Step
<1>1. PICK o \in Op :
       /\ InHand(r, o)
       /\ IF txn[r].pend = {}
            THEN /\ Answered(r, o, "ok")
                 /\ txn' = [txn EXCEPT ![r] = SetImmediate(@, TRUE)]
            ELSE /\ Answered(r, o, "unbalanced")
                 /\ RollBackToSavepoint(r)
  BY DEF Check
<1>2. pc[r] = "check" /\ UNCHANGED <<shared, batch, inBatch, sp, results>>
  BY DEF Check
<1>3. CASE txn[r].pend # {}
  BY <1>0, <1>1, <1>2, <1>3, Undone, VerdictsType DEF Busy
<1>4. CASE txn[r].pend = {}
  <2>1. /\ log' = log /\ sp'[r] = sp[r] /\ pc'[r] = "next" /\ out'[r] = out[r] \cup {<<o, "ok">>}
        /\ results'[r] = results[r] /\ inBatch'[r] = inBatch[r]
        /\ txn'[r].log = txn[r].log /\ txn'[r].work = txn[r].work
    BY <1>1, <1>2, <1>4 DEF TypeOK, SetImmediate, Answered, shared
  <2>2. KeysHeldOnce(r) /\ WorkIsLogged(r) /\ AnswersHold(r)
    BY DEF OpenWork
  <2>3. WorkIsLogged(r)'
    BY <1>2, <2>1, <2>2 DEF WorkIsLogged, Tally
  <2>4. AnswersHold(r)'
    <3>1. o \in txn[r].log
      BY <1>1, <1>2, <2>2 DEF WorkIsLogged
    <3>2. sp[r].log \subseteq txn[r].log
      BY <2>2 DEF KeysHeldOnce
    <3>3. \A p \in Op : InHand(r, p) => p = o
      BY <1>1, OneInHand
    <3>4. ASSUME NEW p \in Op PROVE Says(out'[r], p, {"ok", "replay"}) => p \in log \cup txn'[r].log
      BY <1>2, <2>1, <2>2, <3>1, <3>2 DEF AnswersHold, Says, Busy
    <3>5. ASSUME NEW p \in Op
          PROVE  /\ Says(results[r] \cup out'[r], p, {"duplicate"}) => p \in inBatch[r]
                 /\ p \in inBatch[r] => Says(results[r] \cup out'[r], p, Verdicts \ {"duplicate"})
      BY <1>2, <2>1, <2>2, <3>3, VerdictsType DEF AnswersHold, Says
    <3> QED BY <2>1, <2>2, <3>4, <3>5 DEF AnswersHold, Busy
  <2>5. \A s \in Req : KeysHeldOnce(s)'
    <3>1. KeysHeldOnce(r)'
      BY <1>0, <2>1, <2>2 DEF KeysHeldOnce, Kept
    <3>2. ASSUME NEW s \in Req \ {r} PROVE KeysHeldOnce(s)'
      BY <1>0, <2>1, <2>2 DEF OpenWork, KeysHeldOnce, Kept
    <3> QED BY <3>1, <3>2
  <2> QED BY <1>0, <2>1, <2>3, <2>4, <2>5, OthersHold DEF OpenWork
<1> QED BY <1>3, <1>4

\* A chunk commits, its rows become everybody's: OpenWork holds.
LEMMA CommitHolds == ASSUME Inv, NEW r \in Req, Commit(r) PROVE OpenWork'
<1> USE DEF Inv
<1>0. \A s \in Req \ {r} : Kept(s)
  BY OthersKept DEF Moves, Step
<1>1. /\ log' = log \cup txn[r].log /\ pc[r] = "next" /\ pc'[r] \in {"answer", "next"}
      /\ txn'[r] = NoWork /\ sp'[r] = NoWork /\ out'[r] = {} /\ results'[r] = results[r] \cup out[r]
      /\ inBatch'[r] = inBatch[r]
  BY DEF TypeOK, Commit, Committed, AtCommit
<1>2. KeysHeldOnce(r) /\ WorkIsLogged(r) /\ AnswersHold(r)
  BY DEF OpenWork
<1>3. WorkIsLogged(r)'
  BY <1>1, NoWorkTally DEF WorkIsLogged, Tally
<1>4. AnswersHold(r)'
  BY <1>1, <1>2 DEF AnswersHold, Says, Busy
<1>5. \A s \in Req : KeysHeldOnce(s)'
  <2>1. KeysHeldOnce(r)'
    BY <1>1, NoWorkTally DEF KeysHeldOnce, Kept
  <2>2. ASSUME NEW s \in Req \ {r} PROVE KeysHeldOnce(s)'
    BY <1>0, <1>1, <1>2, NoWorkTally DEF OpenWork, KeysHeldOnce, Kept
  <2> QED BY <2>1, <2>2
<1> QED BY <1>0, <1>1, <1>3, <1>4, <1>5, OthersHold DEF OpenWork

-----------------------------------------------------------------------------
(* The ledger: what COMMIT and the answer do to log, books and acked.      *)

\* Only a COMMIT touches the log and the books, and it adds one to the count
\* of exactly the ops it adds to the log, none of which was there.
LEMMA CommittedOnce ==
  ASSUME Inv, NEW r \in Req, Committed(r)
  PROVE  /\ txn[r].log \subseteq Op /\ txn[r].log \cap log = {} /\ log' = log \cup txn[r].log
         /\ books' = [o \in Op |-> IF o \in txn[r].log THEN books[o] + 1 ELSE books[o]]
         /\ UNCHANGED acked
<1>1. Tally(txn[r]) /\ txn[r].log \cap log = {}
  BY DEF Inv, OpenWork, WorkIsLogged, KeysHeldOnce, Committed, AtCommit
<1>2. txn[r].log \subseteq Op /\ books \in [Op -> Nat]
  BY DEF Inv, TypeOK, Transactions
<1>3. \A o \in Op : books[o] + txn[r].work[o] = IF o \in txn[r].log THEN books[o] + 1 ELSE books[o]
  <2> SUFFICES ASSUME NEW o \in Op
               PROVE books[o] + txn[r].work[o] = IF o \in txn[r].log THEN books[o] + 1 ELSE books[o]
    OBVIOUS
  <2>1. books[o] \in Nat
    BY <1>2
  <2>2. CASE o \in txn[r].log
    BY <1>1, <2>1, <2>2 DEF Tally
  <2>3. CASE o \notin txn[r].log
    BY <1>1, <2>1, <2>3 DEF Tally
  <2> QED BY <2>2, <2>3
<1> QED BY <1>1, <1>2, <1>3 DEF Committed

\* The ops a device is told of without an error are in the log.
LEMMA AnsweredIsLogged ==
  ASSUME Inv, NEW r \in Req, Answer(r)
  PROVE  \E S \in SUBSET Op : S \subseteq log /\ acked' = acked \cup S /\ UNCHANGED <<log, books>>
<1> DEFINE S == {o \in Op : /\ \E v \in Verdicts : <<o, v>> \in results[r]
                          /\ \A v \in Errors : <<o, v>> \notin results[r]}
<1>1. acked' = acked \cup S /\ UNCHANGED <<log, books>>
  BY DEF Answer
<1>2. AnswersHold(r) /\ pc[r] = "answer"
  BY DEF Inv, OpenWork, Answer
<1>3. ASSUME NEW o \in S PROVE o \in log
  <2>1. out[r] = {}
    BY <1>2 DEF AnswersHold
  <2>2. PICK v \in Verdicts \ {"duplicate"} : <<o, v>> \in results[r]
    BY <1>2, <2>1, VerdictsType DEF AnswersHold, Says, Busy
  <2>3. v \in {"ok", "replay"}
    BY <2>2, VerdictsType DEF Errors
  <2> QED BY <1>2, <2>2, <2>3 DEF AnswersHold, Says
<1> QED BY <1>1, <1>3

\* What a committed chunk adds to the books and to the log agree.
LEMMA LedgerStep ==
  ASSUME Inv, [Next]_vars
  PROVE  \/ \E S \in SUBSET Op :
              /\ S \cap log = {} /\ log' = log \cup S
              /\ books' = [o \in Op |-> IF o \in S THEN books[o] + 1 ELSE books[o]]
              /\ UNCHANGED acked
         \/ \E S \in SUBSET Op : S \subseteq log /\ acked' = acked \cup S /\ UNCHANGED <<log, books>>
         \/ UNCHANGED <<log, books, acked>>
<1>1. ASSUME NEW r \in Req, Commit(r) \/ CommitUnheard(r)
      PROVE  \E S \in SUBSET Op :
              /\ S \cap log = {} /\ log' = log \cup S
              /\ books' = [o \in Op |-> IF o \in S THEN books[o] + 1 ELSE books[o]]
              /\ UNCHANGED acked
  <2>1. Committed(r)
    BY <1>1 DEF Commit, CommitUnheard
  <2> QED BY <2>1, CommittedOnce
<1>2. ASSUME NEW r \in Req, Arrive(r) \/ Look(r) \/ Apply(r) \/ Refuse(r) \/ Insert(r)
                            \/ AbortWait(r) \/ Check(r) \/ Fail(r)
      PROVE  UNCHANGED <<log, books, acked>>
  BY <1>2 DEF Arrive, Look, Apply, Refuse, Insert, AbortWait, Check, Fail, shared
<1>3. CASE UNCHANGED vars
  BY <1>3 DEF vars
<1> QED BY <1>1, <1>2, <1>3, AnsweredIsLogged DEF Next, Step

-----------------------------------------------------------------------------
(* The theorems.                                                           *)

\* The initial states satisfy the inductive invariant.
LEMMA InvInit == Init => Inv
<1> SUFFICES ASSUME Init PROVE Inv
  OBVIOUS
<1>1. TypeOK
  BY TypeInit
<1>2. ExactlyOnce /\ AckedIsBooked
  BY DEF Init, ExactlyOnce, AckedIsBooked
<1>3. OpenWork
  BY NoWorkTally DEF Init, OpenWork, KeysHeldOnce, WorkIsLogged, AnswersHold, Says, Busy
<1> QED BY <1>1, <1>2, <1>3 DEF Inv

\* Every statement of every delivery keeps the inductive invariant.
LEMMA InvStep == Inv /\ [Next]_vars => Inv'
<1> SUFFICES ASSUME Inv, [Next]_vars PROVE Inv'
  OBVIOUS
<1>1. TypeOK'
  BY TypeStep DEF Inv
<1>2. ExactlyOnce' /\ AckedIsBooked'
  BY LedgerStep DEF Inv, TypeOK, ExactlyOnce, AckedIsBooked
<1>3. OpenWork'
  <2>1. ASSUME NEW r \in Req, CommitUnheard(r) \/ Fail(r) \/ Answer(r) PROVE OpenWork'
    <3>1. \A s \in Req \ {r} : Kept(s)
      BY <2>1, OthersKept DEF Moves, Step, Inv
    <3>2. Forget(r) /\ (log' = log \/ log' = log \cup txn[r].log)
      BY <2>1 DEF CommitUnheard, Committed, Fail, Answer, shared
    <3> QED BY <3>1, <3>2, Forgotten
  <2>2. CASE UNCHANGED vars
    <3>1. \A s \in Req : Kept(s)
      BY <2>2 DEF vars, Kept
    <3>2. log' = log /\ txn' = txn /\ sp' = sp
      BY <2>2 DEF vars
    <3>3. \A s \in Req : KeysHeldOnce(s)'
      BY <3>2 DEF Inv, OpenWork, KeysHeldOnce
    <3> QED BY <3>1, <3>2, <3>3, OthersHold DEF Inv, OpenWork
  <2> QED BY <2>1, <2>2, ArriveHolds, LookHolds, ApplyHolds, RefuseHolds, AbortWaitHolds,
             InsertHolds, CheckHolds, CommitHolds DEF Next, Step
<1> QED BY <1>1, <1>2, <1>3 DEF Inv

\* The inductive invariant of the push handler: types, the books as the log tells
\* them, answers that are true, and OpenWork on every transaction still open.
THEOREM Invariance == Spec => []Inv
BY InvInit, InvStep, PTL DEF Spec

\* An op's effects are in the books exactly as often as op_log says, once or
\* never, for any number of deliveries, however they overlap, repeat or fail.
THEOREM BookedOnce == Spec => []ExactlyOnce
BY Invariance, PTL DEF Inv

\* A device deletes an op from its outbox only when its effects are committed.
THEOREM AckedAreBooked == Spec => []AckedIsBooked
BY Invariance, PTL DEF Inv

\* The push handler implements OpLog.
THEOREM KeepsPromise == Spec => PromiseKept
<1>1. Init => Promise!Init
  BY DEF Init, Promise!Init
<1>2. Inv /\ [Next]_vars => [Promise!Next]_(Promise!vars)
  BY LedgerStep DEF Promise!Next, Promise!Book, Promise!Ack, Promise!vars
<1> QED BY <1>1, <1>2, Invariance, PTL DEF Spec, PromiseKept, Promise!Spec

-----------------------------------------------------------------------------
(* Order, and what follows from it: no delivery waits for another that     *)
(* waits for it, because each holds only ops that come before its own.     *)

\* What a transaction holds comes no later than what is still to be dealt with.
Ordered(r) == \A o \in txn[r].log : \A i \in DOMAIN batch[r] \ done[r] :
                Lamport[o] <= Lamport[batch[r][i]]

\* Checks are forced op by op: none is pending once an op is answered; and a
\* delivery that is still to come holds nothing.
Forced(r) == /\ sp[r].pend = {}
             /\ pc[r] = "idle" => txn[r].log = {}
             /\ pc[r] \notin {"insert", "check"} => txn[r].pend = {}

Tidy == \A r \in Req : Ordered(r) /\ Forced(r)

\* The op in hand comes no later than any op still to be dealt with.
LEMMA InHandIsLeast ==
  ASSUME TypeOK, NEW r \in Req, NEW o \in Op, InHand(r, o)
  PROVE  \A i \in DOMAIN batch[r] \ done[r] : Lamport[o] <= Lamport[batch[r][i]]
<1>1. PICK j \in DOMAIN batch[r] : IsNext(r, j) /\ batch[r][j] = o
  BY DEF InHand
<1>2. \A i \in DOMAIN batch[r] : batch[r][i] \in Op
  BY DEF TypeOK
<1>3. ASSUME NEW i \in DOMAIN batch[r] \ done[r] PROVE Lamport[o] <= Lamport[batch[r][i]]
  <2>1. Lamport[o] \in Nat /\ Lamport[batch[r][i]] \in Nat
    BY <1>2
  <2> QED BY <1>1, <2>1 DEF IsNext, Before
<1> QED BY <1>3

\* Dealing with positions, and undoing work, disturb no order.
LEMMA OrderedStays ==
  ASSUME NEW r \in Req, Ordered(r), batch'[r] = batch[r], done[r] \subseteq done'[r],
         txn'[r].log \subseteq txn[r].log
  PROVE  Ordered(r)'
  BY DEF Ordered

\* Every statement keeps transactions in order and their checks forced.
LEMMA TidyStep == Inv /\ Tidy /\ [Next]_vars => Tidy'
<1> SUFFICES ASSUME Inv, Tidy, [Next]_vars PROVE Tidy'
  OBVIOUS
<1> USE DEF Inv
<1>1. CASE UNCHANGED vars
  BY <1>1 DEF vars, Tidy, Ordered, Forced
<1>2. ASSUME NEW r \in Req, Moves(r), Ordered(r)', Forced(r)' PROVE Tidy'
  <2>1. ASSUME NEW s \in Req \ {r} PROVE Ordered(s)' /\ Forced(s)'
    <3>1. Kept(s)
      BY <1>2, OthersKept
    <3> QED BY <3>1 DEF Kept, Tidy, Ordered, Forced
  <2> QED BY <1>2, <2>1 DEF Tidy
<1>3. ASSUME NEW r \in Req, Moves(r) PROVE Ordered(r)' /\ Forced(r)'
  <2>0. Ordered(r) /\ Forced(r) /\ KeysHeldOnce(r)
    BY DEF Tidy, OpenWork
  <2>1. /\ txn \in [Req -> Transactions] /\ sp \in [Req -> Transactions]
        /\ pc \in [Req -> {"idle", "next", "apply", "insert", "check", "answer"}]
        /\ done \in [Req -> SUBSET Nat]
    BY DEF TypeOK
  <2>2. ASSUME NEW o, NEW v, Answered(r, o, v)
        PROVE  done[r] \subseteq done'[r] /\ pc'[r] = "next"
    BY <2>1, <2>2 DEF Answered
  <2>3. CASE Arrive(r)
    BY <2>0, <2>1, <2>3 DEF Arrive, Ordered, Forced
  <2>4. CASE Look(r)
    BY <2>0, <2>1, <2>2, <2>4, OrderedStays DEF Look, Forced, SetImmediate
  <2>5. CASE Apply(r)
    BY <2>0, <2>1, <2>2, <2>5, OrderedStays DEF Apply, Forced, Worked, RollBackToSavepoint, KeysHeldOnce
  <2>6. CASE Refuse(r) \/ AbortWait(r)
    BY <2>0, <2>1, <2>2, <2>6, OrderedStays DEF Refuse, AbortWait, Forced, RollBackToSavepoint, KeysHeldOnce
  <2>7. CASE Insert(r)
    <3>1. PICK o \in Op :
            /\ InHand(r, o)
            /\ IF o \in log
                 THEN Answered(r, o, "replay") /\ RollBackToSavepoint(r)
                 ELSE /\ txn' = [txn EXCEPT ![r] = Logged(@, o)]
                      /\ pc' = [pc EXCEPT ![r] = "check"]
                      /\ UNCHANGED <<done, chunk, out>>
      BY <2>7 DEF Insert
    <3>2. CASE o \in log
      BY <2>0, <2>1, <2>2, <2>7, <3>1, <3>2, OrderedStays DEF Insert, Forced, RollBackToSavepoint, KeysHeldOnce
    <3>3. CASE o \notin log
      <4>1. txn'[r].log = txn[r].log \cup {o} /\ batch' = batch /\ done' = done
        BY <2>1, <2>7, <3>1, <3>3 DEF Insert, Logged
      <4>2. Ordered(r)'
        BY <2>0, <3>1, <4>1, InHandIsLeast DEF Ordered
      <4> QED BY <2>0, <2>1, <2>7, <3>1, <3>3, <4>2 DEF Insert, Forced
    <3> QED BY <3>2, <3>3
  <2>8. CASE Check(r)
    BY <2>0, <2>1, <2>2, <2>8, OrderedStays DEF Check, Forced, SetImmediate, RollBackToSavepoint, KeysHeldOnce
  <2>9. CASE Commit(r)
    BY <2>0, <2>1, <2>9 DEF Commit, Committed, AtCommit, Ordered, Forced, NoWork
  <2>10. CASE CommitUnheard(r) \/ Fail(r) \/ Answer(r)
    BY <2>1, <2>10 DEF CommitUnheard, Fail, Answer, Forget, Ordered, Forced, NoWork
  <2> QED BY <1>3, <2>3, <2>4, <2>5, <2>6, <2>7, <2>8, <2>9, <2>10 DEF Moves, Step
<1> QED BY <1>1, <1>2, <1>3 DEF Next, Moves, Step

\* All along, transactions are in order and their checks forced.
THEOREM TidyAlways == Spec => []Tidy
<1>1. Init => Tidy
  BY DEF Init, Tidy, Ordered, Forced, NoWork
<1> QED BY <1>1, TidyStep, Invariance, PTL DEF Spec

\* An op is written only when every op of its delivery with a smaller lamport
\* has been answered: the child is never tried before its parent.
THEOREM OrderIsTaken == Spec => []TakenInOrder
<1>1. Inv /\ Tidy => TakenInOrder
  BY DEF Inv, TypeOK, Tidy, Ordered, TakenInOrder
<1> QED BY <1>1, TidyAlways, Invariance, PTL

\* A journal that does not balance never reaches the COMMIT of its chunk.
THEOREM PoisonIsContained == Spec => []PoisonContained
<1>1. Tidy => PoisonContained
  BY DEF Tidy, Forced, PoisonContained, AtCommit
<1> QED BY <1>1, TidyAlways, PTL

\* A nonempty set of numbers has a least one.
LEMMA LeastNat ==
  ASSUME NEW T \in SUBSET Nat, T # {}
  PROVE  \E x \in T : \A y \in T : x <= y
<1> DEFINE R == OpToRel(<, Nat)
<1>1. IsWellFoundedOn(R, Nat)
  BY NatLessThanWellFounded, Zenon
<1>2. PICK x \in T : \A y \in T : ~(<<y, x>> \in R)
  <2> HIDE DEF R
  <2> QED BY <1>1, WFMin
<1>3. \A y \in T : ~(y < x)
  BY <1>2 DEF OpToRel
<1> QED BY <1>3

\* If no two ops share a lamport, no ring of deliveries ever waits for itself,
\* however the ops of overlapping deliveries are mixed and cut into chunks.
THEOREM NeverDeadlocked ==
  ASSUME \A o, p \in Op : Lamport[o] = Lamport[p] => o = p
  PROVE  Spec => []NoDeadlock
<1>1. Inv /\ Tidy => NoDeadlock
  <2> SUFFICES ASSUME Inv, Tidy, NEW q \in Req, Deadlocked(q) PROVE FALSE
    BY DEF NoDeadlock
  <2> DEFINE Waits(s, o) == pc[s] = "insert" /\ InHand(s, o)
  <2>1. PICK S \in SUBSET Req : /\ q \in S
                                /\ \A s \in S : (\E t \in S : Blocks(t, s)) /\ (\E t \in S : Blocks(s, t))
    BY DEF Deadlocked
  <2>2. \A s \in S : \E o \in Op : Waits(s, o)
    BY <2>1 DEF Blocks, Inv, TypeOK, Transactions
  <2>3. ASSUME NEW s \in S, NEW o \in Op, Waits(s, o)
        PROVE  \E t \in S, p \in Op : Waits(t, p) /\ Lamport[p] < Lamport[o]
    <3>1. PICK t \in S : Blocks(s, t)
      BY <2>1
    <3>2. PICK p \in txn[s].log : InHand(t, p) /\ pc[t] = "insert"
      BY <3>1 DEF Blocks
    <3>3. p \in Op /\ s \in Req
      BY <2>3, <3>2 DEF Inv, TypeOK, Transactions
    <3>4. PICK i \in DOMAIN batch[s] \ done[s] : batch[s][i] = o
      BY <2>3 DEF InHand, IsNext
    <3>5. Lamport[p] <= Lamport[o]
      BY <3>2, <3>3, <3>4 DEF Tidy, Ordered
    <3>6. p # o
      BY <2>3, <3>2, <3>3 DEF Inv, OpenWork, WorkIsLogged
    <3>7. Lamport[p] \in Nat /\ Lamport[o] \in Nat /\ Lamport[p] # Lamport[o]
      BY <3>3, <3>6
    <3> QED BY <3>2, <3>3, <3>5, <3>7
  <2> DEFINE T == {Lamport[o] : o \in {p \in Op : \E s \in S : Waits(s, p)}}
  <2>4. T \in SUBSET Nat /\ T # {}
    <3>1. \A o \in Op : Lamport[o] \in Nat
      OBVIOUS
    <3>2. PICK s \in S, o \in Op : Waits(s, o)
      BY <2>1, <2>2
    <3>3. Lamport[o] \in T
      BY <3>2
    <3> QED BY <3>1, <3>3
  <2>5. PICK x \in T : \A y \in T : x <= y
    <3> HIDE DEF T
    <3> QED BY <2>4, LeastNat
  <2>6. PICK o \in Op, s \in S : Waits(s, o) /\ Lamport[o] = x
    BY <2>5
  <2>7. PICK t \in S, p \in Op : Waits(t, p) /\ Lamport[p] < x
    BY <2>3, <2>6
  <2>8. Lamport[p] \in T
    BY <2>7
  <2>9. x <= Lamport[p] /\ x \in Nat /\ Lamport[p] \in Nat
    BY <2>4, <2>5, <2>8
  <2> QED BY <2>7, <2>9
<1> QED BY <1>1, TidyAlways, Invariance, PTL

=============================================================================
