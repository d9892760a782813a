---------------------------- MODULE GuestsProofs ----------------------------
(***************************************************************************)
(* For any members, callers, rounds, orders, menus and depth: a member's   *)
(* code is compared with a wrong one no more often than its tries allow;   *)
(* what a dish declares and what a sale of it draws are all it is made of; *)
(* a store's setup goes through a file whole; and a round the outlet has   *)
(* answered for does not vanish from the guest's order.                    *)
(***************************************************************************)
EXTENDS Guests, SequenceTheorems, WellFoundedInduction, TLAPS

-----------------------------------------------------------------------------
(* The card of a member.                                                   *)

Cards == [code : Nat, tries : Nat, lapsed : BOOLEAN, invite : Nat, used : BOOLEAN, revoked : BOOLEAN]

CardTyped ==
  /\ card \in [Members -> Cards]
  /\ codes \in 0..MaxCodes /\ invites \in Nat
  /\ guessed \in [1..MaxCodes -> Nat]

\* A code is drawn once, and one member's.
CodesDrawn ==
  /\ \A m \in Members : card[m].code <= codes
  /\ \A m, k \in Members : card[m].code = card[k].code /\ card[m].code # 0 => m = k

\* The tries on the row count every wrong comparison there was; a code that was not drawn,
\* has had none.
TriesCount ==
  /\ \A m \in Members : card[m].code # 0 => /\ guessed[card[m].code] <= card[m].tries
                                            /\ card[m].tries <= CodeTries
  /\ \A n \in 1..MaxCodes : n > codes => guessed[n] = 0

Inv == CardTyped /\ CodesDrawn /\ TriesCount /\ CodeTriesHold

LEMMA InitInv == Init => Inv
  <1> SUFFICES ASSUME Init PROVE Inv
    OBVIOUS
  <1>1. /\ card = [m \in Members |-> NoCard] /\ codes = 0 /\ invites = 0
        /\ guessed = [n \in 1..MaxCodes |-> 0]
    BY DEF Init, CardInit, CardKept, CardFrom
  <1>2. NoCard \in Cards /\ NoCard.code = 0
    BY DEF NoCard, Cards
  <1> QED BY <1>1, <1>2, CardAssumption DEF Inv, CardTyped, CodesDrawn, TriesCount, CodeTriesHold

\* What a row becomes when a code is set, and when it is cleared.
LEMMA RowsAfter ==
  ASSUME CardTyped, NEW m \in Members, NEW n \in Nat
  PROVE  /\ WithCode(m, n) \in [Members -> Cards] /\ Cleared(m) \in [Members -> Cards]
         /\ Take(m) \in [Members -> Cards]
         /\ WithCode(m, n)[m].code = n /\ WithCode(m, n)[m].tries = 0
         /\ Cleared(m)[m].code = 0
         /\ Take(m)[m].code = card[m].code /\ Take(m)[m].tries = card[m].tries + 1
         /\ \A k \in Members \ {m} : /\ WithCode(m, n)[k] = card[k] /\ Cleared(m)[k] = card[k]
                                     /\ Take(m)[k] = card[k]
  <1>1. card \in [Members -> Cards] /\ card[m] \in Cards
    BY DEF CardTyped
  <1>2. ASSUME NEW k \in Nat
        PROVE  LET s == [card EXCEPT ![m].code = k, ![m].tries = 0, ![m].lapsed = FALSE]
               IN  /\ s \in [Members -> Cards] /\ s[m].code = k /\ s[m].tries = 0
                   /\ \A j \in Members \ {m} : s[j] = card[j]
    <2> DEFINE x == [code |-> k, tries |-> 0, lapsed |-> FALSE, invite |-> card[m].invite,
                     used |-> card[m].used, revoked |-> card[m].revoked]
               s == [card EXCEPT ![m].code = k, ![m].tries = 0, ![m].lapsed = FALSE]
    <2>1. x \in Cards
      BY <1>1 DEF Cards
    <2>2. s[m] = x
      BY <1>1 DEF Cards
    <2>3. s = [card EXCEPT ![m] = x]
      BY <1>1, <2>2
    <2> QED BY <1>1, <2>1, <2>2, <2>3
  <1>3. /\ WithCode(m, n) \in [Members -> Cards] /\ WithCode(m, n)[m].code = n
        /\ WithCode(m, n)[m].tries = 0
        /\ \A k \in Members \ {m} : WithCode(m, n)[k] = card[k]
    BY <1>2 DEF WithCode
  <1>4. /\ Cleared(m) \in [Members -> Cards] /\ Cleared(m)[m].code = 0
        /\ \A k \in Members \ {m} : Cleared(m)[k] = card[k]
    BY <1>2 DEF Cleared
  <1>5. /\ Take(m) \in [Members -> Cards] /\ Take(m)[m].code = card[m].code
        /\ Take(m)[m].tries = card[m].tries + 1
        /\ \A k \in Members \ {m} : Take(m)[k] = card[k]
    BY <1>1 DEF Take, Cards
  <1> QED BY <1>3, <1>4, <1>5

\* A code that is drawn takes the place of the last: nobody has tried it.
LEMMA DrawInv ==
  ASSUME Inv, NEW m \in Members, codes < MaxCodes, codes' = codes + 1,
         card' \in [Members -> Cards], card'[m].code = codes + 1, card'[m].tries = 0,
         \A k \in Members \ {m} : card'[k] = card[k], UNCHANGED <<guessed, invites>>
  PROVE  Inv'
  <1>1. CardTyped'
    BY CardAssumption DEF Inv, CardTyped
  <1>2. /\ codes \in Nat /\ codes + 1 \in 1..MaxCodes
        /\ \A k \in Members : card[k].code \in Nat /\ card[k].tries \in Nat /\ card[k].code <= codes
    BY CardAssumption DEF Inv, CardTyped, CodesDrawn, Cards
  <1>3. CodesDrawn'
    <2>1. ASSUME NEW k \in Members, NEW j \in Members, card'[k].code = card'[j].code, card'[k].code # 0
          PROVE  k = j
      <3>1. CASE k # m /\ j # m
        BY <2>1, <3>1 DEF Inv, CodesDrawn
      <3>2. CASE k = m \/ j = m
        BY <1>2, <2>1, <3>2
      <3> QED BY <3>1, <3>2
    <2>2. \A k \in Members : card'[k].code <= codes'
      BY <1>2
    <2> QED BY <2>1, <2>2 DEF CodesDrawn
  <1>4. TriesCount'
    <2>1. guessed'[codes + 1] = 0
      BY <1>2 DEF Inv, TriesCount
    <2>2. ASSUME NEW k \in Members, card'[k].code # 0
          PROVE  guessed'[card'[k].code] <= card'[k].tries /\ card'[k].tries <= CodeTries
      <3>1. CASE k = m
        BY <2>1, <3>1, CardAssumption
      <3>2. CASE k # m
        BY <2>2, <3>2 DEF Inv, TriesCount
      <3> QED BY <3>1, <3>2
    <2>3. \A n \in 1..MaxCodes : n > codes' => guessed'[n] = 0
      BY <1>2 DEF Inv, TriesCount
    <2> QED BY <2>2, <2>3 DEF TriesCount
  <1> QED BY <1>1, <1>3, <1>4 DEF Inv, CodeTriesHold

\* What draws no code and compares none leaves the codes and their tries as they were, or
\* takes a code away.
LEMMA KeepInv ==
  ASSUME Inv, card' \in [Members -> Cards], invites' \in Nat, UNCHANGED <<codes, guessed>>,
         \A k \in Members : card'[k].code = 0 \/ (card'[k].code = card[k].code /\ card'[k].tries = card[k].tries)
  PROVE  Inv'
  <1>1. CardTyped'
    BY DEF Inv, CardTyped
  <1>2. CodesDrawn'
    BY CardAssumption DEF Inv, CardTyped, CodesDrawn, Cards
  <1>3. TriesCount'
    BY CardAssumption DEF Inv, CardTyped, CodesDrawn, TriesCount, Cards
  <1> QED BY <1>1, <1>2, <1>3 DEF Inv, CodeTriesHold

\* A try is counted before the code is compared, and the code is spent when they run out.
LEMMA VerifyInv ==
  ASSUME Inv, NEW m \in Members, NEW n, Verify(m, n)
  PROVE  Inv'
  <1> DEFINE over == Take(m)[m].tries > CodeTries \/ Take(m)[m].lapsed
             c == card[m].code
  <1>1. /\ c # 0 /\ UNCHANGED <<codes, invites>> /\ c \in 1..MaxCodes
        /\ Take(m)[m].code = c /\ card[m].tries \in Nat
    <2>1. card[m] \in Cards /\ c <= codes /\ codes \in 0..MaxCodes
      BY DEF Inv, CardTyped, CodesDrawn
    <2>2. c \in Nat /\ card[m].tries \in Nat
      BY <2>1 DEF Cards
    <2>3. Take(m)[m].code = c
      BY RowsAfter DEF Inv
    <2> QED BY <2>1, <2>2, <2>3, CardAssumption DEF Verify
  <1>2. CASE over \/ n = c
    <2>1. card' = Cleared(m) /\ UNCHANGED guessed
      BY <1>1, <1>2 DEF Verify
    <2> QED BY <1>1, <2>1, RowsAfter, KeepInv DEF Inv, CardTyped
  <1>3. CASE ~over /\ n # c
    <2>1. card' = Take(m) /\ guessed' = [guessed EXCEPT ![c] = @ + 1]
      BY <1>1, <1>3 DEF Verify
    <2>2. /\ card' \in [Members -> Cards] /\ card'[m].code = c /\ card'[m].tries = card[m].tries + 1
          /\ \A k \in Members \ {m} : card'[k] = card[k]
          /\ card[m].tries + 1 <= CodeTries
      <3>1. /\ Take(m) \in [Members -> Cards] /\ Take(m)[m].code = c
            /\ Take(m)[m].tries = card[m].tries + 1
            /\ \A k \in Members \ {m} : Take(m)[k] = card[k]
        BY RowsAfter DEF Inv
      <3> QED BY <1>1, <1>3, <2>1, <3>1, CardAssumption
    <2>3. /\ guessed' \in [1..MaxCodes -> Nat] /\ guessed'[c] = guessed[c] + 1
          /\ \A i \in (1..MaxCodes) \ {c} : guessed'[i] = guessed[i]
      BY <1>1, <2>1 DEF Inv, CardTyped
    <2>4. CardTyped' /\ CodesDrawn'
      BY <1>1, <2>2, <2>3 DEF Inv, CardTyped, CodesDrawn
    <2>5. guessed'[c] <= CodeTries
      BY <1>1, <2>2, <2>3, CardAssumption DEF Inv, CardTyped, TriesCount
    <2>6. ASSUME NEW k \in Members, card'[k].code # 0
          PROVE  guessed'[card'[k].code] <= card'[k].tries /\ card'[k].tries <= CodeTries
      <3>1. CASE k = m
        BY <1>1, <2>2, <2>3, <3>1, CardAssumption DEF Inv, CardTyped, TriesCount
      <3>2. CASE k # m
        <4>1. card'[k] = card[k] /\ card[k].code # c /\ card[k].code \in 1..MaxCodes
          BY <1>1, <2>2, <2>6, <3>2, CardAssumption DEF Inv, CardTyped, CodesDrawn, Cards
        <4> QED BY <2>3, <2>6, <4>1 DEF Inv, TriesCount
      <3> QED BY <3>1, <3>2
    <2>7. TriesCount'
      BY <1>1, <2>3, <2>6, CardAssumption DEF Inv, CardTyped, CodesDrawn, TriesCount
    <2>8. CodeTriesHold'
      BY <2>3, <2>5 DEF Inv, CodeTriesHold
    <2> QED BY <2>4, <2>7, <2>8 DEF Inv
  <1> QED BY <1>2, <1>3

LEMMA CardStep == Inv /\ CardNext => Inv'
  <1> SUFFICES ASSUME Inv, NEW m \in Members,
                      \/ StartCard(m) \/ Invite(m) \/ Lapse(m) \/ RevokeCard(m) \/ ReadCard(m)
                      \/ \E t \in 1..invites : JoinCode(m, t)
                      \/ \E n \in 1..codes : Send(m, n)
                      \/ \E n \in 0..codes : Verify(m, n)
               PROVE  Inv'
    BY DEF CardNext
  <1>0. CardTyped /\ codes + 1 \in Nat /\ invites + 1 \in Nat /\ codes \in Nat
    BY CardAssumption DEF Inv, CardTyped
  <1>1. CASE StartCard(m)
    BY <1>0, <1>1, RowsAfter, DrawInv DEF StartCard, Coded
  <1>2. ASSUME NEW t \in 1..invites, JoinCode(m, t) PROVE Inv'
    <2>1. /\ card' = [WithCode(m, codes + 1) EXCEPT ![m].used = TRUE]
          /\ codes < MaxCodes /\ codes' = codes + 1 /\ UNCHANGED <<guessed, invites>>
      BY <1>2 DEF JoinCode
    <2>2. /\ card' \in [Members -> Cards] /\ card'[m].code = codes + 1 /\ card'[m].tries = 0
          /\ \A k \in Members \ {m} : card'[k] = card[k]
      <3> DEFINE w == WithCode(m, codes + 1)
      <3>1. /\ w \in [Members -> Cards] /\ w[m].code = codes + 1 /\ w[m].tries = 0
            /\ \A k \in Members \ {m} : w[k] = card[k]
        BY <1>0, RowsAfter
      <3>2. card' = [w EXCEPT ![m].used = TRUE]
        BY <2>1
      <3> HIDE DEF w
      <3> QED BY <3>1, <3>2 DEF Cards
    <2> QED BY <2>1, <2>2, DrawInv
  <1>3. CASE Invite(m)
    <2>1. /\ card' \in [Members -> Cards]
          /\ \A k \in Members : card'[k].code = card[k].code /\ card'[k].tries = card[k].tries
      BY <1>0, <1>3 DEF Invite, CardTyped, Cards
    <2> QED BY <1>0, <1>3, <2>1, KeepInv DEF Invite
  <1>4. CASE Lapse(m)
    <2>1. /\ card' \in [Members -> Cards]
          /\ \A k \in Members : card'[k].code = card[k].code /\ card'[k].tries = card[k].tries
      BY <1>0, <1>4 DEF Lapse, CardTyped, Cards
    <2> QED BY <1>4, <2>1, KeepInv DEF Lapse, Inv, CardTyped
  <1>5. CASE RevokeCard(m)
    <2>1. /\ card' \in [Members -> Cards] /\ card'[m].code = 0
          /\ \A k \in Members \ {m} : card'[k] = card[k]
      BY <1>0, <1>5 DEF RevokeCard, NoCard, CardTyped, Cards
    <2> QED BY <1>5, <2>1, KeepInv DEF RevokeCard, Inv, CardTyped
  <1>6. ASSUME ReadCard(m) \/ \E n \in 1..codes : Send(m, n) PROVE Inv'
    BY <1>6, KeepInv DEF ReadCard, Send, Inv, CardTyped
  <1>7. ASSUME NEW n \in 0..codes, Verify(m, n) PROVE Inv'
    BY <1>7, VerifyInv
  <1> QED BY <1>1, <1>2, <1>3, <1>4, <1>5, <1>6, <1>7

THEOREM Invariance == Spec => []Inv
  <1>1. Inv /\ UNCHANGED cardVars => Inv'
    BY DEF cardVars, Inv, CardTyped, CodesDrawn, TriesCount, CodeTriesHold
  <1>2. Inv /\ [Next]_<<roundVars, cardVars, menuVars>> => Inv'
    <2> SUFFICES ASSUME Inv, Next PROVE Inv'
      BY <1>1
    <2>1. CardNext \/ UNCHANGED cardVars
      BY DEF Next
    <2> QED BY <1>1, <2>1, CardStep
  <1> QED BY InitInv, <1>2, PTL DEF Spec

\* A code is never compared with a wrong one more than CODE_TRIES times (CodeTriesHold).
THEOREM CodeTriesAlwaysHold == Spec => []CodeTriesHold
  BY Invariance, PTL DEF Inv

-----------------------------------------------------------------------------
(* The two walks of a recipe.                                              *)

\* What holds of 0, and of a number after each it holds of, holds of every number.
LEMMA Counting ==
  ASSUME NEW S, 0 \in S, \A n \in Nat : n \in S => n + 1 \in S PROVE \A n \in Nat : n \in S
  <1> SUFFICES ASSUME NEW m \in Nat, m \notin S PROVE FALSE
    OBVIOUS
  <1> DEFINE T == {n \in Nat : n \notin S}
             R == OpToRel(<, Nat)
  <1>1. IsWellFoundedOn(R, Nat)
    BY NatLessThanWellFounded, Zenon
  <1>2. T \subseteq Nat /\ T # {}
    OBVIOUS
  <1>3. PICK n \in T : \A k \in T : ~(<<k, n>> \in R)
    <2> HIDE DEF R, T
    <2> QED BY <1>1, <1>2, WFMin
  <1>4. n # 0
    OBVIOUS
  <1>5. n - 1 \in Nat /\ n - 1 < n
    BY <1>4
  <1>6. n - 1 \in S
    BY <1>3, <1>5 DEF OpToRel
  <1> QED BY <1>5, <1>6

\* One level of the declaration's walk, and of the sale's.
Level(lines, w) ==
  LET next == (Of(lines, w.front) \cap Dishes) \ w.seen
  IN [seen |-> w.seen \cup next, front |-> next,
      parts |-> w.parts \cup (Of(lines, w.front) \cap Stock)]
Start(d) == [seen |-> {d}, front |-> {d}, parts |-> {}]
Walked(lines, d, f, n) == f = [k \in 0..n |-> IF k = 0 THEN Start(d) ELSE Level(lines, f[k - 1])]
Wanted(lines, S, f, n) == f = [k \in 0..n |-> IF k = 0 THEN S ELSE Of(lines, f[k - 1]) \cap Dishes]

\* There is such a walk, of any depth.
LEMMA WalkExists ==
  ASSUME NEW lines, NEW d PROVE \A n \in Nat : \E f : Walked(lines, d, f, n)
  <1> DEFINE S == {n \in Nat : \E f : Walked(lines, d, f, n)}
  <1>1. 0 \in S
    <2>1. Walked(lines, d, [k \in 0..0 |-> Start(d)], 0)
      BY DEF Walked
    <2> QED BY <2>1
  <1>2. ASSUME NEW n \in Nat, n \in S PROVE n + 1 \in S
    <2>1. PICK f : Walked(lines, d, f, n)
      BY <1>2
    <2> DEFINE g == [k \in 0..(n + 1) |-> IF k <= n THEN f[k] ELSE Level(lines, f[n])]
    <2>2. Walked(lines, d, g, n + 1)
      <3> DEFINE h == [k \in 0..(n + 1) |-> IF k = 0 THEN Start(d) ELSE Level(lines, g[k - 1])]
      <3>1. ASSUME NEW k \in 0..(n + 1) PROVE g[k] = h[k]
        <4>1. CASE k = 0
          <5>1. f[0] = Start(d) /\ g[0] = f[0] /\ h[0] = Start(d)
            BY <2>1 DEF Walked
          <5> QED BY <4>1, <5>1
        <4>2. CASE k \in 1..n
          <5>1. f[k] = Level(lines, f[k - 1])
            BY <2>1, <4>2 DEF Walked
          <5>2. g[k] = f[k] /\ g[k - 1] = f[k - 1] /\ h[k] = Level(lines, g[k - 1])
            BY <4>2
          <5> QED BY <5>1, <5>2
        <4>3. CASE k = n + 1
          <5>1. g[k] = Level(lines, f[n]) /\ g[k - 1] = f[n] /\ h[k] = Level(lines, g[k - 1])
            BY <4>3
          <5> QED BY <5>1
        <4> QED BY <4>1, <4>2, <4>3
      <3>2. g = h
        BY <3>1
      <3> QED BY <3>2 DEF Walked
    <2> HIDE DEF g
    <2> QED BY <2>2
  <1> HIDE DEF S
  <1>3. \A n \in Nat : n \in S
    BY <1>1, <1>2, Counting
  <1> QED BY <1>3 DEF S

LEMMA WantExists ==
  ASSUME NEW lines, NEW D PROVE \A n \in Nat : \E f : Wanted(lines, D, f, n)
  <1> DEFINE S == {n \in Nat : \E f : Wanted(lines, D, f, n)}
             Next1(x) == Of(lines, x) \cap Dishes
  <1>1. 0 \in S
    <2>1. Wanted(lines, D, [k \in 0..0 |-> D], 0)
      BY DEF Wanted
    <2> QED BY <2>1
  <1>2. ASSUME NEW n \in Nat, n \in S PROVE n + 1 \in S
    <2>1. PICK f : Wanted(lines, D, f, n)
      BY <1>2
    <2> DEFINE g == [k \in 0..(n + 1) |-> IF k <= n THEN f[k] ELSE Next1(f[n])]
    <2>2. Wanted(lines, D, g, n + 1)
      <3> DEFINE h == [k \in 0..(n + 1) |-> IF k = 0 THEN D ELSE Next1(g[k - 1])]
      <3>1. ASSUME NEW k \in 0..(n + 1) PROVE g[k] = h[k]
        <4>1. CASE k = 0
          <5>1. f[0] = D /\ g[0] = f[0] /\ h[0] = D
            BY <2>1 DEF Wanted
          <5> QED BY <4>1, <5>1
        <4>2. CASE k \in 1..n
          <5>0. k \in 0..n /\ k # 0
            BY <4>2
          <5>1. f[k] = Next1(f[k - 1])
            BY <2>1, <5>0, Zenon DEF Wanted
          <5>2. g[k] = f[k] /\ g[k - 1] = f[k - 1] /\ h[k] = Next1(g[k - 1])
            <6> HIDE DEF Next1
            <6> QED BY <4>2
          <5> QED BY <5>1, <5>2
        <4>3. CASE k = n + 1
          <5>1. g[k] = Next1(f[n]) /\ g[k - 1] = f[n] /\ h[k] = Next1(g[k - 1])
            <6> HIDE DEF Next1
            <6> QED BY <4>3
          <5> QED BY <5>1
        <4> QED BY <4>1, <4>2, <4>3
      <3>2. g = h
        BY <3>1
      <3> QED BY <3>2 DEF Wanted
    <2> HIDE DEF g
    <2> QED BY <2>2
  <1> HIDE DEF S
  <1>3. \A n \in Nat : n \in S
    BY <1>1, <1>2, Counting
  <1> QED BY <1>3 DEF S

\* The walks of the model are such walks.
LEMMA WalkIs ==
  ASSUME NEW lines, NEW d PROVE \E f : Walked(lines, d, f, Depth) /\ Walk(lines, d) = f[Depth]
  <1> DEFINE f == CHOOSE w : Walked(lines, d, w, Depth)
  <1>1. Walked(lines, d, f, Depth)
    BY WalkExists, DepthAssumption
  <1>2. Walk(lines, d) = f[Depth]
    BY DEF Walk, Walked, Level, Start
  <1> QED BY <1>1, <1>2

LEMMA WantIs == ASSUME NEW lines, NEW D PROVE Wanted(lines, D, Want(lines, D), Depth)
  <1> DEFINE f == CHOOSE w : Wanted(lines, D, w, Depth)
  <1>1. Wanted(lines, D, f, Depth)
    BY WantExists, DepthAssumption
  <1>2. Want(lines, D) = f
    BY DEF Want, Wanted
  <1> QED BY <1>1, <1>2

\* What the declaration's walk knows at every level: all it has seen but the frontier is
\* expanded, nothing was seen that the book does not lead to, and the parts are those of what
\* was expanded.
LEMMA WalkKnows ==
  ASSUME NEW lines, NEW d \in Dishes, NEW f, Walked(lines, d, f, Depth)
  PROVE  \A k \in Nat : k <= Depth =>
           /\ d \in f[k].seen /\ f[k].seen \subseteq Dishes /\ f[k].front \subseteq f[k].seen
           /\ Of(lines, f[k].seen \ f[k].front) \cap Dishes \subseteq f[k].seen
           /\ f[k].parts = Of(lines, f[k].seen \ f[k].front) \cap Stock
           /\ \A S \in SUBSET Dishes :
                d \in S /\ Of(lines, S) \cap Dishes \subseteq S => f[k].seen \subseteq S
  <1> DEFINE Knows(w) ==
               /\ d \in w.seen /\ w.seen \subseteq Dishes /\ w.front \subseteq w.seen
               /\ Of(lines, w.seen \ w.front) \cap Dishes \subseteq w.seen
               /\ w.parts = Of(lines, w.seen \ w.front) \cap Stock
               /\ \A S \in SUBSET Dishes :
                    d \in S /\ Of(lines, S) \cap Dishes \subseteq S => w.seen \subseteq S
             T == {k \in Nat : k <= Depth => Knows(f[k])}
  <1>1. 0 \in T
    <2>1. f[0] = Start(d)
      BY DepthAssumption DEF Walked
    <2>2. Knows(Start(d))
      BY DEF Start, Of
    <2> QED BY <2>1, <2>2
  <1>2. ASSUME NEW k \in Nat, k \in T PROVE k + 1 \in T
    <2> SUFFICES ASSUME k + 1 <= Depth PROVE Knows(f[k + 1])
      <3> HIDE DEF Knows
      <3> QED OBVIOUS
    <2>0. k + 1 \in 0..Depth /\ k + 1 # 0 /\ k <= Depth /\ (k + 1) - 1 = k
      BY DepthAssumption
    <2>1. f[k + 1] = Level(lines, f[k])
      BY <2>0 DEF Walked
    <2>2. Knows(f[k])
      BY <1>2, <2>0
    <2>3. PICK w : w = f[k]
      OBVIOUS
    <2>4. Knows(w)
      BY <2>2, <2>3
    <2>5. Knows(Level(lines, w))
      <3> DEFINE next == (Of(lines, w.front) \cap Dishes) \ w.seen
                 v == Level(lines, w)
      <3>1. v.seen = w.seen \cup next /\ v.front = next
            /\ v.parts = w.parts \cup (Of(lines, w.front) \cap Stock)
        BY DEF Level
      <3>2. v.seen \ v.front = w.seen
        BY <3>1
      <3>3. \A A, B : Of(lines, A \cup B) = Of(lines, A) \cup Of(lines, B)
        BY DEF Of
      <3>4. Of(lines, w.seen) = Of(lines, w.seen \ w.front) \cup Of(lines, w.front)
        <4>1. w.seen = (w.seen \ w.front) \cup w.front
          BY <2>4
        <4> QED BY <3>3, <4>1
      <3>5. d \in v.seen /\ v.seen \subseteq Dishes /\ v.front \subseteq v.seen
        BY <2>4, <3>1
      <3>6. Of(lines, w.seen) \cap Dishes \subseteq v.seen
        BY <2>4, <3>1, <3>4
      <3>7. v.parts = Of(lines, w.seen) \cap Stock
        BY <2>4, <3>1, <3>4
      <3>8. ASSUME NEW S \in SUBSET Dishes, d \in S, Of(lines, S) \cap Dishes \subseteq S
            PROVE  v.seen \subseteq S
        <4>1. w.seen \subseteq S
          BY <2>4, <3>8
        <4>2. Of(lines, w.front) \subseteq Of(lines, S)
          BY <2>4, <4>1 DEF Of
        <4> QED BY <3>1, <3>8, <4>1, <4>2
      <3> HIDE DEF next, v
      <3>9. Knows(v)
        BY <3>2, <3>5, <3>6, <3>7, <3>8
      <3> QED BY <3>9 DEF v
    <2> HIDE DEF Knows
    <2> QED BY <2>1, <2>3, <2>5
  <1>3. \A k \in Nat : k \in T
    <2> HIDE DEF T
    <2> QED BY <1>1, <1>2, Counting
  <1> QED BY <1>3

\* Both walks reach the same dishes, as long as each has levels left.
LEMMA WalksMeet ==
  ASSUME NEW lines, NEW d \in Dishes, NEW f, Walked(lines, d, f, Depth),
         NEW g, Wanted(lines, {d}, g, Depth)
  PROVE  \A k \in Nat : k <= Depth =>
           /\ f[k].front \subseteq g[k]
           /\ \A j \in 0..k : g[j] \subseteq f[k].seen
           /\ \A x \in f[k].seen : \E j \in 0..k : x \in g[j]
  <1> DEFINE Meet(k) == /\ f[k].front \subseteq g[k]
                        /\ \A j \in 0..k : g[j] \subseteq f[k].seen
                        /\ \A x \in f[k].seen : \E j \in 0..k : x \in g[j]
             T == {k \in Nat : k <= Depth => Meet(k)}
  <1>1. 0 \in T
    <2>1. f[0] = Start(d) /\ g[0] = {d}
      BY DepthAssumption DEF Walked, Wanted
    <2> QED BY <2>1 DEF Start
  <1>2. ASSUME NEW k \in Nat, k \in T PROVE k + 1 \in T
    <2> SUFFICES ASSUME k + 1 <= Depth PROVE Meet(k + 1)
      OBVIOUS
    <2>0. k + 1 \in 0..Depth /\ k + 1 # 0 /\ k <= Depth /\ (k + 1) - 1 = k
      BY DepthAssumption
    <2>1. f[k + 1] = Level(lines, f[k])
      BY <2>0 DEF Walked
    <2>2. g[k + 1] = Of(lines, g[k]) \cap Dishes
      BY <2>0 DEF Wanted
    <2>3. Meet(k)
      BY <1>2, <2>0
    <2>4. /\ f[k].front \subseteq f[k].seen
          /\ Of(lines, f[k].seen \ f[k].front) \cap Dishes \subseteq f[k].seen
      BY <2>0, WalkKnows
    <2>5. /\ f[k + 1].front = (Of(lines, f[k].front) \cap Dishes) \ f[k].seen
          /\ f[k + 1].seen = f[k].seen \cup f[k + 1].front
      BY <2>1 DEF Level
    <2>6. Of(lines, f[k].front) \subseteq Of(lines, g[k])
      BY <2>3 DEF Of
    <2>7. f[k + 1].front \subseteq g[k + 1]
      BY <2>2, <2>5, <2>6
    <2>8. g[k] \subseteq f[k].seen
      BY <2>3
    <2>9. g[k + 1] \subseteq f[k + 1].seen
      BY <2>2, <2>4, <2>5, <2>8 DEF Of
    <2>10. ASSUME NEW j \in 0..(k + 1) PROVE g[j] \subseteq f[k + 1].seen
      <3>1. CASE j = k + 1
        BY <2>9, <3>1
      <3>2. CASE j \in 0..k
        BY <2>3, <2>5, <3>2
      <3> QED BY <3>1, <3>2
    <2>11. ASSUME NEW x \in f[k + 1].seen PROVE \E j \in 0..(k + 1) : x \in g[j]
      <3>1. CASE x \in f[k].seen
        <4>1. PICK j \in 0..k : x \in g[j]
          BY <2>3, <3>1
        <4> QED BY <4>1
      <3>2. CASE x \in f[k + 1].front
        BY <2>7, <3>2
      <3> QED BY <2>5, <3>1, <3>2
    <2> QED BY <2>7, <2>10, <2>11
  <1>3. \A k \in Nat : k \in T
    <2> HIDE DEF T
    <2> QED BY <1>1, <1>2, Counting
  <1> QED BY <1>3

\* The level of a sale's walk, and what is found on all of them.
At(lines, D, k) == Want(lines, D)[k]
Reached(lines, D) == (UNION {Of(lines, At(lines, D, k)) : k \in 0..Depth}) \cap Stock

LEMMA AtSteps ==
  ASSUME NEW lines, NEW D
  PROVE  /\ \A x : x \in At(lines, D, 0) <=> x \in D
         /\ \A k \in Nat : k + 1 <= Depth =>
              \A x : x \in At(lines, D, k + 1)
                     <=> x \in Dishes /\ \E l \in lines : l[1] \in At(lines, D, k) /\ l[2] = x
  <1>0. Depth \in Nat
    BY DepthAssumption
  <1>1. PICK g : Wanted(lines, D, g, Depth) /\ g = Want(lines, D)
    BY WantIs
  <1>2. g[0] = D
    BY <1>0, <1>1 DEF Wanted
  <1>3. ASSUME NEW k \in Nat, k + 1 <= Depth PROVE g[k + 1] = Of(lines, g[k]) \cap Dishes
    <2>1. k + 1 \in 0..Depth /\ k + 1 # 0 /\ (k + 1) - 1 = k
      BY <1>0, <1>3
    <2> QED BY <1>1, <2>1 DEF Wanted
  <1>4. ASSUME NEW k \in Nat, k + 1 <= Depth, NEW x
        PROVE  x \in g[k + 1] <=> x \in Dishes /\ \E l \in lines : l[1] \in g[k] /\ l[2] = x
    BY <1>3, <1>4 DEF Of
  <1> QED BY <1>1, <1>2, <1>4 DEF At

\* A sale of several walks what it would walk for each.
Splits(lines, sold, k) ==
  \A x : x \in At(lines, sold, k) <=> \E d \in sold : x \in At(lines, {d}, k)

LEMMA WantSplits ==
  ASSUME NEW lines, NEW sold
  PROVE  \A k \in Nat : k <= Depth => Splits(lines, sold, k)
  <1> DEFINE T == {k \in Nat : k <= Depth => Splits(lines, sold, k)}
  <1>0. Depth \in Nat
    BY DepthAssumption
  <1>1. 0 \in T
    <2>1. \A D, x : x \in At(lines, D, 0) <=> x \in D
      BY AtSteps
    <2>2. Splits(lines, sold, 0)
      BY <2>1 DEF Splits
    <2> QED BY <2>2
  <1>2. ASSUME NEW k \in Nat, k \in T PROVE k + 1 \in T
    <2> SUFFICES ASSUME k + 1 <= Depth PROVE Splits(lines, sold, k + 1)
      OBVIOUS
    <2>1. Splits(lines, sold, k)
      BY <1>0, <1>2
    <2>2. \A D, x : x \in At(lines, D, k + 1)
                 <=> x \in Dishes /\ \E l \in lines : l[1] \in At(lines, D, k) /\ l[2] = x
      BY AtSteps
    <2>3. ASSUME NEW x, x \in At(lines, sold, k + 1)
          PROVE  \E d \in sold : x \in At(lines, {d}, k + 1)
      <3>1. PICK l \in lines : x \in Dishes /\ l[1] \in At(lines, sold, k) /\ l[2] = x
        BY <2>2, <2>3
      <3>2. PICK d \in sold : l[1] \in At(lines, {d}, k)
        BY <2>1, <3>1 DEF Splits
      <3> QED BY <2>2, <3>1, <3>2
    <2>4. ASSUME NEW x, NEW d \in sold, x \in At(lines, {d}, k + 1)
          PROVE  x \in At(lines, sold, k + 1)
      <3>1. PICK l \in lines : x \in Dishes /\ l[1] \in At(lines, {d}, k) /\ l[2] = x
        BY <2>2, <2>4
      <3>2. l[1] \in At(lines, sold, k)
        BY <2>1, <3>1 DEF Splits
      <3> QED BY <2>2, <3>1, <3>2
    <2> QED BY <2>3, <2>4 DEF Splits
  <1>3. \A k \in Nat : k \in T
    <2> HIDE DEF T
    <2> QED BY <1>1, <1>2, Counting
  <1> QED BY <1>3

\* What a dish's declaration is worked out from and what is derived for a sale of it are what
\* it is made of.
LEMMA WalksAgree ==
  ASSUME NEW d \in Dishes, Declarable(line, d)
  PROVE  Parts(line, d) = MadeOf(d) /\ Reached(line, {d}) = MadeOf(d)
  <1>0. Depth \in Nat /\ Depth <= Depth
    BY DepthAssumption
  <1>1. PICK f : Walked(line, d, f, Depth) /\ Walk(line, d) = f[Depth]
    BY WalkIs
  <1>x. PICK g : g = Want(line, {d})
    OBVIOUS
  <1>2. Wanted(line, {d}, g, Depth)
    BY <1>x, WantIs
  <1>3. PICK w : w = f[Depth]
    OBVIOUS
  <1>4. w.front = {} /\ Parts(line, d) = w.parts
    BY <1>1, <1>3 DEF Declarable, Whole, Parts
  <1>5. /\ d \in w.seen /\ w.seen \subseteq Dishes
        /\ Of(line, w.seen \ w.front) \cap Dishes \subseteq w.seen
        /\ w.parts = Of(line, w.seen \ w.front) \cap Stock
        /\ \A S \in SUBSET Dishes :
             d \in S /\ Of(line, S) \cap Dishes \subseteq S => w.seen \subseteq S
    BY <1>0, <1>1, <1>3, WalkKnows
  <1>6. w.seen \ w.front = w.seen
    BY <1>4
  <1>7. Within(d) = w.seen
    BY <1>5, <1>6 DEF Within
  <1>8. /\ \A j \in 0..Depth : g[j] \subseteq w.seen
        /\ \A x \in w.seen : \E j \in 0..Depth : x \in g[j]
    BY <1>0, <1>1, <1>2, <1>3, WalksMeet
  <1>9. UNION {Of(line, g[k]) : k \in 0..Depth} = Of(line, w.seen)
    BY <1>8 DEF Of
  <1>10. Reached(line, {d}) = (UNION {Of(line, g[k]) : k \in 0..Depth}) \cap Stock
    BY <1>x DEF Reached, At
  <1> QED BY <1>4, <1>5, <1>6, <1>7, <1>9, <1>10 DEF MadeOf

\* What is derived for a bill is all its dishes are made of, and what is bought in.
LEMMA BillDerived ==
  ASSUME NEW sold \in SUBSET Dishes, \A d \in sold : Declarable(line, d)
  PROVE  Derived(line, item, sold) = (UNION {MadeOf(d) : d \in sold}) \cup Bought(item, sold)
  <1>0. Depth \in Nat
    BY DepthAssumption
  <1>1. ASSUME NEW x
        PROVE  x \in Reached(line, sold) <=> \E d \in sold : x \in Reached(line, {d})
    <2>1. \A D : x \in Reached(line, D) <=>
            x \in Stock /\ \E k \in 0..Depth : \E l \in line : l[1] \in At(line, D, k) /\ l[2] = x
      BY DEF Reached, Of
    <2>2. \A k \in 0..Depth : Splits(line, sold, k)
      BY <1>0, WantSplits
    <2>3. ASSUME x \in Reached(line, sold) PROVE \E d \in sold : x \in Reached(line, {d})
      <3>1. PICK k \in 0..Depth, l \in line : x \in Stock /\ l[1] \in At(line, sold, k) /\ l[2] = x
        BY <2>1, <2>3
      <3>2. PICK d \in sold : l[1] \in At(line, {d}, k)
        BY <2>2, <3>1 DEF Splits
      <3> QED BY <2>1, <3>1, <3>2
    <2>4. ASSUME NEW d \in sold, x \in Reached(line, {d}) PROVE x \in Reached(line, sold)
      <3>1. PICK k \in 0..Depth, l \in line : x \in Stock /\ l[1] \in At(line, {d}, k) /\ l[2] = x
        BY <2>1, <2>4
      <3>2. l[1] \in At(line, sold, k)
        BY <2>2, <3>1 DEF Splits
      <3> QED BY <2>1, <3>1, <3>2
    <2> QED BY <2>3, <2>4
  <1>2. \A d \in sold : \A x : x \in Reached(line, {d}) <=> x \in MadeOf(d)
    BY WalksAgree
  <1>3. Reached(line, sold) = UNION {MadeOf(d) : d \in sold}
    BY <1>1, <1>2
  <1>4. Derived(line, item, sold) = Reached(line, sold) \cup Bought(item, sold)
    BY DEF Derived, Reached, At
  <1> QED BY <1>3, <1>4

\* A walk of a recipe that is less deep than it may go runs out.
LEMMA ShallowEnds ==
  ASSUME NEW d \in Dishes, Shallow(d)
  PROVE  (\A x : x \notin At(line, {d}, Depth)) /\ Declarable(line, d)
  <1>0. Depth \in Nat /\ Depth <= Depth
    BY DepthAssumption
  <1>1. PICK rank \in [Dishes -> 0..(Depth - 1)] :
          \A l \in line : l[1] \in Within(d) /\ l[2] \in Dishes => rank[l[2]] < rank[l[1]]
    BY DEF Shallow
  <1>2. \A x \in Dishes : rank[x] \in Int /\ rank[x] >= 0 /\ rank[x] <= Depth - 1
    BY <1>0, <1>1
  <1> DEFINE Low(k) == \A x \in At(line, {d}, k) : x \in Within(d) /\ rank[x] + k <= Depth - 1
             T == {k \in Nat : k <= Depth => Low(k)}
  <1>3. 0 \in T
    <2>1. \A x \in At(line, {d}, 0) : x = d
      BY AtSteps
    <2>2. d \in Within(d)
      BY DEF Within
    <2>3. Low(0)
      BY <1>0, <1>2, <2>1, <2>2
    <2> HIDE DEF Low
    <2> QED BY <2>3
  <1>4. ASSUME NEW k \in Nat, k \in T PROVE k + 1 \in T
    <2> SUFFICES ASSUME k + 1 <= Depth PROVE Low(k + 1)
      <3> HIDE DEF Low
      <3> QED OBVIOUS
    <2>0. Low(k)
      <3> HIDE DEF Low
      <3> QED BY <1>0, <1>4
    <2> SUFFICES ASSUME NEW y \in At(line, {d}, k + 1)
                 PROVE  y \in Within(d) /\ rank[y] + (k + 1) <= Depth - 1
      OBVIOUS
    <2>2. PICK l \in line : l[1] \in At(line, {d}, k) /\ l[2] = y /\ y \in Dishes
      BY AtSteps
    <2>3. l[1] \in Within(d) /\ rank[l[1]] + k <= Depth - 1
      BY <2>0, <2>2
    <2>4. rank[y] < rank[l[1]] /\ l[1] \in Dishes
      BY <1>1, <2>2, <2>3 DEF Within
    <2>5. rank[y] \in Int /\ rank[l[1]] \in Int
      BY <1>2, <2>2, <2>4
    <2>6. y \in Within(d)
      BY <2>2, <2>3 DEF Within, Of
    <2> QED BY <1>0, <2>3, <2>4, <2>5, <2>6
  <1>5. \A k \in Nat : k \in T
    <2> HIDE DEF T
    <2> QED BY <1>3, <1>4, Counting
  <1>6. \A x : x \notin At(line, {d}, Depth)
    <2>1. Low(Depth)
      <3> HIDE DEF Low
      <3> QED BY <1>0, <1>5
    <2>2. ASSUME NEW x \in At(line, {d}, Depth) PROVE FALSE
      <3>1. x \in Dishes /\ rank[x] + Depth <= Depth - 1
        BY <2>1, <2>2 DEF Within
      <3>2. rank[x] \in Int /\ rank[x] >= 0
        BY <1>2, <3>1
      <3> QED BY <1>0, <3>1, <3>2
    <2> QED BY <2>2
  <1>7. PICK f : Walked(line, d, f, Depth) /\ Walk(line, d) = f[Depth]
    BY WalkIs
  <1>8. PICK g : Wanted(line, {d}, g, Depth) /\ g = Want(line, {d})
    BY WantIs
  <1>9. f[Depth].front \subseteq g[Depth]
    BY <1>0, <1>7, <1>8, WalksMeet
  <1>10. f[Depth].front = {}
    BY <1>6, <1>8, <1>9 DEF At
  <1> QED BY <1>6, <1>7, <1>10 DEF Declarable, Whole

LEMMA BillsAgree == DrawnIsDeclared
  <1>1. \A d \in Dishes : Declarable(line, d) => Parts(line, d) = MadeOf(d)
    BY WalksAgree
  <1>2. ASSUME NEW sold \in SUBSET Dishes, NEW own \in SUBSET Stock,
               NEW all, all = (UNION {MadeOf(d) : d \in sold}) \cup Bought(item, sold)
        PROVE  /\ (\A d \in sold : Declarable(line, d)) => SaleDraws(line, item, sold, own) \in {own, all}
               /\ (\A d \in sold : Shallow(d)) /\ all # {} => SaleDraws(line, item, sold, own) = all
    <2>1. (\A d \in sold : Declarable(line, d)) => Derived(line, item, sold) = all
      <3>1. (\A d \in sold : Declarable(line, d)) =>
              Derived(line, item, sold) = (UNION {MadeOf(d) : d \in sold}) \cup Bought(item, sold)
        BY BillDerived
      <3> QED BY <1>2, <3>1
    <2>2. ASSUME \A d \in sold : Shallow(d), all # {} PROVE SaleDraws(line, item, sold, own) = all
      <3>1. \A d \in sold : (\A x : x \notin At(line, {d}, Depth)) /\ Declarable(line, d)
        BY <2>2, ShallowEnds
      <3>2. Splits(line, sold, Depth)
        BY WantSplits, DepthAssumption
      <3>3. \A x : x \notin At(line, sold, Depth)
        BY <3>1, <3>2 DEF Splits
      <3>4. Complete(line, sold)
        BY <3>3 DEF Complete, Of, At
      <3> QED BY <2>1, <2>2, <3>1, <3>4 DEF SaleDraws
    <2> QED BY <2>1, <2>2 DEF SaleDraws
  <1> QED BY <1>1, <1>2 DEF DrawnIsDeclared

\* However the recipes are written, through batches and round cycles, what a dish that can be
\* declared declares is all it is made of; a bill of such dishes moves all of that or what the
\* till said, and all of that where no recipe is as deep as the walk (DrawnIsDeclared).
THEOREM DeclaredIsDrawn == Spec => []DrawnIsDeclared
  BY BillsAgree, PTL

-----------------------------------------------------------------------------
(* A store's setup, out and in again.                                      *)

Items == [buy : Stock \cup {NoItem}, decl : SUBSET Allergens, addons : SUBSET Addons,
          batch : BOOLEAN]

MenuTyped ==
  /\ item \in [Dishes -> Items]
  /\ line \in SUBSET (Dishes \X (Stock \cup Dishes))
  /\ has \in [Stock -> SUBSET Allergens]
  /\ group \in SUBSET Addons

\* The parts of a walk are ingredients.
LEMMA PartsAreStock == ASSUME NEW lines, NEW d \in Dishes PROVE Parts(lines, d) \subseteq Stock
  <1>0. Depth \in Nat /\ Depth <= Depth
    BY DepthAssumption
  <1>1. PICK f : Walked(lines, d, f, Depth) /\ Walk(lines, d) = f[Depth]
    BY WalkIs
  <1>2. f[Depth].parts = Of(lines, f[Depth].seen \ f[Depth].front) \cap Stock
    BY <1>0, <1>1, WalkKnows
  <1> QED BY <1>1, <1>2 DEF Parts

LEMMA PublishTyped ==
  ASSUME NEW items \in [Dishes -> Items], NEW lines, NEW stock \in [Stock -> SUBSET Allergens],
         NEW D
  PROVE  Publish(items, lines, stock, D) \in [Dishes -> Items]
  <1> SUFFICES ASSUME NEW d \in Dishes
               PROVE  (IF d \in D /\ Declarable(lines, d)
                       THEN [items[d] EXCEPT !.decl = Says(stock, Parts(lines, d))]
                       ELSE items[d]) \in Items
    BY DEF Publish
  <1>1. Says(stock, Parts(lines, d)) \in SUBSET Allergens
    BY PartsAreStock DEF Says
  <1>2. ASSUME NEW x \in Items, NEW a \in SUBSET Allergens PROVE [x EXCEPT !.decl = a] \in Items
    BY DEF Items
  <1>3. items[d] \in Items
    OBVIOUS
  <1> QED BY <1>1, <1>2, <1>3

LEMMA MenuInitTyped == MenuInit => MenuTyped
  BY DEF MenuInit, MenuTyped, Items

LEMMA RewrittenTyped ==
  ASSUME MenuTyped, NEW d \in Dishes, NEW comps \in SUBSET (Stock \cup Dishes)
  PROVE  Rewritten(line, d, comps) \in SUBSET (Dishes \X (Stock \cup Dishes))
  BY DEF MenuTyped, Rewritten

LEMMA MenuStepTyped == MenuTyped /\ MenuNext => MenuTyped'
  <1> SUFFICES ASSUME MenuTyped, MenuNext PROVE MenuTyped'
    OBVIOUS
  <1>0. /\ item \in [Dishes -> Items] /\ line \in SUBSET (Dishes \X (Stock \cup Dishes))
        /\ has \in [Stock -> SUBSET Allergens] /\ group \in SUBSET Addons
    BY DEF MenuTyped
  <1>1. ASSUME NEW d \in Dishes, DishUpsert(d) PROVE MenuTyped'
    <2>1. PICK buys \in BOOLEAN, recipes \in BOOLEAN, lists \in BOOLEAN :
          \E buy \in IF buys THEN Stock \cup {NoItem} ELSE {item[d].buy},
             comps \in IF recipes THEN Recipes ELSE {{}},
             groups \in IF lists THEN SUBSET Addons ELSE {{}}, typed \in SUBSET Allergens :
            LET bought == buys /\ buy # NoItem
                lines == IF bought THEN Rewritten(line, d, {})
                         ELSE IF recipes THEN Rewritten(line, d, comps) ELSE line
                now == [buy |-> buy, decl |-> typed,
                        addons |-> IF lists THEN groups \cap group ELSE item[d].addons,
                        batch |-> item[d].batch]
            IN line' = lines /\ item' = Publish([item EXCEPT ![d] = now], lines, has, {d})
      BY <1>1 DEF DishUpsert
    <2>0. PICK buy \in IF buys THEN Stock \cup {NoItem} ELSE {item[d].buy},
             comps \in IF recipes THEN Recipes ELSE {{}},
             groups \in IF lists THEN SUBSET Addons ELSE {{}}, typed \in SUBSET Allergens :
            LET bought == buys /\ buy # NoItem
                lines == IF bought THEN Rewritten(line, d, {})
                         ELSE IF recipes THEN Rewritten(line, d, comps) ELSE line
                now == [buy |-> buy, decl |-> typed,
                        addons |-> IF lists THEN groups \cap group ELSE item[d].addons,
                        batch |-> item[d].batch]
            IN line' = lines /\ item' = Publish([item EXCEPT ![d] = now], lines, has, {d})
      BY <2>1
    <2> DEFINE now == [buy |-> buy, decl |-> typed,
                       addons |-> IF lists THEN groups \cap group ELSE item[d].addons,
                       batch |-> item[d].batch]
    <2>2. item[d] \in Items
      BY <1>0
    <2>3. buy \in Stock \cup {NoItem} /\ comps \in SUBSET (Stock \cup Dishes)
      BY <2>2 DEF Items, Recipes
    <2>4. now \in Items
      BY <1>0, <2>2, <2>3 DEF Items
    <2>5. line' \in SUBSET (Dishes \X (Stock \cup Dishes))
      BY <1>0, <2>0, <2>3, RewrittenTyped
    <2>6. item' = Publish([item EXCEPT ![d] = now], line', has, {d})
      BY <2>0
    <2> HIDE DEF now
    <2>7. [item EXCEPT ![d] = now] \in [Dishes -> Items]
      BY <1>0, <2>4
    <2>8. UNCHANGED <<has, group>>
      BY <1>1 DEF DishUpsert
    <2>9. item' \in [Dishes -> Items]
      BY <1>0, <2>6, <2>7, PublishTyped
    <2> QED BY <1>0, <2>5, <2>8, <2>9 DEF MenuTyped
  <1>2. ASSUME NEW d \in Dishes, RecipeUpdate(d) PROVE MenuTyped'
    BY <1>0, <1>2, RewrittenTyped, PublishTyped DEF MenuTyped, RecipeUpdate, Recipes
  <1>3. ASSUME NEW d \in Dishes, SubrecipeAdd(d) PROVE MenuTyped'
    <2>1. item[d] \in Items
      BY <1>0
    <2>2. [item[d] EXCEPT !.batch = TRUE] \in Items
      BY <2>1 DEF Items
    <2>3. [item EXCEPT ![d].batch = TRUE] = [item EXCEPT ![d] = [item[d] EXCEPT !.batch = TRUE]]
      BY <1>0
    <2>4. [item EXCEPT ![d].batch = TRUE] \in [Dishes -> Items]
      BY <1>0, <2>2, <2>3
    <2>5. PICK comps \in SUBSET Stock \ {{}} :
            /\ line' = Rewritten(line, d, comps)
            /\ item' = Publish([item EXCEPT ![d].batch = TRUE], line', has,
                               {d} \cup UsersOf(line', d))
      BY <1>3 DEF SubrecipeAdd
    <2>6. item' \in [Dishes -> Items]
      BY <1>0, <2>4, <2>5, PublishTyped
    <2>7. line' \in SUBSET (Dishes \X (Stock \cup Dishes))
      BY <2>5, RewrittenTyped
    <2> QED BY <1>0, <1>3, <2>6, <2>7 DEF MenuTyped, SubrecipeAdd
  <1>4. ASSUME NEW i \in Stock, ItemUpsert(i) PROVE MenuTyped'
    <2>1. has' \in [Stock -> SUBSET Allergens]
      BY <1>0, <1>4 DEF ItemUpsert
    <2>2. item' = Publish(item, line, has', UsersOf(line, i))
      BY <1>4 DEF ItemUpsert
    <2>3. item' \in [Dishes -> Items]
      BY <1>0, <2>1, <2>2, PublishTyped
    <2> QED BY <1>0, <1>4, <2>1, <2>3 DEF MenuTyped, ItemUpsert
  <1>5. ASSUME NEW x \in Items, NEW a \in SUBSET Addons PROVE [x EXCEPT !.addons = a] \in Items
    BY DEF Items
  <1>6. ASSUME NEW x \in Items PROVE x.addons \in SUBSET Addons
    BY DEF Items
  <1>7. ASSUME NEW g \in Addons, ModifierUpdate(g) PROVE MenuTyped'
    <2>1. PICK on \in SUBSET Dishes :
            item' = [d \in Dishes |-> IF d \in on THEN [item[d] EXCEPT !.addons = @ \cup {g}]
                                      ELSE item[d]]
      BY <1>7 DEF ModifierUpdate
    <2>2. ASSUME NEW d \in Dishes PROVE item'[d] \in Items
      <3>1. item[d] \in Items
        BY <1>0
      <3>2. item[d].addons \cup {g} \in SUBSET Addons
        BY <1>6, <3>1
      <3> QED BY <1>5, <2>1, <3>1, <3>2
    <2> QED BY <1>0, <1>7, <2>1, <2>2 DEF MenuTyped, ModifierUpdate
  <1>8. ASSUME NEW g \in Addons, ModifierRemove(g) PROVE MenuTyped'
    <2>1. item' = [d \in Dishes |-> [item[d] EXCEPT !.addons = @ \ {g}]]
      BY <1>8 DEF ModifierRemove
    <2>2. ASSUME NEW d \in Dishes PROVE item'[d] \in Items
      <3>1. item[d] \in Items
        BY <1>0
      <3>2. item[d].addons \ {g} \in SUBSET Addons
        BY <1>6, <3>1
      <3> QED BY <1>5, <2>1, <3>1, <3>2
    <2> QED BY <1>0, <1>8, <2>1, <2>2 DEF MenuTyped, ModifierRemove
  <1> QED BY <1>1, <1>2, <1>3, <1>4, <1>7, <1>8 DEF MenuNext

Setups == [stock : SUBSET Stock, items : SUBSET Dishes,
           line : SUBSET (Dishes \X (Stock \cup Dishes)), group : SUBSET Addons,
           buy : [Dishes -> Stock \cup {NoItem}], addons : [Dishes -> SUBSET Addons]]

\* What each part of the file leaves there, after the parts before it.
LEMMA EmptyIs == Empty \in Setups /\ Empty.items = {} /\ Empty.line = {} /\ Empty.group = {}
  BY DEF Empty, Setups

LEMMA IngredientsAre ==
  ASSUME NEW s \in Setups
  PROVE  /\ Ingredients(s) \in Setups /\ Ingredients(s).stock = Stock
         /\ Ingredients(s).items = s.items /\ Ingredients(s).line = s.line
         /\ Ingredients(s).group = s.group
  BY DEF Ingredients, Setups

LEMMA DishRowsAre ==
  ASSUME MenuTyped, NEW s \in Setups, s.stock = Stock
  PROVE  /\ DishRows(s) \in Setups /\ DishRows(s).stock = Stock
         /\ DishRows(s).items = Dishes \ Batches /\ DishRows(s).line = s.line
         /\ \A d \in Dishes \ Batches : DishRows(s).buy[d] = item[d].buy
         /\ s.group = {} => \A d \in Dishes : DishRows(s).addons[d] = {}
  <1>1. \A d \in Dishes : item[d].buy \in Stock \cup {NoItem} /\ item[d].addons \in SUBSET Addons
    BY DEF MenuTyped, Items
  <1> DEFINE put == {d \in Dishes \ Batches : item[d].buy \in s.stock \cup {NoItem}}
             buy == [d \in Dishes |-> IF d \in put THEN item[d].buy ELSE NoItem]
             addons == [d \in Dishes |-> IF d \in put THEN item[d].addons \cap s.group ELSE {}]
  <1>2. put = Dishes \ Batches
    BY <1>1
  <1>3. buy \in [Dishes -> Stock \cup {NoItem}] /\ addons \in [Dishes -> SUBSET Addons]
    BY <1>1, <1>2
  <1>4. DishRows(s) = [s EXCEPT !.items = put, !.buy = buy, !.addons = addons]
    BY DEF DishRows
  <1>5. put \in SUBSET Dishes
    BY <1>2
  <1>6. (\A d \in Dishes \ Batches : buy[d] = item[d].buy)
        /\ (s.group = {} => \A d \in Dishes : addons[d] = {})
    BY <1>2
  <1> HIDE DEF put, buy, addons
  <1>7. /\ DishRows(s) \in Setups /\ DishRows(s).stock = s.stock /\ DishRows(s).items = put
        /\ DishRows(s).line = s.line /\ DishRows(s).buy = buy /\ DishRows(s).addons = addons
    BY <1>3, <1>4, <1>5 DEF Setups
  <1> QED BY <1>2, <1>6, <1>7

LEMMA BatchRowsAre ==
  ASSUME MenuTyped, FlatBatches, NEW s \in Setups, s.stock = Stock
  PROVE  /\ BatchRows(s) \in Setups /\ BatchRows(s).stock = Stock
         /\ BatchRows(s).items = s.items \cup Batches
         /\ BatchRows(s).line = s.line \cup {l \in line : l[1] \in Batches}
         /\ BatchRows(s).buy = s.buy /\ BatchRows(s).addons = s.addons
  <1> DEFINE put == {b \in Batches : LinesOf(b) # {} /\ LinesOf(b) \subseteq s.stock}
             more == {l \in line : l[1] \in put}
  <1>1. put = Batches /\ put \in SUBSET Dishes
    BY DEF FlatBatches, Batches
  <1>2. more \in SUBSET (Dishes \X (Stock \cup Dishes))
    BY DEF MenuTyped
  <1>3. BatchRows(s) = [s EXCEPT !.items = @ \cup put, !.line = @ \cup more]
    BY DEF BatchRows
  <1>4. more = {l \in line : l[1] \in Batches}
    BY <1>1
  <1> HIDE DEF put, more
  <1>5. PICK i, l : i = s.items \cup put /\ l = s.line \cup more
    OBVIOUS
  <1>6. i \in SUBSET Dishes /\ l \in SUBSET (Dishes \X (Stock \cup Dishes))
    BY <1>1, <1>2, <1>5 DEF Setups
  <1>7. BatchRows(s) = [s EXCEPT !.items = i, !.line = l]
    BY <1>3, <1>5
  <1>8. /\ BatchRows(s) \in Setups /\ BatchRows(s).stock = s.stock
        /\ BatchRows(s).items = i /\ BatchRows(s).line = l
        /\ BatchRows(s).buy = s.buy /\ BatchRows(s).addons = s.addons
    BY <1>6, <1>7 DEF Setups
  <1> QED BY <1>1, <1>4, <1>5, <1>8

LEMMA RecipeRowsAre ==
  ASSUME MenuTyped, NEW s \in Setups, s.stock = Stock, s.items = Dishes
  PROVE  /\ RecipeRows(s) \in Setups /\ RecipeRows(s).items = Dishes
         /\ RecipeRows(s).line = s.line \cup {l \in line : l[1] \in Dishes \ Batches}
         /\ RecipeRows(s).buy = s.buy /\ RecipeRows(s).addons = s.addons
  <1> DEFINE put == {d \in Dishes \ Batches : LinesOf(d) \subseteq s.stock \cup s.items}
             more == {l \in line : l[1] \in put}
  <1>1. \A d \in Dishes : LinesOf(d) \subseteq Stock \cup Dishes
    BY DEF MenuTyped, LinesOf, Of
  <1>2. put = Dishes \ Batches
    BY <1>1
  <1>3. more \in SUBSET (Dishes \X (Stock \cup Dishes)) /\ more = {l \in line : l[1] \in Dishes \ Batches}
    BY <1>2 DEF MenuTyped
  <1>4. RecipeRows(s) = [s EXCEPT !.line = @ \cup more]
    BY DEF RecipeRows
  <1> HIDE DEF put, more
  <1>5. /\ RecipeRows(s) \in Setups /\ RecipeRows(s).items = s.items
        /\ RecipeRows(s).line = s.line \cup more
        /\ RecipeRows(s).buy = s.buy /\ RecipeRows(s).addons = s.addons
    BY <1>3, <1>4 DEF Setups
  <1> QED BY <1>3, <1>5

LEMMA ModifierRowsAre ==
  ASSUME MenuTyped, NEW s \in Setups, s.items = Dishes, \A d \in Dishes : s.addons[d] = {}
  PROVE  /\ ModifierRows(s).items = Dishes /\ ModifierRows(s).line = s.line
         /\ ModifierRows(s).group = group /\ ModifierRows(s).buy = s.buy
         /\ \A d \in Dishes : ModifierRows(s).addons[d] = item[d].addons
  <1> DEFINE addons == [d \in Dishes |-> s.addons[d] \cup
                                         (IF d \in s.items THEN item[d].addons ELSE {})]
  <1>1. \A d \in Dishes : addons[d] = item[d].addons
    OBVIOUS
  <1>2. ModifierRows(s) = [s EXCEPT !.group = group, !.addons = addons]
    BY DEF ModifierRows
  <1> HIDE DEF addons
  <1>3. /\ ModifierRows(s).items = s.items /\ ModifierRows(s).line = s.line
        /\ ModifierRows(s).group = group /\ ModifierRows(s).buy = s.buy
        /\ ModifierRows(s).addons = addons
    BY <1>2 DEF Setups
  <1> QED BY <1>1, <1>3

\* The import of the whole file is its parts, one after the other.
LEMMA ImportIs ==
  Imported(PARTS) =
    ModifierRows(RecipeRows(BatchRows(DishRows(Ingredients(Empty)))))
  <1>1. /\ Len(PARTS) = 5 /\ PARTS[1] = "ingredients" /\ PARTS[2] = "menu"
        /\ PARTS[3] = "batches" /\ PARTS[4] = "recipes" /\ PARTS[5] = "modifiers"
    BY DEF PARTS
  <1>2. \A s : /\ Import(s, "ingredients") = Ingredients(s) /\ Import(s, "menu") = DishRows(s)
               /\ Import(s, "batches") = BatchRows(s) /\ Import(s, "recipes") = RecipeRows(s)
               /\ Import(s, "modifiers") = ModifierRows(s)
    BY DEF Import
  <1> DEFINE After(f) == f = [k \in 0..Len(PARTS) |->
                                IF k = 0 THEN Empty ELSE Import(f[k - 1], PARTS[k])]
             a1 == Ingredients(Empty)
             a2 == DishRows(a1)
             a3 == BatchRows(a2)
             a4 == RecipeRows(a3)
             a5 == ModifierRows(a4)
             g == [k \in 0..5 |-> IF k = 0 THEN Empty ELSE IF k = 1 THEN a1 ELSE IF k = 2 THEN a2
                                  ELSE IF k = 3 THEN a3 ELSE IF k = 4 THEN a4 ELSE a5]
  <1>3. After(g)
    <2> DEFINE h == [k \in 0..Len(PARTS) |-> IF k = 0 THEN Empty ELSE Import(g[k - 1], PARTS[k])]
    <2>1. ASSUME NEW k \in 0..5 PROVE g[k] = h[k]
      <3>1. k = 0 \/ k = 1 \/ k = 2 \/ k = 3 \/ k = 4 \/ k = 5
        OBVIOUS
      <3>2. /\ g[0] = Empty /\ g[1] = a1 /\ g[2] = a2 /\ g[3] = a3 /\ g[4] = a4 /\ g[5] = a5
        <4> HIDE DEF a1, a2, a3, a4, a5
        <4> QED OBVIOUS
      <3> HIDE DEF g
      <3>3. /\ h[0] = Empty /\ h[1] = Import(g[0], PARTS[1]) /\ h[2] = Import(g[1], PARTS[2])
            /\ h[3] = Import(g[2], PARTS[3]) /\ h[4] = Import(g[3], PARTS[4])
            /\ h[5] = Import(g[4], PARTS[5])
        BY <1>1
      <3> HIDE DEF h
      <3>4. h[0] = g[0] /\ h[1] = g[1] /\ h[2] = g[2] /\ h[3] = g[3] /\ h[4] = g[4] /\ h[5] = g[5]
        BY <1>1, <1>2, <3>2, <3>3
      <3> QED BY <3>1, <3>4
    <2>2. g = h
      <3> HIDE DEF a1, a2, a3, a4, a5
      <3> QED BY <1>1, <2>1
    <2> QED BY <2>2
  <1> DEFINE f == CHOOSE x : After(x)
  <1>4. After(f)
    <2> HIDE DEF g, After
    <2> QED BY <1>3
  <1>5. Imported(PARTS) = f[Len(PARTS)]
    BY DEF Imported
  <1> HIDE DEF f
  <1>6. /\ f[0] = Empty /\ f[1] = Import(f[0], PARTS[1]) /\ f[2] = Import(f[1], PARTS[2])
        /\ f[3] = Import(f[2], PARTS[3]) /\ f[4] = Import(f[3], PARTS[4])
        /\ f[5] = Import(f[4], PARTS[5])
    BY <1>1, <1>4
  <1> QED BY <1>1, <1>2, <1>5, <1>6

LEMMA SetupGoesThrough == MenuTyped => SetupSurvives
  <1> SUFFICES ASSUME MenuTyped, FlatBatches
               PROVE  LET s == Imported(PARTS) IN
                        /\ s.items = Dishes /\ s.line = line /\ s.group = group
                        /\ \A d \in Dishes : ~item[d].batch =>
                             s.buy[d] = item[d].buy /\ s.addons[d] = item[d].addons
    BY DEF SetupSurvives
  <1>1. PICK a1 : a1 = Ingredients(Empty)
    OBVIOUS
  <1>2. PICK a2 : a2 = DishRows(a1)
    OBVIOUS
  <1>3. PICK a3 : a3 = BatchRows(a2)
    OBVIOUS
  <1>4. PICK a4 : a4 = RecipeRows(a3)
    OBVIOUS
  <1>5. PICK a5 : a5 = ModifierRows(a4)
    OBVIOUS
  <1>6. a1 \in Setups /\ a1.stock = Stock /\ a1.items = {} /\ a1.line = {} /\ a1.group = {}
    BY <1>1, EmptyIs, IngredientsAre
  <1>7. /\ a2 \in Setups /\ a2.stock = Stock /\ a2.items = Dishes \ Batches /\ a2.line = {}
        /\ \A d \in Dishes \ Batches : a2.buy[d] = item[d].buy
        /\ \A d \in Dishes : a2.addons[d] = {}
    BY <1>2, <1>6, DishRowsAre
  <1>8. /\ a3 \in Setups /\ a3.stock = Stock /\ a3.items = Dishes
        /\ a3.line = {l \in line : l[1] \in Batches} /\ a3.buy = a2.buy /\ a3.addons = a2.addons
    <2>1. Batches \subseteq Dishes
      BY DEF Batches
    <2> QED BY <1>3, <1>7, <2>1, BatchRowsAre
  <1>9. /\ a4 \in Setups /\ a4.items = Dishes /\ a4.buy = a2.buy /\ a4.addons = a2.addons
        /\ a4.line = a3.line \cup {l \in line : l[1] \in Dishes \ Batches}
    BY <1>4, <1>8, RecipeRowsAre
  <1>10. a4.line = line
    BY <1>8, <1>9 DEF MenuTyped
  <1>11. /\ a5.items = Dishes /\ a5.line = line /\ a5.group = group /\ a5.buy = a2.buy
         /\ \A d \in Dishes : a5.addons[d] = item[d].addons
    BY <1>5, <1>7, <1>9, <1>10, ModifierRowsAre
  <1>12. \A d \in Dishes : ~item[d].batch => d \in Dishes \ Batches
    BY DEF Batches
  <1> QED BY <1>1, <1>2, <1>3, <1>4, <1>5, <1>7, <1>11, <1>12, ImportIs

THEOREM MenuInvariance == Spec => []MenuTyped
  <1>1. Init => MenuTyped
    BY MenuInitTyped DEF Init
  <1>2. MenuTyped /\ [Next]_<<roundVars, cardVars, menuVars>> => MenuTyped'
    <2>1. MenuTyped /\ UNCHANGED menuVars => MenuTyped'
      BY DEF menuVars, MenuTyped
    <2> QED BY <2>1, MenuStepTyped DEF Next
  <1> QED BY <1>1, <1>2, PTL DEF Spec

\* However a menu was written, if its batches are put together of ingredients only, an empty
\* store that takes its file has all of it (SetupSurvives).
THEOREM SetupAlwaysSurvives == Spec => []SetupSurvives
  BY MenuInvariance, SetupGoesThrough, PTL

-----------------------------------------------------------------------------
(* The guest's rounds.                                                     *)

States == {"open", "taken", "part", "declined"}
Phases == {"idle", "lines", "settled", "declined", "pending", "landing"}
OrderRows == [round : Rounds, st : States, by : Members \cup {Nobody}]
Posts == [phase : {"idle", "way", "new", "answer"}, round : Nat, id : Nat]
Ops == {"lines", "close"} \X Nat \X {"taken", "part", "declined"}
Bills == [lines : SUBSET Nat, member : Members \cup {Nobody}, parked : BOOLEAN,
          settled : BOOLEAN, cut : SUBSET Rounds, off : SUBSET Nat]
Views == [phase : Phases, knows : SUBSET Rounds, lines : SUBSET Nat, settled : BOOLEAN,
          cut : SUBSET Rounds, declined : SUBSET Nat, pending : SUBSET Nat, moved : SUBSET Nat]
Tills == [seen : SUBSET Nat, acked : SUBSET Nat, box : Seq(Ops)]

RoundsTyped ==
  /\ orders \in Seq(OrderRows) /\ made \in 0..MaxRounds
  /\ oid \in [Rounds -> Nat] /\ logged \in [Rounds -> Nat]
  /\ post \in [Slots -> Posts] /\ bill \in Bills /\ till \in Tills
  /\ poll \in Views /\ view \in Views /\ aged \in SUBSET Nat

\* What names an order, names one there is, and of its round.
RoundsMade(os, n) == \A i \in 1..Len(os) : os[i].round \in 1..n
NamesRounds(f, os) == \A r \in Rounds : f[r] # 0 => f[r] \in 1..Len(os) /\ os[f[r]].round = r
PostNames(p, os, n) ==
  /\ p.phase # "idle" => p.round \in 1..n
  /\ p.phase = "answer" => p.id \in 1..Len(os) /\ os[p.id].round = p.round
BoxNames(box, os) == \A i \in 1..Len(box) : box[i][2] \in 1..Len(os)

Names ==
  /\ RoundsMade(orders, made) /\ NamesRounds(oid, orders) /\ NamesRounds(logged, orders)
  /\ \A s \in Slots : PostNames(post[s], orders, made)
  /\ BoxNames(till.box, orders)
  /\ till.seen \subseteq 1..Len(orders) /\ bill.lines \subseteq 1..Len(orders)

\* An order's lines are on the bill, or were.
Booked(b, o) == o \in b.lines \cup b.off

\* What was taken whole is booked, and what is going to be, is by then.
LinesFirst(os, b, box) ==
  /\ \A o \in 1..Len(os) : os[o].st = "taken" => Booked(b, o)
  /\ \A i \in 1..Len(box) : box[i][1] = "close" /\ box[i][3] = "taken" =>
       \/ Booked(b, box[i][2])
       \/ \E j \in 1..(i - 1) : box[j][1] = "lines" /\ box[j][2] = box[i][2]

\* As far as a snapshot is read, it has the order, or the order was moved meanwhile, or a list
\* that is still to be read will have it.
Found(v, os, b, r, o) ==
  /\ o # 0
  /\ \/ v.phase = "lines"
     \/ o \in v.moved
     \/ /\ v.phase = "settled" =>
             (os[o].st = "taken" => o \in v.lines \/ (b.settled /\ r \in b.cut))
        /\ v.phase \in {"declined", "pending"} =>
             (os[o].st = "taken" => o \in v.lines \/ (v.settled /\ r \in v.cut))
        /\ v.phase = "pending" => (os[o].st \in {"declined", "part"} => o \in v.declined)
        /\ v.phase \in {"landing", "idle"} =>
             o \in v.lines \cup v.pending \cup v.declined \/ (v.settled /\ r \in v.cut)

\* Lists are being read that an order may have left, or come to, since they began.
Reading(v) == v.phase \in {"settled", "declined", "pending"}

Seen ==
  /\ view.phase = "idle" /\ (Reading(poll) => aged \subseteq poll.moved)
  /\ \A r \in Rounds : /\ r \in poll.knows => Found(poll, orders, bill, r, oid[r])
                       /\ r \in view.knows => Found(view, orders, bill, r, oid[r])

RoundsInv == RoundsTyped /\ Names /\ LinesFirst(orders, bill, till.box) /\ Seen

LEMMA RoundsInitInv == RoundsInit => RoundsInv
  <1> SUFFICES ASSUME RoundsInit PROVE RoundsInv
    OBVIOUS
  <1>1. /\ orders = <<>> /\ made = 0 /\ till.box = <<>> /\ till.seen = {} /\ bill = NoBill /\ aged = {}
        /\ poll = NoView /\ view = NoView /\ post = [s \in Slots |-> NoPost]
        /\ oid = [r \in Rounds |-> 0] /\ logged = [r \in Rounds |-> 0]
    BY DEF RoundsInit
  <1>2. NoPost \in Posts /\ NoPost.phase = "idle"
    BY DEF NoPost, Posts
  <1>3. NoView \in Views /\ NoView.phase = "idle" /\ NoView.knows = {}
    BY DEF NoView, Views, Phases
  <1>4. till \in Tills /\ bill \in Bills
    BY DEF RoundsInit, Tills, Bills, NoBill
  <1>5. RoundsTyped
    BY <1>1, <1>2, <1>3, <1>4, RoundsAssumption DEF RoundsTyped
  <1>6. Names
    BY <1>1, <1>2 DEF Names, RoundsMade, NamesRounds, PostNames, BoxNames, NoBill
  <1>7. LinesFirst(orders, bill, till.box) /\ Seen
    BY <1>1, <1>3 DEF LinesFirst, Seen
  <1> QED BY <1>5, <1>6, <1>7 DEF RoundsInv

\* One op of the counter's, at the outlet.
LEMMA OpIs ==
  ASSUME NEW op \in Ops, NEW os \in Seq(OrderRows), NEW b \in Bills, op[2] \in 1..Len(os),
         NEW a, a = AfterOp(op, os, b)
  PROVE  /\ a.os \in Seq(OrderRows) /\ Len(a.os) = Len(os) /\ a.b \in Bills
         /\ \A i \in 1..Len(os) : /\ a.os[i].round = os[i].round
                                  /\ \/ a.os[i].st = os[i].st
                                     \/ i = op[2] /\ op[1] = "close" /\ a.os[i].st = op[3]
         /\ a.b.settled = b.settled /\ a.b.cut = b.cut /\ a.b.off = b.off
         /\ a.b.lines = IF op[1] = "lines" THEN b.lines \cup {op[2]} ELSE b.lines
  <1> DEFINE closes == op[1] = "close" /\ os[op[2]].st = "open"
  <1>0. op[1] \in {"lines", "close"} /\ op[2] \in Nat /\ op[3] \in {"taken", "part", "declined"}
    BY DEF Ops
  <1>1. a = [os |-> IF closes THEN [os EXCEPT ![op[2]].st = op[3]] ELSE os,
             b |-> CASE op[1] = "lines" -> [b EXCEPT !.lines = @ \cup {op[2]}]
                     [] closes /\ op[3] = "taken" /\ b.lines # {} /\ b.member = Nobody ->
                          [b EXCEPT !.member = os[op[2]].by]
                     [] OTHER -> b]
    BY DEF AfterOp
  <1>2. PICK x : x = os[op[2]]
    OBVIOUS
  <1>3. x \in OrderRows
    BY <1>2
  <1>4. PICK y : y = [x EXCEPT !.st = op[3]]
    OBVIOUS
  <1>5. y \in OrderRows /\ y.round = x.round /\ y.st = op[3]
    BY <1>0, <1>3, <1>4 DEF OrderRows, States
  <1>6. [os EXCEPT ![op[2]].st = op[3]] = [os EXCEPT ![op[2]] = y]
    BY <1>2, <1>4
  <1>7. a.os = IF closes THEN [os EXCEPT ![op[2]] = y] ELSE os
    BY <1>1, <1>6
  <1>8. /\ a.os \in Seq(OrderRows) /\ Len(a.os) = Len(os)
        /\ \A i \in 1..Len(os) : /\ a.os[i].round = os[i].round
                                 /\ \/ a.os[i].st = os[i].st
                                    \/ i = op[2] /\ op[1] = "close" /\ a.os[i].st = op[3]
    <2>1. CASE closes
      <3>1. a.os = [os EXCEPT ![op[2]] = y]
        BY <1>7, <2>1
      <3>2. a.os \in Seq(OrderRows) /\ Len(a.os) = Len(os)
        BY <1>5, <3>1
      <3>3. \A i \in 1..Len(os) : a.os[i] = IF i = op[2] THEN y ELSE os[i]
        BY <3>1
      <3> QED BY <1>2, <1>5, <2>1, <3>2, <3>3
    <2>2. CASE ~closes
      BY <1>7, <2>2
    <2> QED BY <2>1, <2>2
  <1>10. b.lines \cup {op[2]} \in SUBSET Nat /\ x.by \in Members \cup {Nobody}
    BY <1>0, <1>3 DEF Bills, OrderRows
  <1>11. \/ op[1] = "lines" /\ a.b = [b EXCEPT !.lines = b.lines \cup {op[2]}]
         \/ op[1] # "lines" /\ a.b = [b EXCEPT !.member = x.by]
         \/ op[1] # "lines" /\ a.b = b
    BY <1>1, <1>2
  <1>12. /\ a.b \in Bills /\ a.b.settled = b.settled /\ a.b.cut = b.cut /\ a.b.off = b.off
         /\ a.b.lines = IF op[1] = "lines" THEN b.lines \cup {op[2]} ELSE b.lines
    <2>1. PICK l, m : l = b.lines \cup {op[2]} /\ m = x.by
      OBVIOUS
    <2>0. l \in SUBSET Nat /\ m \in Members \cup {Nobody}
      BY <1>10, <2>1
    <2>2. /\ [b EXCEPT !.lines = l] \in Bills /\ [b EXCEPT !.member = m] \in Bills
          /\ [b EXCEPT !.lines = l].lines = l /\ [b EXCEPT !.member = m].lines = b.lines
          /\ [b EXCEPT !.lines = l].cut = b.cut /\ [b EXCEPT !.member = m].cut = b.cut
          /\ [b EXCEPT !.lines = l].off = b.off /\ [b EXCEPT !.member = m].off = b.off
          /\ [b EXCEPT !.lines = l].settled = b.settled
          /\ [b EXCEPT !.member = m].settled = b.settled
      BY <2>0 DEF Bills
    <2>3. \/ op[1] = "lines" /\ a.b = [b EXCEPT !.lines = l]
          \/ op[1] # "lines" /\ a.b = [b EXCEPT !.member = m]
          \/ op[1] # "lines" /\ a.b = b
      BY <1>11, <2>1
    <2> QED BY <2>1, <2>2, <2>3
  <1> QED BY <1>8, <1>12

\* An op out of the front of the box keeps the lines first, and what it does to an order is
\* either on the list that is still to be read or noted.
LEMMA OpKeeps ==
  ASSUME NEW box \in Seq(Ops), box # <<>>, NEW os \in Seq(OrderRows), NEW b \in Bills,
         BoxNames(box, os), LinesFirst(os, b, box), b.lines \subseteq 1..Len(os),
         NEW a, a = AfterOp(box[1], os, b)
  PROVE  /\ a.os \in Seq(OrderRows) /\ Len(a.os) = Len(os) /\ a.b \in Bills
         /\ a.b.lines \subseteq 1..Len(os)
         /\ \A i \in 1..Len(os) : a.os[i].round = os[i].round
         /\ Tail(box) \in Seq(Ops) /\ BoxNames(Tail(box), a.os)
         /\ LinesFirst(a.os, a.b, Tail(box))
         /\ a.b.settled = b.settled /\ a.b.cut = b.cut
         /\ \A i \in 1..Len(os) : i # box[1][2] => a.os[i].st = os[i].st
  <1>0. Len(box) \in Nat /\ Len(box) > 0 /\ box[1] \in Ops /\ Len(os) \in Nat
    OBVIOUS
  <1>1. PICK op : op = box[1]
    OBVIOUS
  <1>2. op \in Ops /\ op[2] \in 1..Len(os) /\ a = AfterOp(op, os, b)
    BY <1>0, <1>1 DEF BoxNames
  <1>3. /\ a.os \in Seq(OrderRows) /\ Len(a.os) = Len(os) /\ a.b \in Bills
        /\ \A i \in 1..Len(os) : /\ a.os[i].round = os[i].round
                                 /\ \/ a.os[i].st = os[i].st
                                    \/ i = op[2] /\ op[1] = "close" /\ a.os[i].st = op[3]
        /\ a.b.settled = b.settled /\ a.b.cut = b.cut /\ a.b.off = b.off
        /\ a.b.lines = IF op[1] = "lines" THEN b.lines \cup {op[2]} ELSE b.lines
    BY <1>2, OpIs, ZenonT(60)
  <1>4. PICK t : t = Tail(box)
    OBVIOUS
  <1>5. t \in Seq(Ops) /\ Len(t) = Len(box) - 1 /\ \A i \in 1..Len(t) : t[i] = box[i + 1]
    BY <1>0, <1>4
  <1>6. BoxNames(t, a.os)
    <2> SUFFICES ASSUME NEW i \in 1..Len(t) PROVE t[i][2] \in 1..Len(a.os)
      BY DEF BoxNames
    <2>1. i + 1 \in 1..Len(box) /\ t[i] = box[i + 1]
      BY <1>0, <1>5
    <2> QED BY <1>3, <2>1 DEF BoxNames
  <1>7. \A o \in 1..Len(os) : Booked(b, o) => Booked(a.b, o)
    BY <1>3 DEF Booked
  <1>8. op[1] = "lines" => Booked(a.b, op[2])
    BY <1>3 DEF Booked
  <1>9. ASSUME NEW o \in 1..Len(a.os), a.os[o].st = "taken" PROVE Booked(a.b, o)
    <2>1. CASE os[o].st = "taken"
      BY <1>3, <1>7, <2>1 DEF LinesFirst
    <2>2. CASE os[o].st # "taken"
      <3>1. o = op[2] /\ op[1] = "close" /\ op[3] = "taken"
        BY <1>3, <1>9, <2>2
      <3>2. Booked(b, op[2])
        BY <1>0, <1>1, <3>1 DEF LinesFirst
      <3> QED BY <1>2, <1>7, <3>1, <3>2
    <2> QED BY <2>1, <2>2
  <1>10. ASSUME NEW i \in 1..Len(t), t[i][1] = "close", t[i][3] = "taken"
         PROVE  \/ Booked(a.b, t[i][2])
                \/ \E j \in 1..(i - 1) : t[j][1] = "lines" /\ t[j][2] = t[i][2]
    <2>1. i + 1 \in 1..Len(box) /\ t[i] = box[i + 1] /\ (i + 1) - 1 = i
      BY <1>0, <1>5
    <2>2. \/ Booked(b, box[i + 1][2])
          \/ \E j \in 1..((i + 1) - 1) : box[j][1] = "lines" /\ box[j][2] = box[i + 1][2]
      BY <1>10, <2>1 DEF LinesFirst
    <2>3. box[i + 1][2] \in 1..Len(os)
      BY <2>1 DEF BoxNames
    <2>4. CASE Booked(b, box[i + 1][2])
      BY <1>7, <2>1, <2>3, <2>4
    <2>5. ASSUME NEW j \in 1..i, box[j][1] = "lines", box[j][2] = box[i + 1][2]
          PROVE  \/ Booked(a.b, t[i][2])
                 \/ \E k \in 1..(i - 1) : t[k][1] = "lines" /\ t[k][2] = t[i][2]
      <3>1. CASE j = 1
        BY <1>1, <1>8, <2>1, <2>5, <3>1
      <3>2. CASE j # 1
        <4>1. j - 1 \in 1..(i - 1) /\ j - 1 \in 1..Len(t) /\ (j - 1) + 1 = j
          BY <1>5, <3>2
        <4>2. t[j - 1] = box[j]
          BY <1>5, <4>1
        <4> QED BY <2>1, <2>5, <4>1, <4>2
      <3> QED BY <3>1, <3>2
    <2> QED BY <2>1, <2>2, <2>4, <2>5
  <1>11. LinesFirst(a.os, a.b, t)
    BY <1>9, <1>10 DEF LinesFirst
  <1>12. a.b.lines \subseteq 1..Len(os)
    BY <1>2, <1>3
  <1> QED BY <1>1, <1>3, <1>4, <1>5, <1>6, <1>11, <1>12

-----------------------------------------------------------------------------
(* What a step of the rounds leaves as it was.                             *)

\* Orders are added to, and keep their rounds.
Later(os, more) == Len(os) <= Len(more) /\ \A i \in 1..Len(os) : more[i].round = os[i].round

LEMMA NamesStay ==
  ASSUME NEW os \in Seq(OrderRows), NEW more \in Seq(OrderRows), Later(os, more)
  PROVE  /\ \A f : NamesRounds(f, os) => NamesRounds(f, more)
         /\ \A p, n : PostNames(p, os, n) => PostNames(p, more, n)
         /\ \A box : BoxNames(box, os) => BoxNames(box, more)
         /\ 1..Len(os) \subseteq 1..Len(more)
  <1>1. Len(os) \in Nat /\ Len(more) \in Nat /\ 1..Len(os) \subseteq 1..Len(more)
    BY DEF Later
  <1> QED BY <1>1 DEF Later, NamesRounds, PostNames, BoxNames

\* What is on no list that is still to be read has not moved.
LEMMA FoundStays ==
  ASSUME NEW v, NEW os, NEW more, NEW b, NEW c, NEW r, NEW o, Found(v, os, b, r, o),
         v.phase \notin {"lines", "landing", "idle"} => o \in v.moved \/ more[o].st = os[o].st,
         v.phase = "settled" /\ b.settled => c.settled /\ c.cut = b.cut
  PROVE  Found(v, more, c, r, o)
  BY DEF Found

LEMMA SeenStays ==
  ASSUME RoundsInv, UNCHANGED <<orders, bill, poll, view, aged>>,
         \A r \in Rounds : oid[r] # 0 => oid'[r] = oid[r]
  PROVE  Seen'
  BY DEF RoundsInv, Seen, Found

\* A post goes on.
LEMMA PostGoes ==
  ASSUME RoundsInv, NEW s \in Slots, NEW p \in Posts, post' = [post EXCEPT ![s] = p],
         UNCHANGED <<orders, bill, poll, view, till, logged, aged>>,
         oid' \in [Rounds -> Nat], NamesRounds(oid', orders),
         \A r \in Rounds : oid[r] # 0 => oid'[r] = oid[r],
         made' \in 0..MaxRounds, made <= made', PostNames(p, orders, made')
  PROVE  RoundsInv'
  <1>1. RoundsTyped'
    BY DEF RoundsInv, RoundsTyped
  <1>2. made \in Nat /\ made' \in Nat
    BY RoundsAssumption DEF RoundsInv, RoundsTyped
  <1>3. RoundsMade(orders, made')
    BY <1>2 DEF RoundsInv, Names, RoundsMade
  <1>4. ASSUME NEW t \in Slots PROVE PostNames(post'[t], orders, made')
    <2>1. CASE t = s
      BY <2>1 DEF RoundsInv, RoundsTyped
    <2>2. CASE t # s
      <3>1. post'[t] = post[t] /\ PostNames(post[t], orders, made)
        BY <2>2 DEF RoundsInv, RoundsTyped, Names
      <3> QED BY <1>2, <3>1 DEF PostNames
    <2> QED BY <2>1, <2>2
  <1>5. Names'
    BY <1>3, <1>4 DEF RoundsInv, Names
  <1>6. LinesFirst(orders, bill, till.box)'
    BY DEF RoundsInv
  <1>7. Seen'
    BY SeenStays
  <1> QED BY <1>1, <1>5, <1>6, <1>7 DEF RoundsInv

LEMMA PostAlone ==
  ASSUME RoundsInv, NEW s \in Slots, NEW p \in Posts, post' = [post EXCEPT ![s] = p],
         UNCHANGED <<orders, bill, poll, view, till, logged, made, oid, aged>>,
         PostNames(p, orders, made)
  PROVE  RoundsInv'
  <1>1. made \in 0..MaxRounds /\ oid \in [Rounds -> Nat] /\ NamesRounds(oid, orders) /\ made <= made
    BY RoundsAssumption DEF RoundsInv, RoundsTyped, Names
  <1> QED BY <1>1, PostGoes

LEMMA IdlePost == NoPost \in Posts /\ NoPost.phase = "idle"
  BY DEF NoPost, Posts

LEMMA PhoneInv ==
  ASSUME RoundsInv, Make \/ Flush \/ \E s \in Slots : Check(s) \/ Stamp(s) \/ LosePost(s)
  PROVE  RoundsInv'
  <1>0. /\ orders \in Seq(OrderRows) /\ made \in 0..MaxRounds /\ made \in Nat
        /\ oid \in [Rounds -> Nat] /\ logged \in [Rounds -> Nat] /\ post \in [Slots -> Posts]
        /\ NamesRounds(oid, orders) /\ NamesRounds(logged, orders) /\ Flusher \in Slots
        /\ \A s \in Slots : PostNames(post[s], orders, made)
    BY RoundsAssumption DEF RoundsInv, RoundsTyped, Names, Slots
  <1>2. CASE Make
    <2>1. PICK q \in {"way", "idle"} :
            post' = [post EXCEPT ![made + 1] = [NoPost EXCEPT !.phase = q, !.round = made + 1]]
      BY <1>2 DEF Make
    <2>2. PICK p : p = [NoPost EXCEPT !.phase = q, !.round = made + 1]
      OBVIOUS
    <2>3. p \in Posts /\ p.round = made + 1 /\ p.phase = q
      <3>1. p = [phase |-> q, round |-> made + 1, id |-> 0]
        BY <2>2 DEF NoPost
      <3> QED BY <1>0, <3>1 DEF Posts
    <2>4. made + 1 \in Slots /\ made' = made + 1 /\ made' \in 0..MaxRounds /\ made <= made'
      BY <1>0, <1>2, RoundsAssumption DEF Make, Slots, Rounds
    <2>5. PostNames(p, orders, made')
      BY <1>0, <2>3, <2>4 DEF PostNames
    <2> QED BY <1>0, <1>2, <2>1, <2>2, <2>3, <2>4, <2>5, PostGoes DEF Make
  <1>3. CASE Flush
    <2>1. PICK r \in Held :
            post' = [post EXCEPT ![Flusher] = [NoPost EXCEPT !.phase = "way", !.round = r]]
      BY <1>3 DEF Flush
    <2>2. PICK p : p = [NoPost EXCEPT !.phase = "way", !.round = r]
      OBVIOUS
    <2>3. r \in 1..made
      BY DEF Held
    <2>4. p \in Posts /\ p.round = r /\ p.phase = "way"
      <3>1. p = [phase |-> "way", round |-> r, id |-> 0]
        BY <2>2 DEF NoPost
      <3> QED BY <1>0, <2>3, <3>1 DEF Posts
    <2>5. PostNames(p, orders, made)
      BY <2>3, <2>4 DEF PostNames
    <2> QED BY <1>0, <1>3, <2>1, <2>2, <2>4, <2>5, PostAlone DEF Flush
  <1>4. ASSUME NEW s \in Slots, Check(s) PROVE RoundsInv'
    <2>1. PICK x : x = post[s]
      OBVIOUS
    <2>2. x \in Posts /\ PostNames(x, orders, made) /\ x.phase = "way"
      BY <1>0, <1>4, <2>1 DEF Check
    <2>3. x.round \in Rounds
      BY <1>0, <2>2, RoundsAssumption DEF PostNames, Rounds
    <2>4. PICK was : was = logged[x.round]
      OBVIOUS
    <2>5. PICK q : q = IF was = 0 THEN "new" ELSE "answer"
      OBVIOUS
    <2>6. PICK p : p = [[x EXCEPT !.phase = q] EXCEPT !.id = was]
      OBVIOUS
    <2>7. was \in Nat /\ q \in {"new", "answer"}
      BY <1>0, <2>3, <2>4, <2>5
    <2>8. p \in Posts /\ p.phase = q /\ p.id = was /\ p.round = x.round
      BY <2>2, <2>6, <2>7 DEF Posts
    <2>9. PostNames(p, orders, made)
      BY <1>0, <2>2, <2>3, <2>4, <2>5, <2>8 DEF PostNames, NamesRounds
    <2>10. post' = [post EXCEPT ![s] = p]
      BY <1>0, <1>4, <2>1, <2>4, <2>5, <2>6 DEF Check
    <2> QED BY <1>0, <1>4, <2>8, <2>9, <2>10, PostAlone DEF Check
  <1>5. ASSUME NEW s \in Slots, Stamp(s) PROVE RoundsInv'
    <2>1. PICK x : x = post[s]
      OBVIOUS
    <2>2. x \in Posts /\ PostNames(x, orders, made) /\ x.phase = "answer"
      BY <1>0, <1>5, <2>1 DEF Stamp
    <2>3. x.round \in Rounds /\ x.id \in Nat /\ x.id \in 1..Len(orders) /\ orders[x.id].round = x.round
      BY <1>0, <2>2, RoundsAssumption DEF PostNames, Rounds, Posts
    <2>4. oid' = [oid EXCEPT ![x.round] = IF oid[x.round] = 0 THEN x.id ELSE oid[x.round]]
      BY <1>5, <2>1 DEF Stamp
    <2>5. oid' \in [Rounds -> Nat]
      BY <1>0, <2>3, <2>4
    <2>6. \A r \in Rounds : oid[r] # 0 => oid'[r] = oid[r]
      BY <1>0, <2>4
    <2>7. NamesRounds(oid', orders)
      BY <1>0, <2>3, <2>4 DEF NamesRounds
    <2>8. post' = [post EXCEPT ![s] = NoPost] /\ PostNames(NoPost, orders, made)
      BY <1>5, IdlePost DEF Stamp, PostNames
    <2>9. UNCHANGED <<orders, bill, poll, view, till, logged, made, aged>> /\ made <= made
      BY <1>0, <1>5 DEF Stamp
    <2> QED BY <1>0, <2>5, <2>6, <2>7, <2>8, <2>9, IdlePost, PostGoes
  <1>6. ASSUME NEW s \in Slots, LosePost(s) PROVE RoundsInv'
    <2>1. post' = [post EXCEPT ![s] = NoPost] /\ PostNames(NoPost, orders, made)
      BY <1>6, IdlePost DEF LosePost, Failed, PostNames
    <2> QED BY <1>0, <1>6, <2>1, IdlePost, PostAlone DEF LosePost
  <1> QED BY <1>2, <1>3, <1>4, <1>5, <1>6

\* The row of a round, and its answer.
LEMMA InsertInv ==
  ASSUME RoundsInv, NEW s \in Slots, NEW by \in Members \cup {Nobody}, Insert(s, by)
  PROVE  RoundsInv'
  <1>0. /\ orders \in Seq(OrderRows) /\ made \in 0..MaxRounds /\ made \in Nat
        /\ logged \in [Rounds -> Nat] /\ post \in [Slots -> Posts] /\ Len(orders) \in Nat
        /\ NamesRounds(oid, orders) /\ NamesRounds(logged, orders)
        /\ \A t \in Slots : PostNames(post[t], orders, made)
        /\ RoundsMade(orders, made) /\ BoxNames(till.box, orders)
        /\ till.seen \subseteq 1..Len(orders) /\ bill.lines \subseteq 1..Len(orders)
        /\ LinesFirst(orders, bill, till.box) /\ Seen
    BY RoundsAssumption DEF RoundsInv, RoundsTyped, Names
  <1>1. PICK x : x = post[s]
    OBVIOUS
  <1>2. x \in Posts /\ PostNames(x, orders, made) /\ x.phase = "new"
    BY <1>0, <1>1 DEF Insert
  <1>3. PICK r, o : r = x.round /\ o = Len(orders) + 1
    OBVIOUS
  <1>4. r \in Rounds /\ r \in 1..made /\ o \in Nat
    BY <1>0, <1>2, <1>3, RoundsAssumption DEF PostNames, Rounds
  <1>5. PICK n : n = [round |-> r, st |-> "open", by |-> by]
    OBVIOUS
  <1>6. n \in OrderRows /\ n.round = r /\ n.st = "open"
    BY <1>4, <1>5 DEF OrderRows, States
  <1>7. orders' = Append(orders, n)
    BY <1>1, <1>3, <1>5 DEF Insert
  <1>8. PICK more : more = orders'
    OBVIOUS
  <1>9. /\ more \in Seq(OrderRows) /\ Len(more) = o /\ more[o] = n
        /\ \A i \in 1..Len(orders) : more[i] = orders[i]
    BY <1>0, <1>3, <1>6, <1>7, <1>8
  <1>10. Later(orders, more)
    BY <1>0, <1>3, <1>9 DEF Later
  <1>11. logged' = [logged EXCEPT ![r] = IF logged[r] = 0 THEN o ELSE logged[r]]
    BY <1>1, <1>3 DEF Insert
  <1>12. PICK p : p = [[x EXCEPT !.phase = "answer"] EXCEPT !.id = o]
    OBVIOUS
  <1>13. p \in Posts /\ p.phase = "answer" /\ p.id = o /\ p.round = r
    BY <1>2, <1>3, <1>4, <1>12 DEF Posts
  <1>14. post' = [post EXCEPT ![s] = p]
    BY <1>0, <1>1, <1>3, <1>12 DEF Insert
  <1>15. RoundsTyped'
    <2>1. logged' \in [Rounds -> Nat] /\ post' \in [Slots -> Posts]
      BY <1>0, <1>4, <1>11, <1>13, <1>14
    <2> QED BY <1>8, <1>9, <2>1 DEF RoundsInv, RoundsTyped, Insert
  <1>16. /\ NamesRounds(oid, more) /\ NamesRounds(logged, more) /\ BoxNames(till.box, more)
         /\ \A t \in Slots : PostNames(post[t], more, made)
         /\ 1..Len(orders) \subseteq 1..Len(more)
    BY <1>0, <1>9, <1>10, NamesStay
  <1>17. o \in 1..Len(more)
    BY <1>0, <1>3, <1>9
  <1>18. NamesRounds(logged', more)
    BY <1>0, <1>4, <1>6, <1>9, <1>11, <1>16, <1>17 DEF NamesRounds
  <1>19. \A t \in Slots : PostNames(post'[t], more, made)
    BY <1>0, <1>4, <1>6, <1>9, <1>13, <1>14, <1>16, <1>17 DEF PostNames
  <1>20. RoundsMade(more, made)
    <2> SUFFICES ASSUME NEW i \in 1..Len(more) PROVE more[i].round \in 1..made
      BY DEF RoundsMade
    <2>1. CASE i = o
      BY <1>4, <1>6, <1>9, <2>1
    <2>2. CASE i # o
      <3>1. i \in 1..Len(orders)
        BY <1>0, <1>3, <1>9, <2>2
      <3> QED BY <1>0, <1>9, <3>1 DEF RoundsMade
    <2> QED BY <2>1, <2>2
  <1>21. Names'
    BY <1>0, <1>8, <1>16, <1>18, <1>19, <1>20 DEF Names, Insert
  <1>22. \A i \in 1..Len(orders) : Booked(bill, i) => Booked(bill, i)
    BY <1>9 DEF Booked
  <1>23. LinesFirst(more, bill, till.box)
    <2>1. ASSUME NEW i \in 1..Len(more), more[i].st = "taken" PROVE Booked(bill, i)
      <3>1. i # o
        BY <1>6, <1>9, <2>1
      <3>2. i \in 1..Len(orders)
        BY <1>0, <1>3, <1>9, <3>1
      <3> QED BY <1>0, <1>9, <1>22, <2>1, <3>2 DEF LinesFirst
    <2> QED BY <1>0, <1>22, <2>1 DEF LinesFirst, BoxNames
  <1>24. ASSUME NEW q \in Rounds, oid[q] # 0 PROVE more[oid[q]].st = orders[oid[q]].st
    BY <1>0, <1>9, <1>24 DEF NamesRounds
  <1>25. Seen'
    <2>1. UNCHANGED <<bill, oid, poll, view, aged>>
      BY DEF Insert
    <2>2. ASSUME NEW q \in Rounds, NEW v, Found(v, orders, bill, q, oid[q])
          PROVE  Found(v, more, bill, q, oid[q])
      <3>1. more[oid[q]].st = orders[oid[q]].st
        BY <1>24, <2>2 DEF Found
      <3> QED BY <2>2, <3>1, FoundStays
    <2> QED BY <1>0, <1>8, <2>1, <2>2 DEF Seen
  <1> QED BY <1>8, <1>15, <1>21, <1>23, <1>25 DEF RoundsInv, Insert

LEMMA DecideInv ==
  ASSUME RoundsInv, ReadTill \/ \E o \in Ids : Decide(o) PROVE RoundsInv'
  <1>0. /\ orders \in Seq(OrderRows) /\ Len(orders) \in Nat /\ till \in Tills
        /\ BoxNames(till.box, orders) /\ till.seen \subseteq 1..Len(orders)
        /\ LinesFirst(orders, bill, till.box)
    BY DEF RoundsInv, RoundsTyped, Names
  <1>1. till.box \in Seq(Ops) /\ till.acked \in SUBSET Nat /\ Len(till.box) \in Nat
    BY <1>0 DEF Tills
  <1>2. ASSUME till' \in Tills, BoxNames(till'.box, orders), till'.seen \subseteq 1..Len(orders),
               LinesFirst(orders, bill, till'.box),
               UNCHANGED <<orders, logged, made, oid, post, poll, view, bill, aged>>
        PROVE  RoundsInv'
    <2>1. RoundsTyped' /\ Names'
      BY <1>2 DEF RoundsInv, RoundsTyped, Names
    <2>2. Seen'
      BY <1>2, SeenStays
    <2> QED BY <1>2, <2>1, <2>2 DEF RoundsInv
  <1>3. CASE ReadTill
    <2>1. till' = [till EXCEPT !.seen = Open \ till.acked]
      BY <1>3 DEF ReadTill
    <2>2. Open \subseteq 1..Len(orders)
      BY DEF Open, Ids
    <2>3. till' \in Tills /\ till'.box = till.box /\ till'.seen \subseteq 1..Len(orders)
      BY <1>0, <2>1, <2>2 DEF Tills
    <2> QED BY <1>0, <1>2, <1>3, <2>3 DEF ReadTill
  <1>4. ASSUME NEW o \in Ids, Decide(o) PROVE RoundsInv'
    <2>1. PICK how \in {"taken", "part", "declined"} :
            till' = [seen |-> till.seen \ {o}, acked |-> till.acked \cup {o},
                     box |-> till.box \o (IF how = "declined" THEN <<<<"close", o, how>>>>
                                          ELSE AcceptOps(o, how))]
      BY <1>4 DEF Decide
    <2>2. o \in Nat /\ o \in 1..Len(orders)
      BY <1>0 DEF Ids
    <2>3. PICK more : more = IF how = "declined" THEN <<<<"close", o, how>>>> ELSE AcceptOps(o, how)
      OBVIOUS
    <2>4. <<"close", o, how>> \in Ops /\ <<"lines", o, how>> \in Ops
      BY <2>2 DEF Ops
    <2>5. \/ /\ how = "declined" /\ more = <<<<"close", o, how>>>>
          \/ /\ more = <<<<"lines", o, how>>, <<"close", o, how>>>>
      BY <2>3 DEF AcceptOps
    <2>6. more \in Seq(Ops) /\ Len(more) \in Nat
      <3>1. PICK x, y : x = <<"close", o, how>> /\ y = <<"lines", o, how>>
        OBVIOUS
      <3>2. x \in Ops /\ y \in Ops /\ (more = <<x>> \/ more = <<y, x>>)
        BY <2>4, <2>5, <3>1
      <3>3. <<x>> \in Seq(Ops) /\ <<y, x>> \in Seq(Ops)
        BY <3>2
      <3> HIDE DEF Ops
      <3> QED BY <3>2, <3>3
    <2>7. PICK box : box = till.box \o more
      OBVIOUS
    <2>8. /\ box \in Seq(Ops) /\ Len(box) = Len(till.box) + Len(more)
          /\ \A i \in 1..Len(till.box) : box[i] = till.box[i]
          /\ \A i \in 1..Len(more) : box[Len(till.box) + i] = more[i]
      BY <1>1, <2>6, <2>7
    <2>9. ASSUME NEW i \in 1..Len(box) PROVE i \in 1..Len(till.box) \/ i - Len(till.box) \in 1..Len(more)
      BY <1>1, <2>6, <2>8
    <2>10. \A i \in 1..Len(more) : more[i][2] = o /\ more[i][3] = how
      BY <2>5
    <2>11. BoxNames(box, orders)
      <3> SUFFICES ASSUME NEW i \in 1..Len(box) PROVE box[i][2] \in 1..Len(orders)
        BY DEF BoxNames
      <3>1. CASE i \in 1..Len(till.box)
        BY <1>0, <2>8, <3>1 DEF BoxNames
      <3>2. CASE i - Len(till.box) \in 1..Len(more)
        <4>0. Len(till.box) + (i - Len(till.box)) = i
          BY <1>1, <2>8
        <4>1. box[i] = more[i - Len(till.box)]
          BY <2>8, <3>2, <4>0
        <4> QED BY <2>2, <2>10, <3>2, <4>1
      <3> QED BY <2>9, <3>1, <3>2
    <2>12. LinesFirst(orders, bill, box)
      <3> SUFFICES ASSUME NEW i \in 1..Len(box), box[i][1] = "close", box[i][3] = "taken"
                   PROVE  \/ Booked(bill, box[i][2])
                          \/ \E j \in 1..(i - 1) : box[j][1] = "lines" /\ box[j][2] = box[i][2]
        BY <1>0 DEF LinesFirst
      <3>1. CASE i \in 1..Len(till.box)
        <4>1. \/ Booked(bill, box[i][2])
              \/ \E j \in 1..(i - 1) : till.box[j][1] = "lines" /\ till.box[j][2] = box[i][2]
          BY <1>0, <2>8, <3>1 DEF LinesFirst
        <4>2. \A j \in 1..(i - 1) : j \in 1..Len(till.box)
          BY <1>1, <3>1
        <4> QED BY <2>8, <4>1, <4>2
      <3>2. CASE i - Len(till.box) \in 1..Len(more)
        <4>1. PICK k : k = i - Len(till.box)
          OBVIOUS
        <4>2. k \in 1..Len(more) /\ i = Len(till.box) + k /\ box[i] = more[k]
          BY <1>1, <2>8, <3>2, <4>1
        <4>3. more = <<<<"lines", o, how>>, <<"close", o, how>>>> /\ k = 2
          BY <2>5, <2>10, <4>2
        <4>4. more[1][1] = "lines" /\ more[1][2] = o /\ Len(more) = 2 /\ box[i][2] = o
          BY <4>2, <4>3
        <4>5. Len(till.box) + 1 \in 1..(i - 1) /\ box[Len(till.box) + 1] = more[1]
          BY <1>1, <2>8, <4>2, <4>3, <4>4
        <4> QED BY <4>4, <4>5
      <3> QED BY <2>9, <3>1, <3>2
    <2>13. till' = [seen |-> till.seen \ {o}, acked |-> till.acked \cup {o}, box |-> box]
      BY <2>1, <2>3, <2>7
    <2>14. till' \in Tills /\ till'.box = box /\ till'.seen \subseteq 1..Len(orders)
      BY <1>0, <1>1, <2>2, <2>8, <2>13 DEF Tills
    <2> QED BY <1>2, <1>4, <2>11, <2>12, <2>14 DEF Decide
  <1> QED BY <1>3, <1>4

\* A snapshot that is being read, after some orders are noted.
Noted(v, w, S) ==
  /\ w \in Views /\ w.phase = v.phase /\ w.knows = v.knows /\ w.lines = v.lines
  /\ w.settled = v.settled /\ w.cut = v.cut
  /\ w.declined = v.declined /\ w.pending = v.pending /\ v.moved \subseteq w.moved
  /\ Reading(v) => S \subseteq w.moved

\* What is done to the orders that are noted leaves the snapshot as true as it was.
LEMMA NotedStays ==
  ASSUME NEW v \in Views, NEW w, NEW S, Noted(v, w, S),
         NEW os, NEW more, NEW b, NEW c, NEW r, NEW o,
         \/ o \in S
         \/ /\ more[o].st = os[o].st
            /\ os[o].st = "taken" /\ b.settled => c.settled /\ c.cut = b.cut,
         Found(v, os, b, r, o)
  PROVE  Found(w, more, c, r, o)
  <1>1. v.phase \in Phases
    BY DEF Views
  <1> QED BY <1>1 DEF Found, Phases, Reading, Noted

\* What is noted changes nothing else.
LEMMA NotingOnly ==
  ASSUME NEW v \in Views, NEW w, NEW S \in SUBSET Nat,
         w = IF v.phase \in {"settled", "declined", "pending"} THEN [v EXCEPT !.moved = @ \cup S]
             ELSE v
  PROVE  Noted(v, w, S)
  BY DEF Views, Reading, Noted

LEMMA DeliverInv == ASSUME RoundsInv, Deliver PROVE RoundsInv'
  <1>0. /\ orders \in Seq(OrderRows) /\ Len(orders) \in Nat /\ till \in Tills /\ bill \in Bills
        /\ poll \in Views /\ view \in Views /\ made \in 0..MaxRounds
        /\ BoxNames(till.box, orders) /\ till.seen \subseteq 1..Len(orders)
        /\ bill.lines \subseteq 1..Len(orders)
        /\ LinesFirst(orders, bill, till.box) /\ Seen /\ RoundsMade(orders, made)
        /\ NamesRounds(oid, orders) /\ NamesRounds(logged, orders)
        /\ \A s \in Slots : PostNames(post[s], orders, made)
    BY DEF RoundsInv, RoundsTyped, Names
  <1>1. PICK box : box = till.box
    OBVIOUS
  <1>2. box \in Seq(Ops) /\ Len(box) \in Nat
    BY <1>0, <1>1 DEF Tills
  <1>3. PICK n \in {1, 2} :
          LET one == AfterOp(box[1], orders, bill)
              two == IF n = 1 THEN one ELSE AfterOp(box[2], one.os, one.b) IN
          /\ Len(box) >= n
          /\ orders' = two.os /\ bill' = two.b
          /\ till' = [till EXCEPT !.box = SubSeq(@, n + 1, Len(@))]
          /\ poll' = Noting({box[i][2] : i \in 1..n})
    BY <1>1 DEF Deliver
  <1>4. PICK one : one = AfterOp(box[1], orders, bill)
    OBVIOUS
  <1>5. PICK two : two = IF n = 1 THEN one ELSE AfterOp(box[2], one.os, one.b)
    OBVIOUS
  <1>6. Len(box) >= n /\ orders' = two.os /\ bill' = two.b
    BY <1>3, <1>4, <1>5
  <1>7. box # <<>> /\ BoxNames(box, orders) /\ LinesFirst(orders, bill, box)
    BY <1>0, <1>1, <1>2, <1>6
  <1>8. /\ one.os \in Seq(OrderRows) /\ Len(one.os) = Len(orders) /\ one.b \in Bills
        /\ one.b.lines \subseteq 1..Len(orders)
        /\ \A i \in 1..Len(orders) : one.os[i].round = orders[i].round
        /\ Tail(box) \in Seq(Ops) /\ BoxNames(Tail(box), one.os)
        /\ LinesFirst(one.os, one.b, Tail(box))
        /\ one.b.settled = bill.settled /\ one.b.cut = bill.cut
        /\ \A i \in 1..Len(orders) : i # box[1][2] => one.os[i].st = orders[i].st
    BY <1>0, <1>2, <1>4, <1>7, OpKeeps
  <1>9. PICK rest : rest = SubSeq(box, n + 1, Len(box))
    OBVIOUS
  <1>10. /\ two.os \in Seq(OrderRows) /\ Len(two.os) = Len(orders) /\ two.b \in Bills
         /\ two.b.lines \subseteq 1..Len(orders)
         /\ \A i \in 1..Len(orders) : two.os[i].round = orders[i].round
         /\ rest \in Seq(Ops) /\ BoxNames(rest, two.os)
         /\ LinesFirst(two.os, two.b, rest)
         /\ two.b.settled = bill.settled /\ two.b.cut = bill.cut
         /\ \A i \in 1..Len(orders) : i \in {box[j][2] : j \in 1..n} \/ two.os[i].st = orders[i].st
    <2>1. CASE n = 1
      <3>1. rest = Tail(box)
        BY <1>2, <1>7, <1>9, <2>1
      <3>2. two = one
        BY <1>5, <2>1
      <3> QED BY <1>8, <2>1, <3>1, <3>2
    <2>2. CASE n = 2
      <3>1. PICK t : t = Tail(box)
        OBVIOUS
      <3>2. t \in Seq(Ops) /\ t # <<>> /\ t[1] = box[2] /\ Tail(t) = rest
        BY <1>2, <1>6, <1>9, <2>2, <3>1
      <3>3. two = AfterOp(t[1], one.os, one.b)
        BY <1>5, <2>2, <3>2
      <3>4. /\ two.os \in Seq(OrderRows) /\ Len(two.os) = Len(one.os) /\ two.b \in Bills
            /\ two.b.lines \subseteq 1..Len(one.os)
            /\ \A i \in 1..Len(one.os) : two.os[i].round = one.os[i].round
            /\ Tail(t) \in Seq(Ops) /\ BoxNames(Tail(t), two.os)
            /\ LinesFirst(two.os, two.b, Tail(t))
            /\ two.b.settled = one.b.settled /\ two.b.cut = one.b.cut
            /\ \A i \in 1..Len(one.os) : i # t[1][2] => two.os[i].st = one.os[i].st
        <4>1. /\ BoxNames(t, one.os) /\ LinesFirst(one.os, one.b, t)
              /\ one.b.lines \subseteq 1..Len(one.os)
          BY <1>8, <3>1
        <4>2. one.os \in Seq(OrderRows) /\ one.b \in Bills
          BY <1>8
        <4> QED BY <3>2, <3>3, <4>1, <4>2, OpKeeps
      <3>5. box[1][2] \in {box[j][2] : j \in 1..n} /\ box[2][2] \in {box[j][2] : j \in 1..n}
        BY <2>2
      <3> QED BY <1>8, <3>2, <3>4, <3>5
    <2> QED BY <2>1, <2>2
  <1>11. PICK S : S = {box[j][2] : j \in 1..n}
    OBVIOUS
  <1>12. S \subseteq Nat
    <2>1. \A j \in 1..n : j \in 1..Len(box)
      BY <1>2, <1>6
    <2> QED BY <1>0, <1>1, <1>11, <2>1 DEF BoxNames
  <1>13. poll' = IF poll.phase \in {"settled", "declined", "pending"} THEN [poll EXCEPT !.moved = @ \cup S]
                 ELSE poll
    BY <1>3, <1>11 DEF Noting
  <1>14. PICK w : w = poll'
    OBVIOUS
  <1>22. Noted(poll, w, S)
    <2>1. PICK v : v = poll
      OBVIOUS
    <2>2. /\ v \in Views
          /\ w = IF v.phase \in {"settled", "declined", "pending"} THEN [v EXCEPT !.moved = @ \cup S]
                 ELSE v
      BY <1>0, <1>13, <1>14, <2>1
    <2> QED BY <1>12, <2>1, <2>2, NotingOnly
  <1>15. till' = [till EXCEPT !.box = rest]
    BY <1>1, <1>3, <1>9
  <1>16. till' \in Tills /\ till'.box = rest /\ till'.seen = till.seen
    BY <1>0, <1>10, <1>15 DEF Tills
  <1>23. aged' \in SUBSET Nat /\ aged' \subseteq aged
    <2>1. aged \in SUBSET Nat
      BY DEF RoundsInv, RoundsTyped
    <2>2. aged' \subseteq aged
      BY DEF Deliver
    <2> QED BY <2>1, <2>2
  <1>17. RoundsTyped'
    BY <1>6, <1>10, <1>14, <1>16, <1>22, <1>23 DEF RoundsInv, RoundsTyped, Deliver, Noted
  <1>18. Later(orders, two.os)
    BY <1>0, <1>10 DEF Later
  <1>19. Names'
    <2>1. /\ NamesRounds(oid, two.os) /\ NamesRounds(logged, two.os)
          /\ \A s \in Slots : PostNames(post[s], two.os, made)
      BY <1>0, <1>10, <1>18, NamesStay
    <2>2. RoundsMade(two.os, made)
      BY <1>0, <1>10 DEF RoundsMade
    <2> QED BY <1>0, <1>6, <1>10, <1>16, <2>1, <2>2 DEF Names, Deliver
  <1>20. LinesFirst(orders, bill, till.box)'
    BY <1>6, <1>10, <1>16
  <1>21. Seen'
    <2>1. UNCHANGED <<view, oid>>
      BY DEF Deliver
    <2>2. poll'.knows = poll.knows /\ view.phase = "idle"
      BY <1>0, <1>14, <1>22 DEF Seen, Noted
    <2>3. ASSUME NEW r \in Rounds, oid[r] # 0 PROVE oid[r] \in S \/ two.os[oid[r]].st = orders[oid[r]].st
      BY <1>0, <1>10, <1>11, <2>3 DEF NamesRounds
    <2>4. ASSUME NEW r \in Rounds, r \in poll.knows PROVE Found(poll', two.os, two.b, r, oid[r])
      <3>1. Found(poll, orders, bill, r, oid[r]) /\ oid[r] # 0
        BY <1>0, <2>4 DEF Seen, Found
      <3>2. PICK o : o = oid[r]
        OBVIOUS
      <3>3. o \in S \/ two.os[o].st = orders[o].st
        BY <2>3, <3>1, <3>2
      <3>4. bill.settled => two.b.settled /\ two.b.cut = bill.cut
        BY <1>10
      <3>5. Found(w, two.os, two.b, r, o)
        BY <1>0, <1>22, <3>1, <3>2, <3>3, <3>4, NotedStays
      <3> QED BY <1>14, <3>2, <3>5
    <2>5. ASSUME NEW r \in Rounds, r \in view.knows PROVE Found(view, two.os, two.b, r, oid[r])
      <3>1. Found(view, orders, bill, r, oid[r])
        BY <1>0, <2>5 DEF Seen
      <3> QED BY <1>10, <2>2, <3>1, FoundStays
    <2>6. Reading(poll') => aged' \subseteq poll'.moved
      BY <1>0, <1>14, <1>22, <1>23 DEF Seen, Noted, Reading
    <2> QED BY <1>6, <2>1, <2>2, <2>4, <2>5, <2>6 DEF Seen
  <1> QED BY <1>17, <1>19, <1>20, <1>21 DEF RoundsInv

\* What the counter and the clock take off the lists, and what is paid: the orders are noted,
\* and none whose lines were on the bill is lost sight of.
LEMMA CutInv ==
  ASSUME RoundsInv, NEW S, Noted(poll, poll', S), NEW c \in Bills, bill' = c,
         c.lines \subseteq 1..Len(orders), \A o : Booked(bill, o) => Booked(c, o),
         \A o : Booked(bill, o) /\ bill.settled => o \in S \/ (c.settled /\ c.cut = bill.cut),
         aged' \in SUBSET Nat, aged' \subseteq aged \cup S,
         UNCHANGED <<orders, logged, made, oid, post, view, till>>
  PROVE  RoundsInv'
  <1>0. /\ poll \in Views /\ LinesFirst(orders, bill, till.box) /\ Seen
        /\ NamesRounds(oid, orders)
    BY DEF RoundsInv, RoundsTyped, Names
  <1>1. RoundsTyped' /\ Names'
    BY DEF RoundsInv, RoundsTyped, Names, Noted
  <1>2. LinesFirst(orders, c, till.box)
    BY <1>0 DEF LinesFirst
  <1>3. PICK w : w = poll'
    OBVIOUS
  <1>4. ASSUME NEW r \in Rounds, r \in poll.knows PROVE Found(w, orders, c, r, oid[r])
    <2>1. Found(poll, orders, bill, r, oid[r])
      BY <1>0, <1>4 DEF Seen
    <2>2. PICK o : o = oid[r]
      OBVIOUS
    <2>3. orders[o].st = "taken" => Booked(bill, o)
      BY <1>0, <2>1, <2>2 DEF LinesFirst, NamesRounds, Found
    <2>4. o \in S \/ (orders[o].st = "taken" /\ bill.settled => c.settled /\ c.cut = bill.cut)
      BY <2>3
    <2>5. Found(w, orders, c, r, o)
      BY <1>0, <1>3, <2>1, <2>2, <2>4, NotedStays
    <2> QED BY <2>2, <2>5
  <1>5. ASSUME NEW r \in Rounds, r \in view.knows PROVE Found(view, orders, c, r, oid[r])
    <2>1. Found(view, orders, bill, r, oid[r]) /\ view.phase = "idle"
      BY <1>0, <1>5 DEF Seen
    <2> QED BY <2>1, FoundStays
  <1>6. w.knows = poll.knows /\ (Reading(w) => aged' \subseteq w.moved)
    BY <1>0, <1>3 DEF Noted, Reading, Seen
  <1>7. Seen'
    BY <1>0, <1>3, <1>4, <1>5, <1>6 DEF Seen
  <1> QED BY <1>1, <1>2, <1>7 DEF RoundsInv

LEMMA CutNotes == ASSUME RoundsInv, NEW S \in SUBSET Nat, poll' = Noting(S) PROVE Noted(poll, poll', S)
  <1>1. PICK v, w : v = poll /\ w = poll'
    OBVIOUS
  <1>2. /\ v \in Views
        /\ w = IF v.phase \in {"settled", "declined", "pending"} THEN [v EXCEPT !.moved = @ \cup S]
               ELSE v
    BY <1>1 DEF RoundsInv, RoundsTyped, Noting
  <1> QED BY <1>1, <1>2, NotingOnly

\* The bill is paid, with every line that is on it.
LEMMA SettleInv == ASSUME RoundsInv, Settle PROVE RoundsInv'
  <1>0. bill \in Bills /\ bill.off \in SUBSET Nat /\ bill.lines \in SUBSET Nat /\ made \in 0..MaxRounds
    BY DEF RoundsInv, RoundsTyped, Bills
  <1>1. PICK k, f : k = 1..made /\ f = bill.off \cup bill.lines
    OBVIOUS
  <1>2. k \in SUBSET Rounds /\ f \in SUBSET Nat
    BY <1>0, <1>1, RoundsAssumption DEF Rounds
  <1>3. PICK c : c = [lines |-> {}, member |-> Nobody, parked |-> FALSE, settled |-> TRUE,
                      cut |-> k, off |-> f]
    OBVIOUS
  <1>4. c \in Bills /\ c.lines = {} /\ c.settled /\ c.off = f
    BY <1>2, <1>3 DEF Bills
  <1>5. bill' = c /\ ~bill.settled
    BY <1>1, <1>3 DEF Settle
  <1>6. \A o : Booked(bill, o) => Booked(c, o)
    BY <1>1, <1>4 DEF Booked
  <1>7. Noted(poll, poll', bill.lines)
    BY <1>0, CutNotes DEF Settle
  <1>8. /\ aged' \in SUBSET Nat /\ aged' \subseteq aged
        /\ UNCHANGED <<orders, logged, made, oid, post, view, till>>
    BY DEF Settle, RoundsInv, RoundsTyped
  <1> QED BY <1>4, <1>5, <1>6, <1>7, <1>8, CutInv

LEMMA StrikeInv == ASSUME RoundsInv, NEW S, S \subseteq bill.lines, Strike(S) PROVE RoundsInv'
  <1>0. /\ bill \in Bills /\ bill.off \in SUBSET Nat /\ bill.lines \in SUBSET Nat
        /\ bill.lines \subseteq 1..Len(orders)
    BY DEF RoundsInv, RoundsTyped, Names, Bills
  <1>1. PICK l, f : l = bill.lines \ S /\ f = bill.off \cup S
    OBVIOUS
  <1>2. l \in SUBSET Nat /\ f \in SUBSET Nat
    BY <1>0, <1>1
  <1>3. PICK b, c : b = bill /\ c = bill'
    OBVIOUS
  <1>4. c = [[b EXCEPT !.lines = l] EXCEPT !.off = f]
    BY <1>1, <1>3 DEF Strike
  <1>5. c \in Bills /\ c.lines = l /\ c.off = f /\ c.settled = b.settled /\ c.cut = b.cut
    BY <1>0, <1>2, <1>3, <1>4 DEF Bills
  <1>6. \A o : Booked(bill, o) => Booked(c, o)
    BY <1>1, <1>5 DEF Booked
  <1>7. Noted(poll, poll', S)
    BY <1>0, CutNotes DEF Strike, Cut
  <1>8. /\ aged' \in SUBSET Nat /\ aged' \subseteq aged
        /\ UNCHANGED <<orders, logged, made, oid, post, view, till>>
    BY DEF Strike, Cut, RoundsInv, RoundsTyped
  <1>9. c.lines \subseteq 1..Len(orders)
    BY <1>0, <1>1, <1>5
  <1> QED BY <1>3, <1>5, <1>6, <1>7, <1>8, <1>9, CutInv

\* A bill is held, or taken up again, and a settlement is no longer on its list.
LEMMA ParkInv == ASSUME RoundsInv, Park \/ Resume \/ SettlementGoes PROVE RoundsInv'
  <1>0. /\ bill \in Bills /\ bill.lines \in SUBSET Nat /\ bill.off \in SUBSET Nat
        /\ bill.lines \subseteq 1..Len(orders) /\ poll \in Views
    BY DEF RoundsInv, RoundsTyped, Names, Bills
  <1>1. PICK b, c : b = bill /\ c = bill'
    OBVIOUS
  <1>2. c \in {[b EXCEPT !.parked = TRUE], [b EXCEPT !.parked = FALSE], [b EXCEPT !.settled = FALSE]}
    BY <1>1 DEF Park, Resume, SettlementGoes
  <1>3. c \in Bills /\ c.lines = b.lines /\ c.off = b.off /\ c.cut = b.cut
    BY <1>0, <1>1, <1>2 DEF Bills
  <1>4. /\ aged' \in SUBSET Nat /\ aged' \subseteq aged
        /\ UNCHANGED <<orders, logged, made, oid, post, view, till>>
    BY DEF Park, Resume, SettlementGoes, Cut, RoundsInv, RoundsTyped
  <1>5. \A o : Booked(bill, o) => Booked(c, o)
    BY <1>1, <1>3 DEF Booked
  <1>6. c.lines \subseteq 1..Len(orders)
    BY <1>0, <1>1, <1>3
  <1>7. CASE SettlementGoes
    <2>1. Noted(poll, poll', bill.lines \cup bill.off)
      <3>1. bill.lines \cup bill.off \in SUBSET Nat
        BY <1>0
      <3> QED BY <1>7, <3>1, CutNotes DEF SettlementGoes, Cut
    <2>2. \A o : Booked(bill, o) => o \in bill.lines \cup bill.off
      BY DEF Booked
    <2> QED BY <1>1, <1>3, <1>4, <1>5, <1>6, <2>1, <2>2, CutInv
  <1>8. CASE Park \/ Resume
    <2>1. c.settled = b.settled
      BY <1>0, <1>1, <1>8 DEF Park, Resume, Bills
    <2>2. PICK S : S = IF Park THEN bill.lines ELSE {}
      OBVIOUS
    <2>3. CASE Park
      BY <1>0, <1>1, <1>3, <1>4, <1>5, <1>6, <2>1, <2>3, CutNotes, CutInv DEF Park, Cut
    <2>4. CASE Resume
      <3>1. Noted(poll, poll', {})
        BY <1>0, <2>4 DEF Resume, Noted
      <3> QED BY <1>1, <1>3, <1>4, <1>5, <1>6, <2>1, <3>1, CutInv
    <2> QED BY <1>8, <2>3, <2>4
  <1> QED BY <1>7, <1>8

LEMMA AgeInv == ASSUME RoundsInv, NEW o \in Ids, Age(o) PROVE RoundsInv'
  <1>0. /\ bill \in Bills /\ bill.lines \subseteq 1..Len(orders) /\ aged \in SUBSET Nat
        /\ o \in Nat
    BY DEF RoundsInv, RoundsTyped, Names, Ids
  <1>1. PICK S : S = {o}
    OBVIOUS
  <1>2. Noted(poll, poll', S) /\ S \in SUBSET Nat
    <2>1. S \in SUBSET Nat /\ poll' = Noting(S)
      BY <1>0, <1>1 DEF Age, Cut
    <2> QED BY <2>1, CutNotes
  <1>3. /\ aged' \in SUBSET Nat /\ aged' \subseteq aged \cup S
        /\ UNCHANGED <<orders, logged, made, oid, post, view, till, bill>>
    BY <1>0, <1>1, <1>2 DEF Age, Cut
  <1> QED BY <1>0, <1>2, <1>3, CutInv

\* A snapshot begins, one more of its lists is read, and it is shown.
LEMMA ViewsInv ==
  ASSUME RoundsInv, poll' \in Views, view' \in Views,
         UNCHANGED <<orders, logged, made, oid, post, till, bill, aged>>, Seen'
  PROVE  RoundsInv'
  BY DEF RoundsInv, RoundsTyped, Names

LEMMA IdleView ==
  NoView \in Views /\ NoView.phase = "idle" /\ NoView.knows = {}
  BY DEF NoView, Views, Phases

LEMMA AskInv == ASSUME RoundsInv, Ask PROVE RoundsInv'
  <1>1. oid \in [Rounds -> Nat] /\ view \in Views /\ Seen /\ made \in Nat /\ made <= MaxRounds
    BY RoundsAssumption DEF RoundsInv, RoundsTyped
  <1>2. PICK w, k : w = poll' /\ k = {r \in 1..made : oid[r] # 0}
    OBVIOUS
  <1>3. PICK v : v = NoView
    OBVIOUS
  <1>4. w = [v EXCEPT !.phase = "lines", !.knows = k] /\ v \in Views
    BY <1>2, <1>3, IdleView DEF Ask
  <1>5. k \in SUBSET Rounds
    BY <1>1, <1>2, RoundsAssumption DEF Rounds
  <1>6. w \in Views /\ w.phase = "lines" /\ w.knows = k
    BY <1>4, <1>5 DEF Views, Phases
  <1>7. Seen'
    BY <1>1, <1>2, <1>6 DEF Seen, Found, Ask, Reading
  <1> QED BY <1>1, <1>2, <1>6, <1>7, ViewsInv DEF Ask

LEMMA ReadInv == ASSUME RoundsInv, Read PROVE RoundsInv'
  <1>0. /\ orders \in Seq(OrderRows) /\ Len(orders) \in Nat /\ bill \in Bills
        /\ poll \in Views /\ view \in Views /\ made \in Nat
        /\ bill.lines \subseteq 1..Len(orders) /\ bill.lines \in SUBSET Nat /\ bill.settled \in BOOLEAN
        /\ bill.cut \in SUBSET Rounds
        /\ LinesFirst(orders, bill, till.box) /\ Seen /\ NamesRounds(oid, orders)
    BY RoundsAssumption DEF RoundsInv, RoundsTyped, Names, Bills
  <1>1. PICK v, w : v = poll /\ w = poll'
    OBVIOUS
  <1>2. v \in Views /\ v.phase \in Phases
    BY <1>0, <1>1 DEF Views
  <1>3. PICK refused, open, table, gone :
          refused = Refused /\ open = Waiting /\ table = OnTable /\ gone = Gone
    OBVIOUS
  <1>4. /\ refused \in SUBSET Nat /\ open \in SUBSET Nat /\ table \in SUBSET Nat
        /\ gone \in SUBSET Nat /\ aged \in SUBSET Nat /\ aged \subseteq gone
    <2>1. aged \in SUBSET Nat /\ bill.lines \in SUBSET Nat /\ bill.off \in SUBSET Nat
      BY DEF RoundsInv, RoundsTyped, Bills
    <2>2. refused \in SUBSET Nat /\ open \in SUBSET Nat
      BY <1>0, <1>3 DEF Refused, Waiting, Open, Ids
    <2>3. table \in SUBSET Nat
      BY <1>3, <2>1 DEF OnTable
    <2>4. gone \in SUBSET Nat /\ aged \subseteq gone
      BY <1>3, <2>1 DEF Gone
    <2> QED BY <2>1, <2>2, <2>3, <2>4
  <1>5. ASSUME NEW r \in Rounds, r \in poll.knows
        PROVE  /\ Found(v, orders, bill, r, oid[r]) /\ oid[r] \in 1..Len(orders)
               /\ orders[oid[r]] \in OrderRows /\ orders[oid[r]].round = r
    BY <1>0, <1>1, <1>5 DEF Seen, Found, NamesRounds
  <1>6. UNCHANGED <<orders, logged, made, oid, post, till, bill, view, aged>>
    BY DEF Read
  <1>7. ASSUME w \in Views, w.knows = v.knows, Reading(w) => aged \subseteq w.moved,
               \A r \in Rounds : r \in poll.knows => Found(w, orders, bill, r, oid[r])
        PROVE  RoundsInv'
    <2>1. Seen'
      BY <1>0, <1>1, <1>6, <1>7 DEF Seen
    <2> QED BY <1>0, <1>1, <1>6, <1>7, <2>1, ViewsInv
  <1>8. CASE v.phase = "lines"
    <2>1. w = [v EXCEPT !.phase = "settled", !.lines = table, !.moved = gone]
      BY <1>1, <1>3, <1>8 DEF Read
    <2>3. /\ w \in Views /\ w.knows = v.knows /\ w.phase = "settled" /\ w.lines = table
          /\ w.moved = gone
      BY <1>2, <1>4, <2>1 DEF Views, Phases
    <2>4. ASSUME NEW r \in Rounds, r \in poll.knows PROVE Found(w, orders, bill, r, oid[r])
      <3>1. PICK o : o = oid[r]
        OBVIOUS
      <3>2. o # 0 /\ o \in Ids /\ orders[o].round = r
        BY <1>0, <1>5, <2>4, <3>1 DEF Found, Ids
      <3>3. CASE orders[o].st # "taken"
        BY <2>3, <3>1, <3>2, <3>3 DEF Found
      <3>4. CASE orders[o].st = "taken"
        <4>1. o \in bill.lines \cup bill.off
          BY <1>0, <3>2, <3>4 DEF LinesFirst, Booked, Ids
        <4>2. CASE o \in table
          BY <2>3, <3>1, <3>2, <4>2 DEF Found
        <4>3. CASE o \in Paid
          <5>1. bill.settled /\ r \in bill.cut
            BY <3>2, <4>3 DEF Paid
          <5> QED BY <2>3, <3>1, <3>2, <5>1 DEF Found
        <4>4. CASE o \notin table /\ o \notin Paid
          <5>1. o \in gone
            BY <1>3, <3>4, <4>1, <4>4 DEF Gone
          <5> QED BY <2>3, <3>1, <3>2, <5>1 DEF Found
        <4> QED BY <4>2, <4>3, <4>4
      <3> QED BY <3>3, <3>4
    <2> QED BY <1>4, <1>7, <2>3, <2>4
  <1>9. CASE v.phase = "settled"
    <2>1. w = [v EXCEPT !.phase = "declined", !.settled = bill.settled, !.cut = bill.cut]
      BY <1>1, <1>9 DEF Read
    <2>2. PICK b, c : b = bill.settled /\ c = bill.cut
      OBVIOUS
    <2>3. w = [v EXCEPT !.phase = "declined", !.settled = b, !.cut = c]
          /\ b \in BOOLEAN /\ c \in SUBSET Rounds
      BY <1>0, <2>1, <2>2
    <2>4. /\ w \in Views /\ w.knows = v.knows /\ w.phase = "declined" /\ w.lines = v.lines
          /\ w.moved = v.moved /\ w.settled = b /\ w.cut = c
      BY <1>2, <2>3 DEF Views, Phases
    <2>5. \A r \in Rounds : r \in poll.knows => Found(w, orders, bill, r, oid[r])
      BY <1>5, <1>9, <2>2, <2>4 DEF Found
    <2>6. aged \subseteq w.moved
      BY <1>0, <1>1, <1>9, <2>4 DEF Seen, Reading
    <2> QED BY <1>7, <2>4, <2>5, <2>6
  <1>10. CASE v.phase = "declined"
    <2>1. w = [v EXCEPT !.phase = "pending", !.declined = refused]
      BY <1>1, <1>3, <1>10 DEF Read
    <2>2. /\ w \in Views /\ w.knows = v.knows /\ w.phase = "pending" /\ w.lines = v.lines
          /\ w.moved = v.moved /\ w.settled = v.settled /\ w.cut = v.cut /\ w.declined = refused
      BY <1>2, <1>4, <2>1 DEF Views, Phases
    <2>4. aged \subseteq w.moved
      BY <1>0, <1>1, <1>10, <2>2 DEF Seen, Reading
    <2>3. ASSUME NEW r \in Rounds, r \in poll.knows PROVE Found(w, orders, bill, r, oid[r])
      <3>1. orders[oid[r]].st \in {"declined", "part"} => oid[r] \in refused \cup w.moved
        BY <1>3, <1>5, <2>3, <2>4 DEF Refused, Ids
      <3> QED BY <1>5, <1>10, <2>2, <2>3, <3>1 DEF Found
    <2> QED BY <1>7, <2>2, <2>3, <2>4
  <1>11. CASE v.phase = "pending"
    <2>1. w = [v EXCEPT !.phase = "landing", !.pending = open]
      BY <1>1, <1>3, <1>11 DEF Read
    <2>2. /\ w \in Views /\ w.knows = v.knows /\ w.phase = "landing" /\ w.lines = v.lines
          /\ w.moved = v.moved /\ w.settled = v.settled /\ w.cut = v.cut /\ w.declined = v.declined
          /\ w.pending = open /\ ~Reading(w)
      BY <1>2, <1>4, <2>1 DEF Views, Phases, Reading
    <2>4. aged \subseteq w.moved
      BY <1>0, <1>1, <1>11, <2>2 DEF Seen, Reading
    <2>3. ASSUME NEW r \in Rounds, r \in poll.knows PROVE Found(w, orders, bill, r, oid[r])
      <3>1. orders[oid[r]].st = "open" => oid[r] \in open \cup w.moved
        BY <1>3, <1>5, <2>3, <2>4 DEF Waiting, Open, Ids
      <3>2. orders[oid[r]].st \in States
        BY <1>5, <2>3 DEF OrderRows
      <3> QED BY <1>5, <1>11, <2>2, <2>3, <3>1, <3>2 DEF Found, States
    <2> QED BY <1>7, <2>2, <2>3
  <1>12. CASE v.phase \in {"idle", "landing"}
    BY <1>1, <1>12 DEF Read
  <1> QED BY <1>2, <1>8, <1>9, <1>10, <1>11, <1>12 DEF Phases

LEMMA LandInv == ASSUME RoundsInv, Land PROVE RoundsInv'
  <1>1. poll \in Views /\ Seen /\ poll.phase = "landing"
    BY DEF RoundsInv, RoundsTyped, Land
  <1>2. PICK v, w : v = poll /\ w = view'
    OBVIOUS
  <1>3. w = [v EXCEPT !.phase = "idle"] /\ v \in Views /\ poll' = NoView
    BY <1>1, <1>2 DEF Land, Landed
  <1>4. /\ w \in Views /\ w.phase = "idle" /\ w.knows = v.knows /\ w.lines = v.lines
        /\ w.moved = v.moved /\ w.settled = v.settled /\ w.cut = v.cut /\ w.declined = v.declined
        /\ w.pending = v.pending
    BY <1>3 DEF Views, Phases
  <1>5. Seen'
    BY <1>1, <1>2, <1>3, <1>4, IdleView DEF Seen, Found, Land, Reading
  <1> QED BY <1>2, <1>3, <1>4, <1>5, IdleView, ViewsInv DEF Land

LEMMA RoundsStep ==
  ASSUME RoundsInv, NEW by \in Members \cup {Nobody}, RoundsNext(by) PROVE RoundsInv'
  <1>1. Void => RoundsInv'
    BY StrikeInv DEF Void
  <1>2. MoveTable => RoundsInv'
    BY StrikeInv DEF MoveTable
  <1> QED BY <1>1, <1>2, PhoneInv, DecideInv, DeliverInv, SettleInv, ParkInv, AgeInv, AskInv,
             ReadInv, LandInv, InsertInv DEF RoundsNext

THEOREM RoundsInvariance == Spec => []RoundsInv
  <1>1. Init => RoundsInv
    BY RoundsInitInv DEF Init
  <1>2. RoundsInv /\ [Next]_<<roundVars, cardVars, menuVars>> => RoundsInv'
    <2>1. RoundsInv /\ UNCHANGED roundVars => RoundsInv'
      BY DEF roundVars, RoundsInv, RoundsTyped, Names, Seen
    <2>2. Ordering \subseteq Members \cup {Nobody}
      BY DEF Ordering
    <2>3. RoundsInv /\ Next => RoundsInv'
      BY <2>1, <2>2, RoundsStep DEF Next
    <2> QED BY <2>1, <2>3
  <1> QED BY <1>1, <1>2, PTL DEF Spec

\* Whatever posts fail, are repeated or overtaken, in whatever order the counter's ops go out
\* and the lists of a snapshot are read around them: a round the outlet has answered for is on
\* the guest's order, but for one the outlet decided, or took off its lists, while they were
\* read or before (RoundIsShown).
THEOREM RoundAlwaysShown == Spec => []RoundIsShown
  <1>1. RoundsInv => RoundIsShown
    <2> SUFFICES ASSUME RoundsInv, NEW r \in 1..made, oid[r] # 0
                 PROVE  Drawn(r) \/ oid[r] \in view.moved
      BY DEF RoundIsShown
    <2>1. r \in Rounds
      BY RoundsAssumption DEF RoundsInv, RoundsTyped, Rounds
    <2>2. CASE r \in view.knows
      BY <2>1, <2>2 DEF RoundsInv, Seen, Found, Drawn
    <2>3. CASE r \notin view.knows
      BY <2>3 DEF Drawn
    <2> QED BY <2>2, <2>3
  <1> QED BY <1>1, RoundsInvariance, PTL
=============================================================================
