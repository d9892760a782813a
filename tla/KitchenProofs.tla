--------------------------- MODULE KitchenProofs ---------------------------
(***************************************************************************)
(* What the kitchen works from.  KitchenPass: the rung that was counted by *)
(* a delivery alone at the ticket says what the pass says, and such a      *)
(* delivery calls a waiter to finished food only.  Hub: while the cloud    *)
(* cannot be reached the kitchen acts on what the store hub holds, and     *)
(* what it does reaches the cloud after what it was done on; nothing is    *)
(* taken from a device before the cloud has it.                            *)
(***************************************************************************)
EXTENDS KitchenPass, Hub, SequenceTheorems, WellFoundedInduction, TLAPS

-----------------------------------------------------------------------------
(* The pass.                                                               *)

Working(s) == session[s] # Idle
Work(w) == w = [phase |-> w.phase, op |-> w.op, hit |-> w.hit, rung |-> w.rung, alone |-> w.alone]

\* Every delivery is idle, or has an op in hand.
Shape ==
  /\ session = [s \in Session |-> session[s]]
  /\ \A s \in Session : Working(s) =>
       /\ Work(session[s]) /\ session[s].op \in Ops /\ session[s].alone \in BOOLEAN
       /\ session[s].phase \in {"marking", "marked", "counted"}

\* Only what was fired is up, or is about to be.
Fired ==
  /\ ready \subseteq sent
  /\ \A s \in Session : Working(s) /\ Effect(session[s].op) = "ready" => session[s].hit \subseteq sent

\* One that is marked as alone is; so its rows are still as it found them, and its rung is
\* still what it would count.
Alone ==
  \A s \in Session : Working(s) /\ session[s].alone =>
    /\ \A u \in Session \ {s} : session[u] = Idle
    /\ session[s].hit \subseteq Hits(session[s].op)
    /\ session[s].phase = "counted" => session[s].rung = RungWritten(s)

\* What RungIsExact says, at work or not.
Exact == counted => (sent \ void # {} => (stage = KITCHEN <=> Cooking # {}))

Inv == Shape /\ Fired /\ Alone /\ Exact

-----------------------------------------------------------------------------
\* There is no other effect than these, and only firing fires.
LEMMA Effects ==
  ASSUME OpAssumption, NEW op \in Ops
  PROVE  /\ op.kind \in Kind
         /\ Effect(op) \in {"sent", "void", "ready", "back"} \/ op.kind = "fulfil_stage"
         /\ Effect(op) = "sent" <=> op.kind = "fire_course"
         /\ Effect(op) = "void" <=> op.kind = "void_line"
         /\ op.kind \in {"kds_bump", "kds_bump_all"} => Effect(op) = "ready"
         /\ op.kind = "kds_recall" => Effect(op) = "back"
  BY DEF OpAssumption, Effect, Kind

LEMMA InitInv == Init => Inv
  BY DEF Init, Inv, Shape, Fired, Alone, Exact, Working, Idle

\* A delivery that begins ends the solitude of the others.
LEMMA BeginInv ==
  ASSUME OpAssumption, Inv, NEW s \in Session, NEW op \in Ops, Begin(s, op)
  PROVE  Inv'
  <1> DEFINE w == [phase |-> "marking", op |-> op, hit |-> Hits(op), rung |-> stage, alone |-> Quiet]
  <1>1. /\ session[s] = Idle /\ session'[s] = w
        /\ \A u \in Session \ {s} :
             session'[u] = IF session[u] = Idle THEN Idle ELSE [session[u] EXCEPT !.alone = FALSE]
        /\ session' = [u \in Session |-> session'[u]]
        /\ UNCHANGED <<sent, ready, void, stage, counted>>
    BY DEF Begin, lineVars
  <1>2. w # Idle /\ Quiet \in BOOLEAN
    BY DEF Idle, Quiet
  <1>3. ASSUME NEW u \in Session \ {s}, session[u] # Idle
        PROVE  /\ session'[u] # Idle /\ Work(session'[u]) /\ session'[u].alone = FALSE
               /\ session'[u].op = session[u].op /\ session'[u].hit = session[u].hit
               /\ session'[u].phase = session[u].phase
    <2>1. Work(session[u]) /\ session[u].phase # "idle"
      BY <1>3 DEF Inv, Shape, Working
    <2> QED BY <1>1, <1>3, <2>1 DEF Work, Idle
  <1>w. /\ Work(w) /\ w.op = op /\ w.hit = Hits(op) /\ w.phase = "marking" /\ w.alone = Quiet
        /\ w.alone \in BOOLEAN
    BY <1>2 DEF Work
  <1>i. \A u \in Session \ {s} : session[u] = Idle => session'[u] = Idle
    BY <1>1
  <1> HIDE DEF w
  <1>4. Shape'
    BY <1>1, <1>2, <1>3, <1>w, <1>i DEF Inv, Shape, Working
  <1>5. Fired'
    <2>1. Effect(op) = "ready" => Hits(op) \subseteq sent
      BY DEF Hits
    <2> QED BY <1>1, <1>2, <1>3, <1>w, <1>i, <2>1 DEF Inv, Fired, Working
  <1>6. Alone'
    <2>1. Quiet => \A u \in Session \ {s} : session'[u] = Idle
      BY <1>1 DEF Quiet
    <2>2. Hits(op)' = Hits(op)
      BY <1>1 DEF Hits
    <2>3. ASSUME NEW u \in Session, Working(u)', session'[u].alone PROVE u = s
      BY <2>3, <1>3, <1>i DEF Working
    <2> QED BY <1>1, <1>w, <2>1, <2>2, <2>3 DEF Alone
  <1>7. Exact'
    BY <1>1 DEF Inv, Exact, Cooking
  <1> QED BY <1>4, <1>5, <1>6, <1>7 DEF Inv

\* Looking at the rows again takes rows away, and nothing else.
LEMMA MarkInv ==
  ASSUME Inv, NEW s \in Session, Mark(s)
  PROVE  Inv'
  <1>1. /\ Working(s) /\ Work(session[s]) /\ session[s].phase = "marking"
        /\ UNCHANGED <<sent, ready, void, stage, counted>>
    BY DEF Mark, Inv, Shape, Working, Idle, lineVars
  <1>2. /\ session'[s] = [session[s] EXCEPT !.phase = "marked", !.hit = @ \cap Hits(session[s].op)]
        /\ \A u \in Session \ {s} : session'[u] = session[u]
        /\ session' = [u \in Session |-> session'[u]]
    BY DEF Mark, Inv, Shape
  <1>3. /\ session'[s] # Idle /\ Work(session'[s]) /\ session'[s].phase = "marked"
        /\ session'[s].op = session[s].op /\ session'[s].alone = session[s].alone
        /\ session'[s].hit = session[s].hit \cap Hits(session[s].op)
    BY <1>1, <1>2 DEF Work, Idle
  <1>4. Shape'
    BY <1>1, <1>2, <1>3 DEF Inv, Shape, Working
  <1>5. Fired'
    BY <1>1, <1>2, <1>3 DEF Inv, Fired, Working
  <1>6. Alone'
    <2>1. \A op : Hits(op)' = Hits(op)
      BY <1>1 DEF Hits
    <2> QED BY <1>1, <1>2, <1>3, <2>1 DEF Inv, Alone, Working
  <1>7. Exact'
    BY <1>1 DEF Inv, Exact, Cooking
  <1> QED BY <1>4, <1>5, <1>6, <1>7 DEF Inv

\* The count is of the lines as they are.
LEMMA CountInv ==
  ASSUME Inv, NEW s \in Session, Count(s)
  PROVE  Inv'
  <1>1. /\ Working(s) /\ Work(session[s]) /\ session[s].phase = "marked"
        /\ UNCHANGED <<sent, ready, void, stage, counted>>
    BY DEF Count, Inv, Shape, Working, Idle, lineVars
  <1>2. /\ session'[s] = [session[s] EXCEPT !.phase = "counted", !.rung = RungWritten(s)]
        /\ \A u \in Session \ {s} : session'[u] = session[u]
        /\ session' = [u \in Session |-> session'[u]]
    BY DEF Count, Inv, Shape
  <1>3. /\ session'[s] # Idle /\ Work(session'[s]) /\ session'[s].phase = "counted"
        /\ session'[s].op = session[s].op /\ session'[s].alone = session[s].alone
        /\ session'[s].hit = session[s].hit /\ session'[s].rung = RungWritten(s)
    BY <1>1, <1>2 DEF Work, Idle
  <1>4. Shape'
    BY <1>1, <1>2, <1>3 DEF Inv, Shape, Working
  <1>5. Fired'
    BY <1>1, <1>2, <1>3 DEF Inv, Fired, Working
  <1>6. Alone'
    <2>1. \A op : Hits(op)' = Hits(op)
      BY <1>1 DEF Hits
    <2>2. /\ SentAfter(s)' = SentAfter(s) /\ VoidAfter(s)' = VoidAfter(s)
          /\ ReadyAfter(s)' = ReadyAfter(s)
      BY <1>1, <1>3 DEF SentAfter, VoidAfter, ReadyAfter
    <2>3. RungFromPass(s)' = RungFromPass(s)
      BY <2>2 DEF RungFromPass
    <2>4. session'[s].rung = RungWritten(s)'
      <3>1. CASE session[s].op.kind = "void_line"
        BY <1>3, <3>1 DEF RungWritten
      <3>2. CASE session[s].op.kind # "void_line"
        BY <1>3, <2>3, <3>2 DEF RungWritten, Clamp
      <3> QED BY <3>1, <3>2
    <2> QED BY <1>1, <1>2, <1>3, <2>1, <2>4 DEF Inv, Alone, Working
  <1>7. Exact'
    BY <1>1 DEF Inv, Exact, Cooking
  <1> QED BY <1>4, <1>5, <1>6, <1>7 DEF Inv

\* A delivery alone at the ticket leaves the rung as the pass is.
LEMMA CountedIsExact ==
  ASSUME OpAssumption, Inv, NEW s \in Session, SetRung(s), counted'
  PROVE  Exact'
  <1>1. /\ Working(s) /\ session[s].alone /\ session[s].op \in Ops
        /\ session[s].rung = RungWritten(s) /\ session[s].hit \subseteq Hits(session[s].op)
        /\ session[s].op.kind \notin {"void_line", "fulfil_stage"}
        /\ session[s].op.kind = "fire_course" => session[s].hit \ void # {}
        /\ stage' = session[s].rung
        /\ sent' = SentAfter(s) /\ ready' = ReadyAfter(s) /\ void' = VoidAfter(s)
    <2>1. session[s].phase = "counted" /\ Working(s)
      BY DEF SetRung, Working, Idle
    <2>2. /\ session[s].alone /\ session[s].op \in Ops
          /\ session[s].op.kind \notin {"void_line", "fulfil_stage"}
          /\ session[s].op.kind = "fire_course" => session[s].hit \ void # {}
      BY <2>1 DEF SetRung, Inv, Shape
    <2>3. session[s].rung = RungWritten(s) /\ session[s].hit \subseteq Hits(session[s].op)
      BY <2>1, <2>2 DEF Inv, Alone
    <2> QED BY <2>1, <2>2, <2>3 DEF SetRung
  <1>2. CASE session[s].op.kind = "fire_course"
    <2>1. stage' = KITCHEN
      BY <1>1, <1>2 DEF RungWritten
    <2>2. Effect(session[s].op) = "sent"
      BY <1>1, <1>2, Effects
    <2>3. sent' = sent \cup session[s].hit /\ ready' = ready /\ void' = void
      BY <1>1, <2>2 DEF SentAfter, ReadyAfter, VoidAfter
    <2>4. session[s].hit \cap sent = {}
      BY <1>1, <2>2 DEF Hits
    <2>5. PICK l \in session[s].hit : l \notin void
      BY <1>1, <1>2
    <2>6. l \in sent' /\ l \notin void' /\ l \notin ready'
      BY <2>3, <2>4, <2>5 DEF Inv, Fired
    <2> QED BY <2>1, <2>6 DEF Exact, Cooking
  <1>3. CASE session[s].op.kind # "fire_course"
    <2>1. stage' = RungFromPass(s)
      BY <1>1, <1>3, Effects DEF RungWritten, Kind
    <2> QED BY <1>1, <2>1 DEF RungFromPass, Exact, Cooking, TAKING, KITCHEN, READY
  <1> QED BY <1>2, <1>3

LEMMA SetRungInv ==
  ASSUME OpAssumption, Inv, NEW s \in Session, SetRung(s)
  PROVE  Inv'
  <1>1. /\ Working(s) /\ session'[s] = Idle
        /\ \A u \in Session \ {s} : session'[u] = session[u]
        /\ session' = [u \in Session |-> session'[u]]
        /\ sent' = SentAfter(s) /\ ready' = ReadyAfter(s) /\ void' = VoidAfter(s)
    BY DEF SetRung, Inv, Shape, Working, Idle
  <1>2. Shape'
    BY <1>1 DEF Inv, Shape, Working
  <1>3. Fired'
    <2>1. sent \subseteq sent' /\ ready' \subseteq sent'
      BY <1>1 DEF Inv, Fired, SentAfter, ReadyAfter
    <2> QED BY <1>1, <2>1 DEF Inv, Fired, Working
  <1>4. Alone'
    BY <1>1 DEF Inv, Alone, Working
  <1>5. Exact'
    BY CountedIsExact DEF Exact
  <1> QED BY <1>2, <1>3, <1>4, <1>5 DEF Inv

THEOREM Invariance == ASSUME OpAssumption PROVE Spec => []Inv
  <1>1. Inv /\ [Next]_vars => Inv'
    <2> SUFFICES ASSUME Inv, [Next]_vars PROVE Inv'
      OBVIOUS
    <2>1. CASE UNCHANGED vars
      BY <2>1 DEF vars, lineVars, Inv, Shape, Fired, Alone, Exact, Working, Cooking, Hits,
         RungWritten, RungFromPass, SentAfter, VoidAfter, ReadyAfter
    <2>2. ASSUME NEW s \in Session, NEW op \in Ops, Begin(s, op) PROVE Inv'
      BY <2>2, BeginInv
    <2>3. ASSUME NEW s \in Session, Mark(s) \/ Count(s) \/ SetRung(s) PROVE Inv'
      BY <2>3, MarkInv, CountInv, SetRungInv
    <2> QED BY <2>1, <2>2, <2>3 DEF Next
  <1> QED BY InitInv, <1>1, PTL DEF Spec

\* The rung that a delivery alone at the ticket counted is the pass's, until something is
\* voided or set by hand, or two deliveries meet (RungIsExact).
THEOREM RungAlwaysExact == ASSUME OpAssumption PROVE Spec => []RungIsExact
  <1>1. Inv => RungIsExact
    BY DEF Inv, Exact, RungIsExact, StageFollowsPass
  <1> QED BY Invariance, <1>1, PTL

\* What a notice says is so when it is composed, or deliveries met (NoEarlyCall).
THEOREM CalledToFinishedFood == ASSUME OpAssumption PROVE Spec => NoEarlyCall
  <1>1. ASSUME Inv, [Next]_vars, told' # told
        PROVE  \/ Cooking' = {}
               \/ \E s \in Session : session[s] # Idle /\ session'[s] = Idle /\ ~session[s].alone
    <2>1. PICK s \in Session : SetRung(s)
      BY <1>1 DEF Next, vars, Begin, Mark, Count
    <2>2. /\ Working(s) /\ session'[s] = Idle /\ Announces(s) /\ session[s].op \in Ops
          /\ sent' = SentAfter(s) /\ ready' = ReadyAfter(s) /\ void' = VoidAfter(s)
          /\ session[s].phase = "counted" /\ session[s].alone \in BOOLEAN
      BY <1>1, <2>1 DEF SetRung, Inv, Shape, Working, Idle
    <2>3. CASE session[s].alone
      <3>1. RungWritten(s) = READY /\ session[s].op.kind \in {"kds_bump", "kds_bump_all"}
        BY <1>1, <2>2, <2>3 DEF Inv, Alone, Announces
      <3>2. RungFromPass(s) = READY
        BY <3>1 DEF RungWritten
      <3>3. SentAfter(s) \ VoidAfter(s) \subseteq ReadyAfter(s)
        BY <3>2 DEF RungFromPass, TAKING, KITCHEN, READY
      <3> QED BY <2>2, <3>3 DEF Cooking
    <2> QED BY <2>2, <2>3 DEF Working
  <1> QED BY <1>1, Invariance, PTL DEF NoEarlyCall, Spec

-----------------------------------------------------------------------------
(* What is in a sequence, and before what.                                 *)

Precedes(a, b, s) == \E i, j \in 1..Len(s) : i < j /\ s[i] = a /\ s[j] = b
Once(s) == \A i, j \in 1..Len(s) : s[i] = s[j] => i = j
Tells(s) == {s[i] : i \in 1..Len(s)}

LEMMA RangeIs == ASSUME NEW S, NEW s \in Seq(S) PROVE Range(s) = Tells(s) /\ Range(s) \subseteq S
  BY LenProperties DEF Range, Tells

LEMMA RangeOfNothing == Range(<<>>) = {}
  BY DEF Range

LEMMA JoinIs ==
  ASSUME NEW S, NEW s \in Seq(S), NEW t \in Seq(S)
  PROVE  /\ s \o t \in Seq(S) /\ Range(s \o t) = Range(s) \cup Range(t)
         /\ \A a, b : (Precedes(a, b, s) \/ Precedes(a, b, t) \/ (a \in Range(s) /\ b \in Range(t)))
                      => Precedes(a, b, s \o t)
         /\ Once(s) /\ Once(t) /\ Range(s) \cap Range(t) = {} => Once(s \o t)
  <1> DEFINE u == s \o t  m == Len(s)  n == Len(t)
  <1>1. /\ u \in Seq(S) /\ m \in Nat /\ n \in Nat /\ Len(u) = m + n
        /\ \A i \in 1..m : u[i] = s[i]
        /\ \A i \in 1..n : u[m + i] = t[i]
        /\ \A i \in 1..(m + n) : i > m => i - m \in 1..n /\ u[i] = t[i - m]
    BY ConcatProperties, LenProperties
  <1>r. Range(u) = Tells(u) /\ Range(s) = Tells(s) /\ Range(t) = Tells(t)
    BY <1>1, RangeIs
  <1> HIDE DEF u, m, n
  <1>l. m = Len(s) /\ n = Len(t)
    BY DEF m, n
  <1>2. Range(u) = Range(s) \cup Range(t)
    <2>1. ASSUME NEW x \in Tells(u) PROVE x \in Tells(s) \cup Tells(t)
      <3>1. PICK i \in 1..(m + n) : x = u[i]
        BY <1>1 DEF Tells
      <3>2. CASE i <= m
        BY <1>1, <1>l, <3>1, <3>2 DEF Tells
      <3>3. CASE i > m
        BY <1>1, <1>l, <3>1, <3>3 DEF Tells
      <3> QED BY <1>1, <3>1, <3>2, <3>3
    <2>2. ASSUME NEW x \in Tells(s) PROVE x \in Tells(u)
      <3>1. PICK i \in 1..m : x = s[i]
        BY <1>l DEF Tells
      <3> QED BY <1>1, <3>1 DEF Tells
    <2>3. ASSUME NEW x \in Tells(t) PROVE x \in Tells(u)
      <3>1. PICK i \in 1..n : x = t[i]
        BY <1>l DEF Tells
      <3>2. m + i \in 1..(m + n) /\ u[m + i] = x
        BY <1>1, <3>1
      <3> QED BY <1>1, <3>2 DEF Tells
    <2> QED BY <1>r, <2>1, <2>2, <2>3
  <1>3. ASSUME NEW a, NEW b, Precedes(a, b, s) PROVE Precedes(a, b, u)
    <2>1. PICK i, j \in 1..m : i < j /\ s[i] = a /\ s[j] = b
      BY <1>3, <1>l DEF Precedes
    <2> QED BY <1>1, <2>1 DEF Precedes
  <1>4. ASSUME NEW a, NEW b, Precedes(a, b, t) PROVE Precedes(a, b, u)
    <2>1. PICK i, j \in 1..n : i < j /\ t[i] = a /\ t[j] = b
      BY <1>4, <1>l DEF Precedes
    <2>2. m + i \in 1..(m + n) /\ m + j \in 1..(m + n) /\ m + i < m + j
      BY <1>1, <2>1
    <2> QED BY <1>1, <2>1, <2>2 DEF Precedes
  <1>5. ASSUME NEW a, NEW b, a \in Range(s), b \in Range(t) PROVE Precedes(a, b, u)
    <2>1. PICK i \in 1..m : s[i] = a
      BY <1>5, <1>l, <1>r DEF Tells
    <2>2. PICK j \in 1..n : t[j] = b
      BY <1>5, <1>l, <1>r DEF Tells
    <2>3. i \in 1..(m + n) /\ m + j \in 1..(m + n) /\ i < m + j
      BY <1>1
    <2> QED BY <1>1, <2>1, <2>2, <2>3 DEF Precedes
  <1>6. ASSUME Once(s), Once(t), Range(s) \cap Range(t) = {} PROVE Once(u)
    <2> SUFFICES ASSUME NEW i \in 1..(m + n), NEW j \in 1..(m + n), u[i] = u[j] PROVE i = j
      BY <1>1 DEF Once
    <2>1. CASE i <= m /\ j <= m
      BY <1>1, <1>6, <1>l, <2>1 DEF Once
    <2>2. CASE i > m /\ j > m
      <3>1. i - m \in 1..n /\ j - m \in 1..n /\ t[i - m] = t[j - m]
        BY <1>1, <2>2
      <3> QED BY <1>1, <1>6, <1>l, <3>1 DEF Once
    <2>3. ASSUME NEW k \in 1..m, NEW l \in 1..n, s[k] = t[l] PROVE FALSE
      <3>1. s[k] \in Tells(s) /\ t[l] \in Tells(t)
        BY <1>l DEF Tells
      <3> QED BY <1>6, <1>r, <2>3, <3>1
    <2>4. ~(i <= m /\ j > m)
      BY <1>1, <2>3
    <2>5. ~(i > m /\ j <= m)
      BY <1>1, <2>3
    <2> QED BY <1>1, <2>1, <2>2, <2>4, <2>5
  <1> QED BY <1>1, <1>2, <1>3, <1>4, <1>5, <1>6 DEF u

LEMMA OneIs ==
  ASSUME NEW S, NEW e \in S
  PROVE  <<e>> \in Seq(S) /\ Range(<<e>>) = {e} /\ Once(<<e>>)
  BY DEF Range, Once

\* A sequence in which nothing is twice, cut in two.
LEMMA OnceCut ==
  ASSUME NEW S, NEW s \in Seq(S), NEW t \in Seq(S), Once(s \o t)
  PROVE  Once(s) /\ Once(t)
  <1> DEFINE u == s \o t  m == Len(s)  n == Len(t)
  <1>1. /\ m \in Nat /\ n \in Nat /\ Len(u) = m + n
        /\ \A i \in 1..m : u[i] = s[i]
        /\ \A i \in 1..n : m + i \in 1..(m + n) /\ u[m + i] = t[i]
    BY ConcatProperties, LenProperties
  <1>l. m = Len(s) /\ n = Len(t) /\ Once(u)
    OBVIOUS
  <1> HIDE DEF u, m, n
  <1>2. Once(s)
    BY <1>1, <1>l DEF Once
  <1>3. Once(t)
    BY <1>1, <1>l DEF Once
  <1> QED BY <1>2, <1>3

\* What is in the second part of a sequence is preceded by the first part, or in the second.
LEMMA PrecedesInCut ==
  ASSUME NEW S, NEW s \in Seq(S), NEW t \in Seq(S), Once(s \o t), NEW x, NEW y,
         Precedes(x, y, s \o t)
  PROVE  /\ y \in Range(s) => Precedes(x, y, s)
         /\ y \in Range(t) => x \in Range(s) \/ Precedes(x, y, t)
  <1> DEFINE u == s \o t  m == Len(s)  n == Len(t)
  <1>1. /\ u \in Seq(S) /\ m \in Nat /\ n \in Nat /\ Len(u) = m + n
        /\ \A i \in 1..m : u[i] = s[i]
        /\ \A i \in 1..n : u[m + i] = t[i]
        /\ \A i \in 1..(m + n) : i > m => i - m \in 1..n /\ u[i] = t[i - m]
    BY ConcatProperties, LenProperties
  <1>r. Range(s) = Tells(s) /\ Range(t) = Tells(t) /\ Once(u) /\ Precedes(x, y, u)
    BY <1>1, RangeIs
  <1>l. m = Len(s) /\ n = Len(t)
    OBVIOUS
  <1> HIDE DEF u, m, n
  <1>2. PICK i, j \in 1..(m + n) : i < j /\ u[i] = x /\ u[j] = y
    BY <1>1, <1>r DEF Precedes
  <1>3. ASSUME y \in Range(s) PROVE Precedes(x, y, s)
    <2>1. PICK k \in 1..m : s[k] = y
      BY <1>3, <1>l, <1>r DEF Tells
    <2>2. k = j
      BY <1>1, <1>2, <1>r, <2>1 DEF Once
    <2> QED BY <1>1, <1>2, <1>l, <2>1, <2>2 DEF Precedes
  <1>4. ASSUME y \in Range(t) PROVE x \in Range(s) \/ Precedes(x, y, t)
    <2>1. PICK k \in 1..n : t[k] = y
      BY <1>4, <1>l, <1>r DEF Tells
    <2>2. m + k = j
      <3>1. m + k \in 1..(m + n) /\ u[m + k] = u[j]
        BY <1>1, <1>2, <2>1
      <3> QED BY <1>1, <1>r, <3>1 DEF Once
    <2>3. CASE i <= m
      BY <1>1, <1>2, <1>l, <1>r, <2>3 DEF Tells
    <2>4. CASE i > m
      <3>1. i - m \in 1..n /\ i - m < k /\ t[i - m] = x
        BY <1>1, <1>2, <2>2, <2>4
      <3> QED BY <1>l, <2>1, <3>1 DEF Precedes
    <2> QED BY <1>1, <1>2, <2>3, <2>4
  <1> QED BY <1>3, <1>4

-----------------------------------------------------------------------------
(* Without.                                                                *)

LEMMA Least == ASSUME NEW T \in SUBSET Nat, T # {} PROVE \E n \in T : \A k \in T : n <= k
  <1> DEFINE R == OpToRel(<, Nat)
  <1>1. IsWellFoundedOn(R, Nat)
    BY NatLessThanWellFounded, Zenon
  <1>2. PICK n \in T : \A k \in T : ~(<<k, n>> \in R)
    <2> HIDE DEF R
    <2> QED BY <1>1, WFMin
  <1>3. ASSUME NEW k \in T PROVE n <= k
    <2>1. k \in Nat /\ n \in Nat
      OBVIOUS
    <2>2. ~(k < n)
      BY <1>2, <2>1 DEF OpToRel
    <2> QED BY <2>1, <2>2
  <1> QED BY <1>3

\* What holds of 0, and of a number after each it holds of, holds of every number.
LEMMA Counting ==
  ASSUME NEW S, 0 \in S, \A n \in Nat : n \in S => n + 1 \in S PROVE \A n \in Nat : n \in S
  <1> SUFFICES ASSUME NEW m \in Nat, m \notin S PROVE FALSE
    OBVIOUS
  <1> DEFINE T == {n \in Nat : n \notin S}
  <1>1. T \in SUBSET Nat /\ T # {}
    OBVIOUS
  <1>2. PICK n \in T : \A k \in T : n <= k
    <2> HIDE DEF T
    <2> QED BY <1>1, Least
  <1>3. n - 1 \in Nat /\ ~(n <= n - 1) /\ (n - 1) + 1 = n
    OBVIOUS
  <1>4. n - 1 \in S
    BY <1>2, <1>3
  <1> QED BY <1>3, <1>4

Sifted(s, R, n, f) ==
  f = [k \in 0..n |-> IF k = 0 THEN <<>>
                      ELSE IF s[k] \in R THEN f[k - 1] ELSE Append(f[k - 1], s[k])]

LEMMA SiftExists == ASSUME NEW s, NEW R PROVE \A n \in Nat : \E f : Sifted(s, R, n, f)
  <1> DEFINE S == {n \in Nat : \E f : Sifted(s, R, n, f)}
             More(q, k) == IF s[k] \in R THEN q ELSE Append(q, s[k])
  <1>1. 0 \in S
    <2>1. Sifted(s, R, 0, [k \in 0..0 |-> <<>>])
      BY DEF Sifted
    <2> QED BY <2>1
  <1>2. ASSUME NEW n \in Nat, n \in S PROVE n + 1 \in S
    <2>1. PICK f : Sifted(s, R, n, f)
      BY <1>2
    <2> DEFINE g == [k \in 0..(n + 1) |-> IF k <= n THEN f[k] ELSE More(f[n], k)]
               h == [k \in 0..(n + 1) |-> IF k = 0 THEN <<>> ELSE More(g[k - 1], k)]
    <2>2. ASSUME NEW k \in 0..(n + 1) PROVE g[k] = h[k]
      <3>1. CASE k = 0
        <4>1. f[0] = <<>> /\ g[0] = f[0] /\ h[0] = <<>>
          BY <2>1 DEF Sifted
        <4> QED BY <3>1, <4>1
      <3>2. CASE k \in 1..n
        <4>1. k - 1 \in 0..n /\ k \in 0..n /\ k - 1 \in 0..(n + 1) /\ k # 0
          BY <3>2
        <4>2. g[k] = f[k] /\ g[k - 1] = f[k - 1] /\ h[k] = More(g[k - 1], k)
          BY <4>1
        <4>3. f[k] = More(f[k - 1], k)
          BY <2>1, <4>1 DEF Sifted
        <4> QED BY <4>2, <4>3
      <3>3. CASE k = n + 1
        <4>1. g[k] = More(f[n], k) /\ k - 1 = n /\ g[n] = f[n] /\ h[k] = More(g[k - 1], k)
          BY <3>3
        <4> QED BY <4>1
      <3> QED BY <3>1, <3>2, <3>3
    <2>3. g = h
      <3> DEFINE D == 0..(n + 1)
      <3>1. g = [k \in D |-> g[k]] /\ h = [k \in D |-> h[k]]
        OBVIOUS
      <3>2. \A k \in D : g[k] = h[k]
        BY <2>2
      <3> HIDE DEF g, h, D
      <3> QED BY <3>1, <3>2
    <2>4. Sifted(s, R, n + 1, g)
      BY <2>3 DEF Sifted
    <2> QED BY <2>4
  <1> HIDE DEF S
  <1>3. \A n \in Nat : n \in S
    BY <1>1, <1>2, Counting
  <1> QED BY <1>3 DEF S

\* It keeps what it is to keep, in its order.
LEMMA WithoutIs ==
  ASSUME NEW S, NEW s \in Seq(S), NEW R
  PROVE  /\ Without(s, R) \in Seq(S) /\ Range(Without(s, R)) = Range(s) \ R
         /\ Once(s) => Once(Without(s, R))
         /\ \A a, b : Precedes(a, b, s) /\ a \notin R /\ b \notin R => Precedes(a, b, Without(s, R))
  <1> DEFINE n == Len(s)
             f == CHOOSE g : Sifted(s, R, n, g)
  <1>1. n \in Nat /\ Range(s) = Tells(s) /\ \A i \in 1..n : s[i] \in S
    BY LenProperties, RangeIs, ElementOfSeq
  <1>2. Sifted(s, R, n, f)
    BY <1>1, SiftExists
  <1>3. Without(s, R) = f[n]
    BY DEF Without, Sifted
  <1>4. /\ f[0] = <<>>
        /\ \A k \in 0..n : k + 1 \in 1..n =>
             f[k + 1] = IF s[k + 1] \in R THEN f[k] ELSE Append(f[k], s[k + 1])
    <2>1. f = [k \in 0..n |-> IF k = 0 THEN <<>>
                 ELSE IF s[k] \in R THEN f[k - 1] ELSE Append(f[k - 1], s[k])]
      BY <1>2 DEF Sifted
    <2> HIDE DEF f, n
    <2>2. f[0] = <<>>
      BY <1>1, <2>1
    <2>3. ASSUME NEW k \in 0..n, k + 1 \in 1..n
          PROVE  f[k + 1] = IF s[k + 1] \in R THEN f[k] ELSE Append(f[k], s[k + 1])
      <3>1. k + 1 \in 0..n /\ k + 1 # 0 /\ (k + 1) - 1 = k
        BY <1>1, <2>3
      <3> QED BY <2>1, <3>1
    <2> QED BY <2>2, <2>3
  <1> DEFINE Fine(k) == /\ f[k] \in Seq(S) /\ Range(f[k]) = {s[i] : i \in 1..k} \ R
                        /\ Once(s) => Once(f[k])
                        /\ \A i, j \in 1..k : i < j /\ s[i] \notin R /\ s[j] \notin R =>
                             Precedes(s[i], s[j], f[k])
             T == {k \in Nat : k <= n => Fine(k)}
  <1> HIDE DEF f, n
  <1>5. 0 \in T
    <2>1. Once(<<>>) /\ <<>> \in Seq(S) /\ Range(<<>>) = {}
      BY RangeOfNothing DEF Once
    <2>2. f[0] = <<>> /\ 1..0 = {}
      BY <1>4
    <2>3. {s[i] : i \in 1..0} = {}
      BY <2>2
    <2>4. /\ f[0] \in Seq(S) /\ Range(f[0]) = {s[i] : i \in 1..0} \ R /\ Once(f[0])
      BY <2>1, <2>2, <2>3
    <2>5. \A i, j \in 1..0 : i < j /\ s[i] \notin R /\ s[j] \notin R => Precedes(s[i], s[j], f[0])
      BY <2>2
    <2> QED BY <2>4, <2>5
  <1>6. ASSUME NEW k \in Nat, k \in T PROVE k + 1 \in T
    <2> SUFFICES ASSUME k + 1 <= n PROVE Fine(k + 1)
      OBVIOUS
    <2>1. /\ k \in 0..n /\ k + 1 \in 1..n /\ Fine(k)
          /\ f[k + 1] = IF s[k + 1] \in R THEN f[k] ELSE Append(f[k], s[k + 1])
      BY <1>1, <1>4, <1>6
    <2>2. {s[i] : i \in 1..(k + 1)} = {s[i] : i \in 1..k} \cup {s[k + 1]}
      <3>1. \A i \in 1..(k + 1) : i \in 1..k \/ i = k + 1
        OBVIOUS
      <3> QED BY <3>1
    <2>3. CASE s[k + 1] \in R
      <3>1. f[k + 1] = f[k]
        BY <2>1, <2>3
      <3>2. \A i \in 1..(k + 1) : s[i] \notin R => i \in 1..k
        BY <2>3
      <3>3. Range(f[k + 1]) = {s[i] : i \in 1..(k + 1)} \ R
        BY <2>1, <2>2, <2>3, <3>1
      <3> QED BY <2>1, <3>1, <3>2, <3>3
    <2>4. CASE s[k + 1] \notin R
      <3> DEFINE e == s[k + 1]  q == f[k]
      <3>0. e \in S /\ q \in Seq(S) /\ f[k + 1] = Append(q, e)
        BY <1>1, <2>1, <2>4
      <3>1. Append(q, e) = q \o <<e>>
        BY <3>0
      <3>2. <<e>> \in Seq(S) /\ Range(<<e>>) = {e} /\ Once(<<e>>)
        BY <3>0, OneIs
      <3>3. /\ f[k + 1] \in Seq(S) /\ Range(f[k + 1]) = Range(q) \cup {e}
            /\ \A a, b : (Precedes(a, b, q) \/ (a \in Range(q) /\ b = e)) => Precedes(a, b, f[k + 1])
            /\ Once(q) /\ e \notin Range(q) => Once(f[k + 1])
        <4>1. /\ q \o <<e>> \in Seq(S) /\ Range(q \o <<e>>) = Range(q) \cup Range(<<e>>)
              /\ \A a, b : (Precedes(a, b, q) \/ (a \in Range(q) /\ b \in Range(<<e>>)))
                           => Precedes(a, b, q \o <<e>>)
              /\ Once(q) /\ Once(<<e>>) /\ Range(q) \cap Range(<<e>>) = {} => Once(q \o <<e>>)
          <5> HIDE DEF e, q
          <5> QED BY <3>0, <3>2, JoinIs
        <4>2. f[k + 1] = q \o <<e>>
          BY <3>0, <3>1
        <4> HIDE DEF e, q
        <4> QED BY <3>2, <4>1, <4>2
      <3>4. Range(f[k + 1]) = {s[i] : i \in 1..(k + 1)} \ R
        BY <2>1, <2>2, <2>4, <3>3
      <3>5. ASSUME Once(s) PROVE Once(f[k + 1])
        <4>1. ASSUME NEW i \in 1..k, s[i] = e PROVE FALSE
          <5>1. i \in 1..Len(s) /\ k + 1 \in 1..Len(s) /\ i # k + 1
            BY <2>1 DEF n
          <5> QED BY <3>5, <4>1, <5>1 DEF Once
        <4>2. e \notin Range(q)
          BY <2>1, <4>1
        <4> QED BY <2>1, <3>3, <3>5, <4>2
      <3>6. ASSUME NEW i \in 1..(k + 1), NEW j \in 1..(k + 1), i < j, s[i] \notin R, s[j] \notin R
            PROVE  Precedes(s[i], s[j], f[k + 1])
        <4>1. i \in 1..k
          BY <3>6
        <4>2. CASE j \in 1..k
          <5>1. Precedes(s[i], s[j], q)
            BY <2>1, <3>6, <4>1, <4>2
          <5> HIDE DEF e, q
          <5> QED BY <3>3, <5>1
        <4>3. CASE j = k + 1
          <5>1. s[i] \in Range(q)
            BY <2>1, <3>6, <4>1
          <5> QED BY <3>3, <4>3, <5>1
        <4> QED BY <4>2, <4>3
      <3> HIDE DEF e, q
      <3> QED BY <3>3, <3>4, <3>5, <3>6
    <2> QED BY <2>3, <2>4
  <1>7. Fine(n)
    <2> HIDE DEF T
    <2>1. n \in T
      BY <1>1, <1>5, <1>6, Counting
    <2> QED BY <1>1, <2>1 DEF T
  <1>8. ASSUME NEW a, NEW b, Precedes(a, b, s), a \notin R, b \notin R
        PROVE  Precedes(a, b, f[n])
    <2>1. PICK i, j \in 1..n : i < j /\ s[i] = a /\ s[j] = b
      BY <1>8 DEF Precedes, n
    <2> QED BY <1>7, <1>8, <2>1
  <1>9. {s[i] : i \in 1..n} = Range(s)
    BY <1>1 DEF Tells, n
  <1> QED BY <1>3, <1>7, <1>8, <1>9

-----------------------------------------------------------------------------
(* What the hub keeps to.                                                  *)

\* Each of s comes after what it needs, but for what is in X.
Ordered(s, X) == \A o \in Range(s) : \A n \in Needs[o] : n \in X \/ Precedes(n, o, s)
Settled == Range(log) \cup lost
Others(d) == HubOps \ Of(d)

PushRecord == [phase : {"idle", "wait", "pass", "failed"}, ops : Seq(HubOps)]
HubTyped ==
  /\ log \in Seq(HubOps) /\ held \in Seq(HubOps) /\ made \in SUBSET HubOps
  /\ box \in [Devices -> Seq(HubOps)] /\ push \in [Devices -> PushRecord]
  /\ drain \in [on : BOOLEAN, rest : Seq(HubOps)]
  /\ screen \in [Devices -> SUBSET HubOps]

\* Nothing is anywhere that was not made, and nothing is anywhere twice.
Real ==
  /\ Settled \subseteq made /\ Range(held) \subseteq made
  /\ \A d \in Devices : /\ Range(box[d]) \cup Range(push[d].ops) \subseteq made \cap Of(d)
                        /\ Once(box[d]) /\ Once(push[d].ops)
  /\ Once(log) /\ Once(held) /\ Once(drain.rest) /\ Range(drain.rest) \subseteq Range(held)

\* Whoever sees a thing sees what has arrived, what the hub holds, or what it once held.
Seen ==
  /\ snap # None => snap \subseteq Range(log)
  /\ \A d \in Devices : screen[d] \subseteq Settled \cup Range(held)
  /\ \A o \in made : Needs[o] \ Of(By[o]) \subseteq Settled \cup Range(held)

\* A device sends what it made in the order it was made.
InOrderAtDevices ==
  \A d \in Devices : /\ Ordered(box[d], Range(log) \cup Others(d))
                     /\ Ordered(push[d].ops, Range(log) \cup Others(d))
                     /\ push[d].phase = "pass" => Ordered(push[d].ops, Settled)

\* What is held, and what the drain has still to send, is in the order of cause.
InOrderAtHub ==
  /\ Ordered(held, Settled) /\ Ordered(drain.rest, Settled)
  /\ Range(held) \ tokens \subseteq lost

HubInv == HubTyped /\ Real /\ Seen /\ InOrderAtDevices /\ InOrderAtHub /\ Custody /\ Ordered(log, lost)

-----------------------------------------------------------------------------
(* The order of cause.                                                     *)

LEMMA OrderedMore == ASSUME NEW s, NEW X, NEW Y, X \subseteq Y, Ordered(s, X) PROVE Ordered(s, Y)
  BY DEF Ordered

LEMMA OrderedNothing == ASSUME NEW X PROVE Ordered(<<>>, X) /\ Once(<<>>)
  BY RangeOfNothing DEF Ordered, Once

LEMMA OrderedWithout ==
  ASSUME NEW S, NEW s \in Seq(S), NEW R, NEW X, Ordered(s, X)
  PROVE  Ordered(Without(s, R), X \cup R)
  <1> SUFFICES ASSUME NEW o \in Range(Without(s, R)), NEW n \in Needs[o], n \notin X \cup R
               PROVE  Precedes(n, o, Without(s, R))
    BY DEF Ordered
  <1>1. o \in Range(s) /\ o \notin R
    BY WithoutIs
  <1>2. Precedes(n, o, s)
    BY <1>1 DEF Ordered
  <1> QED BY <1>1, <1>2, WithoutIs

LEMMA OrderedJoin ==
  ASSUME NEW S, NEW s \in Seq(S), NEW t \in Seq(S), NEW X,
         Ordered(s, X), Ordered(t, X \cup Range(s))
  PROVE  Ordered(s \o t, X)
  <1> SUFFICES ASSUME NEW o \in Range(s \o t), NEW n \in Needs[o], n \notin X
               PROVE  Precedes(n, o, s \o t)
    BY DEF Ordered
  <1>1. o \in Range(s) \/ o \in Range(t)
    BY JoinIs
  <1>2. CASE o \in Range(s)
    <2>1. Precedes(n, o, s)
      BY <1>2 DEF Ordered
    <2> QED BY <2>1, JoinIs
  <1>3. CASE o \in Range(t)
    <2>1. n \in Range(s) \/ Precedes(n, o, t)
      BY <1>3 DEF Ordered
    <2> QED BY <1>3, <2>1, JoinIs
  <1> QED BY <1>1, <1>2, <1>3

LEMMA OrderedCut ==
  ASSUME NEW S, NEW s \in Seq(S), NEW t \in Seq(S), NEW X, Once(s \o t), Ordered(s \o t, X)
  PROVE  Ordered(s, X) /\ Ordered(t, X \cup Range(s))
  <1>1. Range(s \o t) = Range(s) \cup Range(t)
    BY JoinIs
  <1>2. Ordered(s, X)
    BY <1>1, PrecedesInCut DEF Ordered
  <1>3. Ordered(t, X \cup Range(s))
    <2> SUFFICES ASSUME NEW o \in Range(t), NEW n \in Needs[o], n \notin X, n \notin Range(s)
                 PROVE  Precedes(n, o, t)
      BY DEF Ordered
    <2>1. Precedes(n, o, s \o t)
      BY <1>1 DEF Ordered
    <2> QED BY <2>1, PrecedesInCut
  <1> QED BY <1>2, <1>3

\* What the cloud applies in the order of cause it has in the order of cause.
LEMMA AppliedIs ==
  ASSUME NEW ops \in Seq(HubOps), log \in Seq(HubOps), Once(log), Once(ops),
         Ordered(log, lost), Ordered(ops, Settled)
  PROVE  /\ Applied(ops) \in Seq(HubOps) /\ Range(Applied(ops)) = Range(log) \cup Range(ops)
         /\ Once(Applied(ops)) /\ Ordered(Applied(ops), lost)
  <1> DEFINE new == Without(ops, Range(log))
  <1>1. /\ new \in Seq(HubOps) /\ Range(new) = Range(ops) \ Range(log) /\ Once(new)
    BY WithoutIs
  <1>2. Ordered(new, Settled \cup Range(log))
    BY OrderedWithout
  <1> HIDE DEF new
  <1>3. Ordered(new, lost \cup Range(log))
    BY <1>2, OrderedMore DEF Settled
  <1>4. /\ log \o new \in Seq(HubOps) /\ Range(log \o new) = Range(log) \cup Range(new)
        /\ Once(log \o new)
    BY <1>1, JoinIs
  <1>5. Ordered(log \o new, lost)
    BY <1>1, <1>3, OrderedJoin
  <1>6. Applied(ops) = log \o new
    BY DEF Applied, new
  <1> QED BY <1>1, <1>4, <1>5, <1>6

\* What a device made comes after what it was made on seeing, or that has arrived, is held,
\* or was once.
LEMMA SeenFirst ==
  ASSUME HubInv, NEW d \in Devices, NEW s, Range(s) \subseteq made \cap Of(d),
         Ordered(s, Range(log) \cup Others(d))
  PROVE  Ordered(s, Settled \cup Range(held))
  <1> SUFFICES ASSUME NEW o \in Range(s), NEW n \in Needs[o], ~Precedes(n, o, s)
               PROVE  n \in Settled \cup Range(held)
    BY DEF Ordered
  <1>1. n \in Range(log) \/ n \in Others(d)
    BY DEF Ordered
  <1>2. o \in made /\ By[o] = d
    BY DEF Of
  <1>3. n \in Others(d) => n \in Needs[o] \ Of(By[o])
    BY <1>2 DEF Others
  <1> QED BY <1>1, <1>2, <1>3 DEF HubInv, Seen, Settled

\* A copy that is added to stays in the order of cause.
LEMMA HeldWithIs ==
  ASSUME HubAssumption, HubInv, NEW d \in Devices
  PROVE  /\ HeldWith(d) \in Seq(HubOps) /\ Once(HeldWith(d))
         /\ Range(held) \subseteq Range(HeldWith(d))
         /\ Range(HeldWith(d)) \subseteq Range(held) \cup Range(push[d].ops)
         /\ Ordered(HeldWith(d), Settled)
  <1> DEFINE ops == push[d].ops  new == Without(ops, Range(held))
  <1>1. /\ ops \in Seq(HubOps) /\ held \in Seq(HubOps) /\ Once(ops) /\ Once(held)
        /\ Ordered(held, Settled) /\ Ordered(ops, Range(log) \cup Others(d))
        /\ Range(ops) \subseteq made \cap Of(d)
    BY DEF HubInv, HubTyped, Real, InOrderAtDevices, InOrderAtHub, PushRecord
  <1> HIDE DEF ops
  <1>2. Ordered(ops, Settled \cup Range(held))
    BY <1>1, SeenFirst
  <1>3. /\ new \in Seq(HubOps) /\ Range(new) = Range(ops) \ Range(held) /\ Once(new)
    BY <1>1, WithoutIs
  <1>4. Ordered(new, (Settled \cup Range(held)) \cup Range(held))
    BY <1>1, <1>2, OrderedWithout
  <1> HIDE DEF new
  <1>5. Ordered(new, Settled \cup Range(held))
    BY <1>4, OrderedMore
  <1>6. /\ held \o new \in Seq(HubOps) /\ Range(held \o new) = Range(held) \cup Range(new)
        /\ Once(held \o new)
    BY <1>1, <1>3, JoinIs
  <1>7. Ordered(held \o new, Settled)
    BY <1>1, <1>3, <1>5, OrderedJoin
  <1>8. HeldWith(d) = IF d \in allowed THEN held \o new ELSE held
    BY DEF HeldWith, new, ops
  <1> QED BY <1>1, <1>3, <1>6, <1>7, <1>8 DEF ops

\* What the drain sends next, and what it leaves for later.
LEMMA RunIs ==
  ASSUME HubAssumption, NEW s \in Seq(HubOps), s # <<>>, Head(s) \in tokens
  PROVE  Run(s) \in Seq(HubOps) /\ After(s) \in Seq(HubOps) /\ s = Run(s) \o After(s)
  <1> DEFINE Stops(n) == \/ n \in {RunCap, Len(s)} \/ By[s[n + 1]] # By[s[1]]
                         \/ s[n + 1] \notin tokens
             T == {n \in 1..Len(s) : Stops(n)}
  <1>1. Len(s) \in Nat /\ Len(s) >= 1 /\ s[1] \in tokens /\ RunCap \in Nat /\ RunCap >= 1
    <2>1. Len(s) \in Nat \ {0}
      BY EmptySeq
    <2>2. Head(s) = s[1]
      OBVIOUS
    <2> QED BY <2>1, <2>2 DEF HubAssumption
  <1>2. PICK n \in T : \A k \in T : n <= k
    <2>1. T \in SUBSET Nat /\ Len(s) \in T
      BY <1>1
    <2> HIDE DEF T
    <2> QED BY <2>1, Least
  <1>3. n \in 1..Len(s) /\ Stops(n) /\ \A k \in 1..Len(s) : Stops(k) => n <= k
    BY <1>2
  <1>4. n <= RunCap
    <2>1. CASE RunCap \in 1..Len(s)
      BY <1>3, <2>1
    <2>2. CASE ~(RunCap \in 1..Len(s))
      BY <1>1, <1>3, <2>2
    <2> QED BY <2>1, <2>2
  <1>5. ASSUME NEW i \in 1..n PROVE By[s[i]] = By[s[1]] /\ s[i] \in tokens
    <2>1. CASE i = 1
      BY <1>1, <2>1
    <2>2. CASE i # 1
      <3>1. i - 1 \in 1..Len(s) /\ ~(n <= i - 1) /\ (i - 1) + 1 = i
        BY <1>1, <1>3, <2>2
      <3>2. ~Stops(i - 1)
        BY <1>3, <3>1
      <3> QED BY <3>1, <3>2
    <2> QED BY <2>1, <2>2
  <1>6. RunLength(s) \in 1..Len(s)
    BY <1>3, <1>4, <1>5 DEF RunLength
  <1>7. PICK m : m = RunLength(s)
    OBVIOUS
  <1>8. m \in 0..Len(s) /\ Run(s) = SubSeq(s, 1, m) /\ After(s) = SubSeq(s, m + 1, Len(s))
    BY <1>1, <1>6, <1>7 DEF Run, After
  <1> HIDE DEF Stops, T
  <1>a. PICK a : a = SubSeq(s, 1, m)
    OBVIOUS
  <1>b. PICK b : b = SubSeq(s, m + 1, Len(s))
    OBVIOUS
  <1>9. /\ m \in 0..Len(s) /\ \A i \in 1..Len(s) : s[i] \in HubOps
        /\ 1 \in 1..(Len(s) + 1) /\ m \in (1 - 1)..Len(s) /\ Len(s) \in m..Len(s)
    BY <1>1, <1>8, ElementOfSeq
  <1>10. a \in Seq(HubOps) /\ b \in Seq(HubOps)
    BY <1>1, <1>9, <1>a, <1>b, SubSeqProperties
  <1>11. SubSeq(s, 1, m) \o SubSeq(s, m + 1, Len(s)) = SubSeq(s, 1, Len(s))
    BY <1>9, ConcatAdjacentSubSeq
  <1>12. s = a \o b
    BY <1>11, <1>a, <1>b, SubSeqFull
  <1> QED BY <1>8, <1>10, <1>12, <1>a, <1>b

-----------------------------------------------------------------------------
(* The steps.                                                              *)

LEMMA HubInitInv == HubInit => HubInv
  <1> SUFFICES ASSUME HubInit PROVE HubInv
    OBVIOUS
  <1>1. \A X : Ordered(<<>>, X) /\ Once(<<>>)
    BY OrderedNothing
  <1>2. Range(<<>>) = {} /\ NoPush \in PushRecord
    BY RangeOfNothing DEF NoPush, PushRecord
  <1>3. HubTyped
    BY <1>2 DEF HubInit, HubTyped, NoDrain
  <1>4. Real
    BY <1>1, <1>2 DEF HubInit, Real, Settled, NoPush, NoDrain
  <1>5. Seen
    BY <1>2 DEF HubInit, Seen
  <1>6. InOrderAtDevices
    BY <1>1 DEF HubInit, InOrderAtDevices, NoPush
  <1>7. InOrderAtHub /\ Custody /\ Ordered(log, lost)
    BY <1>1, <1>2 DEF HubInit, InOrderAtHub, Custody, NoDrain
  <1> QED BY <1>3, <1>4, <1>5, <1>6, <1>7 DEF HubInv

LEMMA AppendIs ==
  ASSUME NEW S, NEW s \in Seq(S), NEW e \in S
  PROVE  /\ Append(s, e) \in Seq(S) /\ Range(Append(s, e)) = Range(s) \cup {e}
         /\ Once(s) /\ e \notin Range(s) => Once(Append(s, e))
         /\ \A X : Ordered(s, X) /\ Needs[e] \subseteq X \cup Range(s) => Ordered(Append(s, e), X)
  <1>1. <<e>> \in Seq(S) /\ Range(<<e>>) = {e} /\ Once(<<e>>)
    BY OneIs
  <1>2. /\ s \o <<e>> \in Seq(S) /\ Range(s \o <<e>>) = Range(s) \cup {e}
        /\ Once(s) /\ e \notin Range(s) => Once(s \o <<e>>)
    <2>1. PICK t : t = <<e>>
      OBVIOUS
    <2>2. Range(s) \cap {e} = {} <=> e \notin Range(s)
      OBVIOUS
    <2>3. /\ s \o t \in Seq(S) /\ Range(s \o t) = Range(s) \cup Range(t)
          /\ Once(s) /\ Once(t) /\ Range(s) \cap Range(t) = {} => Once(s \o t)
      BY <1>1, <2>1, JoinIs
    <2> QED BY <1>1, <2>1, <2>2, <2>3
  <1>3. ASSUME NEW X, Ordered(s, X), Needs[e] \subseteq X \cup Range(s)
        PROVE  Ordered(s \o <<e>>, X)
    <2>1. Ordered(<<e>>, X \cup Range(s))
      BY <1>1, <1>3 DEF Ordered
    <2> QED BY <1>1, <1>3, <2>1, OrderedJoin
  <1>4. Append(s, e) = s \o <<e>>
    OBVIOUS
  <1> QED BY <1>2, <1>3, <1>4

\* A person acts on what is shown, or on what was done at the device before.
LEMMA MakeInv ==
  ASSUME HubAssumption, HubInv, NEW d \in Devices, Make(d)
  PROVE  HubInv'
  <1>1. PICK o \in Of(d) \ made :
          /\ Needs[o] \subseteq screen[d] \cup (made \cap Of(d)) /\ made' = made \cup {o}
          /\ box' = [box EXCEPT ![d] = Append(@, o)]
          /\ UNCHANGED <<link, log, held, tokens, allowed, snap, screen, push, drain, lost, spent>>
    BY DEF Make
  <1>2. o \in HubOps /\ By[o] = d /\ box[d] \in Seq(HubOps) /\ made \subseteq HubOps
    BY DEF Of, HubInv, HubTyped
  <1>3. /\ box'[d] = Append(box[d], o) /\ \A e \in Devices \ {d} : box'[e] = box[e]
        /\ box' = [e \in Devices |-> box'[e]]
    BY <1>1 DEF HubInv, HubTyped
  <1>4. Needs[o] \subseteq made /\ \A n \in Needs[o] : n \notin Of(d) => n \in Settled \cup Range(held)
    BY <1>1 DEF HubInv, Seen, Real
  <1>5. Needs[o] \subseteq (Range(log) \cup Others(d)) \cup Range(box[d])
    <2> SUFFICES ASSUME NEW n \in Needs[o], n \in Of(d) PROVE n \in Range(log) \cup Range(box[d])
      BY <1>2 DEF HubAssumption, Others
    <2>1. n \in made /\ By[n] = d
      BY <1>4 DEF Of
    <2> QED BY <2>1 DEF HubInv, Custody
  <1>6. /\ box'[d] \in Seq(HubOps) /\ Range(box'[d]) = Range(box[d]) \cup {o} /\ Once(box'[d])
        /\ Ordered(box'[d], Range(log) \cup Others(d))
    <2>1. o \notin Range(box[d]) /\ Once(box[d]) /\ Ordered(box[d], Range(log) \cup Others(d))
      BY DEF HubInv, Real, InOrderAtDevices
    <2> QED BY <1>2, <1>3, <1>5, <2>1, AppendIs
  <1>7. HubTyped'
    BY <1>1, <1>2, <1>3, <1>6 DEF HubInv, HubTyped
  <1>8. Real'
    BY <1>1, <1>2, <1>3, <1>6 DEF HubInv, Real, Settled
  <1>9. Seen'
    BY <1>1, <1>2, <1>4 DEF HubInv, Seen, Settled
  <1>10. InOrderAtDevices'
    BY <1>1, <1>3, <1>6 DEF HubInv, InOrderAtDevices, Settled
  <1>11. InOrderAtHub' /\ Ordered(log, lost)'
    BY <1>1 DEF HubInv, InOrderAtHub, Settled
  <1>12. Custody'
    BY <1>1, <1>2, <1>3, <1>6 DEF HubInv, Custody
  <1> QED BY <1>7, <1>8, <1>9, <1>10, <1>11, <1>12 DEF HubInv

LEMMA PushInv ==
  ASSUME HubAssumption, HubInv, NEW d \in Devices, Push(d)
  PROVE  HubInv'
  <1>1. /\ box[d] # <<>>
        /\ push' = [push EXCEPT ![d] = [phase |-> IF Waits THEN "wait" ELSE "pass", ops |-> box[d]]]
        /\ drain' = IF Waits /\ ~drain.on THEN [on |-> TRUE, rest |-> held] ELSE drain
        /\ UNCHANGED <<box, made, link, log, held, tokens, allowed, snap, screen, lost, spent>>
    BY DEF Push
  <1> DEFINE w == [phase |-> IF Waits THEN "wait" ELSE "pass", ops |-> box[d]]
  <1>2. w \in PushRecord /\ w.ops = box[d] /\ (w.phase = "pass" => held = <<>>)
    BY DEF HubInv, HubTyped, PushRecord, Waits
  <1>3. /\ push'[d] = w /\ \A e \in Devices \ {d} : push'[e] = push[e]
        /\ push' \in [Devices -> PushRecord]
    BY <1>1, <1>2 DEF HubInv, HubTyped
  <1> HIDE DEF w
  <1>4. drain' = drain \/ (drain'.rest = held /\ drain' \in [on : BOOLEAN, rest : Seq(HubOps)])
    BY <1>1 DEF HubInv, HubTyped
  <1>5. HubTyped'
    BY <1>1, <1>3, <1>4 DEF HubInv, HubTyped
  <1>6. Real'
    BY <1>1, <1>2, <1>3, <1>4 DEF HubInv, Real, Settled
  <1>7. Seen'
    BY <1>1 DEF HubInv, Seen, Settled
  <1>8. w.phase = "pass" => Ordered(box[d], Settled)
    <2>1. Ordered(box[d], Settled \cup Range(held))
      <3>1. Range(box[d]) \subseteq made \cap Of(d) /\ Ordered(box[d], Range(log) \cup Others(d))
        BY DEF HubInv, Real, InOrderAtDevices
      <3> QED BY <3>1, SeenFirst
    <2>2. held = <<>> => Settled \cup Range(held) \subseteq Settled
      BY RangeOfNothing
    <2> QED BY <1>2, <2>1, <2>2, OrderedMore
  <1>9. InOrderAtDevices'
    BY <1>1, <1>2, <1>3, <1>8 DEF HubInv, InOrderAtDevices, Settled
  <1>10. InOrderAtHub' /\ Ordered(log, lost)' /\ Custody'
    BY <1>1, <1>4 DEF HubInv, InOrderAtHub, Settled, Custody
  <1> QED BY <1>5, <1>6, <1>7, <1>9, <1>10 DEF HubInv

\* The cloud's record after a step that sent it ops, or none.
LEMMA Grown ==
  ASSUME HubInv, NEW ops \in Seq(HubOps), Once(ops), Range(ops) \subseteq made,
         Ordered(ops, Settled), log' \in {log, Applied(ops)}, made' = made
  PROVE  /\ log' \in Seq(HubOps) /\ Once(log') /\ Ordered(log', lost)
         /\ Range(log) \subseteq Range(log') /\ Range(log') \subseteq made
         /\ log' = Applied(ops) => Range(log') = Range(log) \cup Range(ops)
  <1>1. /\ log \in Seq(HubOps) /\ Once(log) /\ Ordered(log, lost) /\ Range(log) \subseteq made
    BY DEF HubInv, HubTyped, Real, Settled
  <1>2. /\ Applied(ops) \in Seq(HubOps) /\ Range(Applied(ops)) = Range(log) \cup Range(ops)
        /\ Once(Applied(ops)) /\ Ordered(Applied(ops), lost)
    BY <1>1, AppliedIs
  <1>3. CASE log' = log
    BY <1>1, <1>2, <1>3
  <1>4. CASE log' = Applied(ops)
    BY <1>1, <1>2, <1>4
  <1> QED BY <1>3, <1>4

\* A sequence that does not change stays in order as more arrives.
LEMMA StaysOrdered ==
  ASSUME HubInv, Range(log) \subseteq Range(log)', lost \subseteq lost'
  PROVE  /\ Settled \subseteq Settled'
         /\ \A s, X : Ordered(s, Settled) => Ordered(s, Settled')
         /\ \A s, d : Ordered(s, Range(log) \cup Others(d)) => Ordered(s, Range(log)' \cup Others(d))
  BY DEF Ordered, Settled

LEMMA NoPushIs ==
  /\ NoPush \in PushRecord /\ NoPush.phase = "idle"
  /\ Range(NoPush.ops) = {} /\ Once(NoPush.ops) /\ \A X : Ordered(NoPush.ops, X)
  <1>1. NoPush.ops = <<>> /\ NoPush.phase = "idle" /\ NoPush \in PushRecord
    BY DEF NoPush, PushRecord
  <1> QED BY <1>1, RangeOfNothing, OrderedNothing

LEMMA HoldInv ==
  ASSUME HubAssumption, HubInv, NEW d \in Devices, Hold(d),
         log' \in {log, Applied(push[d].ops)}, log' # log => push[d].phase = "pass",
         UNCHANGED <<made, snap, screen, drain, lost>>
  PROVE  HubInv'
  <1>1. /\ held' = HeldWith(d) /\ tokens' = tokens \cup (Range(held') \ Range(held))
        /\ box' = box /\ push' = [push EXCEPT ![d] = NoPush]
    BY DEF Hold, Kept, Answered
  <1>2. /\ held' \in Seq(HubOps) /\ Once(held') /\ Range(held) \subseteq Range(held')
        /\ Range(held') \subseteq Range(held) \cup Range(push[d].ops)
        /\ Ordered(held', Settled)
    BY <1>1, HeldWithIs
  <1>3. /\ push'[d] = NoPush /\ \A e \in Devices \ {d} : push'[e] = push[e]
        /\ push' = [e \in Devices |-> push'[e]] /\ NoPush \in PushRecord
        /\ Range(NoPush.ops) = {} /\ Once(NoPush.ops) /\ \A X : Ordered(NoPush.ops, X)
        /\ NoPush.phase # "pass"
    <2>1. push' = [push EXCEPT ![d] = NoPush] /\ push \in [Devices -> PushRecord]
      BY <1>1 DEF HubInv, HubTyped
    <2> QED BY <2>1, NoPushIs
  <1>4. /\ log' \in Seq(HubOps) /\ Once(log') /\ Ordered(log', lost)
        /\ Range(log) \subseteq Range(log') /\ Range(log') \subseteq made
    <2>1. /\ push[d].ops \in Seq(HubOps) /\ Once(push[d].ops) /\ Range(push[d].ops) \subseteq made
          /\ push[d].phase = "pass" => Ordered(push[d].ops, Settled)
      BY DEF HubInv, HubTyped, Real, InOrderAtDevices, PushRecord
    <2>2. CASE log' = log
      BY <2>2 DEF HubInv, HubTyped, Real, Settled
    <2>3. CASE log' # log
      BY <2>1, <2>3, Grown
    <2> QED BY <2>2, <2>3
  <1>5. /\ Settled \subseteq Settled' /\ \A s : Ordered(s, Settled) => Ordered(s, Settled')
        /\ \A s, e : Ordered(s, Range(log) \cup Others(e)) => Ordered(s, Range(log') \cup Others(e))
    BY <1>4, StaysOrdered
  <1>6. HubTyped'
    BY <1>1, <1>2, <1>3, <1>4 DEF HubInv, HubTyped
  <1>7. Real'
    BY <1>1, <1>2, <1>3, <1>4 DEF HubInv, Real, Settled
  <1>8. Seen'
    BY <1>2, <1>4, <1>5 DEF HubInv, Seen
  <1>9. InOrderAtDevices'
    BY <1>1, <1>3, <1>5 DEF HubInv, InOrderAtDevices
  <1>10. InOrderAtHub'
    BY <1>1, <1>2, <1>5 DEF HubInv, InOrderAtHub
  <1>11. Custody' /\ Ordered(log, lost)'
    BY <1>1, <1>4 DEF HubInv, Custody
  <1> QED BY <1>6, <1>7, <1>8, <1>9, <1>10, <1>11 DEF HubInv

LEMMA PassOkInv ==
  ASSUME HubAssumption, HubInv, NEW d \in Devices, PassOk(d)
  PROVE  HubInv'
  <1> DEFINE ops == push[d].ops
  <1>1. /\ push[d].phase = "pass" /\ log' = Applied(ops)
        /\ box' = [box EXCEPT ![d] = Without(@, Range(ops))]
        /\ push' = [push EXCEPT ![d] = NoPush]
        /\ UNCHANGED <<made, link, held, tokens, snap, screen, drain, lost, spent>>
    BY DEF PassOk
  <1>2. /\ ops \in Seq(HubOps) /\ Once(ops) /\ Range(ops) \subseteq made /\ Ordered(ops, Settled)
        /\ Range(ops) \subseteq Of(d)
        /\ box[d] \in Seq(HubOps) /\ Once(box[d]) /\ Ordered(box[d], Range(log) \cup Others(d))
        /\ Range(box[d]) \subseteq made \cap Of(d)
    BY <1>1 DEF HubInv, HubTyped, Real, InOrderAtDevices, PushRecord
  <1> HIDE DEF ops
  <1>3. /\ push'[d] = NoPush /\ \A e \in Devices \ {d} : push'[e] = push[e]
        /\ push' = [e \in Devices |-> push'[e]]
        /\ box'[d] = Without(box[d], Range(ops)) /\ \A e \in Devices \ {d} : box'[e] = box[e]
        /\ box' = [e \in Devices |-> box'[e]]
    BY <1>1 DEF HubInv, HubTyped
  <1>4. /\ log' \in Seq(HubOps) /\ Once(log') /\ Ordered(log', lost)
        /\ Range(log') = Range(log) \cup Range(ops) /\ Range(log') \subseteq made
    BY <1>1, <1>2, Grown
  <1>5. /\ Settled \subseteq Settled' /\ \A s : Ordered(s, Settled) => Ordered(s, Settled')
        /\ \A s, e : Ordered(s, Range(log) \cup Others(e)) => Ordered(s, Range(log') \cup Others(e))
    BY <1>1, <1>4, StaysOrdered
  <1>6. /\ box'[d] \in Seq(HubOps) /\ Once(box'[d]) /\ Range(box'[d]) = Range(box[d]) \ Range(ops)
        /\ Ordered(box'[d], Range(log') \cup Others(d))
    <2>1. Ordered(box'[d], (Range(log) \cup Others(d)) \cup Range(ops))
      BY <1>2, <1>3, OrderedWithout
    <2>2. (Range(log) \cup Others(d)) \cup Range(ops) \subseteq Range(log') \cup Others(d)
      BY <1>4
    <2>3. Ordered(box'[d], Range(log') \cup Others(d))
      BY <2>1, <2>2, OrderedMore
    <2> QED BY <1>2, <1>3, <2>3, WithoutIs
  <1>7. HubTyped'
    BY <1>1, <1>3, <1>4, <1>6, NoPushIs DEF HubInv, HubTyped
  <1>8. Real'
    BY <1>1, <1>2, <1>3, <1>4, <1>6, NoPushIs DEF HubInv, Real, Settled
  <1>9. Seen'
    BY <1>1, <1>4, <1>5 DEF HubInv, Seen
  <1>10. InOrderAtDevices'
    BY <1>1, <1>3, <1>5, <1>6, NoPushIs DEF HubInv, InOrderAtDevices
  <1>11. InOrderAtHub'
    BY <1>1, <1>5 DEF HubInv, InOrderAtHub
  <1>12. Custody'
    <2> SUFFICES ASSUME NEW o \in made, o \notin Range(log'), o \in Range(box[By[o]])
                 PROVE  o \in Range(box'[By[o]])
      BY <1>1, <1>4 DEF HubInv, Custody
    <2>1. By[o] \in Devices
      BY DEF HubAssumption, HubInv, HubTyped
    <2> QED BY <1>3, <1>4, <1>6, <2>1
  <1> QED BY <1>1, <1>4, <1>7, <1>8, <1>9, <1>10, <1>11, <1>12 DEF HubInv

LEMMA PassRefusedInv ==
  ASSUME HubAssumption, HubInv, NEW d \in Devices, PassRefused(d)
  PROVE  HubInv'
  <1>1. /\ push' = [push EXCEPT ![d] = NoPush]
        /\ UNCHANGED <<box, made, link, log, held, tokens, allowed, snap, screen, drain, lost>>
    BY DEF PassRefused
  <1>2. /\ push'[d] = NoPush /\ \A e \in Devices \ {d} : push'[e] = push[e]
        /\ push' \in [Devices -> PushRecord]
    BY <1>1, NoPushIs DEF HubInv, HubTyped
  <1>3. HubTyped' /\ Real' /\ InOrderAtDevices'
    BY <1>1, <1>2, NoPushIs DEF HubInv, HubTyped, Real, InOrderAtDevices, Settled
  <1>4. Seen' /\ InOrderAtHub' /\ Custody' /\ Ordered(log, lost)'
    BY <1>1 DEF HubInv, Seen, InOrderAtHub, Custody, Settled
  <1> QED BY <1>3, <1>4 DEF HubInv

\* What the drain is about to send.
LEMMA RestIs ==
  ASSUME HubAssumption, HubInv, Sending
  PROVE  /\ Run(drain.rest) \in Seq(HubOps) /\ After(drain.rest) \in Seq(HubOps)
         /\ Once(Run(drain.rest)) /\ Once(After(drain.rest))
         /\ Range(Run(drain.rest)) \subseteq Range(held) /\ Range(After(drain.rest)) \subseteq Range(held)
         /\ Ordered(Run(drain.rest), Settled)
         /\ Ordered(After(drain.rest), Settled \cup Range(Run(drain.rest)))
  <1>1. PICK s : s = drain.rest
    OBVIOUS
  <1>2. /\ s \in Seq(HubOps) /\ s # <<>> /\ Head(s) \in tokens /\ Once(s) /\ Ordered(s, Settled)
        /\ Range(s) \subseteq Range(held)
    BY <1>1 DEF Sending, HubInv, HubTyped, Real, InOrderAtHub
  <1>3. Run(s) \in Seq(HubOps) /\ After(s) \in Seq(HubOps) /\ s = Run(s) \o After(s)
    BY <1>2, RunIs
  <1>4. PICK a, b : a = Run(s) /\ b = After(s)
    OBVIOUS
  <1>5. Once(a) /\ Once(b) /\ Range(s) = Range(a) \cup Range(b)
    <2>1. a \in Seq(HubOps) /\ b \in Seq(HubOps) /\ s = a \o b
      BY <1>3, <1>4
    <2> QED BY <1>2, <2>1, OnceCut, JoinIs
  <1>6. Ordered(a, Settled) /\ Ordered(b, Settled \cup Range(a))
    <2>1. a \in Seq(HubOps) /\ b \in Seq(HubOps) /\ Once(a \o b) /\ Ordered(a \o b, Settled)
      BY <1>2, <1>3, <1>4
    <2> QED BY <2>1, OrderedCut
  <1> QED BY <1>1, <1>2, <1>3, <1>4, <1>5, <1>6

\* An op the hub can no longer send was lost to it before.
LEMMA DrainSkipInv ==
  ASSUME HubAssumption, HubInv, DrainSkip
  PROVE  HubInv'
  <1>1. PICK s : s = drain.rest
    OBVIOUS
  <1>2. /\ s # <<>> /\ Head(s) \notin tokens /\ s \in Seq(HubOps) /\ Once(s)
        /\ Range(s) \subseteq Range(held) /\ Ordered(s, Settled)
        /\ drain' = [drain EXCEPT !.rest = Tail(s)]
        /\ UNCHANGED <<box, made, link, log, held, tokens, allowed, snap, screen, push, lost, spent>>
    BY <1>1 DEF DrainSkip, HubInv, HubTyped, Real, InOrderAtHub
  <1>3. PICK h, t : h = <<Head(s)>> /\ t = Tail(s)
    OBVIOUS
  <1>4. h \in Seq(HubOps) /\ t \in Seq(HubOps) /\ s = h \o t /\ Range(h) = {Head(s)}
    <2>1. Head(s) \in HubOps /\ t \in Seq(HubOps)
      BY <1>2, <1>3, HeadTailProperties
    <2>2. s = h \o t
      BY <1>2, <1>3
    <2> QED BY <1>3, <2>1, <2>2, OneIs
  <1>5. Once(t) /\ Range(s) = Range(h) \cup Range(t) /\ Ordered(t, Settled \cup Range(h))
    <2>1. Once(h \o t) /\ Ordered(h \o t, Settled)
      BY <1>2, <1>4
    <2> QED BY <1>4, <2>1, OnceCut, JoinIs, OrderedCut
  <1>6. Head(s) \in lost
    BY <1>2, <1>4, <1>5 DEF HubInv, InOrderAtHub
  <1>7. Ordered(t, Settled)
    <2>1. Settled \cup Range(h) \subseteq Settled
      BY <1>4, <1>6 DEF Settled
    <2> QED BY <1>5, <2>1, OrderedMore
  <1>8. drain' \in [on : BOOLEAN, rest : Seq(HubOps)] /\ drain'.rest = t
    BY <1>2, <1>3, <1>4 DEF HubInv, HubTyped
  <1>9. HubTyped' /\ Real'
    BY <1>2, <1>5, <1>8 DEF HubInv, HubTyped, Real, Settled
  <1>10. Seen' /\ InOrderAtDevices'
    BY <1>2 DEF HubInv, Seen, InOrderAtDevices, Settled
  <1>11. InOrderAtHub' /\ Custody' /\ Ordered(log, lost)'
    BY <1>2, <1>7, <1>8 DEF HubInv, InOrderAtHub, Custody, Settled
  <1> QED BY <1>9, <1>10, <1>11 DEF HubInv

\* Pushes that go on are the same pushes.
LEMMA GoIs ==
  ASSUME HubInv, NEW phase \in {"pass", "failed"}
  PROVE  /\ Go(phase) \in [Devices -> PushRecord]
         /\ \A d \in Devices : /\ Go(phase)[d].ops = push[d].ops
                               /\ Go(phase)[d].phase = "pass" => push[d].phase = "pass" \/ phase = "pass"
  <1> SUFFICES ASSUME NEW d \in Devices
               PROVE  /\ Go(phase)[d] \in PushRecord /\ Go(phase)[d].ops = push[d].ops
                      /\ Go(phase)[d].phase = "pass" => push[d].phase = "pass" \/ phase = "pass"
    BY DEF Go
  <1>1. push[d] \in PushRecord
    BY DEF HubInv, HubTyped
  <1>2. Go(phase)[d] = IF d \in Waiting THEN [push[d] EXCEPT !.phase = phase] ELSE push[d]
    BY DEF Go
  <1>3. PICK r : r = push[d]
    OBVIOUS
  <1>4. /\ [r EXCEPT !.phase = phase] \in PushRecord /\ [r EXCEPT !.phase = phase].ops = r.ops
        /\ [r EXCEPT !.phase = phase].phase = phase
    BY <1>1, <1>3 DEF PushRecord
  <1> QED BY <1>1, <1>2, <1>3, <1>4

LEMMA DrainRunInv ==
  ASSUME HubAssumption, HubInv, DrainRun
  PROVE  HubInv'
  <1>1. PICK r, t : r = Run(drain.rest) /\ t = After(drain.rest)
    OBVIOUS
  <1>2. /\ r \in Seq(HubOps) /\ t \in Seq(HubOps) /\ Once(r) /\ Once(t)
        /\ Range(r) \subseteq Range(held) /\ Range(t) \subseteq Range(held)
        /\ Ordered(r, Settled) /\ Ordered(t, Settled \cup Range(r)) /\ Range(r) \subseteq made
    BY <1>1, RestIs DEF DrainRun, HubInv, Real
  <1>3. /\ drain' = [drain EXCEPT !.rest = t]
        /\ \/ log' = Applied(r) /\ lost' = lost
           \/ log' = log /\ lost' = lost \cup Range(r)
        /\ UNCHANGED <<box, made, link, held, tokens, allowed, snap, screen, push>>
    BY <1>1 DEF DrainRun
  <1>4. drain' \in [on : BOOLEAN, rest : Seq(HubOps)] /\ drain'.rest = t
    BY <1>2, <1>3 DEF HubInv, HubTyped
  <1>5. /\ log' \in Seq(HubOps) /\ Once(log') /\ Ordered(log', lost)
        /\ Range(log) \subseteq Range(log') /\ Range(log') \subseteq made
        /\ log' = Applied(r) => Range(log') = Range(log) \cup Range(r)
    BY <1>2, <1>3, Grown
  <1>6. /\ Settled \subseteq Settled' /\ \A s : Ordered(s, Settled) => Ordered(s, Settled')
        /\ \A s, e : Ordered(s, Range(log) \cup Others(e)) => Ordered(s, Range(log') \cup Others(e))
    BY <1>3, <1>5, StaysOrdered
  <1>7. Range(r) \subseteq Settled' /\ Settled' \subseteq made
    BY <1>2, <1>3, <1>5 DEF HubInv, Real, Settled
  <1>8. Ordered(t, Settled') /\ Ordered(log', lost')
    <2>1. Settled \cup Range(r) \subseteq Settled' /\ lost \subseteq lost'
      BY <1>3, <1>6, <1>7
    <2> QED BY <1>2, <1>5, <2>1, OrderedMore
  <1>9. HubTyped'
    BY <1>3, <1>4, <1>5 DEF HubInv, HubTyped
  <1>10. Real'
    BY <1>2, <1>3, <1>4, <1>5, <1>7 DEF HubInv, Real
  <1>11. Seen'
    BY <1>3, <1>5, <1>6 DEF HubInv, Seen
  <1>12. InOrderAtDevices'
    BY <1>3, <1>6 DEF HubInv, InOrderAtDevices
  <1>13. InOrderAtHub'
    BY <1>3, <1>4, <1>6, <1>8 DEF HubInv, InOrderAtHub
  <1>14. Custody' /\ Ordered(log, lost)'
    BY <1>3, <1>5, <1>8 DEF HubInv, Custody
  <1> QED BY <1>9, <1>10, <1>11, <1>12, <1>13, <1>14 DEF HubInv

LEMMA NoDrainIs == /\ NoDrain \in [on : BOOLEAN, rest : Seq(HubOps)] /\ Range(NoDrain.rest) = {}
                   /\ Once(NoDrain.rest) /\ \A X : Ordered(NoDrain.rest, X)
  <1>1. NoDrain.rest = <<>> /\ NoDrain \in [on : BOOLEAN, rest : Seq(HubOps)]
    BY DEF NoDrain
  <1> QED BY <1>1, RangeOfNothing, OrderedNothing

LEMMA DrainFailsInv ==
  ASSUME HubAssumption, HubInv, DrainFails
  PROVE  HubInv'
  <1>1. PICK r : r = Run(drain.rest)
    OBVIOUS
  <1>2. /\ r \in Seq(HubOps) /\ Once(r) /\ Ordered(r, Settled) /\ Range(r) \subseteq made
    BY <1>1, RestIs DEF DrainFails, HubInv, Real
  <1>3. /\ log' \in {log, Applied(r)} /\ drain' = NoDrain /\ push' = Go("failed")
        /\ UNCHANGED <<box, made, link, held, tokens, allowed, snap, screen, lost>>
    BY <1>1 DEF DrainFails
  <1>4. /\ log' \in Seq(HubOps) /\ Once(log') /\ Ordered(log', lost)
        /\ Range(log) \subseteq Range(log') /\ Range(log') \subseteq made
    BY <1>2, <1>3, Grown
  <1>5. /\ Settled \subseteq Settled' /\ \A s : Ordered(s, Settled) => Ordered(s, Settled')
        /\ \A s, e : Ordered(s, Range(log) \cup Others(e)) => Ordered(s, Range(log') \cup Others(e))
    BY <1>3, <1>4, StaysOrdered
  <1>6. /\ push' \in [Devices -> PushRecord]
        /\ \A d \in Devices : /\ push'[d].ops = push[d].ops
                              /\ push'[d].phase = "pass" => push[d].phase = "pass"
    BY <1>3, GoIs
  <1>7. HubTyped'
    BY <1>3, <1>4, <1>6, NoDrainIs DEF HubInv, HubTyped
  <1>8. Real'
    BY <1>3, <1>4, <1>6, NoDrainIs DEF HubInv, Real, Settled
  <1>9. Seen'
    BY <1>3, <1>4, <1>5 DEF HubInv, Seen
  <1>10. InOrderAtDevices'
    BY <1>3, <1>5, <1>6 DEF HubInv, InOrderAtDevices
  <1>11. InOrderAtHub'
    BY <1>3, <1>5, NoDrainIs DEF HubInv, InOrderAtHub
  <1>12. Custody' /\ Ordered(log, lost)'
    BY <1>3, <1>4 DEF HubInv, Custody
  <1> QED BY <1>7, <1>8, <1>9, <1>10, <1>11, <1>12 DEF HubInv

\* When the drain ends, whatever was held has arrived or is lost.
LEMMA DrainEndsInv ==
  ASSUME HubAssumption, HubInv, DrainEnds
  PROVE  HubInv'
  <1>1. /\ held' = <<>> /\ tokens' = {} /\ drain' = NoDrain /\ push' = Go("pass")
        /\ lost' = lost \cup (Range(held) \ Range(log))
        /\ UNCHANGED <<box, made, link, log, allowed, snap, screen, spent>>
    BY DEF DrainEnds
  <1>2. /\ Settled' = Settled \cup Range(held) /\ Range(held') = {} /\ Once(held')
        /\ \A X : Ordered(held', X)
    BY <1>1, RangeOfNothing, OrderedNothing DEF Settled
  <1>3. \A s : Ordered(s, Settled) => Ordered(s, Settled')
    BY <1>1, StaysOrdered
  <1>4. /\ push' \in [Devices -> PushRecord]
        /\ \A d \in Devices : push'[d].ops = push[d].ops
    BY <1>1, GoIs
  <1>5. \A d \in Devices : Ordered(push[d].ops, Settled \cup Range(held))
    BY SeenFirst DEF HubInv, Real, InOrderAtDevices
  <1>6. Ordered(log, lost')
    BY <1>1, OrderedMore DEF HubInv
  <1>7. HubTyped'
    BY <1>1, <1>4, NoDrainIs, EmptySeq DEF HubInv, HubTyped
  <1>8. Real'
    BY <1>1, <1>2, <1>4, NoDrainIs DEF HubInv, Real
  <1>9. Seen'
    BY <1>1, <1>2 DEF HubInv, Seen
  <1>10. InOrderAtDevices'
    BY <1>1, <1>2, <1>4, <1>5 DEF HubInv, InOrderAtDevices
  <1>11. InOrderAtHub'
    BY <1>1, <1>2, NoDrainIs DEF InOrderAtHub
  <1>12. Custody' /\ Ordered(log, lost)'
    BY <1>1, <1>6 DEF HubInv, Custody
  <1> QED BY <1>7, <1>8, <1>9, <1>10, <1>11, <1>12 DEF HubInv

\* A device that pulls sees what has arrived, or that and what is held.
LEMMA PullInv ==
  ASSUME HubAssumption, HubInv, NEW d \in Devices, PullUp(d) \/ PullDown(d)
  PROVE  HubInv'
  <1>1. PICK v \in SUBSET HubOps :
          /\ screen' = [screen EXCEPT ![d] = v] /\ v \subseteq Settled \cup Range(held)
          /\ snap' # None => snap' \subseteq Range(log)
          /\ UNCHANGED <<box, made, link, log, held, tokens, push, drain, lost, spent>>
    <2>1. Range(log) \subseteq HubOps /\ Range(held) \subseteq HubOps
      BY DEF HubInv, HubTyped, Real, Settled
    <2>2. CASE PullUp(d)
      BY <2>1, <2>2 DEF PullUp, Settled
    <2>3. CASE PullDown(d)
      BY <2>1, <2>3 DEF PullDown, Settled, HubInv, Seen
    <2> QED BY <2>2, <2>3
  <1>2. /\ screen'[d] = v /\ \A e \in Devices \ {d} : screen'[e] = screen[e]
        /\ screen' \in [Devices -> SUBSET HubOps]
    BY <1>1 DEF HubInv, HubTyped
  <1>3. HubTyped' /\ Real'
    BY <1>1, <1>2 DEF HubInv, HubTyped, Real, Settled
  <1>4. Seen'
    BY <1>1, <1>2 DEF HubInv, Seen, Settled
  <1>5. InOrderAtDevices' /\ InOrderAtHub' /\ Custody' /\ Ordered(log, lost)'
    BY <1>1 DEF HubInv, InOrderAtDevices, InOrderAtHub, Custody, Settled
  <1> QED BY <1>3, <1>4, <1>5 DEF HubInv

\* After a restart the hub can send nothing of what it holds.
LEMMA RestartInv ==
  ASSUME HubAssumption, HubInv, Restart
  PROVE  HubInv'
  <1>1. /\ tokens' = {} /\ snap' = None /\ drain' = NoDrain
        /\ push' = [e \in Devices |-> NoPush] /\ lost' = lost \cup Range(held)
        /\ UNCHANGED <<box, made, link, log, held, screen>>
    BY DEF Restart
  <1>2. Settled' = Settled \cup Range(held) /\ \A s : Ordered(s, Settled) => Ordered(s, Settled')
    BY <1>1, StaysOrdered DEF Settled
  <1>3. /\ push' \in [Devices -> PushRecord] /\ \A e \in Devices : push'[e] = NoPush
    BY <1>1, NoPushIs
  <1>4. Ordered(log, lost')
    BY <1>1, OrderedMore DEF HubInv
  <1>5. HubTyped' /\ Real'
    BY <1>1, <1>2, <1>3, NoPushIs, NoDrainIs DEF HubInv, HubTyped, Real
  <1>6. Seen'
    BY <1>1, <1>2 DEF HubInv, Seen
  <1>7. InOrderAtDevices'
    BY <1>1, <1>2, <1>3, NoPushIs DEF HubInv, InOrderAtDevices
  <1>8. InOrderAtHub'
    BY <1>1, <1>2, NoDrainIs DEF HubInv, InOrderAtHub
  <1>9. Custody' /\ Ordered(log, lost)'
    BY <1>1, <1>4 DEF HubInv, Custody
  <1> QED BY <1>5, <1>6, <1>7, <1>8, <1>9 DEF HubInv

LEMMA QuietInv ==
  ASSUME HubInv, UNCHANGED <<box, made, log, held, tokens, snap, screen, push, drain, lost>>
  PROVE  HubInv'
  BY DEF HubInv, HubTyped, Real, Seen, InOrderAtDevices, InOrderAtHub, Custody, Settled

THEOREM HubInvariance == ASSUME HubAssumption PROVE HubSpec => []HubInv
  <1>1. ASSUME HubInv, [HubNext]_hubVars PROVE HubInv'
    <2>1. CASE UNCHANGED hubVars
      BY <1>1, <2>1, QuietInv DEF hubVars
    <2>2. ASSUME NEW d \in Devices, PassFails(d) PROVE HubInv'
      <3>1. /\ Hold(d) /\ push[d].phase = "pass" /\ log' \in {log, Applied(push[d].ops)}
            /\ UNCHANGED <<made, snap, screen, drain, lost>>
        BY <2>2 DEF PassFails
      <3> QED BY <1>1, <3>1, HoldInv
    <2>3. ASSUME NEW d \in Devices, WaitFails(d) PROVE HubInv'
      <3>1. Hold(d) /\ log' = log /\ UNCHANGED <<made, snap, screen, drain, lost>>
        BY <2>3 DEF WaitFails
      <3> QED BY <1>1, <3>1, HoldInv
    <2>4. ASSUME NEW d \in Devices, MayPrint(d) \/ Lapse(d) PROVE HubInv'
      BY <1>1, <2>4, QuietInv DEF MayPrint, Lapse
    <2>5. CASE LinkDown \/ LinkUp
      BY <1>1, <2>5, QuietInv DEF LinkDown, LinkUp
    <2>6. ASSUME NEW d \in Devices,
                 \/ Make(d) \/ Push(d) \/ PassOk(d) \/ PassRefused(d) \/ PullUp(d) \/ PullDown(d)
          PROVE  HubInv'
      BY <1>1, <2>6, MakeInv, PushInv, PassOkInv, PassRefusedInv, PullInv
    <2>7. CASE DrainSkip \/ DrainRun \/ DrainFails \/ DrainEnds \/ Restart
      BY <1>1, <2>7, DrainSkipInv, DrainRunInv, DrainFailsInv, DrainEndsInv, RestartInv
    <2> QED BY <1>1, <2>1, <2>2, <2>3, <2>4, <2>5, <2>6, <2>7 DEF HubNext
  <1> QED BY <1>1, HubInitInv, PTL DEF HubSpec

\* What the cloud has not applied is in the outbox of the device that made it, whatever is
\* held, drained, refused or forgotten on the way (Custody; hub.js hold, "custody never
\* moves").
THEOREM CustodyNeverMoves == ASSUME HubAssumption PROVE HubSpec => []Custody
  <1>1. HubInv => Custody
    BY DEF HubInv
  <1> QED BY <1>1, HubInvariance, PTL

\* No effect reaches the cloud before its cause, unless the hub had lost the copy of the
\* cause: for any devices, any ops and any web of what was done on seeing what (CauseFirst;
\* hub.js drain, "the outage ends in the order it happened").
THEOREM CauseAlwaysFirst == ASSUME HubAssumption PROVE HubSpec => []CauseFirst
  <1>1. ASSUME HubInv PROVE CauseFirst
    <2> SUFFICES ASSUME NEW o \in Range(log), NEW n \in Needs[o] \ lost
                 PROVE  n \in Range(log) /\ At(n) < At(o)
      BY DEF CauseFirst
    <2>1. log \in Seq(HubOps) /\ Once(log) /\ Precedes(n, o, log) /\ Range(log) = Tells(log)
      BY <1>1, RangeIs DEF HubInv, HubTyped, Real, Ordered
    <2>2. PICK i, j \in 1..Len(log) : i < j /\ log[i] = n /\ log[j] = o
      BY <2>1 DEF Precedes
    <2>3. ASSUME NEW k \in 1..Len(log), NEW x, log[k] = x PROVE At(x) = k
      BY <2>1, <2>3 DEF At, Once
    <2>4. At(n) = i /\ At(o) = j
      BY <2>2, <2>3
    <2> QED BY <2>1, <2>2, <2>4 DEF Tells
  <1> QED BY <1>1, HubInvariance, PTL
=============================================================================
