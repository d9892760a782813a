---------------------------- MODULE StockProofs ----------------------------
(***************************************************************************)
(* The books' stock: for any ops, any number of transactions over them at  *)
(* once and any order of their statements, the shelf is the sum of its     *)
(* moves, the inventory account the value of those that book, and a lot    *)
(* what it arrived as less what was drawn and not returned.                *)
(***************************************************************************)
EXTENDS BooksProofs

-----------------------------------------------------------------------------
(* Sums of stock moves.                                                    *)

\* The sum over two sets is the sum of the two sums.
LEMMA SumUnion ==
  ASSUME NEW f, NEW S, NEW T, IsFiniteSet(S), IsFiniteSet(T), S \cap T = {},
         \A x \in S \cup T : f[x] \in Int
  PROVE  SumFunctionOnSet(f, S \cup T) = SumFunctionOnSet(f, S) + SumFunctionOnSet(f, T)
  <1> DEFINE Good(r) == SumFunctionOnSet(f, S \cup r) = SumFunctionOnSet(f, S) + SumFunctionOnSet(f, r)
             N == {n \in Nat : \A r \in SUBSET T : Cardinality(r) = n => Good(r)}
  <1>0. IsFiniteSet(T)
    OBVIOUS
  <1>1. \A r \in SUBSET T : /\ IsFiniteSet(r) /\ Cardinality(r) \in Nat /\ IsFiniteSet(S \cup r)
                            /\ SumFunctionOnSet(f, r) \in Int /\ SumFunctionOnSet(f, S \cup r) \in Int
    <2> SUFFICES ASSUME NEW r \in SUBSET T
                 PROVE  /\ IsFiniteSet(r) /\ Cardinality(r) \in Nat /\ IsFiniteSet(S \cup r)
                        /\ SumFunctionOnSet(f, r) \in Int /\ SumFunctionOnSet(f, S \cup r) \in Int
      OBVIOUS
    <2>1. IsFiniteSet(r)
      BY FS_Subset
    <2>2. IsFiniteSet(S \cup r) /\ Cardinality(r) \in Nat
      BY <2>1, FS_Union, FS_CardinalityType
    <2>3. (\A x \in r : f[x] \in Int) /\ \A x \in S \cup r : f[x] \in Int
      OBVIOUS
    <2> QED BY <2>1, <2>2, <2>3, SumType
  <1>2. SumFunctionOnSet(f, S) \in Int
    BY SumType
  <1>3. 0 \in N
    <2>1. \A r \in SUBSET T : Cardinality(r) = 0 => r = {}
      BY <1>0, FS_Subset, FS_EmptySet
    <2>2. S \cup {} = S /\ SumFunctionOnSet(f, {}) = 0
      BY SumNothing
    <2>3. Good({})
      BY <1>2, <2>2
    <2> QED BY <2>1, <2>3
  <1>4. ASSUME NEW n \in Nat, n \in N PROVE n + 1 \in N
    <2> SUFFICES ASSUME NEW r \in SUBSET T, Cardinality(r) = n + 1 PROVE Good(r)
      OBVIOUS
    <2>0. n + 1 # 0 /\ IsFiniteSet(r)
      BY <1>0, FS_Subset
    <2>1. IsFiniteSet(r) /\ r # {}
      BY <2>0, FS_EmptySet
    <2>2. PICK y \in r : TRUE
      BY <2>1
    <2>3. PICK q : q = r \ {y}
      OBVIOUS
    <2>4. q \in SUBSET T /\ Cardinality(q) = n
      <3>1. Cardinality(q) = Cardinality(r) - 1
        BY <2>1, <2>2, <2>3, FS_RemoveElement
      <3> QED BY <2>1, <2>2, <2>3, <3>1
    <2>5. Good(q)
      BY <1>4, <2>4
    <2>6. PICK U : U = S \cup q
      OBVIOUS
    <2>7. /\ IsFiniteSet(U) /\ y \notin U /\ U \cup {y} = S \cup r /\ \A x \in U \cup {y} : f[x] \in Int
          /\ IsFiniteSet(q) /\ y \notin q /\ q \cup {y} = r /\ \A x \in q \cup {y} : f[x] \in Int
      BY <1>1, <2>2, <2>3, <2>4, <2>6
    <2>8. SumFunctionOnSet(f, U \cup {y}) = SumFunctionOnSet(f, U) + f[y]
      BY <2>7, SumMore
    <2>9. SumFunctionOnSet(f, q \cup {y}) = SumFunctionOnSet(f, q) + f[y]
      BY <2>7, SumMore
    <2>10. PICK a, b, c \in Int : a = SumFunctionOnSet(f, S) /\ b = SumFunctionOnSet(f, q) /\ c = f[y]
      BY <1>1, <1>2, <2>4, <2>7
    <2>11. SumFunctionOnSet(f, S \cup r) = (a + b) + c /\ SumFunctionOnSet(f, r) = b + c
      BY <2>5, <2>6, <2>7, <2>8, <2>9, <2>10
    <2> QED BY <2>10, <2>11
  <1>5. \A n \in Nat : n \in N
    <2> HIDE DEF N
    <2> QED BY <1>3, <1>4, Counting
  <1>6. Cardinality(T) \in N
    <2>1. Cardinality(T) \in Nat
      BY <1>1
    <2> QED BY <1>5, <2>1
  <1> QED BY <1>6

\* One value of a sum changes.
LEMMA SumChanges ==
  ASSUME NEW f, NEW g, NEW S, IsFiniteSet(S), NEW x \in S, \A y \in S : f[y] \in Int /\ g[y] \in Int,
         \A y \in S \ {x} : g[y] = f[y]
  PROVE  /\ SumFunctionOnSet(g, S) = SumFunctionOnSet(f, S) + (g[x] - f[x])
         /\ SumFunctionOnSet(f, S) \in Int
  <1> PICK T : T = S \ {x}
    OBVIOUS
  <1>1. IsFiniteSet(T) /\ x \notin T /\ T \cup {x} = S
    BY FS_Subset
  <1>2. SumFunctionOnSet(f, T \cup {x}) = SumFunctionOnSet(f, T) + f[x]
    <2>1. \A y \in T \cup {x} : f[y] \in Int
      BY <1>1
    <2> QED BY <1>1, <2>1, SumMore
  <1>3. SumFunctionOnSet(g, T \cup {x}) = SumFunctionOnSet(g, T) + g[x]
    <2>1. \A y \in T \cup {x} : g[y] \in Int
      BY <1>1
    <2> QED BY <1>1, <2>1, SumMore
  <1>4. SumFunctionOnSet(g, T) = SumFunctionOnSet(f, T)
    BY <1>1, SumSame
  <1>5. SumFunctionOnSet(f, T) \in Int
    BY <1>1, SumType
  <1>6. PICK a, b, c \in Int : a = SumFunctionOnSet(f, T) /\ b = f[x] /\ c = g[x]
    BY <1>5
  <1>7. SumFunctionOnSet(f, S) = a + b /\ SumFunctionOnSet(g, S) = a + c
    BY <1>1, <1>2, <1>3, <1>4, <1>6
  <1>8. a + c = (a + b) + (c - b) /\ a + b \in Int
    BY <1>6
  <1>9. g[x] - f[x] = c - b
    BY <1>6
  <1> QED BY <1>7, <1>8, <1>9

\* What moves come to.
LEMMA MovedOn ==
  ASSUME NEW U, NEW S, IsFiniteSet(U), S \subseteq U
  PROVE  Moved(S) = SumFunctionOnSet([v \in U |-> v.qty], S)
  <1> PICK f, g : f = [v \in S |-> v.qty] /\ g = [v \in U |-> v.qty]
    OBVIOUS
  <1>1. IsFiniteSet(S) /\ DOMAIN f = S /\ \A v \in S : f[v] = g[v]
    BY FS_Subset
  <1>2. SumFunctionOnSet(f, S) = SumFunctionOnSet(g, S)
    BY <1>1, SumSame
  <1>3. Moved(S) = SumFunctionOnSet(f, S)
    BY <1>1 DEF Moved, SumFunction
  <1> QED BY <1>2, <1>3

\* What two sets of moves come to together, and what none, one and one more come to.
LEMMA MovedBoth ==
  ASSUME NEW S, NEW T, IsFiniteSet(S), IsFiniteSet(T), S \cap T = {}, \A v \in S \cup T : v.qty \in Int
  PROVE  Moved(S \cup T) = Moved(S) + Moved(T) /\ Moved(S) \in Int /\ Moved(T) \in Int
  <1> PICK U, f : U = S \cup T /\ f = [v \in U |-> v.qty]
    OBVIOUS
  <1>1. IsFiniteSet(U) /\ \A v \in S \cup T : f[v] \in Int
    BY FS_Union
  <1>2. Moved(S) = SumFunctionOnSet(f, S) /\ Moved(T) = SumFunctionOnSet(f, T)
        /\ Moved(U) = SumFunctionOnSet(f, U)
    BY <1>1, MovedOn
  <1>3. SumFunctionOnSet(f, S \cup T) = SumFunctionOnSet(f, S) + SumFunctionOnSet(f, T)
    BY <1>1, SumUnion
  <1>4. SumFunctionOnSet(f, S) \in Int /\ SumFunctionOnSet(f, T) \in Int
    BY <1>1, SumType
  <1> QED BY <1>2, <1>3, <1>4

LEMMA MovedNothing == Moved({}) = 0
  <1> PICK f : f = [v \in {} |-> v.qty]
    OBVIOUS
  <1>1. DOMAIN f = {} /\ SumFunctionOnSet(f, {}) = 0
    BY SumNothing
  <1> QED BY <1>1 DEF Moved, SumFunction

LEMMA MovedOne == ASSUME NEW v, v.qty \in Int PROVE Moved({v}) = v.qty
  <1> PICK f, S : f = [u \in {v} |-> u.qty] /\ S = {}
    OBVIOUS
  <1>1. IsFiniteSet(S) /\ v \notin S /\ S \cup {v} = {v} /\ DOMAIN f = {v} /\ f[v] = v.qty
    BY FS_EmptySet
  <1>2. SumFunctionOnSet(f, S \cup {v}) = SumFunctionOnSet(f, S) + f[v]
    <2>1. \A x \in S \cup {v} : f[x] \in Int
      BY <1>1
    <2> QED BY <1>1, <2>1, SumMore
  <1>3. SumFunctionOnSet(f, S) = 0
    BY SumNothing
  <1> QED BY <1>1, <1>2, <1>3 DEF Moved, SumFunction

LEMMA MovedMore ==
  ASSUME NEW S, IsFiniteSet(S), NEW v, v \notin S, \A u \in S \cup {v} : u.qty \in Int
  PROVE  Moved(S \cup {v}) = Moved(S) + v.qty /\ Moved(S) \in Int
  <1> PICK T : T = {v}
    OBVIOUS
  <1>1. IsFiniteSet(T) /\ S \cap T = {} /\ \A u \in S \cup T : u.qty \in Int
    BY FS_Singleton
  <1>2. Moved(S \cup T) = Moved(S) + Moved(T) /\ Moved(S) \in Int
    BY <1>1, MovedBoth
  <1> QED BY <1>2, MovedOne

-----------------------------------------------------------------------------
(* What the shelf is, and what its moves are.                              *)

\* What the ops of the stock hold.
LEMMA StockPayload ==
  ASSUME Base, NEW d \in Txs, tx[d].op # None
  PROVE  LET k == Payload(d).kind o == tx[d].op p == Payload(d) IN
         /\ o \in Ops /\ o \notin applied /\ p = P[o] /\ k \in AllKinds
         /\ k \in {"grn", "door"} => /\ o \in Kinds({"grn", "door"}) /\ p.item \in Items /\ p.qty \in Int
                                     /\ p.qty \in Nat /\ p.lot \in Lots
         /\ k = "door" => p.priced \in BOOLEAN
         /\ k = "price" => p.of \in Kinds({"grn"})
         /\ k = "doorprice" => p.of \in Kinds({"door"})
         /\ k \in {"adjust", "count", "prep", "dispatch", "transfer"} => p.item \in Items /\ p.qty \in Int
         /\ k = "produce" => p.from \in Items /\ p.item \in Items /\ p.qty \in Int /\ p.qty \in Nat
         /\ k = "lot" => p.lot \in Lots /\ p.state \in {"used", "wasted"}
  <1> PICK k, o, p : k = Payload(d).kind /\ o = tx[d].op /\ p = Payload(d)
    OBVIOUS
  <1>1. o \in Ops /\ o \notin applied /\ p = P[o] /\ k = P[o].kind /\ k \in AllKinds
    BY DEF Base, InHandOf, Payload
  <1>2. k \in {"grn", "door"} => /\ o \in Kinds({"grn", "door"}) /\ p.item \in Items /\ p.qty \in Nat
                                 /\ p.lot \in Lots
    BY <1>1, StockAssumption DEF Kinds
  <1>3. k = "door" => p.priced \in BOOLEAN
    BY <1>1, StockAssumption DEF Kinds
  <1>4. (k = "price" => p.of \in Kinds({"grn"})) /\ (k = "doorprice" => p.of \in Kinds({"door"}))
    BY <1>1, StockAssumption DEF Kinds
  <1>5. k \in {"adjust", "count", "prep", "dispatch", "transfer"} => p.item \in Items /\ p.qty \in Int
    BY <1>1, StockAssumption DEF Kinds
  <1>6. k = "produce" => p.from \in Items /\ p.item \in Items /\ p.qty \in Nat
    BY <1>1, StockAssumption DEF Kinds
  <1>7. k = "lot" => p.lot \in Lots /\ p.state \in {"used", "wasted"}
    BY <1>1, StockAssumption DEF Kinds
  <1> QED BY <1>1, <1>2, <1>3, <1>4, <1>5, <1>6, <1>7

\* A row that a statement leaves as it was.
SameAt(d, r) ==
  /\ r \in DOMAIN tx'[d].w <=> r \in DOMAIN tx[d].w
  /\ r \in DOMAIN tx[d].w => tx'[d].w[r] = tx[d].w[r]

\* What a statement that moves stock makes of a transaction's rows.
LEMMA CarriesIs ==
  ASSUME NEW d, NEW i, NEW qty, NEW lots, NEW w, Carries(d, i, qty, lots, w)
  PROVE  LET u == tx'[d].w IN
         /\ DOMAIN u = {Item(i)} \cup DOMAIN lots \cup DOMAIN w
         /\ u[Item(i)] = Val(d, Item(i)) + qty
         /\ \A r \in DOMAIN lots : r # Item(i) => u[r] = lots[r]
         /\ \A r \in DOMAIN w : r # Item(i) /\ r \notin DOMAIN lots => u[r] = w[r]
  <1> PICK u, x, n : u = tx'[d].w /\ x = Item(i) /\ n = Val(d, Item(i)) + qty
    OBVIOUS
  <1>1. u = ((x :> n) @@ lots) @@ w
    BY DEF Carries
  <1>2. u = [r \in {x} \cup DOMAIN lots \cup DOMAIN w |->
               IF r = x THEN n ELSE IF r \in DOMAIN lots THEN lots[r] ELSE w[r]]
    BY <1>1 DEF @@, :>
  <1> QED BY <1>2

\* A statement that carries goods of one item changes that item in hand, and no other.
LEMMA CarriesItems ==
  ASSUME NEW d, NEW i, NEW qty, NEW lots, NEW w, Carries(d, i, qty, lots, w),
         \A r \in DOMAIN lots : r[1] # "item",
         \A r : r[1] = "item" => /\ r \in DOMAIN w <=> r \in DOMAIN tx[d].w
                                 /\ r \in DOMAIN tx[d].w => w[r] = tx[d].w[r]
  PROVE  /\ Item(i) \in DOMAIN tx'[d].w /\ tx'[d].w[Item(i)] = Val(d, Item(i)) + qty
         /\ \A j : j # i => SameAt(d, Item(j))
  <1> PICK u : u = tx'[d].w
    OBVIOUS
  <1>1. /\ DOMAIN u = {Item(i)} \cup DOMAIN lots \cup DOMAIN w
        /\ u[Item(i)] = Val(d, Item(i)) + qty
        /\ \A r \in DOMAIN w : r # Item(i) /\ r \notin DOMAIN lots => u[r] = w[r]
    BY CarriesIs
  <1>2. ASSUME NEW j, j # i PROVE SameAt(d, Item(j))
    <2> PICK r : r = Item(j)
      OBVIOUS
    <2>1. r # Item(i) /\ r[1] = "item"
      BY <1>2 DEF Item
    <2>2. r \notin DOMAIN lots
      BY <2>1
    <2>3. r \in DOMAIN u <=> r \in DOMAIN w
      BY <1>1, <2>1, <2>2
    <2> QED BY <1>1, <2>1, <2>2, <2>3 DEF SameAt
  <1> QED BY <1>1, <1>2

\* Stock stands, or one move is made of it, or it changes places.
StillItems(d) == tx'[d].moved = tx[d].moved /\ \A i : SameAt(d, Item(i))
ItemMoved(d, v) ==
  /\ MovesWith(d, v) /\ v.item \in Items /\ v.qty \in Int
  /\ Item(v.item) \in DOMAIN tx'[d].w /\ tx'[d].w[Item(v.item)] = Val(d, Item(v.item)) + v.qty
  /\ \A i : i # v.item => SameAt(d, Item(i))
Transferred(d) ==
  \E u, v : /\ tx'[d].moved = tx[d].moved \cup {u, v} /\ u.op = tx[d].op /\ v.op = tx[d].op
            /\ u.reason = "transfer" /\ v.reason = "transfer" /\ u.item \in Items /\ v.item = u.item
            /\ u.qty \in Int /\ v.qty = -u.qty /\ (u.qty = v.qty => u = v)
            /\ Wrote(d, Item(u.item), Val(d, Item(u.item)))

\* .. by the move it makes.
LEMMA CarriesMoves ==
  ASSUME NEW d, NEW s, NEW i \in Items, NEW qty \in Int, NEW reason, NEW sale, NEW lots, NEW w,
         Carries(d, i, qty, lots, w), \A r \in DOMAIN lots : r[1] # "item",
         \A r : r[1] = "item" => /\ r \in DOMAIN w <=> r \in DOMAIN tx[d].w
                                 /\ r \in DOMAIN tx[d].w => w[r] = tx[d].w[r],
         tx'[d].moved = tx[d].moved \cup {MoveOf(d, sale, i, reason, qty)}
  PROVE  ItemMoved(d, MoveOf(d, sale, i, reason, qty))
  <1> PICK v : v = MoveOf(d, sale, i, reason, qty)
    OBVIOUS
  <1>1. v.op = tx[d].op /\ v.item = i /\ v.qty = qty
    BY DEF MoveOf
  <1>2. /\ Item(i) \in DOMAIN tx'[d].w /\ tx'[d].w[Item(i)] = Val(d, Item(i)) + qty
        /\ \A j : j # i => SameAt(d, Item(j))
    BY CarriesItems
  <1> QED BY <1>1, <1>2 DEF ItemMoved, MovesWith

\* A row that is no item leaves the items in hand alone.
LEMMA PutKeepsItems ==
  ASSUME NEW w, NEW x, NEW v, x[1] # "item"
  PROVE  \A r : r[1] = "item" => /\ r \in DOMAIN Put(w, x, v) <=> r \in DOMAIN w
                                 /\ r \in DOMAIN w => Put(w, x, v)[r] = w[r]
  <1> SUFFICES ASSUME NEW r, r[1] = "item"
               PROVE  /\ r \in DOMAIN Put(w, x, v) <=> r \in DOMAIN w
                      /\ r \in DOMAIN w => Put(w, x, v)[r] = w[r]
    OBVIOUS
  <1>1. r # x
    OBVIOUS
  <1> QED BY <1>1 DEF Put, @@, :>

\* What an op under way has moved, ..
Arrived(o) == [op |-> o, sale |-> None, item |-> P[o].item, reason |-> "purchase", qty |-> P[o].qty]
OnItem(M, i) == {v \in M : v.item = i}
BookReasons == {"sale", "void", "waste", "manual", "audit"}
Carried(d) ==
  tx[d].op # None =>
    LET k == Payload(d).kind o == tx[d].op M == tx[d].moved legs == tx[d].legs IN
    /\ IsFiniteSet(M) /\ \A v \in M : v.qty \in Int /\ v.item \in Items /\ v.op = o
    /\ k \in {"grn", "door"} => M = IF "receive" \in Left(d) THEN {} ELSE {Arrived(o)}
    /\ k \in {"adjust", "count"} =>
         IF "shift" \in Left(d) THEN M = {}
         ELSE \E v \in M : M = {v} /\ v.reason \in {"manual", "audit"} /\ v.qty = P[o].qty
    /\ k = "lot" /\ "lot" \notin Left(d) =>
         tx[d].seen \in Int /\ row[LotRow(Payload(d).lot)].state # "none"
    /\ k = "lot" =>
         \/ M = {} /\ legs = NoLegs
         \/ \E v \in M : M = {v} /\ v.reason = "waste" /\ v.qty = Leg(legs, "1200")
    /\ k \notin {"sale", "void", "grn", "door", "adjust", "count", "lot"} =>
         \A v \in M : v.reason \notin BookReasons \cup {"purchase"}
\* .. and the shelf as it leaves it.
ItemTies(d) ==
  tx[d].op # None =>
    \A i \in Items :
      IF Item(i) \in DOMAIN tx[d].w THEN tx[d].w[Item(i)] = row[Item(i)] + Moved(OnItem(tx[d].moved, i))
      ELSE OnItem(tx[d].moved, i) = {}

\* A lot has its size; what a sale holds of it, and what an op under way draws more.
LotSteps == {"sold", "return", "receive", "shift", "use", "empty"}
\* What of a lot no sale holds, and what a sale holds of it.
Full(b) == b.qty + b.out + b.away
Held(q, l) == IF q.undone THEN 0 ELSE q.by[l]
NotDrawn == [by |-> NothingDrawn, undone |-> FALSE]
\* Rows of lots, and of what a sale drew of each.
IsLot(b) ==
  /\ b = [item |-> b.item, qty |-> b.qty, size |-> b.size, state |-> b.state, out |-> b.out,
      away |-> b.away]
  /\ b.qty \in Nat /\ b.size \in Int /\ b.out \in Int /\ b.away \in Int
  /\ b.state # "none" => b.item \in Items
IsDraw(q) == q = [by |-> q.by, undone |-> q.undone] /\ q.by \in [Lots -> Nat] /\ q.undone \in BOOLEAN
DrawsOf(d) == IF Payload(d).kind = "sale" THEN tx[d].op ELSE Payload(d).of
Drawers == {"sale", "refund", "void"}
\* How much more of a lot a sale will hold once this transaction commits.
DrawnMore(d, l) ==
  IF Payload(d).kind \in Drawers /\ Draws(DrawsOf(d)) \in DOMAIN tx[d].w
  THEN Held(tx[d].w[Draws(DrawsOf(d))], l) - Held(row[Draws(DrawsOf(d))], l) ELSE 0
\* A lot in hand keeps its size: what a draw takes of it the sale holds, and what an
\* undoing gives back the sale holds no longer.
LotTies(d, l) ==
  LET w == tx[d].w r == LotRow(l) b == row[r] IN
  IF r \notin DOMAIN w THEN DrawnMore(d, l) = 0
  ELSE LET c == w[r] IN
       /\ IsLot(c) /\ c.state # "none"
       /\ IF b.state = "none"
          THEN /\ c.size = Full(c) /\ DrawnMore(d, l) = 0
               /\ Payload(d).kind \in {"grn", "door"} /\ Payload(d).lot = l
          ELSE c.size = b.size /\ Full(c) + DrawnMore(d, l) = Full(b)
\* What a transaction may have in hand of lots and draws, and that each lot ties.
Shelving(d) ==
  tx[d].op # None =>
    LET w == tx[d].w IN
    /\ LotSteps \cap Left(d) # {} =>
         (\A l \in Lots : LotRow(l) \notin DOMAIN w) /\ \A s \in Sold : Draws(s) \notin DOMAIN w
    /\ \A s \in Sold : Draws(s) \in DOMAIN w =>
         /\ Payload(d).kind \in Drawers /\ s = DrawsOf(d) /\ IsDraw(w[Draws(s)])
         /\ \A l \in Lots : w[Draws(s)].by[l] > 0 => row[LotRow(l)].state # "none"
    /\ \A l \in Lots : LotTies(d, l)
\* The shelf, the lots and the draws: a lot that is there arrived, and what a sale drew
\* is of lots that are there.
ShelfKept ==
  /\ \A i \in Items : row[Item(i)] \in Int
  /\ \A l \in Lots : /\ IsLot(row[LotRow(l)])
                     /\ row[LotRow(l)].state # "none"
                         => \E o \in Kinds({"grn", "door"}) \cap applied : P[o].lot = l
  /\ \A s \in Sold : /\ IsDraw(row[Draws(s)]) /\ (s \notin applied => row[Draws(s)] = NotDrawn)
                     /\ \A l \in Lots : row[Draws(s)].by[l] > 0 => row[LotRow(l)].state # "none"

\* Two legs of an entry.
LEMMA TwoLegs ==
  ASSUME NEW x, NEW y, x # y, NEW m \in Int, NEW n \in Int
  PROVE  LET f == Lines((x :> m) @@ (y :> n)) IN IsLegs(f) /\ Leg(f, x) = m /\ Leg(f, y) = n
  <1> PICK f, g, h : f = x :> m /\ g = y :> n /\ h = f @@ g
    OBVIOUS
  <1>1. IsLegs(f) /\ IsLegs(g)
    BY OneLeg
  <1>2. IsLegs(h)
    BY <1>1, JoinLegs
  <1>3. Leg(h, x) = m /\ Leg(h, y) = n
    BY DEF Leg, @@, :>
  <1>4. IsLegs(Lines(h)) /\ \A a : Leg(Lines(h), a) = Leg(h, a)
    BY <1>2, LinesLegs
  <1> QED BY <1>3, <1>4

\* What a sale's moves took is a quantity, whatever has become of the sale.
LEMMA TakenInt ==
  ASSUME SalesBooked, NEW s \in Sold PROVE TakenBy(s) \in Int /\ Moved(SaleMoves(s)) = -TakenBy(s)
  <1>1. SaleMoves(s) = {} \/ SaleMoves(s) = {SoldMove(s)}
    BY DEF SalesBooked, Sale
  <1>2. SoldMove(s).qty \in Int
    BY SoldPayload DEF SoldMove
  <1>3. Moved(SaleMoves(s)) \in Int
    BY <1>1, <1>2, MovedNothing, MovedOne
  <1> QED BY <1>3 DEF TakenBy, SaleMoves

\* What a transaction reads of the shelf.
LEMMA ItemRead ==
  ASSUME ShelfKept, NEW d, tx[d].op # None, Carried(d), ItemTies(d), NEW i \in Items
  PROVE  /\ Val(d, Item(i)) = row[Item(i)] + Moved(OnItem(tx[d].moved, i))
         /\ Val(d, Item(i)) \in Int /\ Moved(OnItem(tx[d].moved, i)) \in Int /\ row[Item(i)] \in Int
         /\ IsFiniteSet(OnItem(tx[d].moved, i))
  <1> PICK S : S = OnItem(tx[d].moved, i)
    OBVIOUS
  <1>1. IsFiniteSet(S) /\ \A v \in S : v.qty \in Int
    <2>1. S \subseteq tx[d].moved /\ IsFiniteSet(tx[d].moved) /\ \A v \in tx[d].moved : v.qty \in Int
      BY DEF OnItem, Carried
    <2> QED BY <2>1, FS_Subset
  <1>2. Moved(S) \in Int
    <2> PICK T : T = {}
      OBVIOUS
    <2>1. IsFiniteSet(T) /\ S \cap T = {} /\ \A v \in S \cup T : v.qty \in Int
      BY <1>1, FS_EmptySet
    <2> QED BY <1>1, <2>1, MovedBoth
  <1>3. row[Item(i)] \in Int
    BY DEF ShelfKept
  <1>4. Val(d, Item(i)) = row[Item(i)] + Moved(S)
    <2>1. CASE Item(i) \in DOMAIN tx[d].w
      BY <2>1 DEF Val, ItemTies
    <2>2. CASE Item(i) \notin DOMAIN tx[d].w
      <3>1. S = {}
        BY <2>2 DEF ItemTies
      <3>2. Val(d, Item(i)) = row[Item(i)]
        BY <2>2 DEF Val
      <3> QED BY <1>3, <3>1, <3>2, MovedNothing
    <2> QED BY <2>1, <2>2
  <1> QED BY <1>1, <1>2, <1>3, <1>4

\* What the move that a statement makes is.
Fits(d, s, v) ==
  LET k == Payload(d).kind IN
  /\ s = "sold" => v = SoldMove(tx[d].op)
  /\ s = "return" => v.reason = k
  /\ s = "receive" => v = Arrived(tx[d].op)
  /\ s = "shift" => v.reason = ReasonOf(k) /\ v.qty = Payload(d).qty
  /\ s = "use" => v.reason = "prep"
  /\ s = "make" => v.reason = "produce"
  /\ s = "throw" => v.reason = "waste" /\ v.qty = Leg(tx'[d].legs, "1200")
OneMoves == {"sold", "return", "receive", "shift", "use", "make", "throw"}

\* What the lot steps read of the lots nothing of their own has changed.
LEMMA LotUnread ==
  ASSUME NEW d, tx[d].op # None, Shelving(d), LotSteps \cap Left(d) # {}
  PROVE  /\ \A l \in Lots : LotRow(l) \notin DOMAIN tx[d].w /\ Val(d, LotRow(l)) = row[LotRow(l)]
         /\ \A s \in Sold : Draws(s) \notin DOMAIN tx[d].w /\ Val(d, Draws(s)) = row[Draws(s)]
  BY DEF Shelving, Val

\* Each kind of statement moves one item by one move, two by a transfer, or none.
LEMMA ItemsMake ==
  ASSUME Base, SalesBooked, ShelfKept, NEW d \in Txs, Carried(d), Shelving(d), tx[d].op # None,
         tx[d].todo # <<>>, Statement(d), Makes(d, Head(tx[d].todo)), ~Skip(d)
  PROVE  LET s == Head(tx[d].todo) IN
         \/ /\ StillItems(d) /\ s \notin (OneMoves \cup {"transfer"}) \ {"return", "throw"}
            /\ s = "throw" => tx'[d].legs = tx[d].legs
         \/ s \in OneMoves /\ \E v : ItemMoved(d, v) /\ Fits(d, s, v)
         \/ s = "transfer" /\ Transferred(d)
  <1> PICK s, k, o, p : s = Head(tx[d].todo) /\ k = Payload(d).kind /\ o = tx[d].op /\ p = Payload(d)
    OBVIOUS
  <1> HIDE DEF Carried, Shelving, ShelfKept, Base, Statement, SalesBooked
  <1>0. Sound(d) /\ Makes(d, s)
    BY BaseReady
  <1>1. /\ s \in Left(d) /\ s \in StepSet(k) /\ Whose(s, k)
        /\ \A f \in Fields \ FieldsOf(s) : f # "todo" => tx'[d][f] = tx[d][f]
        /\ \A r : r[1] \notin RowsOf(s) => SameAt(d, r)
    BY <1>0, Keeps DEF SameAt
  <1>2. /\ o \in Ops /\ p = P[o]
        /\ k \in {"grn", "door"} => p.item \in Items /\ p.qty \in Int
        /\ k \in {"adjust", "count", "prep", "dispatch", "transfer"} => p.item \in Items /\ p.qty \in Int
        /\ k = "produce" => p.from \in Items /\ p.item \in Items /\ p.qty \in Int
        /\ k = "lot" => p.lot \in Lots
    BY StockPayload
  <1>3. ASSUME "item" \notin RowsOf(s), "moved" \notin FieldsOf(s) PROVE StillItems(d)
    <2>1. tx'[d].moved = tx[d].moved
      BY <1>1, <1>3 DEF Fields
    <2>2. \A i : Item(i)[1] = "item"
      BY DEF Item
    <2> QED BY <1>1, <1>3, <2>1, <2>2 DEF StillItems
  <1>4. \A r : r[1] = "item" => /\ r \in DOMAIN tx[d].w <=> r \in DOMAIN tx[d].w
                                /\ r \in DOMAIN tx[d].w => tx[d].w[r] = tx[d].w[r]
    OBVIOUS
  <1>5. \A r \in DOMAIN <<>> : r[1] # "item"
    OBVIOUS
  <1>6. CASE s = "sold"
    <2>1. k = "sale" /\ SaleStock(d)
      BY <1>1, <1>6, ByName DEF Whose
    <2>2. o \in Sold /\ P[o].item \in Items /\ P[o].qty \in Int /\ -P[o].qty \in Int
      <3>1. o \in Sold
        BY <2>1, SaleOf
      <3>2. P[o].item \in Items /\ P[o].qty \in Nat
        BY <3>1, SoldPayload
      <3> QED BY <3>1, <3>2
    <2> PICK i, w, lots, q, n : /\ i = P[o].item /\ w = Put(tx[d].w, SaleRow(o), q)
                                /\ lots = DrawDown(d, P[o].item, P[o].qty, o)
                                /\ n = -P[o].qty
                                /\ q = [state |-> "live", no |-> tx[d].no, earned |-> EarnedBy(o),
                                        session |-> tx[d].session]
      OBVIOUS
    <2>3. Carries(d, i, n, lots, w)
      BY <1>0, <2>1, SoldMakes DEF Drew
    <2>4. tx'[d].moved = tx[d].moved \cup {MoveOf(d, o, i, "sale", n)}
      BY <1>0, <2>1, SoldMakes
    <2>5. \A r \in DOMAIN lots : r[1] # "item"
      BY DrawnRows DEF Draws
    <2>6. \A r : r[1] = "item" => /\ r \in DOMAIN w <=> r \in DOMAIN tx[d].w
                                  /\ r \in DOMAIN tx[d].w => w[r] = tx[d].w[r]
      BY PutKeepsItems DEF SaleRow
    <2>7. n \in Int /\ i \in Items
      BY <2>2
    <2>8. ItemMoved(d, MoveOf(d, o, i, "sale", n))
      BY <2>7, <2>3, <2>4, <2>5, <2>6, CarriesMoves
    <2>9. MoveOf(d, o, i, "sale", n) = SoldMove(o)
      BY DEF MoveOf, SoldMove
    <2> QED BY <1>6, <2>8, <2>9 DEF Fits, OneMoves
  <1>7. CASE s = "return"
    <2>1. ReturnStock(d) /\ k \in {"refund", "void"}
      BY <1>1, <1>7, ByName DEF Whose
    <2> PICK x, n : x = Payload(d).of /\ n = TakenBy(x)
      OBVIOUS
    <2>2. x \in Sold /\ P[x].item \in Items /\ n \in Int
      <3>1. x \in Sold
        BY <2>1, VoidOf
      <3> QED BY <3>1, SoldPayload, TakenInt
    <2>3. CASE (Is(d, "refund") /\ ~Payload(d).restock) \/ n = 0
      <3>1. tx'[d].w = tx[d].w /\ tx'[d].moved = tx[d].moved
        BY <1>0, <2>1, <2>3, ReturnMakes
      <3> QED BY <1>7, <3>1 DEF StillItems, SameAt
    <2>4. CASE ~((Is(d, "refund") /\ ~Payload(d).restock) \/ n = 0)
      <3> PICK lots : lots = Undraw(d, x)
        OBVIOUS
      <3>1. /\ Carries(d, P[x].item, n, lots, tx[d].w)
            /\ tx'[d].moved = tx[d].moved \cup {MoveOf(d, x, P[x].item, k, n)}
        BY <1>0, <2>1, <2>4, ReturnMakes
      <3>2. \A r \in DOMAIN lots : r[1] # "item"
        BY UndrawnRows DEF Draws
      <3>3. ItemMoved(d, MoveOf(d, x, P[x].item, k, n))
        BY <1>4, <2>2, <3>1, <3>2, CarriesMoves
      <3>4. MoveOf(d, x, P[x].item, k, n).reason = k
        BY DEF MoveOf
      <3> QED BY <1>7, <3>3, <3>4 DEF Fits, OneMoves
    <2> QED BY <2>3, <2>4
  <1>8. CASE s = "receive"
    <2>1. Receive(d) /\ k \in {"grn", "door"}
      BY <1>1, <1>8, ByName DEF Whose
    <2> PICK w, lots, q : /\ w = Put(tx[d].w, DeliveryRow(o), q) /\ lots = Stamp(p.lot, p.item, p.qty)
                          /\ q = IF P[o].kind = "door" /\ P[o].priced THEN "priced" ELSE "blind"
      OBVIOUS
    <2>2. /\ Carries(d, p.item, p.qty, lots, w)
          /\ tx'[d].moved = tx[d].moved \cup {MoveOf(d, None, p.item, "purchase", p.qty)}
      BY <1>0, <1>2, <2>1, ReceiveMakes
    <2>3. \A r \in DOMAIN lots : r[1] # "item"
      BY DEF Stamp, :>, LotRow
    <2>4. \A r : r[1] = "item" => /\ r \in DOMAIN w <=> r \in DOMAIN tx[d].w
                                  /\ r \in DOMAIN tx[d].w => w[r] = tx[d].w[r]
      BY PutKeepsItems DEF DeliveryRow
    <2>5. ItemMoved(d, MoveOf(d, None, p.item, "purchase", p.qty))
      BY <1>2, <2>1, <2>2, <2>3, <2>4, CarriesMoves
    <2>6. MoveOf(d, None, p.item, "purchase", p.qty) = Arrived(o)
      BY <1>2 DEF MoveOf, Arrived
    <2> QED BY <1>8, <2>5, <2>6 DEF Fits, OneMoves
  <1>9. CASE s = "shift"
    <2>1. Shift(d) /\ k \in {"adjust", "count", "prep", "dispatch"}
      BY <1>1, <1>9, ByName DEF Whose
    <2>2. p.item \in Items /\ p.qty \in Int /\ -(-p.qty) = p.qty
      BY <1>2, <2>1
    <2>3. tx'[d].moved = tx[d].moved \cup {MoveOf(d, None, p.item, ReasonOf(k), p.qty)}
      BY <1>0, <2>1, <2>2, ShiftMakes
    <2>4. \E lots : /\ Carries(d, p.item, p.qty, lots, tx[d].w) /\ \A r \in DOMAIN lots : r[1] # "item"
      <3>1. CASE p.qty < 0
        <4> PICK lots : lots = DrawDown(d, p.item, -p.qty, None)
          OBVIOUS
        <4>1. Carries(d, p.item, -(-p.qty), lots, tx[d].w)
          BY <1>0, <2>1, <3>1, ShiftMakes DEF Drew
        <4>2. \A r \in DOMAIN lots : r[1] # "item"
          BY DrawnRows DEF Draws
        <4> QED BY <2>2, <4>1, <4>2
      <3>2. CASE ~(p.qty < 0)
        <4>1. Carries(d, p.item, p.qty, <<>>, tx[d].w)
          BY <1>0, <2>1, <3>2, ShiftMakes
        <4> QED BY <1>5, <4>1
      <3> QED BY <3>1, <3>2
    <2>5. ItemMoved(d, MoveOf(d, None, p.item, ReasonOf(k), p.qty))
      BY <1>4, <2>2, <2>3, <2>4, CarriesMoves
    <2>6. MoveOf(d, None, p.item, ReasonOf(k), p.qty).reason = ReasonOf(k)
          /\ MoveOf(d, None, p.item, ReasonOf(k), p.qty).qty = p.qty
      BY DEF MoveOf
    <2> QED BY <1>9, <2>5, <2>6 DEF Fits, OneMoves
  <1>10. CASE s = "transfer"
    <2>1. Transfer(d) /\ k = "transfer"
      BY <1>1, <1>10, ByName DEF Whose
    <2> PICK u, v : u = MoveOf(d, None, p.item, "transfer", p.qty)
          /\ v = MoveOf(d, None, p.item, "transfer", -p.qty)
      OBVIOUS
    <2>2. /\ Wrote(d, Item(p.item), Val(d, Item(p.item))) /\ tx'[d].moved = tx[d].moved \cup {u, v}
      BY <1>0, <2>1, TransferMakes
    <2>3. /\ u.op = tx[d].op /\ v.op = tx[d].op /\ u.reason = "transfer" /\ v.reason = "transfer"
          /\ u.item = p.item /\ v.item = p.item /\ u.qty = p.qty /\ v.qty = -p.qty
      BY DEF MoveOf
    <2>4. p.item \in Items /\ p.qty \in Int
      BY <1>2, <2>1
    <2>5. u.qty = v.qty => u = v
      BY <2>3 DEF MoveOf
    <2> QED BY <1>10, <2>2, <2>3, <2>4, <2>5 DEF Transferred
  <1>11. CASE s = "use"
    <2>1. Use(d) /\ k = "produce"
      BY <1>1, <1>11, ByName DEF Whose
    <2> PICK lots, n : lots = DrawDown(d, p.from, p.qty, None) /\ n = -p.qty
      OBVIOUS
    <2>2. p.from \in Items /\ n \in Int
      BY <1>2, <2>1
    <2>3. /\ Carries(d, p.from, n, lots, tx[d].w)
          /\ tx'[d].moved = tx[d].moved \cup {MoveOf(d, None, p.from, "prep", n)}
      BY <1>0, <2>1, UseMakes DEF Drew
    <2>4. \A r \in DOMAIN lots : r[1] # "item"
      BY DrawnRows DEF Draws
    <2>5. ItemMoved(d, MoveOf(d, None, p.from, "prep", n))
      BY <1>4, <2>2, <2>3, <2>4, CarriesMoves
    <2>6. MoveOf(d, None, p.from, "prep", n).reason = "prep"
      BY DEF MoveOf
    <2> QED BY <1>11, <2>5, <2>6 DEF Fits, OneMoves
  <1>12. CASE s = "make"
    <2>1. Make(d) /\ k = "produce"
      BY <1>1, <1>12, ByName DEF Whose
    <2>2. /\ Carries(d, p.item, p.qty, <<>>, tx[d].w)
          /\ tx'[d].moved = tx[d].moved \cup {MoveOf(d, None, p.item, "produce", p.qty)}
      BY <1>0, <2>1, MakeMakes
    <2>3. p.item \in Items /\ p.qty \in Int
      BY <1>2, <2>1
    <2>4. ItemMoved(d, MoveOf(d, None, p.item, "produce", p.qty))
      BY <1>4, <1>5, <2>2, <2>3, CarriesMoves
    <2>5. MoveOf(d, None, p.item, "produce", p.qty).reason = "produce"
      BY DEF MoveOf
    <2> QED BY <1>12, <2>4, <2>5 DEF Fits, OneMoves
  <1>13. CASE s = "throw"
    <2>1. Throw(d) /\ k = "lot"
      BY <1>1, <1>13, ByName DEF Whose
    <2> PICK b, n, m : b = Val(d, LotRow(Payload(d).lot)) /\ n = tx[d].seen /\ m = -n
      OBVIOUS
    <2>2. CASE Payload(d).state # "wasted" \/ n = 0
      <3>1. tx'[d].w = tx[d].w /\ tx'[d].legs = tx[d].legs /\ tx'[d].moved = tx[d].moved
        BY <1>0, <2>1, <2>2, ThrowMakes
      <3> QED BY <1>13, <3>1 DEF StillItems, SameAt
    <2>3. CASE ~(Payload(d).state # "wasted" \/ n = 0)
      <3>1. "lot" \notin Left(d) /\ "empty" \in Left(d)
        <4>1. "lot" \notin Left(d)
          <5>1. \A a \in Left(d) \ {"credit"} : Rank("throw") <= Rank(a)
            BY <1>13, NextOf
          <5>2. Rank("throw") = 2 /\ Rank("lot") = 1
            BY DEF Rank
          <5> QED BY <5>1, <5>2
        <4>2. "empty" \in Left(d)
          <5>1. "empty" \in StepSet(k)
            BY <2>1 DEF StepSet
          <5>2. Rank("empty") = 8 /\ Rank("throw") = 2
            BY DEF Rank
          <5> QED BY <1>1, <1>13, <5>1, <5>2, Passed
        <4> QED BY <4>1, <4>2
      <3>2. n \in Int /\ row[LotRow(p.lot)].state # "none" /\ p.lot \in Lots
        BY <1>2, <2>1, <3>1 DEF Carried
      <3>3. b = row[LotRow(p.lot)]
        BY <3>1, <3>2, LotUnread DEF LotSteps
      <3>4. b.item \in Items
        BY <3>2, <3>3 DEF ShelfKept, IsLot
      <3>5. m \in Int
        BY <3>2
      <3>6. /\ Carries(d, b.item, m, <<>>, tx[d].w)
            /\ tx'[d].legs = Lines(("5100" :> n) @@ ("1200" :> m))
            /\ tx'[d].moved = tx[d].moved \cup {MoveOf(d, None, b.item, "waste", m)}
        BY <1>0, <2>1, <2>3, ThrowMakes
      <3>7. ItemMoved(d, MoveOf(d, None, b.item, "waste", m))
        BY <1>4, <1>5, <3>4, <3>5, <3>6, CarriesMoves
      <3>8. Leg(tx'[d].legs, "1200") = m
        BY <3>2, <3>5, <3>6, TwoLegs
      <3>9. MoveOf(d, None, b.item, "waste", m).reason = "waste"
            /\ MoveOf(d, None, b.item, "waste", m).qty = m
        BY DEF MoveOf
      <3> QED BY <1>13, <3>7, <3>8, <3>9 DEF Fits, OneMoves
    <2> QED BY <2>2, <2>3
  <1>14. CASE s \notin OneMoves \cup {"transfer"}
    <2>1. "item" \notin RowsOf(s) /\ "moved" \notin FieldsOf(s)
      BY <1>14 DEF OneMoves, RowsOf, FieldsOf, ClaimKinds
    <2> QED BY <1>3, <1>14, <2>1 DEF OneMoves
  <1> QED BY <1>6, <1>7, <1>8, <1>9, <1>10, <1>11, <1>12, <1>13, <1>14 DEF OneMoves

\* A move that is made was not made before.
LEMMA FreshMove ==
  ASSUME Base, NEW d \in Txs, Reversing(d), tx[d].op # None, NEW s \in OneMoves \cup {"transfer"},
      s \in Left(d),
         Whose(s, Payload(d).kind), NEW v, s = "make" => v.reason = "produce"
  PROVE  v \notin tx[d].moved /\ (s # "make" => tx[d].moved = {})
  <1>1. CASE s = "make"
    <2>1. Payload(d).kind = "produce"
      BY <1>1 DEF Whose
    <2>2. \A u \in tx[d].moved : u.reason = "prep"
      BY <1>1, <2>1 DEF Reversing
    <2> QED BY <1>1, <2>2
  <1>2. CASE s # "make"
    <2>1. s \in MoveSteps
      BY <1>2 DEF OneMoves, MoveSteps
    <2>2. tx[d].moved = {}
      BY <2>1 DEF Reversing
    <2> QED BY <2>2
  <1> QED BY <1>1, <1>2

\* The shelf follows the moves.
LEMMA ItemTiesMakes ==
  ASSUME Base, SalesBooked, ShelfKept, NEW d \in Txs, Carried(d), ItemTies(d), Shelving(d), Reversing(d),
         tx[d].op # None, tx[d].todo # <<>>, Statement(d), Makes(d, Head(tx[d].todo)), ~Skip(d)
  PROVE  ItemTies(d)'
  <1> PICK s : s = Head(tx[d].todo)
    OBVIOUS
  <1> HIDE DEF Carried, ItemTies, Shelving, ShelfKept, Base, Statement, SalesBooked
  <1>1. /\ s \in Left(d) /\ Whose(s, Payload(d).kind) /\ tx'[d].op = tx[d].op /\ row' = row
    BY Keeps
  <1>2. \/ StillItems(d)
        \/ s \in OneMoves /\ \E v : ItemMoved(d, v) /\ Fits(d, s, v)
        \/ s = "transfer" /\ Transferred(d)
    BY ItemsMake
  <1> SUFFICES ASSUME NEW i \in Items
               PROVE  IF Item(i) \in DOMAIN tx'[d].w
                      THEN tx'[d].w[Item(i)] = row[Item(i)] + Moved(OnItem(tx'[d].moved, i))
                      ELSE OnItem(tx'[d].moved, i) = {}
    BY <1>1 DEF ItemTies
  <1> PICK S, T : S = OnItem(tx[d].moved, i) /\ T = OnItem(tx'[d].moved, i)
    OBVIOUS
  <1>3. /\ Val(d, Item(i)) = row[Item(i)] + Moved(S) /\ Val(d, Item(i)) \in Int
        /\ Moved(S) \in Int /\ row[Item(i)] \in Int /\ IsFiniteSet(S)
    BY ItemRead
  <1>4. ASSUME SameAt(d, Item(i)), T = S
        PROVE  IF Item(i) \in DOMAIN tx'[d].w THEN tx'[d].w[Item(i)] = row[Item(i)] + Moved(T) ELSE T = {}
    <2>1. IF Item(i) \in DOMAIN tx[d].w THEN tx[d].w[Item(i)] = row[Item(i)] + Moved(S) ELSE S = {}
      BY DEF ItemTies
    <2> QED BY <1>4, <2>1 DEF SameAt
  <1>5. CASE StillItems(d)
    <2>1. SameAt(d, Item(i)) /\ T = S
      BY <1>5 DEF StillItems
    <2> QED BY <1>4, <2>1
  <1>6. CASE s \in OneMoves /\ \E v : ItemMoved(d, v) /\ Fits(d, s, v)
    <2>1. PICK v : ItemMoved(d, v) /\ Fits(d, s, v)
      BY <1>6
    <2>2. v \notin tx[d].moved
      <3>1. s = "make" => v.reason = "produce"
        BY <2>1 DEF Fits
      <3> QED BY <1>1, <1>6, <3>1, FreshMove
    <2>3. tx'[d].moved = tx[d].moved \cup {v} /\ v.qty \in Int
      BY <2>1 DEF ItemMoved, MovesWith
    <2>4. CASE i # v.item
      <3>1. T = S
        BY <2>3, <2>4 DEF OnItem
      <3>2. SameAt(d, Item(i))
        BY <2>1, <2>4 DEF ItemMoved
      <3> QED BY <1>4, <3>1, <3>2
    <2>5. CASE i = v.item
      <3>1. T = S \cup {v} /\ v \notin S
        BY <2>2, <2>3, <2>5 DEF OnItem
      <3>2. \A u \in S \cup {v} : u.qty \in Int
        BY <2>3 DEF OnItem, Carried
      <3>3. Moved(T) = Moved(S) + v.qty
        BY <1>3, <3>1, <3>2, MovedMore
      <3>4. Item(i) \in DOMAIN tx'[d].w /\ tx'[d].w[Item(i)] = Val(d, Item(i)) + v.qty
        BY <2>1, <2>5 DEF ItemMoved
      <3> QED BY <1>3, <2>3, <3>3, <3>4
    <2> QED BY <2>4, <2>5
  <1>7. CASE s = "transfer" /\ Transferred(d)
    <2>1. PICK u, v : /\ tx'[d].moved = tx[d].moved \cup {u, v} /\ u.item \in Items /\ v.item = u.item
                      /\ u.qty \in Int /\ v.qty = -u.qty /\ (u.qty = v.qty => u = v)
                      /\ Wrote(d, Item(u.item), Val(d, Item(u.item)))
      BY <1>7 DEF Transferred
    <2>2. tx[d].moved = {}
      <3>1. s \in OneMoves \cup {"transfer"} /\ s # "make"
        BY <1>7
      <3> QED BY <1>1, <3>1, FreshMove
    <2>3. S = {} /\ Moved(S) = 0
      BY <2>2, MovedNothing DEF OnItem
    <2>4. CASE i # u.item
      <3>1. T = S
        BY <2>1, <2>2, <2>4 DEF OnItem
      <3>2. Item(i) # Item(u.item)
        BY <2>4 DEF Item
      <3>3. SameAt(d, Item(i))
        BY <2>1, <3>2 DEF SameAt, Wrote, Put, @@, :>
      <3> QED BY <1>4, <3>1, <3>3
    <2>5. CASE i = u.item
      <3>1. T = {u, v}
        BY <2>1, <2>2, <2>5 DEF OnItem
      <3>2. Moved(T) = 0
        <4> PICK m, n \in Int : m = u.qty /\ n = v.qty /\ n = -m
          BY <2>1
        <4>1. CASE u = v
          <5>1. m = n
            BY <4>1
          <5>2. m = 0
            BY <5>1
          <5>3. Moved({u}) = u.qty
            BY MovedOne
          <5>4. T = {u}
            BY <3>1, <4>1
          <5> QED BY <5>2, <5>3, <5>4
        <4>2. CASE u # v
          <5> PICK R : R = {u}
            OBVIOUS
          <5>1. IsFiniteSet(R)
            BY FS_Singleton
          <5>2. v \notin R /\ T = R \cup {v}
            BY <3>1, <4>2
          <5>3. \A x \in R \cup {v} : x.qty \in Int
            OBVIOUS
          <5>4. Moved(R \cup {v}) = Moved(R) + v.qty
            BY <5>1, <5>2, <5>3, MovedMore
          <5>5. Moved(R) = u.qty
            BY MovedOne
          <5>6. Moved(T) = m + n
            BY <5>2, <5>4, <5>5
          <5> QED BY <5>6
        <4> QED BY <4>1, <4>2
      <3>3. Item(i) \in DOMAIN tx'[d].w /\ tx'[d].w[Item(i)] = Val(d, Item(i))
        BY <2>1, <2>5 DEF Wrote, Put, @@, :>
      <3> QED BY <1>3, <2>3, <3>2, <3>3
    <2> QED BY <2>4, <2>5
  <1> QED BY <1>2, <1>5, <1>6, <1>7

\* What an op under way has moved, from statement to statement.
LEMMA CarriedMakes ==
  ASSUME Base, SalesBooked, ShelfKept, NEW d \in Txs, Carried(d), ItemTies(d), Shelving(d), Reversing(d),
         Billing(d), tx[d].op # None, tx[d].todo # <<>>, Statement(d), Makes(d, Head(tx[d].todo)),
             ~Skip(d)
  PROVE  Carried(d)'
  <1> PICK s, k, o, M, N : s = Head(tx[d].todo) /\ k = Payload(d).kind /\ o = tx[d].op /\ M = tx[d].moved
                           /\ N = tx'[d].moved
    OBVIOUS
  <1> HIDE DEF Carried, ItemTies, Shelving, ShelfKept, Base, Statement, SalesBooked, Billing, Reversing
  <1>0. Sound(d) /\ Makes(d, s)
    BY BaseReady
  <1>1. /\ s \in Left(d) /\ s \in StepSet(k) /\ Whose(s, k) /\ Left(d)' = Left(d) \ {s}
        /\ tx'[d].op = o /\ row' = row
        /\ \A f \in Fields \ FieldsOf(s) : f # "todo" => tx'[d][f] = tx[d][f]
    BY <1>0, Keeps
  <1>2. Payload(d)' = Payload(d) /\ P[o] = Payload(d) /\ k \in AllKinds
    <2>1. Payload(d)' = Payload(d) /\ P[o] = Payload(d)
      BY <1>1 DEF Payload
    <2> QED BY <2>1, StockPayload
  <1>3. \/ StillItems(d) /\ s \notin (OneMoves \cup {"transfer"}) \ {"return", "throw"}
           /\ (s = "throw" => tx'[d].legs = tx[d].legs)
        \/ s \in OneMoves /\ \E v : ItemMoved(d, v) /\ Fits(d, s, v)
        \/ s = "transfer" /\ Transferred(d)
    BY ItemsMake
  <1>4. s \notin OneMoves \cup {"transfer"} => N = M
    BY <1>3 DEF StillItems
  <1>5. ASSUME s \in OneMoves \cup {"transfer"}, s # "make" PROVE M = {}
    BY <1>1, <1>5, FreshMove
  <1>6. IsFiniteSet(M) /\ \A v \in M : v.qty \in Int /\ v.item \in Items /\ v.op = o
    BY DEF Carried
  <1>7. IsFiniteSet(N) /\ \A v \in N : v.qty \in Int /\ v.item \in Items /\ v.op = o
    <2>1. CASE StillItems(d)
      BY <1>6, <2>1 DEF StillItems
    <2>2. CASE \E v : ItemMoved(d, v)
      <3>1. PICK v : ItemMoved(d, v)
        BY <2>2
      <3>2. N = M \cup {v} /\ v.op = o /\ v.item \in Items /\ v.qty \in Int
        BY <3>1 DEF ItemMoved, MovesWith
      <3>3. IsFiniteSet(M \cup {v})
        BY <1>6, FS_AddElement
      <3> QED BY <1>6, <3>2, <3>3
    <2>3. CASE Transferred(d)
      <3>1. PICK u, v : /\ N = M \cup {u, v} /\ u.op = o /\ v.op = o /\ u.item \in Items
                           /\ v.item = u.item
                        /\ u.qty \in Int /\ v.qty = -u.qty
        BY <2>3 DEF Transferred
      <3>2. IsFiniteSet((M \cup {u}) \cup {v})
        <4>1. IsFiniteSet(M \cup {u})
          BY <1>6, FS_AddElement
        <4> QED BY <4>1, FS_AddElement
      <3>3. (M \cup {u}) \cup {v} = N /\ v.qty \in Int
        BY <3>1
      <3>4. IsFiniteSet(N)
        BY <3>2, <3>3
      <3> QED BY <1>6, <3>1, <3>3, <3>4
    <2> QED BY <1>3, <2>1, <2>2, <2>3
  <1>8. ASSUME k \in {"grn", "door"} PROVE N = IF "receive" \in Left(d)' THEN {} ELSE {Arrived(o)}
    <2>1. M = IF "receive" \in Left(d) THEN {} ELSE {Arrived(o)}
      BY <1>8 DEF Carried
    <2>2. s \in {"receive", "ensure", "insert", "post"}
      BY <1>1, <1>8 DEF StepSet
    <2>3. CASE s = "receive"
      <3>1. PICK v : ItemMoved(d, v) /\ v = Arrived(o)
        BY <1>3, <2>3 DEF Fits, OneMoves
      <3>2. N = M \cup {v}
        BY <3>1 DEF ItemMoved, MovesWith
      <3> QED BY <1>1, <2>1, <2>3, <3>1, <3>2
    <2>4. CASE s # "receive"
      <3>1. N = M
        BY <1>4, <2>2, <2>4 DEF OneMoves
      <3> QED BY <1>1, <2>1, <2>4, <3>1
    <2> QED BY <2>3, <2>4
  <1>9. ASSUME k \in {"adjust", "count"}
        PROVE  IF "shift" \in Left(d)' THEN N = {}
               ELSE \E v \in N : N = {v} /\ v.reason \in {"manual", "audit"} /\ v.qty = P[o].qty
    <2>1. IF "shift" \in Left(d) THEN M = {}
          ELSE \E v \in M : M = {v} /\ v.reason \in {"manual", "audit"} /\ v.qty = P[o].qty
      BY <1>9 DEF Carried
    <2>2. s \in {"shift", "ensure", "insert", "post"}
      BY <1>1, <1>9 DEF StepSet
    <2>3. CASE s = "shift"
      <3>1. PICK v : ItemMoved(d, v) /\ v.reason = ReasonOf(k) /\ v.qty = Payload(d).qty
        BY <1>3, <2>3 DEF Fits, OneMoves
      <3>2. N = M \cup {v}
        BY <3>1 DEF ItemMoved, MovesWith
      <3>3. v.reason \in {"manual", "audit"}
        BY <1>9, <3>1 DEF ReasonOf
      <3> QED BY <1>1, <1>2, <2>1, <2>3, <3>1, <3>2, <3>3
    <2>4. CASE s # "shift"
      <3>1. N = M
        BY <1>4, <2>2, <2>4 DEF OneMoves
      <3> QED BY <1>1, <2>1, <2>4, <3>1
    <2> QED BY <2>3, <2>4
  <1>10. ASSUME k = "lot", "lot" \notin Left(d)'
         PROVE  tx'[d].seen \in Int /\ row[LotRow(Payload(d).lot)].state # "none"
    <2>1. s \in {"lot", "throw", "ensure", "insert", "post", "empty"}
      BY <1>1, <1>10 DEF StepSet
    <2>2. CASE s = "lot"
      <3> PICK b, l : l = Payload(d).lot /\ b = Val(d, LotRow(Payload(d).lot))
        OBVIOUS
      <3>1. LookAtLot(d)
        BY <2>2, ByName
      <3>2. b.state # "none" /\ tx'[d].seen = Most(0, Least(b.qty, Val(d, Item(b.item))))
        BY <1>0, <3>1, LotMakes
      <3>3. l \in Lots
        BY <1>10, StockPayload
      <3>4. "empty" \in Left(d)
        <4>1. "empty" \in StepSet(k)
          BY <1>10 DEF StepSet
        <4>2. Rank("empty") = 8 /\ Rank("lot") = 1
          BY DEF Rank
        <4> QED BY <1>1, <2>2, <4>1, <4>2, Passed
      <3>5. b = row[LotRow(l)]
        BY <3>3, <3>4, LotUnread DEF LotSteps
      <3>6. b.item \in Items /\ b.qty \in Nat
        BY <3>2, <3>3, <3>5 DEF ShelfKept, IsLot
      <3>7. Val(d, Item(b.item)) \in Int
        BY <3>6, ItemRead
      <3>8. Most(0, Least(b.qty, Val(d, Item(b.item)))) \in Int
        BY <3>6, <3>7 DEF Most, Least
      <3> QED BY <3>2, <3>5, <3>8
    <2>3. CASE s # "lot"
      <3>1. tx[d].seen \in Int /\ row[LotRow(Payload(d).lot)].state # "none"
        BY <1>1, <1>10, <2>3 DEF Carried
      <3>2. tx'[d].seen = tx[d].seen
        <4>1. "seen" \notin FieldsOf(s) /\ "seen" \in Fields
          BY <2>1, <2>3 DEF FieldsOf, Fields
        <4> QED BY <1>1, <4>1
      <3> QED BY <3>1, <3>2
    <2> QED BY <2>2, <2>3
  <1>11. ASSUME k = "lot"
         PROVE  \/ N = {} /\ tx'[d].legs = NoLegs
                \/ \E v \in N : N = {v} /\ v.reason = "waste" /\ v.qty = Leg(tx'[d].legs, "1200")
    <2>1. \/ M = {} /\ tx[d].legs = NoLegs
          \/ \E v \in M : M = {v} /\ v.reason = "waste" /\ v.qty = Leg(tx[d].legs, "1200")
      BY <1>11 DEF Carried
    <2>2. s \in {"lot", "throw", "ensure", "insert", "post", "empty"}
      BY <1>1, <1>11 DEF StepSet
    <2>3. CASE s = "throw"
      <3>1. M = {}
        BY <1>5, <2>3 DEF OneMoves
      <3>2. CASE N = M /\ tx'[d].legs = tx[d].legs
        BY <2>1, <3>2
      <3>3. CASE \E v : ItemMoved(d, v) /\ Fits(d, s, v)
        <4>1. PICK v : ItemMoved(d, v) /\ v.reason = "waste" /\ v.qty = Leg(tx'[d].legs, "1200")
          BY <2>3, <3>3 DEF Fits
        <4>2. N = M \cup {v}
          BY <4>1 DEF ItemMoved, MovesWith
        <4> QED BY <3>1, <4>1, <4>2
      <3> QED BY <1>3, <2>3, <3>2, <3>3 DEF StillItems
    <2>4. CASE s # "throw"
      <3>1. N = M
        BY <1>4, <2>2, <2>4 DEF OneMoves
      <3>2. tx'[d].legs = tx[d].legs
        <4>1. "legs" \notin FieldsOf(s) /\ "legs" \in Fields
          BY <2>2, <2>4 DEF FieldsOf, Fields, LegSteps
        <4> QED BY <1>1, <4>1
      <3> QED BY <2>1, <3>1, <3>2
    <2> QED BY <2>3, <2>4
  <1>12. ASSUME k \notin {"sale", "void", "grn", "door", "adjust", "count", "lot"}, NEW v \in N
         PROVE  v.reason \notin BookReasons \cup {"purchase"}
    <2>1. \A u \in M : u.reason \notin BookReasons \cup {"purchase"}
      BY <1>12 DEF Carried
    <2>2. CASE StillItems(d)
      BY <1>12, <2>1, <2>2 DEF StillItems
    <2>3. CASE s \in OneMoves /\ \E u : ItemMoved(d, u) /\ Fits(d, s, u)
      <3>1. PICK u : ItemMoved(d, u) /\ Fits(d, s, u)
        BY <2>3
      <3>2. N = M \cup {u}
        BY <3>1 DEF ItemMoved, MovesWith
      <3>3. u.reason \in {"refund", "prep", "dispatch", "produce"}
        <4>1. s \in {"return", "shift", "use", "make"}
          BY <1>1, <1>12, <2>3 DEF OneMoves, Whose
        <4>2. s = "return" => k = "refund"
          BY <1>1, <1>12 DEF Whose
        <4>3. s = "shift" => k \in {"prep", "dispatch"}
          BY <1>1, <1>12 DEF Whose
        <4>4. k \in {"prep", "dispatch"} => ReasonOf(k) \in {"prep", "dispatch"}
          BY DEF ReasonOf
        <4> QED BY <3>1, <4>1, <4>2, <4>3, <4>4 DEF Fits
      <3> QED BY <1>12, <2>1, <3>2, <3>3 DEF BookReasons
    <2>4. CASE Transferred(d)
      <3>1. PICK x, y : N = M \cup {x, y} /\ x.reason = "transfer" /\ y.reason = "transfer"
        BY <2>4 DEF Transferred
      <3> QED BY <1>12, <2>1, <3>1 DEF BookReasons
    <2> QED BY <1>3, <2>2, <2>3, <2>4
  <1> QED
    BY <1>1, <1>2, <1>7, <1>8, <1>9, <1>10, <1>11, <1>12 DEF Carried

\* What an op under way has done to a delivery's row.
Delivering(d) ==
  tx[d].op # None =>
    LET k == Payload(d).kind o == tx[d].op of == Payload(d).of w == tx[d].w IN
    /\ k \in {"grn", "door"} =>
         IF "receive" \in Left(d) THEN DeliveryRow(o) \notin DOMAIN w
         ELSE /\ DeliveryRow(o) \in DOMAIN w
              /\ w[DeliveryRow(o)] = IF k = "door" /\ Payload(d).priced THEN "priced" ELSE "blind"
    /\ k = "price" =>
         IF "price" \in Left(d) THEN DeliveryRow(of) \notin DOMAIN w
         ELSE DeliveryRow(of) \in DOMAIN w /\ w[DeliveryRow(of)] = "priced"
             /\ row[DeliveryRow(of)] = "blind"
    /\ k = "doorprice" =>
         IF "rates" \in Left(d) THEN DeliveryRow(of) \notin DOMAIN w
         ELSE /\ DeliveryRow(of) \in DOMAIN w /\ w[DeliveryRow(of)] = "priced"
              /\ row[DeliveryRow(of)] = "blind" \/ DeliveryRow(of) \in tx[d].drift
    /\ \A p \in Ops : DeliveryRow(p) \in DOMAIN w =>
         (k \in {"grn", "door"} /\ p = o) \/ (k \in {"price", "doorprice"} /\ p = of)
    /\ k \in {"price", "doorprice"} => row[DeliveryRow(of)] # "none"

\* A statement leaves a delivery's row in hand as its op is to leave it.
LEMMA DeliveringMakes ==
  ASSUME Base, NEW d \in Txs, Delivering(d), tx[d].op # None, tx[d].todo # <<>>, Statement(d),
         Makes(d, Head(tx[d].todo)), ~Skip(d)
  PROVE  Delivering(d)'
  <1> PICK s, k, o, of, w, u : /\ s = Head(tx[d].todo) /\ k = Payload(d).kind /\ o = tx[d].op
                               /\ of = Payload(d).of /\ w = tx[d].w /\ u = tx'[d].w
    OBVIOUS
  <1> HIDE DEF Base, Statement
  <1>0. Sound(d) /\ Makes(d, s)
    BY BaseReady
  <1>1. /\ s \in Left(d) /\ s \in StepSet(k) /\ Whose(s, k) /\ Left(d)' = Left(d) \ {s}
        /\ tx'[d].op = o /\ row' = row
        /\ \A f \in Fields \ FieldsOf(s) : f # "todo" => tx'[d][f] = tx[d][f]
        /\ \A r : r[1] \notin RowsOf(s) => SameAt(d, r)
    BY <1>0, Keeps DEF SameAt
  <1>2. Payload(d)' = Payload(d) /\ P[o] = Payload(d)
    BY <1>1 DEF Payload
  <1>3. /\ k \in {"grn", "door"} =>
             IF "receive" \in Left(d) THEN DeliveryRow(o) \notin DOMAIN w
             ELSE /\ DeliveryRow(o) \in DOMAIN w
                  /\ w[DeliveryRow(o)] = IF k = "door" /\ Payload(d).priced THEN "priced" ELSE "blind"
        /\ k = "price" =>
             IF "price" \in Left(d) THEN DeliveryRow(of) \notin DOMAIN w
             ELSE DeliveryRow(of) \in DOMAIN w /\ w[DeliveryRow(of)] = "priced"
                 /\ row[DeliveryRow(of)] = "blind"
        /\ k = "doorprice" =>
             IF "rates" \in Left(d) THEN DeliveryRow(of) \notin DOMAIN w
             ELSE /\ DeliveryRow(of) \in DOMAIN w /\ w[DeliveryRow(of)] = "priced"
                  /\ row[DeliveryRow(of)] = "blind" \/ DeliveryRow(of) \in tx[d].drift
        /\ \A p \in Ops : DeliveryRow(p) \in DOMAIN w =>
             (k \in {"grn", "door"} /\ p = o) \/ (k \in {"price", "doorprice"} /\ p = of)
        /\ k \in {"price", "doorprice"} => row[DeliveryRow(of)] # "none"
    BY DEF Delivering
  <1>4. \A p, q : DeliveryRow(p) = DeliveryRow(q) => p = q
    BY DEF DeliveryRow
  <1>5. CASE s = "receive"
    <2>1. Receive(d) /\ k \in {"grn", "door"}
      BY <1>1, <1>5, ByName DEF Whose
    <2> PICK i, qty, lots, q : /\ i = Payload(d).item /\ qty = Payload(d).qty
                               /\ lots = Stamp(Payload(d).lot, Payload(d).item, Payload(d).qty)
                               /\ q = IF k = "door" /\ Payload(d).priced THEN "priced" ELSE "blind"
      OBVIOUS
    <2>2. Carries(d, i, qty, lots, Put(w, DeliveryRow(o), q))
      BY <1>0, <1>2, <2>1, ReceiveMakes
    <2>3. \A p : DeliveryRow(p) # Item(i) /\ DeliveryRow(p) \notin DOMAIN lots
      BY DEF DeliveryRow, Item, Stamp, LotRow, :>
    <2>4. \A p : DeliveryRow(p) \in DOMAIN u <=> p = o \/ DeliveryRow(p) \in DOMAIN w
      <3>1. DOMAIN u = {Item(i)} \cup DOMAIN lots \cup DOMAIN Put(w, DeliveryRow(o), q)
        BY <2>2, CarriesIs
      <3>2. DOMAIN u = {Item(i)} \cup DOMAIN lots \cup ({DeliveryRow(o)} \cup DOMAIN w)
        BY <3>1 DEF Put, @@, :>
      <3> QED BY <1>4, <2>3, <3>2
    <2>5. u[DeliveryRow(o)] = q
      <3>1. DeliveryRow(o) \in DOMAIN Put(w, DeliveryRow(o), q)
            /\ Put(w, DeliveryRow(o), q)[DeliveryRow(o)] = q
        BY DEF Put, @@, :>
      <3> QED BY <2>2, <2>3, <3>1, CarriesIs
    <2>6. "receive" \notin Left(d)'
      BY <1>1, <1>5
    <2>7. \A p \in Ops : DeliveryRow(p) \in DOMAIN u => p = o
      BY <1>3, <2>1, <2>4
    <2> QED BY <1>1, <1>2, <2>1, <2>4, <2>5, <2>6, <2>7 DEF Delivering
  <1>6. CASE s = "price"
    <2>1. Price(d) /\ k = "price"
      BY <1>1, <1>6, ByName DEF Whose
    <2>2. u = Put(w, DeliveryRow(of), "priced") /\ Val(d, DeliveryRow(of)) = "blind"
      BY <1>0, <2>1, PriceMakes DEF Wrote
    <2>3. row[DeliveryRow(of)] = "blind"
      BY <1>1, <1>3, <1>6, <2>1, <2>2 DEF Val
    <2>4. DOMAIN u = {DeliveryRow(of)} \cup DOMAIN w /\ u[DeliveryRow(of)] = "priced"
      BY <2>2 DEF Put, @@, :>
    <2>5. \A p \in Ops : DeliveryRow(p) \in DOMAIN u => p = of
      BY <1>3, <1>4, <2>1, <2>4
    <2>6. "price" \notin Left(d)'
      BY <1>1, <1>6
    <2> QED BY <1>1, <1>2, <1>3, <2>1, <2>3, <2>4, <2>5, <2>6 DEF Delivering
  <1>7. CASE s = "rates"
    <2>1. PriceDoor(d) /\ k = "doorprice"
      BY <1>1, <1>7, ByName DEF Whose
    <2> PICK r : r = DeliveryRow(of)
      OBVIOUS
    <2>2. /\ u = Put(w, r, "priced")
          /\ tx'[d].drift = IF Val(d, r) = "blind" THEN tx[d].drift ELSE tx[d].drift \cup {r}
      BY <1>0, <2>1, RatesMakes DEF Wrote
    <2>3. Val(d, r) = row[r]
      BY <1>1, <1>3, <1>7, <2>1 DEF Val
    <2>4. DOMAIN u = {r} \cup DOMAIN w /\ u[r] = "priced"
      BY <2>2 DEF Put, @@, :>
    <2>5. \A p \in Ops : DeliveryRow(p) \in DOMAIN u => p = of
      BY <1>3, <1>4, <2>1, <2>4
    <2>6. "rates" \notin Left(d)' /\ (row[r] = "blind" \/ r \in tx'[d].drift)
      BY <1>1, <1>7, <2>2, <2>3
    <2> QED BY <1>1, <1>2, <1>3, <2>1, <2>4, <2>5, <2>6 DEF Delivering
  <1>8. CASE s \notin {"receive", "price", "rates"}
    <2>1. "delivery" \notin RowsOf(s)
      BY <1>8 DEF RowsOf, ClaimKinds
    <2>2. \A p : SameAt(d, DeliveryRow(p))
      BY <1>1, <2>1 DEF DeliveryRow
    <2>3. k = "doorprice" => tx'[d].drift = tx[d].drift
      <3>1. k = "doorprice" => s \in {"door", "ensure", "insert", "post"}
        BY <1>1, <1>8 DEF StepSet
      <3>2. s \in {"door", "ensure", "insert", "post"} => "drift" \notin FieldsOf(s) /\ "drift" \in Fields
        BY DEF FieldsOf, Fields, LegSteps
      <3> QED BY <1>1, <3>1, <3>2
    <2>4. \A a \in {"receive", "price", "rates"} : a \in Left(d)' <=> a \in Left(d)
      BY <1>1, <1>8
    <2>5. \A p : /\ DeliveryRow(p) \in DOMAIN u <=> DeliveryRow(p) \in DOMAIN w
                 /\ DeliveryRow(p) \in DOMAIN w => u[DeliveryRow(p)] = w[DeliveryRow(p)]
      BY <2>2 DEF SameAt
    <2> QED BY <1>1, <1>2, <1>3, <2>3, <2>4, <2>5 DEF Delivering
  <1> QED BY <1>5, <1>6, <1>7, <1>8

\* An entry that leaves the inventory alone.
ShelfKinds == {"sale", "void", "door", "price", "doorprice", "adjust", "count", "lot"}
Off(legs) == Leg(legs, "1200") = 0
\* What is no business of the shelf has no leg on the inventory account.
Clear(d) == tx[d].op # None /\ Payload(d).kind \notin ShelfKinds => Off(tx[d].legs)

\* Entries that leave the inventory account alone.
LEMMA OffNothing == Off(NoLegs)
  BY NoLeg DEF Off

LEMMA OffTwo ==
  ASSUME NEW x, NEW y, NEW m, NEW n, "1200" \notin {x, y} PROVE Off(Lines((x :> m) @@ (y :> n)))
  <1>1. PICK f : f = (x :> m) @@ (y :> n)
    OBVIOUS
  <1>2. DOMAIN f = {x, y}
    BY <1>1 DEF @@, :>
  <1> QED BY <1>1, <1>2 DEF Off, Leg, Lines

LEMMA OffThree ==
  ASSUME NEW x, NEW y, NEW z, NEW m, NEW n, NEW p, "1200" \notin {x, y, z}
  PROVE  Off(Lines((x :> m) @@ (y :> n) @@ (z :> p)))
  <1>1. PICK f : f = (x :> m) @@ (y :> n) @@ (z :> p)
    OBVIOUS
  <1>2. DOMAIN f = {x, y, z}
    BY <1>1 DEF @@, :>
  <1> QED BY <1>1, <1>2 DEF Off, Leg, Lines

LEMMA OffOffice ==
  ASSUME NEW o
  PROVE  /\ P[o].kind \in ClaimKinds => Off(ClaimLegs(o))
         /\ Off(OneEntry(o)) /\ Off(SettleLegs(o))
  <1>1. \A n : /\ Off(WagesLegs(n)) /\ Off(OpexLegs(n)) /\ Off(WearLegs(n)) /\ Off(VendorLegs(n))
               /\ Off(AssetLegs(n)) /\ Off(RepairLegs(n)) /\ Off(ManualLegs(n))
    BY OffTwo DEF WagesLegs, OpexLegs, WearLegs, VendorLegs, AssetLegs, RepairLegs, ManualLegs
  <1>2. P[o].kind \in ClaimKinds => Off(ClaimLegs(o))
    BY <1>1 DEF ClaimLegs, ClaimKinds
  <1>3. Off(OneEntry(o))
    BY <1>1, OffNothing DEF OneEntry
  <1>4. Off(SettleLegs(o))
    BY OffTwo, OffNothing DEF SettleLegs
  <1> QED BY <1>2, <1>3, <1>4

LEMMA OffMatch ==
  ASSUME NEW g, NEW n, NEW p PROVE Off(SettledLegs(g, n)) /\ Off(Correction(n, p))
  BY OffTwo, OffThree DEF SettledLegs, Correction

LEMMA OffRefund ==
  ASSUME NEW o \in Kinds({"refund"}) PROVE Off(RefundJournal(o))
  <1>1. P[o].tender \in Tenders
    BY SalesAssumption DEF Kinds
  <1>2. PICK x, y, z, t : RefundJournal(o) = Lines(("4000" :> x) @@ ("2200" :> y) @@ (t :> z))
        /\ t = P[o].tender
    BY DEF RefundJournal
  <1>3. "1200" \notin {"4000", "2200", t}
    BY <1>1, <1>2 DEF Tenders
  <1> QED BY <1>2, <1>3, OffThree

\* What an op that is no business of the shelf's books leaves it alone.
LEMMA ClearMakes ==
  ASSUME Base, NEW d \in Txs, Clear(d), tx[d].op # None, tx[d].todo # <<>>, Statement(d),
         Makes(d, Head(tx[d].todo)), ~Skip(d)
  PROVE  Clear(d)'
  <1> PICK s, k : s = Head(tx[d].todo) /\ k = Payload(d).kind
    OBVIOUS
  <1> HIDE DEF Base, Statement
  <1>1. /\ s \in Left(d) /\ s \in StepSet(k) /\ Whose(s, k)
        /\ tx'[d].op = tx[d].op
        /\ \A f \in Fields \ FieldsOf(s) : f # "todo" => tx'[d][f] = tx[d][f]
    BY Keeps
  <1>2. Payload(d)' = Payload(d) /\ Sound(d)
    BY <1>1, BaseReady DEF Payload
  <1> SUFFICES ASSUME k \notin ShelfKinds PROVE Off(tx'[d].legs)
    BY <1>1, <1>2 DEF Clear
  <1>3. Off(tx[d].legs)
    BY DEF Clear
  <1>4. s \notin {"sold", "claim", "price", "rates", "throw"}
    BY <1>1 DEF Whose, ShelfKinds
  <1>5. CASE s = "count"
    <2>1. CloseRegister(d)
      BY <1>5, ByName
    <2>2. PICK over : tx'[d].legs = IF over < 0 THEN Lines(("6300" :> -over) @@ ("1010" :> over))
                                    ELSE Lines(("1010" :> over) @@ ("4900" :> -over))
      BY <1>2, <2>1, CloseMakes
    <2> QED BY <2>2, OffTwo
  <1>6. CASE s = "receive"
    <2>1. Receive(d) /\ k = "grn"
      BY <1>1, <1>6, ByName DEF Whose, ShelfKinds
    <2>2. tx'[d].legs = NoLegs
      BY <1>2, <2>1, ReceiveMakes DEF Payload
    <2> QED BY <2>2, OffNothing
  <1>7. CASE s = "shift"
    <2>1. Shift(d) /\ k \in {"prep", "dispatch"}
      BY <1>1, <1>7, ByName DEF Whose, ShelfKinds
    <2>2. tx'[d].legs = AdjustLegs(tx[d].op)
      BY <1>2, <2>1, ShiftMakes
    <2>3. AdjustLegs(tx[d].op) = NoLegs
      BY <2>1 DEF AdjustLegs, Payload
    <2> QED BY <2>2, <2>3, OffNothing
  <1>8. CASE s = "split"
    <2>1. Split(d) /\ k = "refund"
      BY <1>1, <1>8, ByName DEF Whose
    <2>2. tx'[d].legs = RefundJournal(tx[d].op)
      BY <1>2, <2>1, SplitMakes
    <2>3. tx[d].op \in Kinds({"refund"})
      BY <2>1, StockPayload DEF Kinds
    <2> QED BY <2>2, <2>3, OffRefund
  <1>9. CASE s = "adjust"
    <2>1. Adjust(d)
      BY <1>9, ByName
    <2>2. tx'[d].legs = NoLegs \/ \E n, m : tx'[d].legs = Lines(("6550" :> n) @@ ("2350" :> m))
      BY <1>2, <2>1, AdjustMakes
    <2> QED BY <2>2, OffNothing, OffTwo
  <1>10. CASE s = "claimMonth"
    <2>1. ClaimMonth(d) /\ k \in ClaimKinds
      BY <1>1, <1>10, ByName DEF Whose
    <2>2. tx'[d].legs = ClaimLegs(tx[d].op)
      BY <1>2, <2>1, ClaimMonthMakes
    <2> QED BY <2>1, <2>2, OffOffice DEF Payload
  <1>11. CASE s = "match"
    <2>1. Match(d)
      BY <1>11, ByName
    <2>2. \/ tx'[d].legs = NoLegs \/ (\E g, n : tx'[d].legs = SettledLegs(g, n))
          \/ \E n, p : tx'[d].legs = Correction(n, p)
      BY <1>2, <2>1, MatchMakes
    <2> QED BY <2>2, OffMatch, OffNothing
  <1>12. CASE s \notin LegSteps
    <2>1. tx'[d].legs = tx[d].legs
      BY <1>1, <1>12 DEF FieldsOf, Fields, LegSteps
    <2> QED BY <1>3, <2>1
  <1> QED BY <1>4, <1>5, <1>6, <1>7, <1>8, <1>9, <1>10, <1>11, <1>12 DEF LegSteps

\* What an op that commits books of its moves, or of another's.
PriceKinds == {"price", "doorprice"}
OwnBooked(d) ==
  LET k == Payload(d).kind IN
  k \in {"sale", "void", "adjust", "count", "lot"} \/ (k = "door" /\ Payload(d).priced)
Enters1200(d) ==
  IF Payload(d).kind \in PriceKinds THEN {Arrived(Payload(d).of)}
  ELSE IF OwnBooked(d) THEN tx[d].moved ELSE {}

\* Its leg on the inventory is the value of what it books.
LEMMA SoldLeg ==
  ASSUME NEW s \in Sold
  PROVE  /\ Leg(SaleJournal(s), "1200") = SoldMove(s).qty /\ SoldMove(s).qty \in Int
         /\ Leg(Opposite(SaleLegs(s)), "1200") = P[s].qty /\ P[s].qty \in Int
  <1>1. P[s].qty \in Nat /\ Leg(SaleJournal(s), "1200") = -P[s].qty
    BY SoldPayload, SaleJournalIs
  <1>2. SoldMove(s).qty = -P[s].qty
    BY DEF SoldMove
  <1>3. Leg(SaleLegs(s), "1200") = -P[s].qty
    BY <1>1, SquaredLeg DEF SaleLegs
  <1>4. Leg(Opposite(SaleLegs(s)), "1200") = P[s].qty
    <2> PICK f : f = SaleLegs(s)
      OBVIOUS
    <2>1. Leg(f, "1200") = -P[s].qty
      BY <1>3
    <2>2. IsLegs(f)
      BY SaleLegsIs
    <2>3. Leg(Opposite(f), "1200") = -Leg(f, "1200")
      BY <2>2 DEF Opposite, Leg, IsLegs
    <2> QED BY <1>1, <2>1, <2>3
  <1> QED BY <1>1, <1>2, <1>4

\* What a delivery owes is what it brings in.
LEMMA PayableLeg ==
  ASSUME NEW n \in Int, NEW o
  PROVE  Leg(Payable(n, "2100"), "1200") = n /\ Leg(Payable(n, PaidBy(o)), "1200") = n
  <1>1. PaidBy(o) \in {"1010", "2100"}
    BY DEF PaidBy
  <1>2. -n \in Int
    OBVIOUS
  <1> QED BY <1>1, <1>2, TwoLegs DEF Payable

\* An op at its end books on the inventory account what its moves come to: a sale and
\* its reversal by their legs, a count, a waste and a delivery by what they moved.
LEMMA BooksWhatMoved ==
  ASSUME Base, NEW d \in Txs, tx[d].op # None, Left(d) = {}, Standing(d), Reversing(d), Carried(d),
      Clear(d)
  PROVE  /\ IsFiniteSet(Enters1200(d)) /\ \A v \in Enters1200(d) : v.qty \in Int
         /\ Moved(Enters1200(d)) = Leg(tx[d].legs, "1200") /\ Leg(tx[d].legs, "1200") \in Int
  <1> PICK k, o, of, M, X, n : /\ k = Payload(d).kind /\ o = tx[d].op /\ of = Payload(d).of
                                  /\ M = tx[d].moved
                               /\ X = Enters1200(d) /\ n = Leg(tx[d].legs, "1200")
    OBVIOUS
  <1> HIDE DEF Base, Standing, Reversing, Carried, Clear
  <1>1. Payload(d) = P[o] /\ o \in Ops /\ k \in AllKinds
    BY StockPayload
  <1>2. Billing(d)
    BY DEF Standing
  <1>3. ASSUME NEW v, X = {v}, v.qty = n, n \in Int
        PROVE  IsFiniteSet(X) /\ (\A u \in X : u.qty \in Int) /\ Moved(X) = n /\ n \in Int
    <2>1. Moved({v}) = v.qty
      BY <1>3, MovedOne
    <2>2. IsFiniteSet({v})
      BY FS_Singleton
    <2> QED BY <1>3, <2>1, <2>2
  <1>4. ASSUME X = {}, n = 0
        PROVE  IsFiniteSet(X) /\ (\A u \in X : u.qty \in Int) /\ Moved(X) = n /\ n \in Int
    BY <1>4, MovedNothing, FS_EmptySet
  <1>5. CASE k = "sale"
    <2>1. o \in Sold /\ M = {SoldMove(o)} /\ tx[d].legs = SaleJournal(o)
      <3>1. o \in Sold
        BY <1>5, SaleOf
      <3>2. M = {SoldMove(o)}
        BY <1>5 DEF Reversing
      <3>3. tx[d].legs = SaleJournal(o)
        BY <1>2, <1>5 DEF Billing, Bill
      <3> QED BY <3>1, <3>2, <3>3
    <2>2. X = {SoldMove(o)}
      BY <1>5, <2>1 DEF Enters1200, OwnBooked, PriceKinds
    <2>3. SoldMove(o).qty = n /\ n \in Int
      BY <2>1, SoldLeg
    <2> QED BY <1>3, <2>2, <2>3
  <1>6. CASE k = "void"
    <2>1. of \in Sold
      BY <1>6, VoidOf
    <2>2. M = {VoidMove(o)} /\ tx[d].legs = Opposite(SaleLegs(of))
      BY <1>6 DEF Reversing
    <2>3. X = {VoidMove(o)}
      BY <1>6, <2>2 DEF Enters1200, OwnBooked, PriceKinds
    <2>4. VoidMove(o).qty = P[of].qty
      BY <1>1 DEF VoidMove
    <2>5. n = P[of].qty /\ n \in Int
      BY <2>1, <2>2, SoldLeg
    <2> QED BY <1>3, <2>3, <2>4, <2>5
  <1>7. CASE k = "door" /\ Payload(d).priced
    <2>1. M = {Arrived(o)}
      BY <1>7 DEF Carried
    <2>2. tx[d].legs = Payable(P[o].qty, PaidBy(o))
      BY <1>1, <1>2, <1>7 DEF Billing, Bill
    <2>3. P[o].qty \in Int
      BY <1>1, <1>7, StockPayload
    <2>4. n = P[o].qty /\ Arrived(o).qty = P[o].qty
      BY <2>2, <2>3, PayableLeg DEF Arrived
    <2>5. X = {Arrived(o)}
      BY <1>7, <2>1 DEF Enters1200, OwnBooked, PriceKinds
    <2> QED BY <1>3, <2>3, <2>4, <2>5
  <1>8. CASE k = "door" /\ ~Payload(d).priced
    <2>1. tx[d].legs = NoLegs
      BY <1>1, <1>2, <1>8 DEF Billing, Bill
    <2>2. X = {}
      BY <1>8 DEF Enters1200, OwnBooked, PriceKinds
    <2>3. n = 0
      BY <2>1, NoLeg
    <2> QED BY <1>4, <2>2, <2>3
  <1>9. CASE k \in PriceKinds
    <2>1. of \in Kinds({"grn", "door"})
      BY <1>9, StockPayload DEF PriceKinds, Kinds
    <2>2. P[of].qty \in Int
      BY <2>1, StockAssumption
    <2>3. tx[d].legs = Payable(P[of].qty, "2100") \/ tx[d].legs = Payable(P[of].qty, PaidBy(of))
      BY <1>2, <1>9 DEF Billing, Bill, PriceKinds
    <2>4. n = P[of].qty /\ Arrived(of).qty = P[of].qty
      BY <2>2, <2>3, PayableLeg DEF Arrived
    <2>5. X = {Arrived(of)}
      BY <1>9 DEF Enters1200
    <2> QED BY <1>3, <2>2, <2>4, <2>5
  <1>10. CASE k \in {"adjust", "count"}
    <2>1. PICK v \in M : M = {v} /\ v.qty = P[o].qty
      BY <1>10 DEF Carried
    <2>2. P[o].qty \in Int
      BY <1>1, <1>10, StockPayload
    <2>3. tx[d].legs = AdjustLegs(o)
      BY <1>2, <1>10 DEF Billing, Bill
    <2>4. AdjustLegs(o) = Lines(("1200" :> P[o].qty) @@ ("5100" :> -P[o].qty))
      BY <1>1, <1>10 DEF AdjustLegs
    <2>5. -P[o].qty \in Int
      BY <2>2
    <2>6. n = P[o].qty
      BY <2>2, <2>3, <2>4, <2>5, TwoLegs
    <2>7. X = {v}
      BY <1>10, <2>1 DEF Enters1200, OwnBooked, PriceKinds
    <2> QED BY <1>3, <2>1, <2>2, <2>6, <2>7
  <1>11. CASE k = "lot"
    <2>1. X = M
      BY <1>11 DEF Enters1200, OwnBooked, PriceKinds
    <2>2. CASE M = {} /\ tx[d].legs = NoLegs
      BY <1>4, <2>1, <2>2, NoLeg
    <2>3. CASE \E v \in M : M = {v} /\ v.qty = n
      <3>1. PICK v \in M : M = {v} /\ v.qty = n
        BY <2>3
      <3>2. v.qty \in Int
        BY <3>1 DEF Carried
      <3> QED BY <1>3, <2>1, <3>1, <3>2
    <2> QED BY <1>11, <2>2, <2>3 DEF Carried
  <1>12. CASE k \notin ShelfKinds
    <2>1. X = {}
      BY <1>12 DEF Enters1200, OwnBooked, PriceKinds, ShelfKinds
    <2>2. n = 0
      BY <1>12 DEF Clear, Off
    <2> QED BY <1>4, <2>1, <2>2
  <1> QED
    BY <1>5, <1>6, <1>7, <1>8, <1>9, <1>10, <1>11, <1>12 DEF ShelfKinds, PriceKinds

\* What is committed of deliveries and moves.
Purchases(o) == {v \in moves : v.reason = "purchase" /\ v.op = o}
DeliveryKept(o) ==
  /\ row[DeliveryRow(o)] \in {"none", "blind", "priced"}
  /\ Purchases(o) = IF row[DeliveryRow(o)] = "none" THEN {} ELSE {Arrived(o)}
\* A delivery is one move and one amount, blind or priced; a move is of an op applied.
Delivered ==
  /\ \A o \in Kinds({"grn", "door"}) : DeliveryKept(o)
  /\ IsFiniteSet(moves)
  /\ \A v \in moves : /\ v.op \in applied /\ v.qty \in Int /\ v.item \in Items
                      /\ v.reason = "purchase" => v.op \in Kinds({"grn", "door"})
  /\ \A j \in journal : Leg(j.legs, "1200") \in Int
BookedMoves == {v \in moves : Booked(v)}

\* A delivery's row at a commit.
LEMMA CommitDelivers ==
  ASSUME Base, NEW d \in Txs, Commits(d), Delivering(d), NEW p \in Kinds({"grn", "door"})
  PROVE  LET k == Payload(d).kind r == DeliveryRow(p) IN
         /\ k \in {"grn", "door"} /\ p = tx[d].op =>
              row'[r] = IF k = "door" /\ Payload(d).priced THEN "priced" ELSE "blind"
         /\ k \in PriceKinds /\ p = Payload(d).of =>
              /\ row'[r] = "priced" /\ (k = "price" => row[r] = "blind")
              /\ row[r] = "blind" \/ r \in tx[d].drift
         /\ ~(k \in {"grn", "door"} /\ p = tx[d].op) /\ ~(k \in PriceKinds /\ p = Payload(d).of) =>
              row'[r] = row[r]
  <1> PICK k, o, of, w, r : /\ k = Payload(d).kind /\ o = tx[d].op /\ of = Payload(d).of /\ w = tx[d].w
                            /\ r = DeliveryRow(p)
    OBVIOUS
  <1>1. /\ o # None /\ Left(d) = {} /\ row'[r] = IF r \in DOMAIN w THEN w[r] ELSE row[r]
    <2>1. r \in RowNames
      BY DEF RowNames
    <2> QED BY <2>1, Leaves
  <1>2. p \in Ops
    BY DEF Kinds
  <1>3. k \in {"grn", "door"} /\ p = o =>
          r \in DOMAIN w /\ w[r] = IF k = "door" /\ Payload(d).priced THEN "priced" ELSE "blind"
    BY <1>1 DEF Delivering
  <1>4. k \in PriceKinds /\ p = of =>
          /\ r \in DOMAIN w /\ w[r] = "priced" /\ (k = "price" => row[r] = "blind")
          /\ row[r] = "blind" \/ r \in tx[d].drift
    BY <1>1 DEF Delivering, PriceKinds
  <1>5. ~(k \in {"grn", "door"} /\ p = o) /\ ~(k \in PriceKinds /\ p = of) => r \notin DOMAIN w
    BY <1>1, <1>2 DEF Delivering, PriceKinds
  <1> QED BY <1>1, <1>3, <1>4, <1>5

\* What is booked at a commit is what was, and what the op books.
LEMMA BookedBecomes ==
  ASSUME Base, NEW d \in Txs, Commits(d), Delivered, Delivering(d), Carried(d), Reversing(d),
         Payload(d).kind = "doorprice" => DeliveryRow(Payload(d).of) \notin tx[d].drift
  PROVE  BookedMoves' = BookedMoves \cup Enters1200(d) /\ BookedMoves \cap Enters1200(d) = {}
  <1> PICK k, o, of, M, X : /\ k = Payload(d).kind /\ o = tx[d].op /\ of = Payload(d).of
                               /\ M = tx[d].moved
                            /\ X = Enters1200(d)
    OBVIOUS
  <1> DEFINE Then(v) == \/ v.reason \in BookReasons
                        \/ v.reason = "purchase" /\ row'[DeliveryRow(v.op)] = "priced"
  <1> HIDE DEF Base, Delivered, Delivering, Carried, Reversing
  <1>1. /\ o # None /\ Left(d) = {} /\ o \in Ops \ applied /\ Payload(d) = P[o]
    BY Leaves DEF Payload
  <1>2. moves' = moves \cup M
    BY DEF Commits
  <1>3. BookedMoves' = {v \in moves \cup M : Then(v)} /\ \A v : Booked(v) <=>
          (v.reason \in BookReasons \/ (v.reason = "purchase" /\ row[DeliveryRow(v.op)] = "priced"))
    BY <1>2 DEF BookedMoves, Booked, BookReasons
  <1>4. \A v \in M : v.op = o
    BY <1>1 DEF Carried
  <1>5. \A v \in moves : v.op \in applied /\ v.op # o
    BY <1>1 DEF Delivered
  <1>6. ASSUME k \in PriceKinds
        PROVE  /\ of \in Kinds({"grn", "door"}) /\ row[DeliveryRow(of)] = "blind"
               /\ row'[DeliveryRow(of)] = "priced" /\ Arrived(of) \in moves
                   /\ Arrived(of).reason = "purchase"
               /\ Arrived(of).op = of
    <2>1. of \in Kinds({"grn", "door"})
      BY <1>1, <1>6, StockPayload DEF PriceKinds, Kinds
    <2>2. row[DeliveryRow(of)] = "blind" /\ row'[DeliveryRow(of)] = "priced"
      BY <1>6, <2>1, CommitDelivers DEF PriceKinds
    <2>3. Purchases(of) = {Arrived(of)}
      BY <2>1, <2>2 DEF Delivered, DeliveryKept
    <2> QED BY <2>1, <2>2, <2>3 DEF Purchases, Arrived
  <1>7. ASSUME NEW v \in moves
        PROVE  (Then(v) <=> Booked(v) \/ v \in X) /\ ~(Booked(v) /\ v \in X)
    <2>1. CASE v.reason # "purchase"
      <3>1. v \notin X
        <4>1. CASE k \in PriceKinds
          <5>1. X = {Arrived(of)}
            BY <4>1 DEF Enters1200
          <5> QED BY <1>6, <2>1, <4>1, <5>1
        <4>2. CASE k \notin PriceKinds
          BY <1>4, <1>5, <4>2 DEF Enters1200
        <4> QED BY <4>1, <4>2
      <3> QED BY <1>3, <2>1, <3>1
    <2>2. CASE v.reason = "purchase"
      <3> PICK p : p = v.op
        OBVIOUS
      <3>1. p \in Kinds({"grn", "door"}) /\ p # o
        BY <1>5, <2>2 DEF Delivered
      <3>2. v \in Purchases(p) /\ DeliveryKept(p)
        BY <2>2, <3>1 DEF Purchases, Delivered
      <3>3. v = Arrived(p)
        BY <3>2 DEF DeliveryKept
      <3>4. CASE k \in PriceKinds /\ p = of
        <4>1. X = {v}
          BY <3>3, <3>4 DEF Enters1200
        <4> QED BY <1>3, <1>6, <2>2, <3>4, <4>1 DEF BookReasons
      <3>5. CASE ~(k \in PriceKinds /\ p = of)
        <4>1. row'[DeliveryRow(p)] = row[DeliveryRow(p)]
          BY <3>1, <3>5, CommitDelivers
        <4>2. v \notin X
          <5>1. CASE k \in PriceKinds
            <6>1. X = {Arrived(of)}
              BY <5>1 DEF Enters1200
            <6> QED BY <1>6, <3>5, <5>1, <6>1
          <5>2. CASE k \notin PriceKinds
            BY <1>4, <1>5, <5>2 DEF Enters1200
          <5> QED BY <5>1, <5>2
        <4> QED BY <1>3, <2>2, <4>1, <4>2
      <3> QED BY <3>4, <3>5
    <2> QED BY <2>1, <2>2
  <1>8. ASSUME NEW v \in M PROVE Then(v) <=> v \in X
    <2>1. CASE k \in {"sale", "void", "adjust", "count", "lot"}
      <3>1. X = M
        BY <2>1 DEF Enters1200, OwnBooked, PriceKinds
      <3>2. v.reason \in BookReasons
        <4>1. CASE k = "sale"
          BY <1>1, <4>1 DEF Reversing, SoldMove, BookReasons
        <4>2. CASE k = "void"
          BY <1>1, <4>2 DEF Reversing, VoidMove, BookReasons
        <4>3. CASE k \in {"adjust", "count"}
          BY <1>1, <4>3 DEF Carried, BookReasons
        <4>4. CASE k = "lot"
          BY <1>1, <4>4 DEF Carried, BookReasons
        <4> QED BY <2>1, <4>1, <4>2, <4>3, <4>4
      <3> QED BY <3>1, <3>2
    <2>2. CASE k \in {"grn", "door"}
      <3>1. M = {Arrived(o)} /\ v.reason = "purchase" /\ v.op = o
        BY <1>1, <2>2 DEF Carried, Arrived
      <3>2. o \in Kinds({"grn", "door"})
        BY <1>1, <2>2, StockPayload
      <3>3. row'[DeliveryRow(o)] = IF k = "door" /\ Payload(d).priced THEN "priced" ELSE "blind"
        BY <2>2, <3>2, CommitDelivers
      <3>4. X = IF k = "door" /\ Payload(d).priced THEN M ELSE {}
        BY <2>2 DEF Enters1200, OwnBooked, PriceKinds
      <3> QED BY <3>1, <3>3, <3>4 DEF BookReasons
    <2>3. CASE k \notin {"sale", "void", "grn", "door", "adjust", "count", "lot"}
      <3>1. v.reason \notin BookReasons \cup {"purchase"}
        BY <1>1, <2>3 DEF Carried
      <3>2. v \notin X
        <4>1. CASE k \in PriceKinds
          <5>1. X = {Arrived(of)}
            BY <4>1 DEF Enters1200
          <5> QED BY <1>6, <3>1, <4>1, <5>1
        <4>2. CASE k \notin PriceKinds
          <5>1. X = {}
            BY <2>3, <4>2 DEF Enters1200, OwnBooked
          <5> QED BY <5>1
        <4> QED BY <4>1, <4>2
      <3> QED BY <3>1, <3>2
    <2> QED BY <2>1, <2>2, <2>3
  <1>9. X \subseteq moves \cup M
    <2>1. CASE k \in PriceKinds
      BY <1>6, <2>1 DEF Enters1200
    <2>2. CASE k \notin PriceKinds
      BY <2>2 DEF Enters1200
    <2> QED BY <2>1, <2>2
  <1>10. ASSUME NEW v \in M PROVE v \notin moves
    BY <1>4, <1>5
  <1> HIDE DEF Then
  <1>11. {v \in moves \cup M : Then(v)} = {v \in moves : Booked(v)} \cup X
    BY <1>7, <1>8, <1>9, <1>10
  <1>12. {v \in moves : Booked(v)} \cap X = {}
    BY <1>7
  <1> QED BY <1>3, <1>11, <1>12 DEF BookedMoves

\* A commit keeps each part of what is committed, if the op has in hand what it should:
\* the deliveries, ..
LEMMA DeliveredCommits ==
  ASSUME Base, NEW d \in Txs, Commits(d), Delivered, Delivering(d), Carried(d), Reversing(d),
         \A j \in journal' : Leg(j.legs, "1200") \in Int
  PROVE  Delivered'
  <1> PICK k, o, of, M : k = Payload(d).kind /\ o = tx[d].op /\ of = Payload(d).of /\ M = tx[d].moved
    OBVIOUS
  <1> HIDE DEF Base, Delivered, Delivering, Carried, Reversing
  <1>1. /\ o # None /\ Left(d) = {} /\ o \in Ops \ applied /\ Payload(d) = P[o]
           /\ applied' = applied \cup {o}
    BY Leaves DEF Payload
  <1>2. moves' = moves \cup M
    BY DEF Commits
  <1>3. IsFiniteSet(M) /\ \A v \in M : v.qty \in Int /\ v.item \in Items /\ v.op = o
    BY <1>1 DEF Carried
  <1>4. IsFiniteSet(moves')
    BY <1>2, <1>3, FS_Union DEF Delivered
  <1>5. ASSUME NEW v \in M, v.reason = "purchase"
        PROVE  k \in {"grn", "door"} /\ o \in Kinds({"grn", "door"})
    <2>1. CASE k = "sale"
      BY <1>1, <1>5, <2>1 DEF Reversing, SoldMove
    <2>2. CASE k = "void"
      BY <1>1, <1>5, <2>2 DEF Reversing, VoidMove
    <2>3. CASE k \in {"adjust", "count"}
      BY <1>1, <1>5, <2>3 DEF Carried
    <2>4. CASE k = "lot"
      BY <1>1, <1>5, <2>4 DEF Carried
    <2>5. CASE k \notin {"sale", "void", "grn", "door", "adjust", "count", "lot"}
      BY <1>1, <1>5, <2>5 DEF Carried
    <2>6. CASE k \in {"grn", "door"}
      BY <1>1, <2>6, StockPayload
    <2> QED BY <2>1, <2>2, <2>3, <2>4, <2>5, <2>6
  <1>6. \A v \in moves' : /\ v.op \in applied' /\ v.qty \in Int /\ v.item \in Items
                          /\ v.reason = "purchase" => v.op \in Kinds({"grn", "door"})
    BY <1>1, <1>2, <1>3, <1>5 DEF Delivered
  <1>7. ASSUME NEW p \in Kinds({"grn", "door"}) PROVE DeliveryKept(p)'
    <2> PICK r : r = DeliveryRow(p)
      OBVIOUS
    <2>1. row[r] \in {"none", "blind", "priced"}
          /\ Purchases(p) = IF row[r] = "none" THEN {} ELSE {Arrived(p)}
      BY DEF Delivered, DeliveryKept
    <2>2. Purchases(p)' = Purchases(p) \cup {v \in M : v.reason = "purchase" /\ v.op = p}
      BY <1>2 DEF Purchases
    <2>3. CASE k \in {"grn", "door"} /\ p = o
      <3>1. row[r] = "none"
        BY <1>1, <2>3 DEF Base, OnRecord
      <3>2. M = {Arrived(o)} /\ Arrived(o).reason = "purchase" /\ Arrived(o).op = o
        BY <1>1, <2>3 DEF Carried, Arrived
      <3>3. Purchases(p)' = {Arrived(p)}
        BY <2>1, <2>2, <2>3, <3>1, <3>2
      <3>4. row'[r] \in {"blind", "priced"}
        BY <2>3, CommitDelivers
      <3> QED BY <3>3, <3>4 DEF DeliveryKept
    <2>4. CASE ~(k \in {"grn", "door"} /\ p = o)
      <3>1. \A v \in M : ~(v.reason = "purchase" /\ v.op = p)
        BY <1>3, <1>5, <2>4
      <3>2. Purchases(p)' = Purchases(p)
        BY <2>2, <3>1
      <3>3. row'[r] = row[r] \/ (row'[r] = "priced" /\ row[r] # "none")
        <4>1. CASE k \in PriceKinds /\ p = of
          <5>1. row'[r] = "priced"
            BY <4>1, CommitDelivers
          <5>2. row[r] # "none"
            BY <1>1, <4>1 DEF Delivering, PriceKinds
          <5> QED BY <5>1, <5>2
        <4>2. CASE ~(k \in PriceKinds /\ p = of)
          BY <2>4, <4>2, CommitDelivers
        <4> QED BY <4>1, <4>2
      <3> QED BY <2>1, <3>2, <3>3 DEF DeliveryKept
    <2> QED BY <2>3, <2>4
  <1> QED BY <1>4, <1>6, <1>7 DEF Delivered

\* The shelf is the sum of its moves.
Counted == \A i \in Items : row[Item(i)] = OnHand0 + Moved(OnItem(moves, i))

\* .. the shelf, ..
LEMMA CountedCommits ==
  ASSUME Base, NEW d \in Txs, Commits(d), Delivered, Carried(d), ItemTies(d), ShelfKept, Counted
  PROVE  Counted' /\ \A i \in Items : row'[Item(i)] \in Int
  <1> HIDE DEF Base, Delivered, Carried, ItemTies, ShelfKept, Counted
  <1> SUFFICES ASSUME NEW i \in Items
               PROVE  row'[Item(i)] = OnHand0 + Moved(OnItem(moves', i)) /\ row'[Item(i)] \in Int
    BY DEF Counted
  <1> PICK S, T, r : S = OnItem(moves, i) /\ T = OnItem(tx[d].moved, i) /\ r = Item(i)
    OBVIOUS
  <1>1. /\ tx[d].op # None /\ tx[d].op \notin applied
        /\ row'[r] = IF r \in DOMAIN tx[d].w THEN tx[d].w[r] ELSE row[r]
    BY Leaves DEF RowNames
  <1>2. OnItem(moves', i) = S \cup T
    BY DEF Commits, OnItem
  <1>3. IsFiniteSet(S) /\ IsFiniteSet(T)
    <2>1. S \subseteq moves /\ T \subseteq tx[d].moved
      BY DEF OnItem
    <2>2. IsFiniteSet(moves) /\ IsFiniteSet(tx[d].moved)
      BY <1>1 DEF Delivered, Carried
    <2> QED BY <2>1, <2>2, FS_Subset
  <1>4. S \cap T = {}
    BY <1>1 DEF OnItem, Delivered, Carried
  <1>5. \A v \in S \cup T : v.qty \in Int
    BY <1>1 DEF OnItem, Delivered, Carried
  <1>6. Moved(S \cup T) = Moved(S) + Moved(T) /\ Moved(S) \in Int /\ Moved(T) \in Int
    BY <1>3, <1>4, <1>5, MovedBoth
  <1>7. Val(d, r) = row[r] + Moved(T) /\ Val(d, r) \in Int
    BY <1>1, ItemRead
  <1>8. row'[r] = Val(d, r)
    BY <1>1 DEF Val
  <1>9. row[r] = OnHand0 + Moved(S) /\ OnHand0 \in Int
    BY StockAssumption DEF Counted
  <1> QED BY <1>2, <1>6, <1>7, <1>8, <1>9

\* The inventory account is what the moves that book come to.
Ledgered == (\A o \in Kinds({"door"}) : DeliveryRow(o) \notin adrift) => Bal("1200") = Moved(BookedMoves)

\* .. and the inventory account.
LEMMA LedgeredCommits ==
  ASSUME Base, NEW d \in Txs, Standing(d), Reversing(d), Commits(d), Ledger, Delivered, Delivering(d),
         Carried(d), Clear(d), Ledgered
  PROVE  Ledgered' /\ \A j \in journal' : Leg(j.legs, "1200") \in Int
  <1> PICK k, of, X, n : k = Payload(d).kind /\ of = Payload(d).of /\ X = Enters1200(d)
                         /\ n = Leg(tx[d].legs, "1200")
    OBVIOUS
  <1> HIDE DEF Base, Standing, Reversing, Ledger, Delivered, Delivering, Carried, Clear, Ledgered
  <1>1. tx[d].op # None /\ Left(d) = {} /\ adrift' = adrift \cup tx[d].drift
    BY Leaves DEF Commits
  <1>2. IsFiniteSet(X) /\ (\A v \in X : v.qty \in Int) /\ Moved(X) = n /\ n \in Int
    BY <1>1, BooksWhatMoved
  <1>3. ~HasEntry(d) => n = 0
    <2> SUFFICES ASSUME ~HasEntry(d) PROVE n = 0
      OBVIOUS
    <2>1. CASE k \in ShelfKinds
      <3>1. "post" \in StepSet(k)
        BY <2>1 DEF ShelfKinds, StepSet
      <3>2. tx[d].legs = NoLegs
        BY <3>1 DEF HasEntry, Books
      <3> QED BY <3>2, NoLeg
    <2>2. CASE k \notin ShelfKinds
      BY <1>1, <2>2 DEF Clear, Off
    <2> QED BY <2>1, <2>2
  <1>4. /\ BookedOn("1200", journal') = BookedOn("1200", journal) + n /\ BookedOn("1200", journal) \in Int
        /\ \A j \in journal' : Leg(j.legs, "1200") \in Int
    <2>1. Posting(d)
      BY DEF Standing
    <2>2. \A j \in journal : Leg(j.legs, "1200") \in Int
      BY DEF Delivered
    <2> QED BY <1>2, <1>3, <2>1, <2>2, AccountGains
  <1>5. ASSUME \A o \in Kinds({"door"}) : DeliveryRow(o) \notin adrift'
        PROVE  BookedOn("1200", journal') = Moved(BookedMoves')
    <2>1. Bal("1200") = Moved(BookedMoves)
      BY <1>1, <1>5 DEF Ledgered
    <2>2. k = "doorprice" => DeliveryRow(of) \notin tx[d].drift
      <3>1. k = "doorprice" => of \in Kinds({"door"})
        BY <1>1, StockPayload
      <3> QED BY <1>1, <1>5, <3>1
    <2>3. BookedMoves' = BookedMoves \cup X /\ BookedMoves \cap X = {}
      BY <2>2, BookedBecomes
    <2>4. IsFiniteSet(BookedMoves) /\ \A v \in BookedMoves \cup X : v.qty \in Int
      <3>1. BookedMoves \subseteq moves /\ IsFiniteSet(moves) /\ \A v \in moves : v.qty \in Int
        BY DEF BookedMoves, Delivered
      <3> QED BY <1>2, <3>1, FS_Subset
    <2>5. Moved(BookedMoves \cup X) = Moved(BookedMoves) + Moved(X)
      BY <1>2, <2>3, <2>4, MovedBoth
    <2>6. Moved(BookedMoves') = Moved(BookedMoves) + n
      BY <1>2, <2>3, <2>5
    <2> QED BY <1>4, <2>1, <2>6 DEF Bal
  <1>6. Ledgered'
    BY <1>5 DEF Ledgered, Bal
  <1> QED BY <1>4, <1>6

-----------------------------------------------------------------------------
(* What drawing and putting back make of the lots.                         *)

\* What is taken of a lot is no more than it has, and of no lot that is not on the shelf.
LEMMA TakeIs ==
  ASSUME NEW d, \A l \in Lots : IsLot(Val(d, LotRow(l))), NEW i, NEW want \in Int
  PROVE  LET t == Take(d, i, want) IN
         /\ t \in [Lots -> Nat]
         /\ \A l \in Lots : t[l] > 0 => /\ Val(d, LotRow(l)).state # "none"
                                        /\ t[l] <= Val(d, LotRow(l)).qty
  <1> PICK t : t = Take(d, i, want)
    OBVIOUS
  <1> SUFFICES ASSUME NEW l \in Lots
               PROVE  /\ t[l] \in Nat
                      /\ t[l] > 0 => /\ Val(d, LotRow(l)).state # "none"
                                     /\ t[l] <= Val(d, LotRow(l)).qty
    <2>1. t = [l \in Lots |-> t[l]]
      BY DEF Take
    <2> QED BY <2>1
  <1>1. CASE l \notin Shelved(d, i)
    BY <1>1 DEF Take
  <1>2. CASE l \in Shelved(d, i)
    <2> PICK S, f, n, had : /\ S = {k \in Shelved(d, i) : k < l}
                               /\ f = [k \in S |-> Val(d, LotRow(k)).qty]
                            /\ n = Val(d, LotRow(l)).qty /\ had = SumFunction(f)
      OBVIOUS
    <2>1. t[l] = Least(n, Most(0, want - had))
      BY <1>2 DEF Take
    <2>2. n \in Nat
      BY DEF IsLot
    <2>3. Val(d, LotRow(l)).state \in {"holding", "open"}
      BY <1>2 DEF Shelved
    <2>4. had \in Int
      <3>1. S \subseteq Lots
        BY DEF Shelved
      <3>2. IsFiniteSet(S)
        BY <3>1, FS_Subset, StockAssumption
      <3>3. \A k \in S : f[k] \in Int
        BY <3>1 DEF IsLot
      <3>4. SumFunctionOnSet(f, S) \in Int
        BY <3>2, <3>3, SumType
      <3> QED BY <3>4 DEF SumFunction
    <2> QED BY <2>1, <2>2, <2>3, <2>4 DEF Least, Most
  <1> QED BY <1>1, <1>2

\* A lot that another takes the place of: of the same size, and n more drawn by sales.
Becoming(b, c, n) == IsLot(c) /\ c.state # "none" /\ c.size = b.size /\ Full(c) + n = Full(b)
FreshDraw(q, t) == q = [by |-> t, undone |-> FALSE]

\* Drawing down takes of each lot what the sale then holds, and no more than is there.
LEMMA DrawnDown ==
  ASSUME NEW d, \A l \in Lots : IsLot(Val(d, LotRow(l))), NEW i, NEW want \in Int, NEW s
  PROVE  LET t == Take(d, i, want) D == DrawDown(d, i, want, s) IN
         /\ \A l \in Lots : LotRow(l) \in DOMAIN D <=> t[l] > 0
         /\ \A l \in Lots : t[l] > 0 =>
              Becoming(Val(d, LotRow(l)), D[LotRow(l)], IF s = None THEN 0 ELSE t[l])
         /\ s # None => Draws(s) \in DOMAIN D /\ FreshDraw(D[Draws(s)], t)
         /\ \A q : Draws(q) \in DOMAIN D => s # None /\ q = s
  <1> PICK t, D : t = Take(d, i, want) /\ D = DrawDown(d, i, want, s)
    OBVIOUS
  <1>1. /\ t \in [Lots -> Nat]
        /\ \A l \in Lots : t[l] > 0 => Val(d, LotRow(l)).state # "none" /\ t[l] <= Val(d, LotRow(l)).qty
    BY TakeIs
  <1>2. /\ \A l, q : LotRow(l) # Draws(q)
        /\ \A l : LotRow(l)[2] = l
        /\ \A k, l : LotRow(k) = LotRow(l) => k = l
        /\ \A p, q : Draws(p) = Draws(q) => p = q
    BY DEF LotRow, Draws
  <1> DEFINE drawn(b, n) == [b EXCEPT !.qty = @ - n, !.out = IF s = None THEN @ + n ELSE @,
                                      !.state = IF b.qty = n THEN "used" ELSE "open"]
             A == {LotRow(l) : l \in {k \in Lots : t[k] > 0}}
             lots == [r \in A |-> drawn(Val(d, r), t[r[2]])]
  <1>3. D = IF s = None THEN lots ELSE (Draws(s) :> [by |-> t, undone |-> FALSE]) @@ lots
    BY DEF DrawDown
  <1>4. \A l \in Lots : LotRow(l) \in A <=> t[l] > 0
    BY <1>2
  <1>5. \A q : Draws(q) \notin A
    BY <1>2
  <1>6. ASSUME NEW l \in Lots, t[l] > 0
        PROVE  Becoming(Val(d, LotRow(l)), drawn(Val(d, LotRow(l)), t[l]), IF s = None THEN 0 ELSE t[l])
    <2> PICK b, n, c : b = Val(d, LotRow(l)) /\ n = t[l] /\ c = drawn(b, n)
      OBVIOUS
    <2>1. n \in Nat /\ n > 0 /\ b.state # "none" /\ n <= b.qty /\ IsLot(b)
      BY <1>1, <1>6
    <2>2. /\ c = [item |-> b.item, qty |-> b.qty - n, size |-> b.size,
                  state |-> IF b.qty = n THEN "used" ELSE "open",
                  out |-> IF s = None THEN b.out + n ELSE b.out, away |-> b.away]
          /\ b.qty \in Nat /\ b.out \in Int /\ b.away \in Int /\ b.size \in Int /\ b.item \in Items
      BY <2>1 DEF IsLot
    <2>3. IsLot(c) /\ c.state # "none" /\ c.size = b.size
      <3>1. b.qty - n \in Nat /\ (IF s = None THEN b.out + n ELSE b.out) \in Int
        BY <2>1, <2>2
      <3>2. PICK x, y, z : x = b.qty - n /\ y = (IF s = None THEN b.out + n ELSE b.out)
                          /\ z = (IF b.qty = n THEN "used" ELSE "open")
        OBVIOUS
      <3>3. c = [item |-> b.item, qty |-> x, size |-> b.size, state |-> z, out |-> y, away |-> b.away]
        BY <2>2, <3>2
      <3> QED BY <2>2, <3>1, <3>2, <3>3 DEF IsLot
    <2>4. Full(c) + (IF s = None THEN 0 ELSE n) = Full(b)
      BY <2>1, <2>2 DEF Full
    <2> QED BY <2>3, <2>4 DEF Becoming
  <1>7. \A l \in Lots : t[l] > 0 => LotRow(l) \in A /\ lots[LotRow(l)] = drawn(Val(d, LotRow(l)), t[l])
    <2> SUFFICES ASSUME NEW l \in Lots, t[l] > 0
                 PROVE  LotRow(l) \in A /\ lots[LotRow(l)] = drawn(Val(d, LotRow(l)), t[l])
      OBVIOUS
    <2>1. LotRow(l) \in A /\ LotRow(l)[2] = l
      BY <1>2, <1>4
    <2> HIDE DEF drawn, A
    <2> QED BY <2>1
  <1>8. DOMAIN lots = A
    OBVIOUS
  <1> HIDE DEF lots, A, drawn
  <1>9. /\ \A l \in Lots : LotRow(l) \in DOMAIN D <=> t[l] > 0
        /\ \A l \in Lots : t[l] > 0 => D[LotRow(l)] = lots[LotRow(l)]
        /\ s # None => Draws(s) \in DOMAIN D /\ FreshDraw(D[Draws(s)], t)
        /\ \A q : Draws(q) \in DOMAIN D => s # None /\ q = s
    <2>1. CASE s = None
      BY <2>1, <1>2, <1>3, <1>4, <1>5, <1>7, <1>8
    <2>2. CASE s # None
      <3> PICK x, v : x = Draws(s) /\ v = [by |-> t, undone |-> FALSE]
        OBVIOUS
      <3>1. D = (x :> v) @@ lots
        BY <2>2, <1>3
      <3>2. DOMAIN D = {x} \cup A /\ D[x] = v /\ \A r \in A : r # x => D[r] = lots[r]
        BY <3>1, <1>8 DEF @@, :>
      <3>3. FreshDraw(D[x], t)
        BY <3>2 DEF FreshDraw
      <3> QED BY <2>2, <3>2, <3>3, <1>2, <1>4, <1>5, <1>7
    <2> QED BY <2>1, <2>2
  <1> QED BY <1>6, <1>7, <1>9

\* Putting back returns to each lot what the sale's draw had of it, and marks the draw.
LEMMA Undrawn ==
  ASSUME NEW d, NEW s, IsDraw(Val(d, Draws(s))), \A l \in Lots : IsLot(Val(d, LotRow(l))),
         \A l \in Lots : Val(d, Draws(s)).by[l] > 0 => Val(d, LotRow(l)).state # "none"
  PROVE  LET q == Val(d, Draws(s)) U == Undraw(d, s) IN
         /\ \A l \in Lots : LotRow(l) \in DOMAIN U <=> Held(q, l) > 0
         /\ \A l \in Lots : Held(q, l) > 0 => Becoming(Val(d, LotRow(l)), U[LotRow(l)], -Held(q, l))
         /\ Draws(s) \in DOMAIN U /\ U[Draws(s)] = [by |-> q.by, undone |-> TRUE]
         /\ \A x : Draws(x) \in DOMAIN U => x = s
  <1> PICK q, U : q = Val(d, Draws(s)) /\ U = Undraw(d, s)
    OBVIOUS
  <1>1. /\ \A l, x : LotRow(l) # Draws(x)
        /\ \A l : LotRow(l)[2] = l
        /\ \A k, l : LotRow(k) = LotRow(l) => k = l
        /\ \A p, x : Draws(p) = Draws(x) => p = x
    BY DEF LotRow, Draws
  <1> DEFINE of == IF q.undone THEN {} ELSE {l \in Lots : q.by[l] > 0}
             back(b, n) == IF b.state = "wasted" THEN [b EXCEPT !.away = @ + n]
                           ELSE [b EXCEPT !.qty = @ + n, !.state = "open"]
             A == {LotRow(l) : l \in of}
             lots == [r \in A |-> back(Val(d, r), q.by[r[2]])]
             v == [q EXCEPT !.undone = TRUE]
  <1>2. U = (Draws(s) :> v) @@ lots
    BY DEF Undraw
  <1>3. v = [by |-> q.by, undone |-> TRUE] /\ q.by \in [Lots -> Nat] /\ q.undone \in BOOLEAN
    <2>1. q = [by |-> q.by, undone |-> q.undone] /\ q.by \in [Lots -> Nat] /\ q.undone \in BOOLEAN
      BY DEF IsDraw
    <2> PICK x, y : x = q.by /\ y = q.undone
      OBVIOUS
    <2>2. q = [by |-> x, undone |-> y]
      BY <2>1
    <2> PICK c : c = [q EXCEPT !.undone = TRUE]
      OBVIOUS
    <2>3. c = [by |-> x, undone |-> TRUE]
      BY <2>2, Zenon
    <2> QED BY <2>1, <2>3
  <1>4. \A l \in Lots : l \in of <=> Held(q, l) > 0
    BY <1>3 DEF Held
  <1>5. \A l \in Lots : LotRow(l) \in A <=> Held(q, l) > 0
    <2>1. \A l \in Lots : LotRow(l) \in A <=> l \in of
      BY <1>1
    <2> QED BY <2>1, <1>4
  <1>6. \A x : Draws(x) \notin A
    BY <1>1
  <1>7. ASSUME NEW l \in Lots, Held(q, l) > 0
        PROVE  Becoming(Val(d, LotRow(l)), back(Val(d, LotRow(l)), q.by[l]), -Held(q, l))
    <2> PICK b, n, c : b = Val(d, LotRow(l)) /\ n = q.by[l] /\ c = back(b, n)
      OBVIOUS
    <2>1. n \in Nat /\ n > 0 /\ Held(q, l) = n /\ b.state # "none" /\ IsLot(b)
      BY <1>3, <1>7 DEF Held
    <2>2. /\ c = [item |-> b.item, qty |-> IF b.state = "wasted" THEN b.qty ELSE b.qty + n,
             size |-> b.size,
                  state |-> IF b.state = "wasted" THEN "wasted" ELSE "open",
                  out |-> b.out, away |-> IF b.state = "wasted" THEN b.away + n ELSE b.away]
          /\ b.qty \in Nat /\ b.out \in Int /\ b.away \in Int /\ b.size \in Int /\ b.item \in Items
      BY <2>1 DEF IsLot
    <2>3. IsLot(c) /\ c.state # "none" /\ c.size = b.size
      BY <2>1, <2>2 DEF IsLot
    <2>4. Full(c) + (-n) = Full(b)
      BY <2>1, <2>2 DEF Full
    <2> QED BY <2>1, <2>3, <2>4 DEF Becoming
  <1>8. \A l \in Lots : Held(q, l) > 0 => LotRow(l) \in A
        /\ lots[LotRow(l)] = back(Val(d, LotRow(l)), q.by[l])
    BY <1>1, <1>5
  <1>9. DOMAIN lots = A
    OBVIOUS
  <1> HIDE DEF lots, A, back, v
  <1>10. DOMAIN U = {Draws(s)} \cup A /\ U[Draws(s)] = v /\ \A r \in A : r # Draws(s) => U[r] = lots[r]
    <2> PICK x : x = Draws(s)
      OBVIOUS
    <2>1. U = (x :> v) @@ lots
      BY <1>2
    <2>2. DOMAIN U = {x} \cup A /\ U[x] = v /\ \A r \in A : r # x => U[r] = lots[r]
      BY <2>1, <1>9 DEF @@, :>
    <2> QED BY <2>2
  <1>11. \A l \in Lots : LotRow(l) \in DOMAIN U <=> Held(q, l) > 0
    BY <1>1, <1>5, <1>10
  <1>12. \A l \in Lots : Held(q, l) > 0 => Becoming(Val(d, LotRow(l)), U[LotRow(l)], -Held(q, l))
    BY <1>1, <1>7, <1>8, <1>10
  <1>13. \A x : Draws(x) \in DOMAIN U => x = s
    BY <1>1, <1>6, <1>10
  <1> QED BY <1>3, <1>10, <1>11, <1>12, <1>13

-----------------------------------------------------------------------------
(* The lots and the draws, from statement to statement.                    *)

\* The rows of lots and draws that a statement leaves are those of D.
ShelfTo(d, D) ==
  /\ \A l \in Lots : /\ LotRow(l) \in DOMAIN tx'[d].w <=> LotRow(l) \in DOMAIN D
                     /\ LotRow(l) \in DOMAIN D => tx'[d].w[LotRow(l)] = D[LotRow(l)]
  /\ \A s \in Sold : /\ Draws(s) \in DOMAIN tx'[d].w <=> Draws(s) \in DOMAIN D
                     /\ Draws(s) \in DOMAIN D => tx'[d].w[Draws(s)] = D[Draws(s)]
NoShelf(w) == (\A l \in Lots : LotRow(l) \notin DOMAIN w) /\ \A s \in Sold : Draws(s) \notin DOMAIN w

\* A statement that carries goods has in hand of lots and draws what it drew, ..
LEMMA CarriesShelf ==
  ASSUME NEW d, NEW i, NEW qty, NEW D, NEW w, Carries(d, i, qty, D, w), NoShelf(w)
  PROVE  ShelfTo(d, D)
  <1> PICK u, x : u = tx'[d].w /\ x = Item(i)
    OBVIOUS
  <1>1. /\ DOMAIN u = {x} \cup DOMAIN D \cup DOMAIN w
        /\ \A r \in DOMAIN D : r # x => u[r] = D[r]
    BY CarriesIs
  <1>2. \A y : LotRow(y) # x /\ Draws(y) # x
    BY DEF LotRow, Draws, Item
  <1> QED BY <1>1, <1>2 DEF ShelfTo, NoShelf

\* .. or nothing.
LEMMA PutShelf ==
  ASSUME NEW w, NoShelf(w), NEW x, NEW v, x[1] \notin {"lot", "draws"} PROVE NoShelf(Put(w, x, v))
  <1>1. DOMAIN Put(w, x, v) = {x} \cup DOMAIN w
    BY DEF Put, @@, :>
  <1>2. \A y : LotRow(y) # x /\ Draws(y) # x
    BY DEF LotRow, Draws
  <1> QED BY <1>1, <1>2 DEF NoShelf

\* Each op changes lots and draws in one statement.
LEMMA OneLotStep ==
  ASSUME Base, NEW d \in Txs, tx[d].op # None, NEW s \in LotSteps, s \in Left(d)
  PROVE  LotSteps \cap (Left(d) \ {s}) = {}
  <1> PICK k, L : k = Payload(d).kind /\ L = Left(d)
    OBVIOUS
  <1>1. L \subseteq StepSet(k) /\ k \in AllKinds
    BY LeftOf, StockPayload
  <1>2. \A a \in StepSet(k) : Whose(a, k)
    BY <1>1, WhoseStep
  <1>3. \A a \in LotSteps \cap L : Whose(a, k)
    BY <1>1, <1>2
  <1>4. \A a, b \in LotSteps : Whose(a, k) /\ Whose(b, k) => a = b
    BY DEF LotSteps, Whose
  <1> QED BY <1>3, <1>4

\* One that is another's leaves them.
LEMMA ShelvingKept ==
  ASSUME Base, NEW d \in Txs, Shelving(d), tx[d].op # None, tx[d].todo # <<>>,
         Makes(d, Head(tx[d].todo)), Head(tx[d].todo) \notin LotSteps
  PROVE  Shelving(d)'
  <1> PICK s, w, u : s = Head(tx[d].todo) /\ w = tx[d].w /\ u = tx'[d].w
    OBVIOUS
  <1> HIDE DEF Base, Shelving
  <1>1. /\ Left(d)' = Left(d) \ {s} /\ tx'[d].op = tx[d].op /\ row' = row
        /\ \A r : r[1] \notin RowsOf(s) => SameAt(d, r)
    BY Keeps DEF SameAt
  <1>2. Payload(d)' = Payload(d)
    BY <1>1 DEF Payload
  <1>3. "lot" \notin RowsOf(s) /\ "draws" \notin RowsOf(s)
    BY DEF RowsOf, LotSteps, ClaimKinds
  <1>4. \A x : /\ LotRow(x) \in DOMAIN u <=> LotRow(x) \in DOMAIN w
               /\ LotRow(x) \in DOMAIN w => u[LotRow(x)] = w[LotRow(x)]
               /\ Draws(x) \in DOMAIN u <=> Draws(x) \in DOMAIN w
               /\ Draws(x) \in DOMAIN w => u[Draws(x)] = w[Draws(x)]
    BY <1>1, <1>3 DEF SameAt, LotRow, Draws
  <1>5. LotSteps \cap Left(d)' = LotSteps \cap Left(d)
    BY <1>1
  <1>6. DrawsOf(d)' = DrawsOf(d)
    BY <1>1, <1>2 DEF DrawsOf
  <1>7. \A l : DrawnMore(d, l)' = DrawnMore(d, l)
    BY <1>1, <1>2, <1>4, <1>6 DEF DrawnMore
  <1>8. ASSUME NEW l \in Lots PROVE LotTies(d, l)'
    <2>1. LotTies(d, l)
      BY DEF Shelving
    <2> QED BY <1>1, <1>2, <1>4, <1>7, <2>1 DEF LotTies
  <1> QED BY <1>1, <1>2, <1>4, <1>5, <1>6, <1>8 DEF Shelving

\* What a lot step leaves, when it leaves lots and draws that tie.
LEMMA ShelvingIs ==
  ASSUME Base, NEW d \in Txs, tx[d].op # None, tx[d].todo # <<>>, Makes(d, Head(tx[d].todo)),
         Head(tx[d].todo) \in LotSteps, NEW s, s = DrawsOf(d), Payload(d).kind \in Drawers => s \in Sold,
         \A x \in Sold : Draws(x) \in DOMAIN tx'[d].w =>
           /\ Payload(d).kind \in Drawers /\ x = s /\ IsDraw(tx'[d].w[Draws(s)])
           /\ \A l \in Lots : tx'[d].w[Draws(s)].by[l] > 0 => row[LotRow(l)].state # "none",
         NEW m, \A l \in Lots :
           m[l] = IF Payload(d).kind \in Drawers /\ Draws(s) \in DOMAIN tx'[d].w
                  THEN Held(tx'[d].w[Draws(s)], l) - Held(row[Draws(s)], l) ELSE 0,
         \A l \in Lots :
           LET r == LotRow(l) IN
           IF r \notin DOMAIN tx'[d].w THEN m[l] = 0
           ELSE /\ IsLot(tx'[d].w[r]) /\ tx'[d].w[r].state # "none"
                /\ IF row[r].state = "none"
                   THEN /\ tx'[d].w[r].size = Full(tx'[d].w[r]) /\ m[l] = 0
                        /\ Payload(d).kind \in {"grn", "door"} /\ Payload(d).lot = l
                   ELSE tx'[d].w[r].size = row[r].size /\ Full(tx'[d].w[r]) + m[l] = Full(row[r])
  PROVE  Shelving(d)'
  <1> PICK a, u : a = Head(tx[d].todo) /\ u = tx'[d].w
    OBVIOUS
  <1> HIDE DEF Base
  <1>1. a \in Left(d) /\ Left(d)' = Left(d) \ {a} /\ tx'[d].op = tx[d].op /\ row' = row
    BY Keeps
  <1>2. Payload(d)' = Payload(d)
    BY <1>1 DEF Payload
  <1>3. LotSteps \cap Left(d)' = {}
    BY <1>1, OneLotStep
  <1>4. DrawsOf(d)' = s
    BY <1>1, <1>2 DEF DrawsOf
  <1>5. \A l \in Lots : DrawnMore(d, l)' = m[l]
    BY <1>1, <1>2, <1>4 DEF DrawnMore
  <1>6. ASSUME NEW l \in Lots PROVE LotTies(d, l)'
    BY <1>1, <1>2, <1>5 DEF LotTies
  <1> QED BY <1>1, <1>2, <1>3, <1>4, <1>6 DEF Shelving

\* What a lot step finds.
LEMMA ShelfFound ==
  ASSUME ShelfKept, NEW d, tx[d].op # None, Shelving(d), NEW a \in LotSteps, a \in Left(d)
  PROVE  /\ NoShelf(tx[d].w)
         /\ \A l \in Lots : Val(d, LotRow(l)) = row[LotRow(l)] /\ IsLot(row[LotRow(l)])
         /\ \A s \in Sold : /\ Val(d, Draws(s)) = row[Draws(s)] /\ IsDraw(row[Draws(s)])
                            /\ \A l \in Lots : row[Draws(s)].by[l] > 0 => row[LotRow(l)].state # "none"
  <1>1. LotSteps \cap Left(d) # {}
    OBVIOUS
  <1> QED BY <1>1, LotUnread DEF NoShelf, ShelfKept

\* Nothing of the shelf's lots moves.
LEMMA ShelfStill ==
  ASSUME Base, ShelfKept, NEW d \in Txs, Shelving(d), tx[d].op # None, tx[d].todo # <<>>,
         Makes(d, Head(tx[d].todo)), Head(tx[d].todo) \in LotSteps, NoShelf(tx'[d].w),
         NEW s, s = DrawsOf(d), Payload(d).kind \in Drawers => s \in Sold
  PROVE  Shelving(d)'
  <1> PICK u, m : u = tx'[d].w /\ m = [l \in Lots |-> 0]
    OBVIOUS
  <1> HIDE DEF Base, ShelfKept, Shelving
  <1>1. /\ \A l \in Lots : LotRow(l) \notin DOMAIN u
        /\ \A x \in Sold : Draws(x) \notin DOMAIN u
    BY DEF NoShelf
  <1>2. \A l \in Lots : m[l] = 0
    OBVIOUS
  <1>3. \A x \in Sold : Draws(x) \in DOMAIN u =>
          /\ Payload(d).kind \in Drawers /\ x = s /\ IsDraw(u[Draws(s)])
          /\ \A l \in Lots : u[Draws(s)].by[l] > 0 => row[LotRow(l)].state # "none"
    BY <1>1
  <1>4. \A l \in Lots :
          m[l] = IF Payload(d).kind \in Drawers /\ Draws(s) \in DOMAIN u
                 THEN Held(u[Draws(s)], l) - Held(row[Draws(s)], l) ELSE 0
    BY <1>1, <1>2
  <1>5. \A l \in Lots :
          LET r == LotRow(l) IN
          IF r \notin DOMAIN u THEN m[l] = 0
          ELSE /\ IsLot(u[r]) /\ u[r].state # "none"
               /\ IF row[r].state = "none"
                  THEN /\ u[r].size = Full(u[r]) /\ m[l] = 0
                       /\ Payload(d).kind \in {"grn", "door"} /\ Payload(d).lot = l
                  ELSE u[r].size = row[r].size /\ Full(u[r]) + m[l] = Full(row[r])
    BY <1>1, <1>2
  <1> QED BY <1>3, <1>4, <1>5, ShelvingIs

\* Lots are drawn, and by no sale.
LEMMA ShelfOut ==
  ASSUME Base, ShelfKept, NEW d \in Txs, Shelving(d), tx[d].op # None, tx[d].todo # <<>>,
         Makes(d, Head(tx[d].todo)), Head(tx[d].todo) \in LotSteps, Payload(d).kind \notin Drawers,
         NEW i, NEW q, NEW want \in Int, Carries(d, i, q, DrawDown(d, i, want, None), tx[d].w)
  PROVE  Shelving(d)'
  <1> PICK a, u, t, D, s, m : /\ a = Head(tx[d].todo) /\ u = tx'[d].w /\ t = Take(d, i, want)
                              /\ D = DrawDown(d, i, want, None) /\ s = DrawsOf(d)
                                  /\ m = [l \in Lots |-> 0]
    OBVIOUS
  <1> HIDE DEF Base, ShelfKept, Shelving
  <1>1. a \in Left(d)
    BY Keeps
  <1>2. /\ NoShelf(tx[d].w)
        /\ \A l \in Lots : Val(d, LotRow(l)) = row[LotRow(l)] /\ IsLot(row[LotRow(l)])
    BY <1>1, ShelfFound
  <1>3. ShelfTo(d, D)
    BY <1>2, CarriesShelf
  <1>4. /\ \A l \in Lots : LotRow(l) \in DOMAIN D <=> t[l] > 0
        /\ \A l \in Lots : t[l] > 0 => Becoming(Val(d, LotRow(l)), D[LotRow(l)], 0)
        /\ \A x : Draws(x) \notin DOMAIN D
    <2>1. \A l \in Lots : IsLot(Val(d, LotRow(l)))
      BY <1>2
    <2> PICK z : z = None
      OBVIOUS
    <2>2. /\ \A l \in Lots : LotRow(l) \in DOMAIN D <=> t[l] > 0
          /\ \A l \in Lots : t[l] > 0 =>
               Becoming(Val(d, LotRow(l)), D[LotRow(l)], IF z = None THEN 0 ELSE t[l])
          /\ \A x : Draws(x) \in DOMAIN D => z # None /\ x = z
      BY <2>1, DrawnDown
    <2> QED BY <2>2
  <1>5. \A l \in Lots : LotRow(l) \in DOMAIN u => Becoming(row[LotRow(l)], u[LotRow(l)], 0)
    BY <1>2, <1>3, <1>4 DEF ShelfTo
  <1>6. \A x \in Sold : Draws(x) \notin DOMAIN u
    BY <1>3, <1>4 DEF ShelfTo
  <1>7. \A l \in Lots : LotRow(l) \in DOMAIN u => row[LotRow(l)].state # "none"
    <2> SUFFICES ASSUME NEW l \in Lots, LotRow(l) \in DOMAIN u PROVE row[LotRow(l)].state # "none"
      OBVIOUS
    <2>1. t[l] > 0
      BY <1>3, <1>4 DEF ShelfTo
    <2>2. \A k \in Lots : IsLot(Val(d, LotRow(k)))
      BY <1>2
    <2>3. Val(d, LotRow(l)).state # "none"
      BY <2>1, <2>2, TakeIs
    <2> QED BY <1>2, <2>3
  <1>8. \A l \in Lots : m[l] = 0
    OBVIOUS
  <1>9. \A x \in Sold : Draws(x) \in DOMAIN u =>
          /\ Payload(d).kind \in Drawers /\ x = s /\ IsDraw(u[Draws(s)])
          /\ \A l \in Lots : u[Draws(s)].by[l] > 0 => row[LotRow(l)].state # "none"
    BY <1>6
  <1>10. \A l \in Lots :
          m[l] = IF Payload(d).kind \in Drawers /\ Draws(s) \in DOMAIN u
                 THEN Held(u[Draws(s)], l) - Held(row[Draws(s)], l) ELSE 0
    BY <1>8
  <1>11. \A l \in Lots :
          LET r == LotRow(l) IN
          IF r \notin DOMAIN u THEN m[l] = 0
          ELSE /\ IsLot(u[r]) /\ u[r].state # "none"
               /\ IF row[r].state = "none"
                  THEN /\ u[r].size = Full(u[r]) /\ m[l] = 0
                       /\ Payload(d).kind \in {"grn", "door"} /\ Payload(d).lot = l
                  ELSE u[r].size = row[r].size /\ Full(u[r]) + m[l] = Full(row[r])
    BY <1>5, <1>7, <1>8 DEF Becoming
  <1>12. Payload(d).kind \in Drawers => s \in Sold
    OBVIOUS
  <1> QED BY <1>9, <1>10, <1>11, <1>12, ShelvingIs

\* Lots are drawn by a sale.
LEMMA DrawnBySale ==
  ASSUME NEW d, \A l \in Lots : IsLot(Val(d, LotRow(l))), NEW i, NEW want \in Int, NEW s, s # None
  PROVE  LET t == Take(d, i, want) D == DrawDown(d, i, want, s) IN
         /\ \A l \in Lots : LotRow(l) \in DOMAIN D <=> t[l] > 0
         /\ \A l \in Lots : t[l] > 0 => Becoming(Val(d, LotRow(l)), D[LotRow(l)], t[l])
         /\ Draws(s) \in DOMAIN D /\ FreshDraw(D[Draws(s)], t)
         /\ \A x : Draws(x) \in DOMAIN D => x = s
  <1> PICK t, D : t = Take(d, i, want) /\ D = DrawDown(d, i, want, s)
    OBVIOUS
  <1>1. \A l \in Lots : LotRow(l) \in DOMAIN D <=> t[l] > 0
    BY DrawnDown
  <1>2. \A l \in Lots : t[l] > 0 =>
              Becoming(Val(d, LotRow(l)), D[LotRow(l)], IF s = None THEN 0 ELSE t[l])
    BY DrawnDown
  <1>3. Draws(s) \in DOMAIN D /\ FreshDraw(D[Draws(s)], t)
    BY DrawnDown
  <1>4. \A x : Draws(x) \in DOMAIN D => s # None /\ x = s
    BY DrawnDown
  <1> QED BY <1>1, <1>2, <1>3, <1>4

\* A sale that draws keeps its lots tied.
LEMMA ShelfSold ==
  ASSUME Base, ShelfKept, NEW d \in Txs, Shelving(d), tx[d].op # None, tx[d].todo # <<>>,
         Makes(d, Head(tx[d].todo)), Head(tx[d].todo) \in LotSteps, Payload(d).kind = "sale",
         NEW s, s = tx[d].op, s \in Sold,
         NEW i, NEW q, NEW want \in Int, NEW w, NoShelf(w), Carries(d, i, q, DrawDown(d, i, want, s), w)
  PROVE  Shelving(d)'
  <1> PICK a, u, t, D : /\ a = Head(tx[d].todo) /\ u = tx'[d].w /\ t = Take(d, i, want)
                        /\ D = DrawDown(d, i, want, s)
    OBVIOUS
  <1> HIDE DEF Base, ShelfKept, Shelving
  <1>1. a \in Left(d) /\ s \notin applied /\ s # None
    BY Keeps, StockPayload
  <1>2. \A l \in Lots : Val(d, LotRow(l)) = row[LotRow(l)] /\ IsLot(row[LotRow(l)])
    BY <1>1, ShelfFound
  <1>3. ShelfTo(d, D)
    BY CarriesShelf
  <1>4. \A l \in Lots : IsLot(Val(d, LotRow(l)))
    BY <1>2
  <1>5. /\ \A l \in Lots : LotRow(l) \in DOMAIN D <=> t[l] > 0
        /\ \A l \in Lots : t[l] > 0 => Becoming(Val(d, LotRow(l)), D[LotRow(l)], t[l])
        /\ Draws(s) \in DOMAIN D /\ FreshDraw(D[Draws(s)], t)
        /\ \A x : Draws(x) \in DOMAIN D => x = s
    <2>1. s # None
      BY <1>1
    <2> QED BY <1>4, <2>1, DrawnBySale
  <1>6. /\ t \in [Lots -> Nat]
        /\ \A l \in Lots : t[l] > 0 => row[LotRow(l)].state # "none"
    BY <1>2, <1>4, TakeIs
  <1>7. Draws(s) \in DOMAIN u /\ FreshDraw(u[Draws(s)], t)
    BY <1>3, <1>5 DEF ShelfTo
  <1>8. IsDraw(u[Draws(s)]) /\ u[Draws(s)].by = t /\ \A l \in Lots : Held(u[Draws(s)], l) = t[l]
    BY <1>6, <1>7 DEF IsDraw, Held, FreshDraw
  <1>9. \A l \in Lots : Held(row[Draws(s)], l) = 0
    <2>1. row[Draws(s)] = NotDrawn
      BY <1>1 DEF ShelfKept
    <2> QED BY <2>1 DEF Held, NotDrawn, NothingDrawn
  <1>10. s = DrawsOf(d) /\ Payload(d).kind \in Drawers
    BY DEF DrawsOf, Drawers
  <1>11. \A x \in Sold : Draws(x) \in DOMAIN u =>
          /\ Payload(d).kind \in Drawers /\ x = s /\ IsDraw(u[Draws(s)])
          /\ \A l \in Lots : u[Draws(s)].by[l] > 0 => row[LotRow(l)].state # "none"
    BY <1>3, <1>5, <1>6, <1>8, <1>10 DEF ShelfTo
  <1>12. \A l \in Lots :
          t[l] = IF Payload(d).kind \in Drawers /\ Draws(s) \in DOMAIN u
                 THEN Held(u[Draws(s)], l) - Held(row[Draws(s)], l) ELSE 0
    <2> SUFFICES ASSUME NEW l \in Lots PROVE t[l] = Held(u[Draws(s)], l) - Held(row[Draws(s)], l)
      BY <1>7, <1>10
    <2> PICK x, y, z : x = t[l] /\ y = Held(u[Draws(s)], l) /\ z = Held(row[Draws(s)], l)
      OBVIOUS
    <2>1. x \in Nat /\ y = x /\ z = 0
      BY <1>6, <1>8, <1>9
    <2> QED BY <2>1
  <1>13. \A l \in Lots : LotRow(l) \in DOMAIN u <=> t[l] > 0
    BY <1>3, <1>5 DEF ShelfTo
  <1>14. \A l \in Lots : t[l] > 0 => Becoming(row[LotRow(l)], u[LotRow(l)], t[l])
    BY <1>2, <1>3, <1>5 DEF ShelfTo
  <1>15. \A l \in Lots :
          LET r == LotRow(l) IN
          IF r \notin DOMAIN u THEN t[l] = 0
          ELSE /\ IsLot(u[r]) /\ u[r].state # "none"
               /\ IF row[r].state = "none"
                  THEN /\ u[r].size = Full(u[r]) /\ t[l] = 0
                       /\ Payload(d).kind \in {"grn", "door"} /\ Payload(d).lot = l
                  ELSE u[r].size = row[r].size /\ Full(u[r]) + t[l] = Full(row[r])
    BY <1>6, <1>13, <1>14 DEF Becoming
  <1> QED BY <1>10, <1>11, <1>12, <1>15, ShelvingIs

\* What a sale drew comes back.
LEMMA ShelfBack ==
  ASSUME Base, ShelfKept, NEW d \in Txs, Shelving(d), tx[d].op # None, tx[d].todo # <<>>,
         Makes(d, Head(tx[d].todo)), Head(tx[d].todo) \in LotSteps,
             Payload(d).kind \in {"refund", "void"},
         NEW s, s = Payload(d).of, s \in Sold,
         NEW i, NEW q, Carries(d, i, q, Undraw(d, s), tx[d].w)
  PROVE  Shelving(d)'
  <1> PICK a, u, b, U, m : /\ a = Head(tx[d].todo) /\ u = tx'[d].w /\ b = row[Draws(s)]
                           /\ U = Undraw(d, s) /\ m = [l \in Lots |-> -Held(b, l)]
    OBVIOUS
  <1> HIDE DEF Base, ShelfKept, Shelving
  <1>1. a \in Left(d)
    BY Keeps
  <1>2. /\ NoShelf(tx[d].w)
        /\ \A l \in Lots : Val(d, LotRow(l)) = row[LotRow(l)] /\ IsLot(row[LotRow(l)])
        /\ Val(d, Draws(s)) = b /\ IsDraw(b)
        /\ \A l \in Lots : b.by[l] > 0 => row[LotRow(l)].state # "none"
    BY <1>1, ShelfFound
  <1>3. ShelfTo(d, U)
    BY <1>2, CarriesShelf
  <1>4. /\ IsDraw(Val(d, Draws(s)))
        /\ \A l \in Lots : IsLot(Val(d, LotRow(l)))
        /\ \A l \in Lots : Val(d, Draws(s)).by[l] > 0 => Val(d, LotRow(l)).state # "none"
    BY <1>2
  <1>5. /\ \A l \in Lots : LotRow(l) \in DOMAIN U <=> Held(b, l) > 0
        /\ \A l \in Lots : Held(b, l) > 0 => Becoming(row[LotRow(l)], U[LotRow(l)], -Held(b, l))
        /\ Draws(s) \in DOMAIN U /\ U[Draws(s)] = [by |-> b.by, undone |-> TRUE]
        /\ \A x : Draws(x) \in DOMAIN U => x = s
    BY <1>2, <1>4, Undrawn
  <1>6. b.by \in [Lots -> Nat] /\ \A l \in Lots : Held(b, l) \in Nat /\ (Held(b, l) > 0 => b.by[l] > 0)
    BY <1>2 DEF IsDraw, Held
  <1>7. Draws(s) \in DOMAIN u /\ u[Draws(s)] = [by |-> b.by, undone |-> TRUE]
    BY <1>3, <1>5 DEF ShelfTo
  <1>8. IsDraw(u[Draws(s)]) /\ u[Draws(s)].by = b.by /\ \A l \in Lots : Held(u[Draws(s)], l) = 0
    BY <1>6, <1>7 DEF IsDraw, Held
  <1>9. s = DrawsOf(d) /\ Payload(d).kind \in Drawers
    BY DEF DrawsOf, Drawers
  <1>10. \A x \in Sold : Draws(x) \in DOMAIN u =>
          /\ Payload(d).kind \in Drawers /\ x = s /\ IsDraw(u[Draws(s)])
          /\ \A l \in Lots : u[Draws(s)].by[l] > 0 => row[LotRow(l)].state # "none"
    BY <1>2, <1>3, <1>5, <1>8, <1>9 DEF ShelfTo
  <1>11. \A l \in Lots : m[l] = -Held(b, l)
    OBVIOUS
  <1>12. \A l \in Lots :
          m[l] = IF Payload(d).kind \in Drawers /\ Draws(s) \in DOMAIN u
                 THEN Held(u[Draws(s)], l) - Held(row[Draws(s)], l) ELSE 0
    <2> SUFFICES ASSUME NEW l \in Lots PROVE m[l] = Held(u[Draws(s)], l) - Held(row[Draws(s)], l)
      BY <1>7, <1>9
    <2> PICK x, y, z : x = m[l] /\ y = Held(u[Draws(s)], l) /\ z = Held(b, l)
      OBVIOUS
    <2>1. z \in Nat /\ y = 0 /\ x = -z
      BY <1>6, <1>8, <1>11
    <2> QED BY <2>1
  <1>13. \A l \in Lots : LotRow(l) \in DOMAIN u <=> Held(b, l) > 0
    BY <1>3, <1>5 DEF ShelfTo
  <1>14. \A l \in Lots : Held(b, l) > 0 => Becoming(row[LotRow(l)], u[LotRow(l)], m[l])
    BY <1>3, <1>5, <1>11 DEF ShelfTo
  <1>15. \A l \in Lots :
          LET r == LotRow(l) IN
          IF r \notin DOMAIN u THEN m[l] = 0
          ELSE /\ IsLot(u[r]) /\ u[r].state # "none"
               /\ IF row[r].state = "none"
                  THEN /\ u[r].size = Full(u[r]) /\ m[l] = 0
                       /\ Payload(d).kind \in {"grn", "door"} /\ Payload(d).lot = l
                  ELSE u[r].size = row[r].size /\ Full(u[r]) + m[l] = Full(row[r])
    BY <1>2, <1>6, <1>11, <1>13, <1>14 DEF Becoming
  <1> QED BY <1>9, <1>10, <1>12, <1>15, ShelvingIs

\* A lot arrives, or is emptied.
LEMMA ShelfOne ==
  ASSUME Base, ShelfKept, NEW d \in Txs, Shelving(d), tx[d].op # None, tx[d].todo # <<>>,
         Makes(d, Head(tx[d].todo)), Head(tx[d].todo) \in LotSteps, Payload(d).kind \notin Drawers,
         NEW l \in Lots, LotRow(l) \in DOMAIN tx'[d].w,
         \A k \in Lots : LotRow(k) \in DOMAIN tx'[d].w => k = l,
         \A x \in Sold : Draws(x) \notin DOMAIN tx'[d].w,
         NEW c, c = tx'[d].w[LotRow(l)], IsLot(c), c.state # "none",
         IF row[LotRow(l)].state = "none"
         THEN c.size = Full(c) /\ Payload(d).kind \in {"grn", "door"} /\ Payload(d).lot = l
         ELSE c.size = row[LotRow(l)].size /\ Full(c) = Full(row[LotRow(l)])
  PROVE  Shelving(d)'
  <1> PICK u, s, m : u = tx'[d].w /\ s = DrawsOf(d) /\ m = [k \in Lots |-> 0]
    OBVIOUS
  <1> HIDE DEF Base, ShelfKept, Shelving
  <1>1. \A k \in Lots : m[k] = 0
    OBVIOUS
  <1>2. \A x \in Sold : Draws(x) \in DOMAIN u =>
          /\ Payload(d).kind \in Drawers /\ x = s /\ IsDraw(u[Draws(s)])
          /\ \A k \in Lots : u[Draws(s)].by[k] > 0 => row[LotRow(k)].state # "none"
    OBVIOUS
  <1>3. \A k \in Lots :
          m[k] = IF Payload(d).kind \in Drawers /\ Draws(s) \in DOMAIN u
                 THEN Held(u[Draws(s)], k) - Held(row[Draws(s)], k) ELSE 0
    BY <1>1
  <1>4. Full(c) + 0 = Full(c)
    BY DEF IsLot, Full
  <1>5. \A k \in Lots :
          LET r == LotRow(k) IN
          IF r \notin DOMAIN u THEN m[k] = 0
          ELSE /\ IsLot(u[r]) /\ u[r].state # "none"
               /\ IF row[r].state = "none"
                  THEN /\ u[r].size = Full(u[r]) /\ m[k] = 0
                       /\ Payload(d).kind \in {"grn", "door"} /\ Payload(d).lot = k
                  ELSE u[r].size = row[r].size /\ Full(u[r]) + m[k] = Full(row[r])
    BY <1>1, <1>4
  <1>6. Payload(d).kind \in Drawers => s \in Sold
    OBVIOUS
  <1> QED BY <1>2, <1>3, <1>5, <1>6, ShelvingIs

\* A lot as it arrives.
LEMMA NewLot ==
  ASSUME NEW i \in Items, NEW n \in Nat, NEW c,
         c = [item |-> i, qty |-> n, size |-> n, state |-> "holding", out |-> 0, away |-> 0]
  PROVE  IsLot(c) /\ c.state # "none" /\ c.size = Full(c)
  <1>1. c.item = i /\ c.qty = n /\ c.size = n /\ c.state = "holding" /\ c.out = 0 /\ c.away = 0
    OBVIOUS
  <1>2. c = [item |-> c.item, qty |-> c.qty, size |-> c.size, state |-> c.state, out |-> c.out,
             away |-> c.away]
    OBVIOUS
  <1> QED BY <1>1, <1>2 DEF IsLot, Full

\* The lots and the draws tie, whatever the statement.
LEMMA ShelvingMakes ==
  ASSUME Base, ShelfKept, NEW d \in Txs, Carried(d), Shelving(d),
         tx[d].op # None, tx[d].todo # <<>>, Statement(d), Makes(d, Head(tx[d].todo)), ~Skip(d)
  PROVE  Shelving(d)'
  <1> PICK s, k, o, p, w, u : /\ s = Head(tx[d].todo) /\ k = Payload(d).kind /\ o = tx[d].op
                                 /\ p = Payload(d)
                              /\ w = tx[d].w /\ u = tx'[d].w
    OBVIOUS
  <1> HIDE DEF Carried, Shelving, ShelfKept, Base, Statement
  <1>0. Sound(d) /\ Makes(d, s)
    BY BaseReady
  <1>1. s \in Left(d) /\ s \in StepSet(k) /\ Whose(s, k)
    BY <1>0, Keeps
  <1>2. /\ o \in Ops /\ o \notin applied /\ p = P[o] /\ k = P[o].kind /\ p = Payload(d)
        /\ k \in {"grn", "door"} => o \in Kinds({"grn", "door"}) /\ p.qty \in Int /\ p.qty \in Nat
                                    /\ p.lot \in Lots /\ p.item \in Items
        /\ k \in {"adjust", "count", "prep", "dispatch"} => p.qty \in Int
        /\ k = "produce" => p.qty \in Int
        /\ k = "lot" => p.lot \in Lots /\ p.state \in {"used", "wasted"}
    BY StockPayload
  <1>3. CASE s \notin LotSteps
    BY <1>3, ShelvingKept
  <1>4. ASSUME s \in LotSteps
        PROVE  /\ NoShelf(w) /\ \A l \in Lots : Val(d, LotRow(l)) = row[LotRow(l)]
                  /\ IsLot(row[LotRow(l)])
    BY <1>1, <1>4, ShelfFound
  <1>5. k \in Drawers => DrawsOf(d) \in Sold
    <2>1. k = "sale" => o \in Sold
      BY <1>2 DEF Sold, Kinds
    <2>2. k \in {"refund", "void"} => p.of \in Sold
      BY <1>2, SalesAssumption DEF Kinds
    <2> QED BY <2>1, <2>2 DEF DrawsOf, Drawers
  <1>6. CASE s = "sold"
    <2>1. k = "sale" /\ SaleStock(d) /\ s \in LotSteps
      BY <1>1, <1>6, ByName DEF Whose, LotSteps
    <2>2. o \in Sold /\ P[o].qty \in Int
      <3>1. o \in Sold
        BY <1>2, <2>1 DEF Sold, Kinds
      <3>2. P[o].qty \in Nat
        BY <3>1, SoldPayload
      <3> QED BY <3>1, <3>2
    <2> PICK i, n, v, q, z : /\ i = P[o].item /\ n = P[o].qty /\ v = Put(w, SaleRow(o), q) /\ z = -n
                             /\ q = [state |-> "live", no |-> tx[d].no, earned |-> EarnedBy(o),
                                     session |-> tx[d].session]
      OBVIOUS
    <2>3. Carries(d, i, z, DrawDown(d, i, n, o), v)
      BY <1>0, <2>1, SoldMakes DEF Drew
    <2>4. NoShelf(v)
      <3>1. SaleRow(o)[1] \notin {"lot", "draws"}
        BY DEF SaleRow
      <3>2. NoShelf(w)
        BY <1>4, <2>1
      <3> QED BY <3>1, <3>2, PutShelf
    <2> QED BY <2>1, <2>2, <2>3, <2>4, ShelfSold
  <1>7. CASE s = "return"
    <2>1. k \in {"refund", "void"} /\ ReturnStock(d) /\ s \in LotSteps
      BY <1>1, <1>7, ByName DEF Whose, LotSteps
    <2> PICK x, i, n : x = p.of /\ i = P[x].item /\ n = TakenBy(x)
      OBVIOUS
    <2>2. x \in Sold
      BY <1>2, <2>1, SalesAssumption DEF Kinds
    <2>3. u = w \/ Carries(d, i, n, Undraw(d, x), w)
      BY <1>0, <2>1, ReturnMakes
    <2>4. CASE u = w
      <3>1. NoShelf(tx'[d].w)
        BY <1>4, <2>1, <2>4
      <3> QED BY <1>5, <2>1, <3>1, ShelfStill
    <2>5. CASE Carries(d, i, n, Undraw(d, x), w)
      BY <2>1, <2>2, <2>5, ShelfBack
    <2> QED BY <2>3, <2>4, <2>5
  <1>8. CASE s = "shift"
    <2>1. k \in {"adjust", "count", "prep", "dispatch"} /\ Shift(d) /\ s \in LotSteps /\ k \notin Drawers
      BY <1>1, <1>8, ByName DEF Whose, LotSteps, Drawers
    <2> PICK i, n, m, z : i = p.item /\ n = p.qty /\ m = -n /\ z = -m
      OBVIOUS
    <2>2. IF n < 0 THEN Carries(d, i, z, DrawDown(d, i, m, None), w) ELSE Carries(d, i, n, <<>>, w)
      BY <1>0, <2>1, ShiftMakes DEF Drew
    <2>3. CASE n < 0
      <3>1. m \in Int
        BY <1>2, <2>1
      <3> QED BY <2>1, <2>2, <2>3, <3>1, ShelfOut
    <2>4. CASE ~(n < 0)
      <3>1. NoShelf(w)
        BY <1>4, <2>1
      <3>2. ShelfTo(d, <<>>)
        BY <2>2, <2>4, <3>1, CarriesShelf
      <3>3. NoShelf(tx'[d].w)
        BY <3>2 DEF ShelfTo, NoShelf
      <3> QED BY <1>5, <2>1, <3>3, ShelfStill
    <2> QED BY <2>3, <2>4
  <1>9. CASE s = "use"
    <2>1. k = "produce" /\ Use(d) /\ s \in LotSteps /\ k \notin Drawers
      BY <1>1, <1>9, ByName DEF Whose, LotSteps, Drawers
    <2> PICK i, n, m : i = p.from /\ n = p.qty /\ m = -n
      OBVIOUS
    <2>2. Carries(d, i, m, DrawDown(d, i, n, None), w)
      BY <1>0, <2>1, UseMakes DEF Drew
    <2>3. n \in Int
      BY <1>2, <2>1
    <2> QED BY <2>1, <2>2, <2>3, ShelfOut
  <1>10. CASE s = "receive"
    <2>1. k \in {"grn", "door"} /\ Receive(d) /\ s \in LotSteps /\ k \notin Drawers
      BY <1>1, <1>10, ByName DEF Whose, LotSteps, Drawers
    <2> PICK i, n, l, D, v, q :
          /\ i = p.item /\ n = p.qty /\ l = p.lot /\ D = Stamp(l, i, n)
          /\ q = (IF p.kind = "door" /\ p.priced THEN "priced" ELSE "blind")
          /\ v = Put(w, DeliveryRow(o), q)
      OBVIOUS
    <2>c. PICK c : c = [NoLot EXCEPT !.item = i, !.qty = n, !.size = n, !.state = "holding"]
      OBVIOUS
    <2>2. Carries(d, i, n, D, v)
      BY <1>0, <1>2, <2>1, ReceiveMakes
    <2>3. NoShelf(v)
      <3>1. DeliveryRow(o)[1] \notin {"lot", "draws"}
        BY DEF DeliveryRow
      <3>2. NoShelf(w)
        BY <1>4, <2>1
      <3> QED BY <3>1, <3>2, PutShelf
    <2>4. ShelfTo(d, D)
      BY <2>2, <2>3, CarriesShelf
    <2>5. l \in Lots /\ i \in Items /\ n \in Nat /\ o \in Kinds({"grn", "door"})
      BY <1>2, <2>1
    <2>6. DOMAIN D = {LotRow(l)} /\ D[LotRow(l)] = c
      BY <2>c DEF Stamp, :>
    <2>7. c = [item |-> i, qty |-> n, size |-> n, state |-> "holding", out |-> 0, away |-> 0]
      BY <2>c DEF NoLot
    <2>8. IsLot(c) /\ c.state # "none" /\ c.size = Full(c)
      BY <2>5, <2>7, NewLot
    <2>9. /\ \A x, y : LotRow(x) = LotRow(y) => x = y
          /\ \A x, y : LotRow(x) # Draws(y)
      BY DEF LotRow, Draws
    <2>10. /\ LotRow(l) \in DOMAIN u /\ c = u[LotRow(l)]
           /\ \A x \in Lots : LotRow(x) \in DOMAIN u => x = l
           /\ \A x \in Sold : Draws(x) \notin DOMAIN u
      BY <2>4, <2>5, <2>6, <2>9 DEF ShelfTo
    <2>11. row[LotRow(l)].state = "none"
      <3> SUFFICES ASSUME row[LotRow(l)].state # "none" PROVE FALSE
        OBVIOUS
      <3>1. PICK x \in Kinds({"grn", "door"}) \cap applied : P[x].lot = l
        BY <2>5 DEF ShelfKept
      <3>2. x # o
        BY <1>2, <3>1
      <3>3. P[o].lot # P[x].lot
        BY <2>5, <3>1, <3>2, StockAssumption
      <3> QED BY <1>2, <3>1, <3>3
    <2> QED BY <2>1, <2>5, <2>8, <2>10, <2>11, ShelfOne
  <1>11. CASE s = "empty"
    <2>1. k = "lot" /\ Empty(d) /\ s \in LotSteps /\ k \notin Drawers
      BY <1>1, <1>11, ByName DEF Whose, LotSteps, Drawers
    <2> PICK l, b, c : /\ l = p.lot /\ b = Val(d, LotRow(l))
                       /\ c = [b EXCEPT !.away = @ + b.qty, !.qty = 0, !.state = p.state]
      OBVIOUS
    <2>2. u = Put(w, LotRow(l), c)
      BY <1>0, <2>1, EmptyMakes DEF Wrote
    <2>3. l \in Lots /\ p.state \in {"used", "wasted"}
      BY <1>2, <2>1
    <2>4. b = row[LotRow(l)] /\ IsLot(b) /\ NoShelf(w)
      BY <1>4, <2>1, <2>3
    <2>5. b.state # "none"
      <3>1. "lot" \notin Left(d)
        <4>1. s # "credit" => \A a \in Left(d) \ {"credit"} : Rank(s) <= Rank(a)
          BY NextOf
        <4>2. Rank("empty") = 8 /\ Rank("lot") = 1
          BY DEF Rank
        <4> QED BY <1>11, <4>1, <4>2
      <3> QED BY <2>1, <2>4, <3>1 DEF Carried
    <2>6. c = [item |-> b.item, qty |-> 0, size |-> b.size, state |-> p.state, out |-> b.out,
               away |-> b.away + b.qty]
      BY <2>4 DEF IsLot
    <2>7. IsLot(c) /\ c.state # "none" /\ c.size = b.size /\ Full(c) = Full(b)
      <3> PICK x : x = b.away + b.qty
        OBVIOUS
      <3>1. b.item \in Items /\ b.size \in Int /\ b.out \in Int /\ b.away \in Int /\ b.qty \in Nat
        BY <2>4, <2>5 DEF IsLot
      <3>2. c = [item |-> b.item, qty |-> 0, size |-> b.size, state |-> p.state, out |-> b.out,
            away |-> x]
        BY <2>6
      <3>5. x \in Int
        BY <3>1
      <3>6. /\ c = [item |-> c.item, qty |-> c.qty, size |-> c.size, state |-> c.state, out |-> c.out,
                    away |-> c.away]
            /\ c.item = b.item /\ c.qty = 0 /\ c.size = b.size /\ c.state = p.state
                /\ c.out = b.out /\ c.away = x
        BY <3>2
      <3>3. IsLot(c) /\ c.state # "none" /\ c.size = b.size
        BY <2>3, <3>1, <3>5, <3>6 DEF IsLot
      <3>4. Full(c) = b.out + (b.away + b.qty) /\ Full(b) = b.qty + b.out + b.away
        BY <3>1, <3>6 DEF Full
      <3> QED BY <3>1, <3>3, <3>4
    <2>8. DOMAIN u = {LotRow(l)} \cup DOMAIN w /\ u[LotRow(l)] = c
      BY <2>2 DEF Put, @@, :>
    <2>9. /\ \A x, y : LotRow(x) = LotRow(y) => x = y
          /\ \A x, y : LotRow(x) # Draws(y)
      BY DEF LotRow, Draws
    <2>10. /\ LotRow(l) \in DOMAIN u /\ c = u[LotRow(l)]
           /\ \A x \in Lots : LotRow(x) \in DOMAIN u => x = l
           /\ \A x \in Sold : Draws(x) \notin DOMAIN u
      BY <2>3, <2>4, <2>8, <2>9 DEF NoShelf
    <2> QED BY <2>1, <2>3, <2>4, <2>5, <2>7, <2>10, ShelfOne
  <1> QED BY <1>3, <1>6, <1>7, <1>8, <1>9, <1>10, <1>11 DEF LotSteps

-----------------------------------------------------------------------------
(* The lots and the draws, at a commit.                                    *)

\* A sale whose draw a transaction has changed.
LEMMA DrawerOf ==
  ASSUME Base, NEW d \in Txs, tx[d].op # None, Payload(d).kind \in Drawers
  PROVE  DrawsOf(d) \in Sold /\ DrawsOf(d) \in applied \cup {tx[d].op}
  <1> PICK k, o, p : k = Payload(d).kind /\ o = tx[d].op /\ p = Payload(d)
    OBVIOUS
  <1>1. o \in Ops /\ p = P[o] /\ k = P[o].kind
    BY StockPayload
  <1>2. k = "sale" => o \in Sold
    BY <1>1 DEF Sold, Kinds
  <1>3. k \in {"refund", "void"} => p.of \in Sold
    BY <1>1, SalesAssumption DEF Kinds
  <1>4. k \in {"refund", "void"} => p.of \in applied
    BY <1>1 DEF Base, InHandOf
  <1> QED BY <1>2, <1>3, <1>4 DEF DrawsOf, Drawers

\* The rows of the stock are among the rows.
LEMMA ShelfRowNames ==
  /\ \A l \in Lots : LotRow(l) \in RowNames
  /\ \A s \in Sold : Draws(s) \in RowNames
  /\ \A i \in Items : Item(i) \in RowNames
  /\ \A o \in Kinds({"grn", "door"}) : DeliveryRow(o) \in RowNames
  BY DEF RowNames

\* A lot that has arrived stays on record.
LEMMA LotsStay ==
  ASSUME Base, NEW d \in Txs, Commits(d), Shelving(d), NEW l \in Lots, row[LotRow(l)].state # "none"
  PROVE  row'[LotRow(l)].state # "none"
  <1> PICK r : r = LotRow(l)
    OBVIOUS
  <1>1. tx[d].op # None /\ row'[r] = IF r \in DOMAIN tx[d].w THEN tx[d].w[r] ELSE row[r]
    BY Leaves, ShelfRowNames
  <1>2. LotTies(d, l)
    BY <1>1 DEF Shelving
  <1> QED BY <1>1, <1>2 DEF LotTies

\* A commit keeps what lots and draws are, ..
LEMMA ShelfKeptCommits ==
  ASSUME Base, NEW d \in Txs, Commits(d), Shelving(d), ShelfKept, \A i \in Items : row'[Item(i)] \in Int
  PROVE  ShelfKept'
  <1> PICK o, w : o = tx[d].op /\ w = tx[d].w
    OBVIOUS
  <1> HIDE DEF Base, Shelving, ShelfKept
  <1>1. /\ o # None /\ o \in Ops /\ applied' = applied \cup {o}
        /\ \A r \in RowNames : row'[r] = IF r \in DOMAIN w THEN w[r] ELSE row[r]
    BY Leaves
  <1>2. ASSUME NEW l \in Lots
        PROVE  /\ IsLot(row'[LotRow(l)])
               /\ row'[LotRow(l)].state # "none" =>
                    \E p \in Kinds({"grn", "door"}) \cap applied' : P[p].lot = l
    <2> PICK r, b : r = LotRow(l) /\ b = row[LotRow(l)]
      OBVIOUS
    <2>1. LotTies(d, l) /\ row'[r] = (IF r \in DOMAIN w THEN w[r] ELSE b)
      BY <1>1, ShelfRowNames DEF Shelving
    <2>2. IsLot(b) /\ (b.state # "none" => \E p \in Kinds({"grn", "door"}) \cap applied : P[p].lot = l)
      BY DEF ShelfKept
    <2>3. r \in DOMAIN w => /\ IsLot(w[r])
                            /\ b.state = "none" => Payload(d).kind \in {"grn", "door"}
                                /\ Payload(d).lot = l
      BY <2>1 DEF LotTies
    <2>4. Payload(d).kind \in {"grn", "door"} => o \in Kinds({"grn", "door"}) /\ Payload(d) = P[o]
      BY <1>1, StockPayload
    <2> QED BY <1>1, <2>1, <2>2, <2>3, <2>4
  <1>3. ASSUME NEW s \in Sold
        PROVE  /\ IsDraw(row'[Draws(s)]) /\ (s \notin applied' => row'[Draws(s)] = NotDrawn)
               /\ \A l \in Lots : row'[Draws(s)].by[l] > 0 => row'[LotRow(l)].state # "none"
    <2> PICK r : r = Draws(s)
      OBVIOUS
    <2>1. row'[r] = IF r \in DOMAIN w THEN w[r] ELSE row[r]
      BY <1>1, ShelfRowNames
    <2>2. /\ IsDraw(row[r]) /\ (s \notin applied => row[r] = NotDrawn)
          /\ \A l \in Lots : row[r].by[l] > 0 => row[LotRow(l)].state # "none"
      BY DEF ShelfKept
    <2>3. r \in DOMAIN w => /\ IsDraw(w[r]) /\ s \in applied'
                            /\ \A l \in Lots : w[r].by[l] > 0 => row[LotRow(l)].state # "none"
      <3>1. r \in DOMAIN w => /\ IsDraw(w[r]) /\ Payload(d).kind \in Drawers /\ s = DrawsOf(d)
                              /\ \A l \in Lots : w[r].by[l] > 0 => row[LotRow(l)].state # "none"
        BY <1>1 DEF Shelving
      <3> QED BY <1>1, <3>1, DrawerOf
    <2>4. \A l \in Lots : row[LotRow(l)].state # "none" => row'[LotRow(l)].state # "none"
      BY LotsStay
    <2> QED BY <1>1, <2>1, <2>2, <2>3, <2>4
  <1> QED BY <1>2, <1>3 DEF ShelfKept

\* A lot's size is what is of it, and what sales hold of it.
HeldOf(l) == [s \in Sold |-> Held(row[Draws(s)], l)]
HeldBySales(l) == SumFunctionOnSet(HeldOf(l), Sold)
\* A lot is what it arrived as: what is left, what is out or away, and what sales hold.
Sizes ==
  \A l \in Lots : row[LotRow(l)].state # "none" =>
    row[LotRow(l)].size = Full(row[LotRow(l)]) + HeldBySales(l)

\* .. what sales hold of a lot is a sum over the finitely many sales, ..
LEMMA SoldFinite == IsFiniteSet(Sold)
  <1>1. Sold \subseteq Ops /\ IsFiniteSet(Ops)
    BY OpsAssumption DEF Sold, Kinds
  <1> QED BY <1>1, FS_Subset

\* .. of what each holds of it, ..
LEMMA HeldIs ==
  ASSUME ShelfKept, NEW l \in Lots
  PROVE  /\ \A s \in Sold : HeldOf(l)[s] \in Int /\ HeldOf(l)[s] = Held(row[Draws(s)], l)
         /\ HeldBySales(l) \in Int
  <1>1. \A s \in Sold : HeldOf(l)[s] \in Int /\ HeldOf(l)[s] = Held(row[Draws(s)], l)
    <2> SUFFICES ASSUME NEW s \in Sold PROVE Held(row[Draws(s)], l) \in Int
      BY DEF HeldOf
    <2>1. row[Draws(s)].by \in [Lots -> Nat]
      BY DEF ShelfKept, IsDraw
    <2>2. row[Draws(s)].by[l] \in Nat
      BY <2>1
    <2> QED BY <2>2 DEF Held
  <1> QED BY <1>1, SoldFinite, SumType DEF HeldBySales

\* .. which a commit changes by what its transaction drew or undid, ..
LEMMA HeldCommits ==
  ASSUME Base, NEW d \in Txs, Commits(d), Shelving(d), ShelfKept, ShelfKept', NEW l \in Lots
  PROVE  /\ HeldBySales(l)' = HeldBySales(l) + DrawnMore(d, l)
         /\ HeldBySales(l) \in Int /\ DrawnMore(d, l) \in Int
  <1> PICK f, w, k, x : f = HeldOf(l) /\ w = tx[d].w /\ k = Payload(d).kind /\ x = DrawsOf(d)
    OBVIOUS
  <1> PICK g : g = [s \in Sold |-> Held(row'[Draws(s)], l)]
    OBVIOUS
  <1> HIDE DEF Base, Shelving, ShelfKept
  <1>1. /\ tx[d].op # None
        /\ \A r \in RowNames : row'[r] = IF r \in DOMAIN w THEN w[r] ELSE row[r]
    BY Leaves
  <1>2. \A s \in Sold : f[s] \in Int /\ f[s] = Held(row[Draws(s)], l)
    BY HeldIs
  <1>3. \A s \in Sold : g[s] \in Int /\ g[s] = Held(row'[Draws(s)], l)
    <2> SUFFICES ASSUME NEW s \in Sold PROVE Held(row'[Draws(s)], l) \in Int
      OBVIOUS
    <2>1. row'[Draws(s)].by \in [Lots -> Nat]
      BY DEF ShelfKept, IsDraw
    <2>2. row'[Draws(s)].by[l] \in Nat
      BY <2>1
    <2> QED BY <2>2 DEF Held
  <1>4. HeldBySales(l) = SumFunctionOnSet(f, Sold) /\ HeldBySales(l)' = SumFunctionOnSet(g, Sold)
    BY DEF HeldBySales, HeldOf
  <1>5. \A s \in Sold : Draws(s) \in DOMAIN w => k \in Drawers /\ s = x
    BY <1>1 DEF Shelving
  <1>6. \A s \in Sold : Draws(s) \notin DOMAIN w => g[s] = f[s]
    BY <1>1, <1>2, <1>3, ShelfRowNames
  <1>7. HeldBySales(l) \in Int
    BY HeldIs
  <1>8. CASE k \in Drawers /\ Draws(x) \in DOMAIN w
    <2>1. x \in Sold
      BY <1>1, <1>8, DrawerOf
    <2>2. DrawnMore(d, l) = g[x] - f[x]
      BY <1>1, <1>2, <1>3, <1>8, <2>1, ShelfRowNames DEF DrawnMore
    <2>3. \A s \in Sold : s # x => g[s] = f[s]
      BY <1>5, <1>6
    <2>4. SumFunctionOnSet(g, Sold) = SumFunctionOnSet(f, Sold) + (g[x] - f[x])
      BY <1>2, <1>3, <2>1, <2>3, SoldFinite, SumChanges
    <2>5. g[x] - f[x] \in Int
      BY <1>2, <1>3, <2>1
    <2> QED BY <1>4, <1>7, <2>2, <2>4, <2>5
  <1>9. CASE ~(k \in Drawers /\ Draws(x) \in DOMAIN w)
    <2>1. DrawnMore(d, l) = 0
      BY <1>9 DEF DrawnMore
    <2>2. \A s \in Sold : g[s] = f[s]
      BY <1>5, <1>6, <1>9
    <2>3. SumFunctionOnSet(g, Sold) = SumFunctionOnSet(f, Sold)
      BY <2>2, SoldFinite, SumSame
    <2> QED BY <1>4, <1>7, <2>1, <2>3
  <1> QED BY <1>8, <1>9

\* .. so that each lot is still what it arrived as.
LEMMA SizesCommits ==
  ASSUME Base, NEW d \in Txs, Commits(d), Shelving(d), ShelfKept, ShelfKept', Sizes
  PROVE  Sizes'
  <1> HIDE DEF Base, Shelving, ShelfKept
  <1> SUFFICES ASSUME NEW l \in Lots, row'[LotRow(l)].state # "none"
               PROVE  row'[LotRow(l)].size = Full(row'[LotRow(l)]) + HeldBySales(l)'
    BY DEF Sizes, Full
  <1> PICK r, b, c, n, m, h : /\ r = LotRow(l) /\ b = row[LotRow(l)] /\ c = row'[LotRow(l)]
                              /\ n = DrawnMore(d, l) /\ m = HeldBySales(l) /\ h = HeldBySales(l)'
    OBVIOUS
  <1>1. tx[d].op # None /\ c = (IF r \in DOMAIN tx[d].w THEN tx[d].w[r] ELSE b)
    BY Leaves, ShelfRowNames
  <1>2. LotTies(d, l)
    BY <1>1 DEF Shelving
  <1>3. h = m + n /\ m \in Int /\ n \in Int
    BY HeldCommits
  <1>4. IsLot(b) /\ IsLot(c)
    BY DEF ShelfKept
  <1>5. Full(b) \in Int /\ Full(c) \in Int
    BY <1>4 DEF IsLot, Full
  <1>6. b.state # "none" => b.size = Full(b) + m
    BY DEF Sizes
  <1>7. CASE r \notin DOMAIN tx[d].w
    <2>1. n = 0 /\ c = b
      BY <1>1, <1>2, <1>7 DEF LotTies
    <2> QED BY <1>3, <1>6, <2>1
  <1>8. CASE r \in DOMAIN tx[d].w /\ b.state # "none"
    <2>1. c.size = b.size /\ Full(c) + n = Full(b)
      BY <1>1, <1>2, <1>8 DEF LotTies
    <2>2. c.size = (Full(c) + n) + m
      BY <1>6, <1>8, <2>1
    <2> QED BY <1>3, <1>5, <2>2
  <1>9. CASE r \in DOMAIN tx[d].w /\ b.state = "none"
    <2>1. c.size = Full(c) /\ n = 0
      BY <1>1, <1>2, <1>9 DEF LotTies
    <2>2. m = 0
      <3>1. \A s \in Sold : HeldOf(l)[s] \in Int /\ HeldOf(l)[s] = 0
        <4> SUFFICES ASSUME NEW s \in Sold PROVE HeldOf(l)[s] \in Int /\ HeldOf(l)[s] = 0
          OBVIOUS
        <4>1. row[Draws(s)].by \in [Lots -> Nat] /\ ~(row[Draws(s)].by[l] > 0)
          BY <1>9 DEF ShelfKept, IsDraw
        <4>2. row[Draws(s)].by[l] = 0
          BY <4>1
        <4> QED BY <4>2 DEF HeldOf, Held
      <3> PICK T : T = {}
        OBVIOUS
      <3>2. T \subseteq Sold /\ \A s \in Sold \ T : HeldOf(l)[s] = 0
        BY <3>1
      <3>3. SumFunctionOnSet(HeldOf(l), Sold) = SumFunctionOnSet(HeldOf(l), T)
        BY <3>1, <3>2, SoldFinite, SumZeros
      <3> QED BY <3>3, SumNothing DEF HeldBySales
    <2> QED BY <1>3, <1>5, <2>1, <2>2
  <1> QED BY <1>7, <1>8, <1>9

-----------------------------------------------------------------------------
(* What an op does to the stock, while others go on.                       *)

Stocking(d) == Carried(d) /\ ItemTies(d) /\ Delivering(d) /\ Clear(d) /\ Shelving(d)

\* A transaction with no op in hand has nothing to tie; a step of another leaves it tied.
LEMMA StockingIdle ==
  ASSUME NEW e, tx'[e].op = None PROVE Stocking(e)'
  BY DEF Stocking, Carried, ItemTies, Delivering, Clear, Shelving

LEMMA StockingStays ==
  ASSUME NEW e \in Txs, Base, Stocking(e),
      \A f \in Fields \ {"wasOpen", "wasShut"} : tx'[e][f] = tx[e][f],
         tx[e].op # None,
         \A r \in RowNames : r \in DOMAIN tx[e].w => row'[r] = row[r],
         \A l \in Lots : row[LotRow(l)].state # "none" => row'[LotRow(l)].state # "none",
         \A o \in Kinds({"grn", "door"}) : row[DeliveryRow(o)] # "none" => row'[DeliveryRow(o)] # "none"
  PROVE  Stocking(e)'
  <1> PICK k, o, p, w : k = Payload(e).kind /\ o = tx[e].op /\ p = Payload(e) /\ w = tx[e].w
    OBVIOUS
  <1> HIDE DEF Base
  <1>1. /\ tx'[e].op = o /\ tx'[e].todo = tx[e].todo /\ tx'[e].w = w /\ tx'[e].legs = tx[e].legs
        /\ tx'[e].seen = tx[e].seen /\ tx'[e].drift = tx[e].drift /\ tx'[e].moved = tx[e].moved
    BY DEF Fields
  <1>2. Payload(e)' = p /\ Left(e)' = Left(e)
    BY <1>1 DEF Payload, Left
  <1>3. /\ k \in {"grn", "door"} => o \in Kinds({"grn", "door"})
        /\ k = "price" => p.of \in Kinds({"grn"})
        /\ k = "doorprice" => p.of \in Kinds({"door"})
        /\ k = "lot" => p.lot \in Lots
    BY StockPayload
  <1>4. Carried(e)'
    <2>1. Carried(e)
      BY DEF Stocking
    <2> QED BY <1>1, <1>2, <1>3, <2>1 DEF Carried
  <1>5. ItemTies(e)'
    <2>1. ItemTies(e)
      BY DEF Stocking
    <2>2. \A i \in Items : Item(i) \in DOMAIN w => row'[Item(i)] = row[Item(i)]
      BY ShelfRowNames
    <2> QED BY <1>1, <1>2, <2>1, <2>2 DEF ItemTies
  <1>6. Delivering(e)'
    <2>1. Delivering(e)
      BY DEF Stocking
    <2>2. k \in {"price", "doorprice"} => p.of \in Kinds({"grn", "door"})
      BY <1>3 DEF Kinds
    <2>3. k \in {"price", "doorprice"} =>
            /\ DeliveryRow(p.of) \in DOMAIN w => row'[DeliveryRow(p.of)] = row[DeliveryRow(p.of)]
            /\ row[DeliveryRow(p.of)] # "none" => row'[DeliveryRow(p.of)] # "none"
      BY <2>2, ShelfRowNames
    <2> QED BY <1>1, <1>2, <2>1, <2>3 DEF Delivering
  <1>7. Clear(e)'
    <2>1. Clear(e)
      BY DEF Stocking
    <2> QED BY <1>1, <1>2, <2>1 DEF Clear
  <1>8. Shelving(e)'
    <2>1. Shelving(e)
      BY DEF Stocking
    <2>2. /\ \A l \in Lots : LotRow(l) \in DOMAIN w => row'[LotRow(l)] = row[LotRow(l)]
          /\ \A s \in Sold : Draws(s) \in DOMAIN w => row'[Draws(s)] = row[Draws(s)]
      BY ShelfRowNames
    <2>3. DrawsOf(e)' = DrawsOf(e) /\ (k \in Drawers => DrawsOf(e) \in Sold)
      BY <1>1, <1>2, DrawerOf DEF DrawsOf
    <2>4. \A l : DrawnMore(e, l)' = DrawnMore(e, l)
      <3> PICK x : x = DrawsOf(e)
        OBVIOUS
      <3>1. k \in Drawers /\ Draws(x) \in DOMAIN w => row'[Draws(x)] = row[Draws(x)]
        BY <2>2, <2>3
      <3> QED BY <1>1, <1>2, <2>3, <3>1 DEF DrawnMore
    <2>5. ASSUME NEW l \in Lots PROVE LotTies(e, l)'
      <3>1. LotTies(e, l)
        BY <2>1 DEF Shelving
      <3> QED BY <1>1, <1>2, <2>2, <2>4, <3>1 DEF LotTies
    <2> QED BY <1>1, <1>2, <2>1, <2>3, <2>5 DEF Shelving
  <1> QED BY <1>4, <1>5, <1>6, <1>7, <1>8 DEF Stocking

\* An op just begun has moved nothing.
LEMMA StockingBegins ==
  ASSUME Base, NEW d \in Txs, NEW o \in Ops, Begun(d, o) PROVE Stocking(d)'
  <1> PICK k, p : k = P[o].kind /\ p = P[o]
    OBVIOUS
  <1> HIDE DEF Base
  <1>1. /\ tx'[d].op = o /\ Left(d)' = StepSet(k) /\ Payload(d)' = p /\ k \in AllKinds
        /\ DOMAIN tx'[d].w = {} /\ o # None /\ row' = row
    BY Begins
  <1>2. /\ k \in {"grn", "door"} => "receive" \in StepSet(k)
        /\ k = "price" => "price" \in StepSet(k)
        /\ k = "doorprice" => "rates" \in StepSet(k)
        /\ k \in {"adjust", "count"} => "shift" \in StepSet(k)
        /\ k = "lot" => "lot" \in StepSet(k)
    BY DEF StepSet
  <1>3. /\ tx'[d].moved = {}
        /\ tx'[d].legs = IF k \in SalesKinds THEN SettleLegs(o) ELSE IF k \in StockKinds
            THEN NoLegs ELSE OneEntry(o)
        /\ k \in {"price", "doorprice"} => row[DeliveryRow(p.of)] # "none"
    BY DEF Begun
  <1>4. Carried(d)'
    <2>1. IsFiniteSet(tx'[d].moved)
      BY <1>3, FS_EmptySet
    <2>2. k = "lot" => tx'[d].legs = NoLegs
      BY <1>3 DEF SalesKinds, StockKinds
    <2> QED BY <1>1, <1>2, <1>3, <2>1, <2>2 DEF Carried
  <1>5. ItemTies(d)'
    BY <1>1, <1>3 DEF ItemTies, OnItem
  <1>6. Delivering(d)'
    BY <1>1, <1>2, <1>3 DEF Delivering
  <1>7. Clear(d)'
    <2>1. Off(OneEntry(o)) /\ Off(SettleLegs(o)) /\ Off(NoLegs)
      BY OffOffice, OffNothing
    <2> QED BY <1>1, <1>3, <2>1 DEF Clear
  <1>8. Shelving(d)'
    <2>1. \A l : DrawnMore(d, l)' = 0
      BY <1>1 DEF DrawnMore
    <2>2. \A l \in Lots : LotTies(d, l)'
      BY <1>1, <2>1 DEF LotTies
    <2> QED BY <1>1, <2>2 DEF Shelving
  <1> QED BY <1>4, <1>5, <1>6, <1>7, <1>8 DEF Stocking

-----------------------------------------------------------------------------
(* The shelf, the inventory account and the lots are of one stock.         *)

\* What is committed of the stock, and with what every transaction has in hand.
StockBooks == ShelfKept /\ Delivered /\ Counted /\ Ledgered /\ Sizes
StockInv == SalesInv /\ (\A d \in Txs : Stocking(d)) /\ StockBooks

\* What is committed stays while nobody commits, and holds after each commit.
LEMMA StockBooksStay ==
  ASSUME StockBooks, row' = row, moves' = moves, journal' = journal, adrift' = adrift,
      applied \subseteq applied'
  PROVE  StockBooks'
  <1>1. ShelfKept'
    BY DEF StockBooks, ShelfKept
  <1>2. Delivered'
    BY DEF StockBooks, Delivered, DeliveryKept, Purchases
  <1>3. Counted'
    BY DEF StockBooks, Counted
  <1>4. BookedMoves' = BookedMoves /\ Bal("1200")' = Bal("1200")
    BY DEF BookedMoves, Booked, Bal
  <1>5. Ledgered'
    BY <1>4 DEF StockBooks, Ledgered
  <1>6. \A l : HeldBySales(l)' = HeldBySales(l)
    BY DEF HeldBySales, HeldOf
  <1>7. Sizes'
    BY <1>6 DEF StockBooks, Sizes
  <1> QED BY <1>1, <1>2, <1>3, <1>5, <1>7 DEF StockBooks

LEMMA StockBooksCommit ==
  ASSUME Base, NEW d \in Txs, Commits(d), StockBooks, Stocking(d), Standing(d), Reversing(d), Ledger
  PROVE  /\ StockBooks'
         /\ \A l \in Lots : row[LotRow(l)].state # "none" => row'[LotRow(l)].state # "none"
         /\ \A o \in Kinds({"grn", "door"}) : row[DeliveryRow(o)] # "none"
             => row'[DeliveryRow(o)] # "none"
  <1>0. /\ ShelfKept /\ Delivered /\ Counted /\ Ledgered /\ Sizes
        /\ Carried(d) /\ ItemTies(d) /\ Delivering(d) /\ Clear(d) /\ Shelving(d)
    BY DEF StockBooks, Stocking
  <1> HIDE DEF Base, StockBooks, Stocking
  <1>1. Ledgered' /\ \A j \in journal' : Leg(j.legs, "1200") \in Int
    BY <1>0, LedgeredCommits
  <1>2. Delivered'
    BY <1>0, <1>1, DeliveredCommits
  <1>3. Counted' /\ \A i \in Items : row'[Item(i)] \in Int
    BY <1>0, CountedCommits
  <1>4. ShelfKept'
    BY <1>0, <1>3, ShelfKeptCommits
  <1>5. Sizes'
    BY <1>0, <1>4, SizesCommits
  <1>6. \A l \in Lots : row[LotRow(l)].state # "none" => row'[LotRow(l)].state # "none"
    BY <1>0, LotsStay
  <1>7. ASSUME NEW o \in Kinds({"grn", "door"}), row[DeliveryRow(o)] # "none"
        PROVE  row'[DeliveryRow(o)] # "none"
    <2> PICK k, r : k = Payload(d).kind /\ r = DeliveryRow(o)
      OBVIOUS
    <2>1. /\ k \in {"grn", "door"} /\ o = tx[d].op =>
               row'[r] = IF k = "door" /\ Payload(d).priced THEN "priced" ELSE "blind"
          /\ k \in PriceKinds /\ o = Payload(d).of => row'[r] = "priced"
          /\ ~(k \in {"grn", "door"} /\ o = tx[d].op) /\ ~(k \in PriceKinds /\ o = Payload(d).of) =>
               row'[r] = row[r]
      BY <1>0, CommitDelivers
    <2> QED BY <1>7, <2>1
  <1> QED BY <1>1, <1>2, <1>3, <1>4, <1>5, <1>6, <1>7 DEF StockBooks

\* Every step keeps the stock tied, and it is at the start.
LEMMA StockStep ==
  ASSUME StockInv, [BooksNext]_bookVars PROVE StockInv'
  <1>0. /\ Base /\ (\A d \in Txs : Standing(d)) /\ Ledger /\ SalesBooked /\ (\A d \in Txs : Reversing(d))
        /\ (\A d \in Txs : Stocking(d)) /\ StockBooks /\ ShelfKept
    BY DEF StockInv, SalesInv, Documents, StockBooks
  <1>1. SalesInv'
    BY SalesStep DEF StockInv
  <1>2. ASSUME NEW e \in Txs, tx'[e] = tx[e], row' = row PROVE Stocking(e)'
    <2>1. CASE tx[e].op = None
      BY <1>2, <2>1, StockingIdle
    <2>2. CASE tx[e].op # None
      <3>1. Stocking(e) /\ \A f \in Fields \ {"wasOpen", "wasShut"} : tx'[e][f] = tx[e][f]
        BY <1>0, <1>2
      <3>2. /\ \A r \in RowNames : r \in DOMAIN tx[e].w => row'[r] = row[r]
            /\ \A l \in Lots : row[LotRow(l)].state # "none" => row'[LotRow(l)].state # "none"
            /\ \A o \in Kinds({"grn", "door"}) : row[DeliveryRow(o)] # "none"
                => row'[DeliveryRow(o)] # "none"
        BY <1>2
      <3> QED BY <1>0, <2>2, <3>1, <3>2, StockingStays
    <2> QED BY <2>1, <2>2
  <1>3. ASSUME NEW d \in Txs, StepOf(d) PROVE (\A e \in Txs : Stocking(e)') /\ StockBooks'
    <2>1. ASSUME row' = row, moves' = moves, journal' = journal, adrift' = adrift,
          applied \subseteq applied',
                 \A e \in Txs \ {d} : tx'[e] = tx[e], Stocking(d)'
          PROVE  (\A e \in Txs : Stocking(e)') /\ StockBooks'
      <3>1. \A e \in Txs \ {d} : Stocking(e)'
        BY <1>2, <2>1
      <3> QED BY <1>0, <2>1, <3>1, StockBooksStay
    <2>2. CASE \E o \in Ops : Begun(d, o)
      <3>1. PICK o \in Ops : Begun(d, o)
        BY <2>2
      <3>2. /\ row' = row /\ moves' = moves /\ journal' = journal /\ adrift' = adrift
               /\ applied' = applied
            /\ \A e \in Txs \ {d} : tx'[e] = tx[e]
        BY <1>0, <3>1, Begins
      <3>3. Stocking(d)'
        BY <1>0, <3>1, StockingBegins
      <3> QED BY <2>1, <3>2, <3>3
    <2>3. CASE (tx[d].op # None /\ Skip(d)) \/ Abort(d)
      <3>1. /\ tx'[d].op = None /\ \A e \in Txs \ {d} : tx'[e] = tx[e]
            /\ row' = row /\ journal' = journal /\ moves' = moves /\ adrift' = adrift
                /\ applied \subseteq applied'
        BY <1>0, <2>3, Ends
      <3> QED BY <2>1, <3>1, StockingIdle
    <2>4. CASE /\ tx[d].op # None /\ tx[d].todo # <<>> /\ Statement(d) /\ Makes(d, Head(tx[d].todo))
               /\ ~Skip(d)
      <3>1. /\ row' = row /\ moves' = moves /\ journal' = journal /\ adrift' = adrift
               /\ applied' = applied
            /\ \A e \in Txs \ {d} : tx'[e] = tx[e]
        BY <1>0, <2>4, Keeps
      <3>2. /\ Carried(d) /\ ItemTies(d) /\ Delivering(d) /\ Clear(d) /\ Shelving(d)
               /\ Reversing(d) /\ Billing(d)
        BY <1>0 DEF Stocking, Standing
      <3>3. Carried(d)'
        BY <1>0, <2>4, <3>2, CarriedMakes
      <3>4. ItemTies(d)'
        BY <1>0, <2>4, <3>2, ItemTiesMakes
      <3>5. Delivering(d)'
        BY <1>0, <2>4, <3>2, DeliveringMakes
      <3>6. Clear(d)'
        BY <1>0, <2>4, <3>2, ClearMakes
      <3>7. Shelving(d)'
        BY <1>0, <2>4, <3>2, ShelvingMakes
      <3>8. Stocking(d)'
        BY <3>3, <3>4, <3>5, <3>6, <3>7 DEF Stocking
      <3> QED BY <2>1, <3>1, <3>8
    <2>5. CASE Commits(d)
      <3>1. /\ tx'[d].op = None
            /\ \A e \in Txs \ {d} : \A f \in Fields \ {"wasOpen", "wasShut"} : tx'[e][f] = tx[e][f]
            /\ \A e \in Txs \ {d} : \A r \in RowNames : r \in DOMAIN tx[e].w => row'[r] = row[r]
        BY <1>0, <2>5, Leaves
      <3>2. /\ StockBooks'
            /\ \A l \in Lots : row[LotRow(l)].state # "none" => row'[LotRow(l)].state # "none"
            /\ \A o \in Kinds({"grn", "door"}) : row[DeliveryRow(o)] # "none"
                => row'[DeliveryRow(o)] # "none"
        BY <1>0, <2>5, StockBooksCommit
      <3>3. ASSUME NEW e \in Txs \ {d} PROVE Stocking(e)'
        <4>1. CASE tx[e].op = None
          <5>1. tx'[e].op = None
            BY <3>1, <4>1 DEF Fields
          <5> QED BY <5>1, StockingIdle
        <4>2. CASE tx[e].op # None
          <5>1. /\ Stocking(e) /\ \A f \in Fields \ {"wasOpen", "wasShut"} : tx'[e][f] = tx[e][f]
                /\ \A r \in RowNames : r \in DOMAIN tx[e].w => row'[r] = row[r]
            BY <1>0, <3>1
          <5> QED BY <1>0, <3>2, <4>2, <5>1, StockingStays
        <4> QED BY <4>1, <4>2
      <3>4. Stocking(d)'
        BY <3>1, StockingIdle
      <3> QED BY <3>2, <3>3, <3>4
    <2> QED BY <1>3, <2>2, <2>3, <2>4, <2>5 DEF StepOf
  <1>4. CASE BooksNext
    <2>1. (\A e \in Txs : Stocking(e)') /\ StockBooks'
      BY <1>0, <1>3, <1>4, Stepping
    <2> QED BY <1>1, <2>1 DEF StockInv
  <1>5. CASE UNCHANGED bookVars
    <2>1. row' = row /\ journal' = journal /\ adrift' = adrift /\ applied' = applied
          /\ moves' = moves /\ tx' = tx
      BY <1>5 DEF bookVars
    <2>2. StockBooks'
      BY <1>0, <2>1, StockBooksStay
    <2>3. \A e \in Txs : Stocking(e)'
      BY <1>2, <2>1
    <2> QED BY <1>1, <2>2, <2>3 DEF StockInv
  <1> QED BY <1>4, <1>5

LEMMA StockInit ==
  ASSUME BooksInit PROVE StockInv
  <1>1. /\ journal = {} /\ applied = {} /\ moves = {} /\ tx = [d \in Txs |-> Idle] /\ Idle.op = None
    BY DEF BooksInit, Idle
  <1>2. ASSUME NEW d \in Txs PROVE Stocking(d)
    BY <1>1 DEF Stocking, Carried, ItemTies, Delivering, Clear, Shelving
  <1>3. /\ \A i \in Items : row[Item(i)] = OnHand0
        /\ \A l \in Lots : row[LotRow(l)] = NoLot
        /\ \A o \in Kinds({"grn", "door"}) : row[DeliveryRow(o)] = "none"
        /\ \A s \in Sold : row[Draws(s)] = NotDrawn
    BY FirstRow DEF NotDrawn
  <1>4. OnHand0 \in Int
    BY StockAssumption
  <1>5. IsLot(NoLot) /\ NoLot.state = "none"
    <2>1. NoLot.state = "none"
      BY DEF NoLot
    <2>2. /\ NoLot = [item |-> NoLot.item, qty |-> NoLot.qty, size |-> NoLot.size, state |-> NoLot.state,
                      out |-> NoLot.out, away |-> NoLot.away]
          /\ NoLot.qty = 0 /\ NoLot.size = 0 /\ NoLot.out = 0 /\ NoLot.away = 0
      BY DEF NoLot
    <2> QED BY <2>1, <2>2 DEF IsLot
  <1>6. IsDraw(NotDrawn) /\ \A l \in Lots : NotDrawn.by[l] = 0
    BY DEF IsDraw, NotDrawn, NothingDrawn
  <1>7. ShelfKept
    BY <1>3, <1>4, <1>5, <1>6 DEF ShelfKept
  <1>8. Delivered
    <2>1. IsFiniteSet(moves)
      BY <1>1, FS_EmptySet
    <2>2. \A o \in Kinds({"grn", "door"}) : DeliveryKept(o)
      BY <1>1, <1>3 DEF DeliveryKept, Purchases
    <2> QED BY <1>1, <2>1, <2>2 DEF Delivered
  <1>9. Counted
    <2>1. \A i : OnItem(moves, i) = {}
      BY <1>1 DEF OnItem
    <2> QED BY <1>3, <1>4, <2>1, MovedNothing DEF Counted
  <1>10. Ledgered
    <2>1. BookedMoves = {} /\ Bal("1200") = 0
      BY <1>1, BookedNone DEF Bal, BookedMoves
    <2> QED BY <2>1, MovedNothing DEF Ledgered
  <1>11. Sizes
    BY <1>3, <1>5 DEF Sizes
  <1> QED BY <1>2, <1>7, <1>8, <1>9, <1>10, <1>11, SalesInit DEF StockInv, StockBooks

\* What is tied is what was to be shown.
LEMMA StockHeld == ASSUME StockInv PROVE StockHolds
  <1>0. ShelfKept /\ Counted /\ Ledgered /\ Sizes
    BY DEF StockInv, StockBooks
  <1>1. StockIsLedger
    <2>1. \A i : {v \in moves : v.item = i} = OnItem(moves, i)
      BY DEF OnItem
    <2>2. {v \in moves : Booked(v)} = BookedMoves
      BY DEF BookedMoves
    <2>3. \A i \in Items : row[Item(i)] = OnHand0 + Moved({v \in moves : v.item = i})
      BY <1>0, <2>1 DEF Counted
    <2>4. (\A o \in Kinds({"door"}) : DeliveryRow(o) \notin adrift)
          => Bal("1200") = Moved({v \in moves : Booked(v)})
      BY <1>0, <2>2 DEF Ledgered
    <2> QED BY <2>3, <2>4 DEF StockIsLedger
  <1>2. ASSUME NEW l \in Lots
        PROVE  /\ row[LotRow(l)].qty >= 0
               /\ row[LotRow(l)].state # "none" =>
                    row[LotRow(l)].size = row[LotRow(l)].qty + row[LotRow(l)].out + row[LotRow(l)].away
                      + SumFunction([s \in {s \in Kinds({"sale"}) : ~row[Draws(s)].undone} |->
                                       row[Draws(s)].by[l]])
    <2> PICK T, e, f : /\ T = {s \in Kinds({"sale"}) : ~row[Draws(s)].undone}
                       /\ e = [s \in T |-> row[Draws(s)].by[l]] /\ f = HeldOf(l)
      OBVIOUS
    <2>1. \A s \in Sold : f[s] \in Int /\ f[s] = Held(row[Draws(s)], l)
      BY <1>0, HeldIs
    <2>2. T \subseteq Sold /\ IsFiniteSet(T) /\ \A s \in Sold \ T : f[s] = 0
      <3>1. T \subseteq Sold /\ \A s \in Sold \ T : row[Draws(s)].undone
        BY <1>0 DEF Sold
      <3>2. IsFiniteSet(T)
        BY <3>1, SoldFinite, FS_Subset
      <3> QED BY <2>1, <3>1, <3>2 DEF Held
    <2>3. \A s \in T : e[s] = f[s]
      BY <2>1, <2>2 DEF Held
    <2>4. SumFunctionOnSet(f, Sold) = SumFunctionOnSet(f, T)
      BY <2>1, <2>2, SoldFinite, SumZeros
    <2>5. SumFunctionOnSet(e, T) = SumFunctionOnSet(f, T)
      BY <2>2, <2>3, SumSame
    <2>6. SumFunction(e) = HeldBySales(l)
      <3>1. DOMAIN e = T
        OBVIOUS
      <3> QED BY <2>4, <2>5, <3>1 DEF SumFunction, HeldBySales
    <2>7. row[LotRow(l)].qty >= 0
      <3> PICK n : n = row[LotRow(l)].qty
        OBVIOUS
      <3>1. IsLot(row[LotRow(l)])
        BY <1>0 DEF ShelfKept
      <3>2. n \in Nat
        BY <3>1 DEF IsLot
      <3>3. n >= 0
        BY <3>2
      <3> QED BY <3>3
    <2>8. row[LotRow(l)].state # "none" => row[LotRow(l)].size = Full(row[LotRow(l)]) + HeldBySales(l)
      BY <1>0 DEF Sizes
    <2> QED BY <2>6, <2>7, <2>8 DEF Full
  <1>3. LotsKept
    BY <1>2 DEF LotsKept
  <1> QED BY <1>1, <1>3 DEF StockHolds

\* The shelf is the sum of its moves, the inventory account is the value of those that
\* book, and a lot is what it arrived as less what was drawn and not returned, whichever
\* sales, voids, counts, deliveries and prices overlap, wait for each other or are rolled
\* back (apply.js moveStock, drawLots, undraw, stampBatch).
THEOREM StockAlwaysHolds == BooksSpec => []StockHolds
  <1>1. BooksInit => StockInv
    BY StockInit
  <1>2. StockInv /\ [BooksNext]_bookVars => StockInv'
    BY StockStep
  <1>3. StockInv => StockHolds
    BY StockHeld
  <1> QED BY <1>1, <1>2, <1>3, PTL DEF BooksSpec

=============================================================================
