------------------------------- MODULE Stock -------------------------------
(***************************************************************************)
(* Stock: the shelf, the lots that arrived on it, and the handlers of      *)
(* src/apply.js that move it.  An ingredient's on_hand is kept beside its  *)
(* lots; a lot is drawn down earliest use-by first, and a move that undoes *)
(* another puts back what that one drew.                                   *)
(*                                                                         *)
(* A unit of stock costs one unit of money throughout, so that a quantity  *)
(* is its value.  Lots are numbered in the order of drawDown's ORDER BY.   *)
(* Payloads, beside [kind, month]:                                         *)
(*   grn [item, qty, lot]           price [of]                             *)
(*   door [item, qty, lot, priced, cash]   doorprice [of]                  *)
(*   adjust, count, prep, dispatch [item, qty]   transfer [item, qty]      *)
(*   produce [from, item, qty]      lot [lot, state]                       *)
(***************************************************************************)
EXTENDS Transactions

CONSTANTS Items, Lots, OnHand0

\* What the payloads hold.  A lot is of the one delivery it arrived by.
ASSUME StockAssumption ==
  /\ OnHand0 \in Int /\ IsFiniteSet(Lots) /\ Lots \subseteq Int
  /\ \A o \in Kinds({"grn", "door"}) :
       /\ P[o].item \in Items /\ P[o].qty \in Nat /\ P[o].lot \in Lots
       /\ \A p \in Kinds({"grn", "door"}) \ {o} : P[p].lot # P[o].lot
  /\ \A o \in Kinds({"door"}) : P[o].priced \in BOOLEAN /\ P[o].cash \in BOOLEAN
  /\ \A o \in Kinds({"price"}) : P[o].of \in Kinds({"grn"})
  /\ \A o \in Kinds({"doorprice"}) : P[o].of \in Kinds({"door"})
  /\ \A o \in Kinds({"adjust", "count", "prep", "dispatch", "transfer"}) :
       P[o].item \in Items /\ P[o].qty \in Int
  /\ \A o \in Kinds({"produce"}) : {P[o].from, P[o].item} \subseteq Items /\ P[o].qty \in Nat
  /\ \A o \in Kinds({"lot"}) : P[o].lot \in Lots /\ P[o].state \in {"used", "wasted"}

Item(i) == <<"item", i>>
LotRow(l) == <<"lot", l>>
DeliveryRow(o) == <<"delivery", o>>
Draws(s) == <<"draws", s>>

NoLot == [item |-> None, qty |-> 0, size |-> 0, state |-> "none",
          out |-> 0, away |-> 0]   \* out, away: history
NothingDrawn == [l \in Lots |-> 0]

StockRows == [r \in {Item(i) : i \in Items} |-> OnHand0]
               @@ [r \in {LotRow(l) : l \in Lots} |-> NoLot]
               @@ [r \in {DeliveryRow(o) : o \in Kinds({"grn", "door"})} |-> "none"]
               @@ [r \in {Draws(s) : s \in Kinds({"sale"})} |->
                     [by |-> NothingDrawn, undone |-> FALSE]]

-----------------------------------------------------------------------------
(* moveStock, drawDown, undraw, stampBatch. *)

Shelved(d, i) == {l \in Lots : LET b == Val(d, LotRow(l)) IN
                    b.item = i /\ b.state \in {"holding", "open"} /\ b.qty > 0}

\* what each lot gives: all it has, until the quantity is made up
Take(d, i, want) ==
  [l \in Lots |->
     IF l \notin Shelved(d, i) THEN 0
     ELSE LET earlier == {k \in Shelved(d, i) : k < l}
              had == SumFunction([k \in earlier |-> Val(d, LotRow(k)).qty])
          IN Least(Val(d, LotRow(l)).qty, Most(0, want - had))]

\* the lot rows after drawing; s is the sale that draws, or None
DrawDown(d, i, want, s) ==
  LET take == Take(d, i, want)
      drawn(b, n) == [b EXCEPT !.qty = @ - n, !.out = IF s = None THEN @ + n ELSE @,
                               !.state = IF b.qty = n THEN "used" ELSE "open"]
      lots == [r \in {LotRow(l) : l \in {k \in Lots : take[k] > 0}} |->
                 drawn(Val(d, r), take[r[2]])]
  IN IF s = None THEN lots
     ELSE (Draws(s) :> [by |-> take, undone |-> FALSE]) @@ lots

\* mutant: a draw is not marked, and comes back with every undoing
UndrawUnmarked(d, s) ==
  LET q == Val(d, Draws(s))
      of == {l \in Lots : q.by[l] > 0}
  IN [r \in {LotRow(l) : l \in of} |->
        [Val(d, r) EXCEPT !.qty = @ + q.by[r[2]], !.state = "open"]]
\* the lot rows after the draws of sale s come back: once, and not to a lot
\* thrown away since
Undraw(d, s) ==
  LET q == Val(d, Draws(s))
      of == IF q.undone THEN {} ELSE {l \in Lots : q.by[l] > 0}
      back(b, n) == IF b.state = "wasted" THEN [b EXCEPT !.away = @ + n]
                    ELSE [b EXCEPT !.qty = @ + n, !.state = "open"]
  IN (Draws(s) :> [q EXCEPT !.undone = TRUE])
       @@ [r \in {LotRow(l) : l \in of} |-> back(Val(d, r), q.by[r[2]])]

\* stock_move's row, on_hand, and the lot rows given
Move(d, i, qty, reason, s, lots, t) ==
  /\ \A r \in DOMAIN lots \cup {Item(i)} : Free(d, r)
  /\ Goes(d, [t EXCEPT
       !.w = (Item(i) :> Val(d, Item(i)) + qty) @@ lots @@ @,
       !.moved = @ \cup {[op |-> t.op, sale |-> s, item |-> i,
                          reason |-> reason, qty |-> qty]}])

\* stock out, from the lots; SELECT .. FOR UPDATE waits for every lot on the shelf
Out(d, i, qty, reason, s, t) ==
  /\ \A l \in Shelved(d, i) : Free(d, LotRow(l))
  /\ Move(d, i, -qty, reason, s, DrawDown(d, i, qty, s), t)
In(d, i, qty, reason, t) == Move(d, i, qty, reason, None, <<>>, t)

Stamp(l, i, qty) == LotRow(l) :> [NoLot EXCEPT !.item = i, !.qty = qty, !.size = qty,
                                               !.state = "holding"]

-----------------------------------------------------------------------------
(* Deliveries. *)

Payable(qty, tender) == Lines(("1200" :> qty) @@ (tender :> -qty))
PaidBy(o) == IF P[o].cash THEN "1010" ELSE "2100"

\* grn_receive and door_receipt: the delivery, its lot, and the shelf
Receive(d) ==
  LET o == tx[d].op p == P[o] priced == p.kind = "door" /\ p.priced IN
  /\ At(d, "receive")
  /\ Move(d, p.item, p.qty, "purchase", None, Stamp(p.lot, p.item, p.qty),
          [tx[d] EXCEPT !.w = Put(@, DeliveryRow(o), IF priced THEN "priced" ELSE "blind"),
                        !.legs = IF priced THEN Payable(p.qty, PaidBy(o)) ELSE NoLegs])

\* grn_priced: only the price that flips the row is booked
Price(d) ==
  LET o == Payload(d).of IN
  /\ At(d, "price") /\ Free(d, DeliveryRow(o))
  /\ IF Val(d, DeliveryRow(o)) # "blind" THEN Skip(d)
     ELSE Writes(d, DeliveryRow(o), "priced",
                 [tx[d] EXCEPT !.legs = Payable(P[o].qty, "2100")])

\* door_priced looks at the status without a lock, and then writes it
LookAtDoor(d) ==
  /\ At(d, "door")
  /\ IF row[DeliveryRow(Payload(d).of)] # "blind" THEN Skip(d) ELSE Goes(d, tx[d])
PriceDoor(d) ==
  LET o == Payload(d).of IN
  /\ At(d, "rates")
  /\ Writes(d, DeliveryRow(o), "priced",
            [tx[d] EXCEPT
               !.legs = Payable(P[o].qty, PaidBy(o)),
               !.drift = IF Val(d, DeliveryRow(o)) = "blind" THEN @ ELSE @ \cup {DeliveryRow(o)}])

-----------------------------------------------------------------------------
(* Adjustments, counts, kitchen production, transfers, lots. *)

ReasonOf(k) == CASE k = "adjust" -> "manual" [] k = "count" -> "audit"
                 [] k = "prep" -> "prep" [] k = "dispatch" -> "dispatch"

\* The money follows the quantity's direction; preparing and dispatching book nothing.
AdjustLegs(o) ==
  IF P[o].kind \in {"adjust", "count"}
  THEN Lines(("1200" :> P[o].qty) @@ ("5100" :> -P[o].qty)) ELSE NoLegs

Shift(d) ==
  LET p == Payload(d) t == [tx[d] EXCEPT !.legs = AdjustLegs(tx[d].op)] IN
  /\ At(d, "shift")
  /\ IF p.qty < 0 THEN Out(d, p.item, -p.qty, ReasonOf(p.kind), None, t)
                  ELSE In(d, p.item, p.qty, ReasonOf(p.kind), t)

\* between two places of the outlet: out and in, and no lot is drawn
Transfer(d) ==
  /\ At(d, "transfer")
  /\ LET leg(q) == [op |-> tx[d].op, sale |-> None, item |-> Payload(d).item,
                    reason |-> "transfer", qty |-> q]
         r == Item(Payload(d).item)
     IN Writes(d, r, Val(d, r),
          [tx[d] EXCEPT !.moved = @ \cup {leg(Payload(d).qty), leg(-Payload(d).qty)}])

Use(d) == At(d, "use") /\ Out(d, Payload(d).from, Payload(d).qty, "prep", None, tx[d])
Make(d) == At(d, "make") /\ In(d, Payload(d).item, Payload(d).qty, "produce", tx[d])

\* batch_close reads the lot and the shelf without a lock ..
LookAtLot(d) ==
  LET b == Val(d, LotRow(Payload(d).lot)) IN
  /\ At(d, "lot") /\ b.state # "none"
  /\ IF b.state \in {"used", "wasted"} THEN Skip(d)
     ELSE Goes(d, [tx[d] EXCEPT !.seen =
                     Most(0, Least(b.qty, Val(d, Item(b.item))))])
\* .. throws away what it saw, of that lot ..
Throw(d) ==
  LET b == Val(d, LotRow(Payload(d).lot)) n == tx[d].seen IN
  /\ At(d, "throw")
  /\ IF Payload(d).state # "wasted" \/ n = 0
     THEN Goes(d, tx[d])
     ELSE Move(d, b.item, -n, "waste", None, <<>>,
               [tx[d] EXCEPT !.legs = Lines(("5100" :> n) @@ ("1200" :> -n))])
\* .. and leaves it empty
Empty(d) ==
  LET r == LotRow(Payload(d).lot) IN
  /\ At(d, "empty")
  /\ Writes(d, r, [Val(d, r) EXCEPT !.away = @ + Val(d, r).qty, !.qty = 0,
                                    !.state = Payload(d).state], tx[d])

StockSteps(k) ==
  CASE k = "grn" -> <<"receive">>
    [] k = "door" -> <<"receive", "ensure", "insert", "post">>
    [] k = "price" -> <<"price", "ensure", "insert", "post">>
    [] k = "doorprice" -> <<"door", "rates", "ensure", "insert", "post">>
    [] k \in {"adjust", "count"} -> <<"shift", "ensure", "insert", "post">>
    [] k \in {"prep", "dispatch"} -> <<"shift">>
    [] k = "transfer" -> <<"transfer">>
    [] k = "produce" -> <<"use", "make">>
    [] k = "lot" -> <<"lot", "throw", "ensure", "insert", "post", "empty">>
StockKinds == {"grn", "door", "price", "doorprice", "adjust", "count", "prep",
               "dispatch", "transfer", "produce", "lot"}

\* a delivery is priced after the outlet has named it
StockBegin(d, o) ==
  /\ P[o].kind \in StockKinds
  /\ P[o].kind \in {"price", "doorprice"} => row[DeliveryRow(P[o].of)] # "none"
  /\ Begin(d, o, StockSteps(P[o].kind), NoLegs)

StockStatement(d) ==
  \/ Receive(d) \/ Price(d) \/ LookAtDoor(d) \/ PriceDoor(d) \/ Shift(d) \/ Transfer(d)
  \/ Use(d) \/ Make(d) \/ LookAtLot(d) \/ Throw(d) \/ Empty(d)

-----------------------------------------------------------------------------
(* What stock promises. *)

Moved(S) == SumFunction([v \in S |-> v.qty])

\* The shelf is the sum of its moves, and the inventory account differs from it by
\* what books nothing (kitchen production, transfers out, deliveries nobody priced,
\* what refunds put back) and by nothing else: no sale, void, count, write-off or
\* price is in one of the two and not in the other, or in one of them twice; unless
\* a delivery at the door was priced twice, by two who each saw it blind.
Booked(v) == \/ v.reason \in {"sale", "void", "waste", "manual", "audit"}
             \/ v.reason = "purchase" /\ row[DeliveryRow(v.op)] = "priced"
StockIsLedger ==
  /\ \A i \in Items : row[Item(i)] = OnHand0 + Moved({v \in moves : v.item = i})
  /\ (\A o \in Kinds({"door"}) : DeliveryRow(o) \notin adrift) =>
       Bal("1200") = Moved({v \in moves : Booked(v)})

\* No unit of a lot is drawn twice, and none comes back twice: a lot is what it
\* arrived as, less what was drawn and not returned, less what was left at its end.
LotsKept ==
  \A l \in Lots :
    LET b == row[LotRow(l)] IN
    /\ b.qty >= 0
    /\ b.state # "none" =>
         b.size = b.qty + b.out + b.away
           + SumFunction([s \in {s \in Kinds({"sale"}) : ~row[Draws(s)].undone} |->
                            row[Draws(s)].by[l]])

\* What the shelf, the inventory account and the lots say of one stock agrees, whatever
\* sales, voids, counts and deliveries are under way at once (apply.js moveStock, drawLots).
StockHolds == StockIsLedger /\ LotsKept
=============================================================================
