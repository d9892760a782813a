------------------------------- MODULE Sales -------------------------------
(***************************************************************************)
(* Sales and what undoes them (src/apply.js): sale, refund, void_sale, the *)
(* member's credit and points, and the cash register.                      *)
(*                                                                         *)
(* Amounts are whole units and a point is worth one.  There is one member, *)
(* and a sale has one tender.  Payloads, beside [kind, month]:             *)
(*   sale    [item, qty, net, tax, paid, tender, spend]                    *)
(*   refund  [of, amt, tender, restock]      void  [of]                    *)
(*   settle  [amt]         points [by, redeem]                             *)
(*   open    [float]       close  [counted]                                *)
(***************************************************************************)
EXTENDS Stock

CONSTANTS
  Registered,    \* chain.outlet.tax_code is not 'NONE'
  PointsPer,     \* what is spent for one point
  Points0        \* the member's points at the start

Sold == Kinds({"sale"})
\* tenderAccount
Tenders == {"1010", "1020", "1030", "1040"}

\* What the payloads hold.  A sale sells something, and a credit note is for something.
ASSUME SalesAssumption ==
  /\ Registered \in BOOLEAN /\ PointsPer \in Nat \ {0} /\ Points0 \in Nat
  /\ \A s \in Sold :
       /\ P[s].item \in Items /\ P[s].qty \in Nat \ {0} /\ P[s].tender \in Tenders
       /\ {P[s].net, P[s].tax, P[s].paid, P[s].spend} \subseteq Nat
       /\ "of" \notin DOMAIN P[s]
  /\ \A o \in Kinds({"refund", "void"}) : P[o].of \in Sold /\ "of" \in DOMAIN P[o]
  /\ \A o \in Kinds({"refund"}) :
       P[o].amt \in Nat \ {0} /\ P[o].tender \in Tenders /\ P[o].restock \in BOOLEAN
  /\ \A o \in Kinds({"settle"}) : P[o].amt \in Nat
  /\ \A o \in Kinds({"points"}) : P[o].by \in Int /\ P[o].redeem \in BOOLEAN
  /\ \A o \in Kinds({"open"}) : P[o].float \in Int
  /\ \A o \in Kinds({"close"}) : P[o].counted \in Int
SaleRow(s) == <<"sale", s>>
Member == <<"member", "m">>
Drawer == <<"drawer", "d">>

NoSale == [state |-> "none", no |-> 0, earned |-> 0, session |-> 0]
SalesRows == [r \in {SaleRow(s) : s \in Sold} |-> NoSale]
               @@ (Member :> [points |-> Points0, used |-> 0])
               @@ (Drawer :> [session |-> 0, open |-> FALSE, float |-> 0])

-----------------------------------------------------------------------------
(* What a sale comes to, and its entry. *)

\* Tax charged by a till at an outlet that is not registered is no liability: it
\* becomes a difference somebody has to answer for.
TaxOf(s) == IF Registered THEN P[s].tax ELSE 0
Rounding(s) == IF Registered THEN 0 ELSE P[s].tax
Charged(s) == P[s].net + TaxOf(s) + Rounding(s) - P[s].spend
OnCredit(s) == IF P[s].tender = "1040" THEN P[s].paid ELSE 0
EarnedBy(s) == Most(0, P[s].net - P[s].spend) \div PointsPer

SaleJournal(s) ==
  Lines((P[s].tender :> P[s].paid) @@ ("4000" :> -P[s].net)
        @@ ("2200" :> -TaxOf(s)) @@ ("4900" :> -Rounding(s))
        @@ ("2350" :> P[s].spend - EarnedBy(s)) @@ ("6550" :> EarnedBy(s))
        @@ ("5000" :> P[s].qty) @@ ("1200" :> -P[s].qty))

\* a refund gives back its share of the sale's tax; net takes the rest
RefundJournal(o) ==
  LET s == P[o].of
      share == Least(P[o].amt, Charged(s))
      tax == IF Charged(s) > 0 THEN (TaxOf(s) * share) \div Charged(s) ELSE 0
  IN Lines(("4000" :> P[o].amt - tax) @@ ("2200" :> tax) @@ (P[o].tender :> -P[o].amt))

\* the sale's own legs, the sides swapped
Reversal(s) ==
  LET own == {j \in journal : j.src = "sale" /\ j.ref = s}
  IN [a \in UNION {DOMAIN j.legs : j \in own} |-> -BookedOn(a, own)]

-----------------------------------------------------------------------------
(* Statements of sale, refund and void_sale. *)

\* mutant: the number is read, and the series' row not kept
NumberRead(d) ==
  LET r == SeriesRow(IF Is(d, "sale") THEN "SALE" ELSE "CN") IN
  /\ At(d, "number")
  /\ Goes(d, [tx[d] EXCEPT !.no = Val(d, r), !.w = Put(@, r, Val(d, r) + 1)])
\* chain.next_doc_no: UPDATE .. RETURNING keeps the series' row locked
Number(d) ==
  LET r == SeriesRow(IF Is(d, "sale") THEN "SALE" ELSE "CN") IN
  /\ At(d, "number")
  /\ Writes(d, r, Val(d, r) + 1, [tx[d] EXCEPT !.no = Val(d, r)])

CreditBy(o) == CASE P[o].kind = "sale" -> OnCredit(o)
                 [] P[o].kind = "settle" -> -P[o].amt
                 [] P[o].kind = "refund" -> IF P[o].tender = "1040" THEN -P[o].amt ELSE 0

\* what the member owes, which greatest(0, ..) cuts off
Credit(d) ==
  LET by == CreditBy(tx[d].op) new == Val(d, Member).used + by IN
  /\ At(d, "credit")
  /\ IF by = 0 THEN Goes(d, tx[d])
     ELSE Writes(d, Member, [Val(d, Member) EXCEPT !.used = Most(0, new)],
                 [tx[d] EXCEPT !.drift = IF new < 0 THEN @ \cup {Member} ELSE @])

\* the sale's row, and what it consumes
SaleStock(d) ==
  LET s == tx[d].op IN
  /\ At(d, "sold")
  /\ Out(d, P[s].item, P[s].qty, "sale", s,
         [tx[d] EXCEPT !.w = Put(@, SaleRow(s),
            [state |-> "live", no |-> tx[d].no, earned |-> EarnedBy(s),
             session |-> tx[d].session]), !.legs = SaleJournal(s)])

Earn(d) ==
  LET e == EarnedBy(tx[d].op) IN
  /\ At(d, "earn")
  /\ IF e = 0 THEN Goes(d, tx[d])
     ELSE Writes(d, Member, [Val(d, Member) EXCEPT !.points = @ + e], tx[d])

Split(d) == At(d, "split") /\ Goes(d, [tx[d] EXCEPT !.legs = RefundJournal(tx[d].op)])

\* void_sale looks without a lock ..
Find(d) ==
  /\ At(d, "find")
  /\ IF row[SaleRow(Payload(d).of)].state = "live" THEN Goes(d, tx[d]) ELSE Skip(d)

\* mutant: the claim does not look again
ClaimBlind(d) ==
  LET r == SaleRow(Payload(d).of) IN
  /\ At(d, "claim")
  /\ Writes(d, r, [Val(d, r) EXCEPT !.state = "void"],
            [tx[d] EXCEPT !.legs = Reversal(Payload(d).of)])
\* .. and claims the row: the claim is the guard
Claim(d) ==
  LET r == SaleRow(Payload(d).of) IN
  /\ At(d, "claim") /\ Free(d, r)
  /\ IF Val(d, r).state # "live" THEN Skip(d)
     ELSE Writes(d, r, [Val(d, r) EXCEPT !.state = "void"],
                 [tx[d] EXCEPT !.legs = Reversal(Payload(d).of)])

\* what the sale's own moves took
TakenBy(s) == -Moved({v \in moves : v.sale = s /\ v.reason = "sale"})

\* a void's return, or a refund's where the food came back untouched
ReturnStock(d) ==
  LET s == Payload(d).of q == TakenBy(s) IN
  /\ At(d, "return")
  /\ IF (Is(d, "refund") /\ ~Payload(d).restock) \/ q = 0 THEN Goes(d, tx[d])
     ELSE /\ \A l \in Lots : row[Draws(s)].by[l] > 0 => Free(d, LotRow(l))
          /\ Move(d, P[s].item, q, Payload(d).kind, s, Undraw(d, s), tx[d])

\* mutant: the points spent are not handed back
HandedBackNot(s) == -row[SaleRow(s)].earned
HandedBack(s) == P[s].spend - row[SaleRow(s)].earned
\* points, then credit
TakeBack(d) ==
  LET s == Payload(d).of
      points == Val(d, Member).points + HandedBack(s)
      used == Val(d, Member).used - OnCredit(s)
  IN /\ At(d, "member")
     /\ Writes(d, Member, [points |-> Most(0, points), used |-> Most(0, used)],
          [tx[d] EXCEPT !.drift = IF points < 0 \/ used < 0 THEN @ \cup {Member} ELSE @])

-----------------------------------------------------------------------------
(* loyalty_update reads the balance, moves it, and books what moved; a    *)
(* redemption is booked by its sale, which does not move the balance.     *)

Balance(d) ==
  /\ At(d, "balance")
  /\ Goes(d, [tx[d] EXCEPT !.seen = row[Member].points])

Adjust(d) ==
  LET now == Val(d, Member).points
      new == Most(0, now + Payload(d).by)
      moved == new - tx[d].seen
      exact == IF Payload(d).redeem THEN now + Payload(d).by >= 0 ELSE tx[d].seen = now
  IN /\ At(d, "adjust")
     /\ Writes(d, Member, [Val(d, Member) EXCEPT !.points = new],
          [tx[d] EXCEPT
             !.drift = IF exact THEN @ ELSE @ \cup {Member},
             !.legs = IF Payload(d).redeem THEN NoLegs
                      ELSE Lines(("6550" :> moved) @@ ("2350" :> -moved))])

-----------------------------------------------------------------------------
(* The cash register. *)

LookAtDrawer(d) ==
  /\ At(d, "look")
  /\ IF row[Drawer].open = Is(d, "open") THEN Skip(d)
     ELSE Goes(d, [tx[d] EXCEPT !.seen = row[Drawer].session])

\* the unique index over open sessions refuses a second one
OpenRegister(d) ==
  LET r == Val(d, Drawer) IN
  /\ At(d, "open") /\ ~r.open
  /\ Writes(d, Drawer, [session |-> r.session + 1, open |-> TRUE,
                        float |-> Payload(d).float], tx[d])

\* cash of the sales since the opening that are not void, less cash notes
Expected(session) ==
  row[Drawer].float
    + SumFunction([s \in {s \in Sold : /\ row[SaleRow(s)].state = "live"
                                       /\ row[SaleRow(s)].session >= session
                                       /\ P[s].tender = "1010"} |-> P[s].paid])
    - SumFunction([j \in {j \in journal : /\ j.src = "refund" /\ j.session >= session
                                          /\ P[j.op].tender = "1010"} |-> P[j.op].amt])

CloseRegister(d) ==
  LET over == Payload(d).counted - Expected(tx[d].seen) IN
  /\ At(d, "count")
  /\ Writes(d, Drawer, [Val(d, Drawer) EXCEPT !.open = FALSE],
            [tx[d] EXCEPT !.legs =
               IF over < 0 THEN Lines(("6300" :> -over) @@ ("1010" :> over))
                           ELSE Lines(("1010" :> over) @@ ("4900" :> -over))])

-----------------------------------------------------------------------------
SalesSteps(k) ==
  CASE k = "sale"   -> <<"number", "credit", "sold", "earn", "land", "ensure", "insert", "post">>
    [] k = "refund" -> <<"number", "split", "ensure", "insert", "post", "credit", "return">>
    [] k = "void"   -> <<"find", "claim", "ensure", "insert", "post", "return", "member">>
    [] k = "settle" -> <<"ensure", "insert", "post", "credit">>
    [] k = "points" -> <<"balance", "adjust", "ensure", "insert", "post">>
    [] k = "open"   -> <<"look", "open">>
    [] k = "close"  -> <<"look", "count", "ensure", "insert", "post">>
SalesKinds == {"sale", "refund", "void", "settle", "points", "open", "close"}

SettleLegs(o) == IF P[o].kind = "settle"
                 THEN Lines(("1010" :> P[o].amt) @@ ("1040" :> -P[o].amt)) ELSE NoLegs

\* a sale is refunded or voided after the outlet has named it
SalesBegin(d, o) ==
  /\ P[o].kind \in SalesKinds
  /\ P[o].kind \in {"refund", "void"} => row[SaleRow(P[o].of)].state # "none"
  /\ Begin(d, o, SalesSteps(P[o].kind), SettleLegs(o))

SalesStatement(d) ==
  \/ Number(d) \/ Credit(d) \/ SaleStock(d) \/ Earn(d) \/ Split(d) \/ Find(d) \/ Claim(d)
  \/ ReturnStock(d) \/ TakeBack(d) \/ Balance(d) \/ Adjust(d)
  \/ LookAtDrawer(d) \/ OpenRegister(d) \/ CloseRegister(d)

-----------------------------------------------------------------------------
(* What the books promise of sales. *)

Live(s) == row[SaleRow(s)].state = "live"
Void(s) == row[SaleRow(s)].state = "void"
Taken == {s \in Sold : Live(s) \/ Void(s)}

\* Each series is handed out without a gap and without a number twice, however
\* transactions overlap and wherever they are rolled back (chain.next_doc_no).
RunsOn(k, nos, n) == nos = 1 .. (row[SeriesRow(k)] - 1) /\ n = Cardinality(nos)
SeriesRunOn ==
  LET notes == {j \in journal : j.src = "refund"} IN
  /\ RunsOn("SALE", {row[SaleRow(s)].no : s \in Taken}, Cardinality(Taken))
  /\ RunsOn("CN", {j.no : j \in notes}, Cardinality(notes))
  /\ RunsOn("JV", {j.jv : j \in journal}, Cardinality(journal))

\* A sale is reversed once or never: whoever voids it, from however many
\* terminals, its entry and its void cancel on every account, its stock is back
\* once, and a sale that stands has lost neither (H.void_sale).
ReversedOnce ==
  \A s \in Sold :
    LET of == {j \in journal : j.ref = s /\ j.src \in {"sale", "void"}}
        back == {v \in moves : v.sale = s /\ v.reason = "void"} IN
    /\ Void(s) => /\ \A j \in of : \A a \in DOMAIN j.legs : BookedOn(a, of) = 0
                  /\ {v.qty : v \in back} = {P[s].qty} /\ Cardinality(back) = 1
    /\ Live(s) => Cardinality(of) = 1 /\ back = {}

\* What a member owes is what the house account is owed, and the points they
\* hold are what 2350 owes them, but for redemptions of which only one of the
\* two ops (the sale, loyalty_update) has arrived; unless a balance was cut off
\* at zero or a grant by hand booked a difference to a balance it read too early.
MemberTies ==
  Member \notin adrift =>
    /\ row[Member].used = Bal("1040")
    /\ row[Member].points = Points0 - Bal("2350")
         + SumFunction([s \in Taken |-> P[s].spend])
         + SumFunction([o \in {o \in applied : P[o].kind = "points" /\ P[o].redeem} |-> P[o].by])

\* No entry is in a month that was closed the whole time it was being made, and a
\* late sale passes over no month but one that was closed (postJournal).
LandsOpen ==
  \A j \in journal :
    /\ j.month \in j.open
    /\ j.src = "sale" => (P[j.op].month .. (j.month - 1)) \subseteq j.shut

\* A document, whenever its op arrives, has the next number of its series and stands in a
\* month that was open.
DocumentsRunOn == SeriesRunOn /\ LandsOpen
=============================================================================
