--------------------------- MODULE MCOutletBooks ---------------------------
(* Constants of the runs of OutletBooks. *)
EXTENDS OutletBooks

LOCAL T == INSTANCE TLC

CONSTANTS d1, d2, MaxSales, MaxOps

Sale(net, tax, paid, tender, qty, spend) ==
  [kind |-> "sale", item |-> "i", net |-> net, tax |-> tax, paid |-> paid,
   tender |-> tender, qty |-> qty, spend |-> spend, month |-> 1]
SalesOps ==
  [cash   |-> Sale(4, 1, 5, "1010", 2, 0),
   credit |-> Sale(4, 1, 4, "1040", 1, 1),
   void1  |-> [kind |-> "void", of |-> "cash", month |-> 2],
   void2  |-> [kind |-> "void", of |-> "credit", month |-> 1],
   void3  |-> [kind |-> "void", of |-> "credit", month |-> 2],
   note   |-> [kind |-> "refund", of |-> "credit", amt |-> 2, tender |-> "1040",
               restock |-> TRUE, month |-> 2],
   settle |-> [kind |-> "settle", amt |-> 2, month |-> 1],
   spent  |-> [kind |-> "points", by |-> -1, redeem |-> TRUE, month |-> 1],
   grant  |-> [kind |-> "points", by |-> 2, redeem |-> FALSE, month |-> 1],
   shut   |-> [kind |-> "shut", month |-> 1],
   again  |-> [kind |-> "reopenMonth", month |-> 1],
   open   |-> [kind |-> "open", float |-> 1, month |-> 1],
   close  |-> [kind |-> "close", counted |-> 5, month |-> 2]]
Qty(k, q) == [kind |-> k, item |-> "i", qty |-> q, month |-> 1]
StockOps ==
  [sold   |-> Sale(4, 0, 4, "1010", 3, 0),
   unsold |-> [kind |-> "void", of |-> "sold", month |-> 1],
   back   |-> [kind |-> "refund", of |-> "sold", amt |-> 4, tender |-> "1010",
               restock |-> TRUE, month |-> 1],
   grn    |-> Qty("grn", 2) @@ [lot |-> 2],
   price1 |-> [kind |-> "price", of |-> "grn", month |-> 1],
   price2 |-> [kind |-> "price", of |-> "grn", month |-> 1],
   tray   |-> Qty("door", 2) @@ [lot |-> 1, priced |-> FALSE, cash |-> TRUE],
   rates  |-> [kind |-> "doorprice", of |-> "tray", month |-> 1],
   rates2 |-> [kind |-> "doorprice", of |-> "tray", month |-> 1],
   less   |-> Qty("adjust", -1),
   more   |-> Qty("count", 1),
   cook   |-> Qty("prep", -1),
   make   |-> [kind |-> "produce", from |-> "i", item |-> "j", qty |-> 1, month |-> 1],
   across |-> Qty("transfer", 1),
   sent   |-> Qty("dispatch", -1),
   bin    |-> [kind |-> "lot", lot |-> 1, state |-> "wasted", month |-> 1],
   finish |-> [kind |-> "lot", lot |-> 1, state |-> "used", month |-> 1]]
Amt(k, n) == [kind |-> k, amt |-> n, month |-> 1]
File(g, n) == [kind |-> "match", batch |-> "b", gross |-> g, net |-> n, month |-> 1]
OfficeOps ==
  [pay1   |-> Amt("payroll", 2) @@ [for |-> 1],
   pay2   |-> Amt("payroll", 3) @@ [for |-> 1],
   opex1  |-> Amt("opex", 1) @@ [for |-> 1],
   opex2  |-> Amt("opex", 1) @@ [for |-> 1],
   wear1  |-> Amt("depreciate", 1) @@ [for |-> 1],
   wear2  |-> Amt("depreciate", 1) @@ [for |-> 2],
   file1  |-> File(5, 4), file2 |-> File(5, 3), file3 |-> File(5, 5),
   undo   |-> [kind |-> "reopen", batch |-> "b", month |-> 1],
   vendor |-> Amt("pay", 1), oven |-> Amt("asset", 2), fix |-> Amt("repair", 1),
   byHand |-> Amt("manual", 1),
   in1    |-> [kind |-> "in", cid |-> "p1", emp |-> "e", month |-> 1],
   in2    |-> [kind |-> "in", cid |-> "p2", emp |-> "e", month |-> 1],
   out1   |-> [kind |-> "out", cid |-> "p1", month |-> 1]]
Payloads == SalesOps @@ StockOps @@ OfficeOps
AllOps == DOMAIN Payloads
Two == {d1, d2}

\* A history stays within one of the three groups of ops, and is cut off after
\* MaxSales ops of the sales, or MaxOps of the others.
InHand == {tx[d].op : d \in Txs} \ {None}
Within(group, most) == LET came == applied \cup InHand IN
                       came \subseteq group /\ Cardinality(came) <= most
Bounded == \/ Within(DOMAIN SalesOps, MaxSales)
           \/ Within(DOMAIN StockOps, MaxOps)
           \/ Within(DOMAIN OfficeOps, MaxOps)
MCSpec == BooksInit /\ [][BooksNext /\ Bounded']_bookVars
Symmetric == T!Permutations(Two)

=============================================================================
