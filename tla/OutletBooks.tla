---------------------------- MODULE OutletBooks ----------------------------
(* An outlet's books: sales, stock and the back office over one schema. *)
EXTENDS Sales, BackOffice

BooksInit ==
  /\ row = FirstRows @@ StockRows @@ SalesRows @@ OfficeRows
  /\ journal = {} /\ moves = {} /\ applied = {} /\ adrift = {}
  /\ tx = [d \in Txs |-> Idle]

Statement(d) == Entry(d) \/ StockStatement(d) \/ SalesStatement(d) \/ OfficeStatement(d)

BooksNext == \E d \in Txs :
          \/ \E o \in Ops : StockBegin(d, o) \/ SalesBegin(d, o) \/ OfficeBegin(d, o)
          \/ Statement(d) \/ CommitTx(d) \/ Abort(d)

BooksSpec == BooksInit /\ [][BooksNext]_bookVars

=============================================================================
