------------------------------ MODULE MCFloor ------------------------------
(* Constants of the runs of Floor. *)
EXTENDS Floor

Other(kind, t, after) == [kind |-> kind, table |-> t, here |-> FALSE, after |-> after]
Mine(t) == [Other("line", t, {}) EXCEPT !.here = TRUE]
Payloads ==
  [seat |-> Other("line", "T1", {}),
   sale |-> Other("sale", "T1", {"seat"}),
   dish |-> Other("menu", "T1", {}),
   mine |-> Mine("T1")]
AllOps == DOMAIN Payloads

=============================================================================
