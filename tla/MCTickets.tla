---------------------------- MODULE MCTickets ----------------------------
(* Instances of Tickets: two spellings of one table and a second table. *)
EXTENDS Tickets, TLC

CONSTANTS T6, T06, T7, l1, l2

MCTicket == 1..MaxOps
MCKey == (T6 :> 6) @@ (T06 :> 6) @@ (T7 :> 7)

Op(kind, table) == [kind |-> kind, ticket |-> Nil, table |-> table, to |-> Nil, lid |-> Nil,
                    party |-> 0, lamport |-> 0]
Add(label, lid) == [Op("add_line", label) EXCEPT !.lid = lid]
AddParty(label, lid, party) == [Add(label, lid) EXCEPT !.party = party]
ById(op, t) == [op EXCEPT !.ticket = t, !.table = Nil]
Void(lid) == [Op("void_line", Nil) EXCEPT !.lid = lid]
Move(from, to, lamport) == [Op("move_table", from) EXCEPT !.to = to, !.lamport = lamport]
Covers(label, party, lamport) == [Op("covers_update", label) EXCEPT !.party = party, !.lamport = lamport]

\* Bills opened under either spelling and without a table, added to, edited by several
\* waiters, parked, resumed and settled, by table and by id.
ServiceOps == {Op("seat_walkin", Nil), Add(T6, l1), AddParty(T06, l2, 4), Void(l1),
               Op("park_bill", T06), ById(Op("park_bill", Nil), 1), Op("resume_bill", T6),
               Op("sale", T6), ById(Op("close_ticket", Nil), 1)}
EditOps == {Move(T6, T7, 2), Move(T6, T06, 3), ById(Move(Nil, T6, 4), 1),
            Covers(T6, 1, 1), Covers(T7, 2, 4), ById(Covers(Nil, 3, 5), 1), Covers(T6, 4, 0)}
AllOps == ServiceOps \cup EditOps

ParkOps == {Add(T6, l1), Op("park_bill", T6), Op("sale", T6)}
MoveOps == {Add(T7, l1), Add(T6, l2), Op("park_bill", T6), Move(T7, T6, 5), Op("sale", T6)}
==========================================================================
