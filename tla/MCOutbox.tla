------------------------------ MODULE MCOutbox ------------------------------
(* Instances of Outbox for TLC.                                            *)
EXTENDS Outbox, TLC

CONSTANTS a, b, d, f1, f2

\* The floor's ops a and b, and d, the record of a discard.
MCLamport == [o \in Op |-> CASE o = a -> 1 [] o = b -> 2 [] OTHER -> 3]
\* Flights of one page are alike.
Alike == Permutations(Flight)
=============================================================================
