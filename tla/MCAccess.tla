------------------------------ MODULE MCAccess ------------------------------
(* An administrator, somebody to be hired, two terminals, two requests at once. *)
EXTENDS Access

MCFirst == [s \in Staff |-> IF s = "ada" THEN "1111" ELSE "none"]
Symmetry == Permutations(Clients)
=============================================================================
