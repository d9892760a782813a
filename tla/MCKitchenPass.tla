-------------------------- MODULE MCKitchenPass --------------------------
(* Instances of KitchenPass: two lines of a first course, one of a second. *)
EXTENDS KitchenPass

CONSTANTS a, b, c      \* Line

Op(kind, lines) == [kind |-> kind, lines |-> lines, rung |-> TAKING]
Fulfil(rung) == [Op("fulfil_stage", {}) EXCEPT !.rung = rung]

Fires == {Op("fire_course", {a, b}), Op("fire_course", {c})}
Bumps == {Op("kds_bump", {l}) : l \in Line} \cup {Op("kds_bump_all", Line)}
Recalls == {Op("kds_recall", {l}) : l \in {a, c}} \cup {Op("kds_recall", Line)}
Floor == {Fulfil(KITCHEN), Fulfil(READY), Fulfil(SERVED), Fulfil(4)}
Voids == {Op("void_line", {l}) : l \in {b, c}}

AllOps == Fires \cup Bumps \cup Recalls \cup Floor \cup Voids
BumpOps == {Op("fire_course", {a, b}), Op("kds_bump", {a}), Op("kds_bump", {b})}
==========================================================================
