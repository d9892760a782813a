-------------------------------- MODULE Menu --------------------------------
(***************************************************************************)
(* The menu's book of recipes (src/apply.js): a dish and a batch are both  *)
(* items, a recipe line is an ingredient or a batch, and what a dish       *)
(* declares to a guest is worked out from its lines and kept on the item.  *)
(* Two readers walk the lines: the declaration, breadth first over what it *)
(* has not seen, and a sale, over every path.  Each op is one transaction; *)
(* they are taken one at a time here.                                      *)
(***************************************************************************)
EXTENDS FiniteSets, Integers

CONSTANTS
  Dishes,      \* item: dishes and batches
  Stock,       \* ingredient
  Allergens,   \* what kashikeyo-rules.js can declare
  Addons,      \* modifier_group
  Depth,       \* MAX_DEPTH and DERIVE_DEPTH
  NoItem,      \* buy_item IS NULL
  MaxEdits     \* bound on ops

ASSUME DepthAssumption == Depth \in Nat

VARIABLES
  item,        \* item: [buy, decl, addons, batch]
  line,        \* recipe_line: pairs <<item, ingredient or batch>>
  has,         \* ingredient -> what its name, category and own declaration say
  group,       \* modifier_group rows
  edits        \* ops taken

menuVars == <<item, line, has, group, edits>>

(* A menu that was set up: its items and ingredients exist, no recipe is written. *)
MenuInit ==
  /\ item = [d \in Dishes |-> [buy |-> NoItem, decl |-> {}, addons |-> {}, batch |-> FALSE]]
  /\ line = {} /\ has = [i \in Stock |-> {}] /\ group = {} /\ edits = 0

Of(lines, S) == {x[2] : x \in {l \in lines : l[1] \in S}}
-----------------------------------------------------------------------------
(* publishDeclaration: level by level, each item once, Depth levels at most. *)

\* Mutant: what was walked is published, whatever was left over.
WholeAnyway(lines, d, front) == TRUE
\* Nothing is published while the frontier is not empty.
Whole(lines, d, front) == front = {}

Walk(lines, d) ==
  LET walk[k \in 0..Depth] ==
        IF k = 0 THEN [seen |-> {d}, front |-> {d}, parts |-> {}]
        ELSE LET w == walk[k - 1]
                 next == (Of(lines, w.front) \cap Dishes) \ w.seen
             IN [seen |-> w.seen \cup next, front |-> next,
                 parts |-> w.parts \cup (Of(lines, w.front) \cap Stock)]
  IN walk[Depth]

Declarable(lines, d) == Whole(lines, d, Walk(lines, d).front)
Parts(lines, d) == Walk(lines, d).parts
Says(stock, parts) == UNION {stock[i] : i \in parts}

Publish(items, lines, stock, D) ==
  [d \in Dishes |-> IF d \in D /\ Declarable(lines, d)
                    THEN [items[d] EXCEPT !.decl = Says(stock, Parts(lines, d))]
                    ELSE items[d]]

(* deriveConsumption: what a sale draws, over every path of at most Depth batches, and what *)
(* is bought in.                                                                            *)

Want(lines, sold) ==
  LET want[k \in 0..Depth] == IF k = 0 THEN sold ELSE Of(lines, want[k - 1]) \cap Dishes
  IN want

Bought(items, sold) == {items[d].buy : d \in sold} \cap Stock
Derived(lines, items, sold) ==
  ((UNION {Of(lines, Want(lines, sold)[k]) : k \in 0..Depth}) \cap Stock) \cup Bought(items, sold)

\* deepest < DERIVE_DEPTH: no ingredient was found on the last level.
Complete(lines, sold) == Of(lines, Want(lines, sold)[Depth]) \cap Stock = {}

\* A sale moves what was derived where that is complete and something, else what the till says.
SaleDraws(lines, items, sold, till) ==
  IF Complete(lines, sold) /\ Derived(lines, items, sold) # {}
  THEN Derived(lines, items, sold) ELSE till
-----------------------------------------------------------------------------
(* The ops. *)

Edit == edits < MaxEdits /\ edits' = edits + 1
Rewritten(lines, d, comps) == {l \in lines : l[1] # d} \cup {<<d, x>> : x \in comps}
Recipes == SUBSET (Stock \cup Dishes)

\* dish_upsert: bought in, or made to a recipe; what was not sent is kept, and a dish that
\* is bought in by this op loses its lines.
DishUpsert(d) ==
  /\ Edit
  /\ \E buys \in BOOLEAN, recipes \in BOOLEAN, lists \in BOOLEAN :
     \E buy \in IF buys THEN Stock \cup {NoItem} ELSE {item[d].buy},
        comps \in IF recipes THEN Recipes ELSE {{}},
        groups \in IF lists THEN SUBSET Addons ELSE {{}}, typed \in SUBSET Allergens :
       LET bought == buys /\ buy # NoItem
           lines == IF bought THEN Rewritten(line, d, {})
                    ELSE IF recipes THEN Rewritten(line, d, comps) ELSE line
           now == [buy |-> buy, decl |-> typed,
                   addons |-> IF lists THEN groups \cap group ELSE item[d].addons,
                   batch |-> item[d].batch]
       IN /\ line' = lines
          /\ item' = Publish([item EXCEPT ![d] = now], lines, has, {d})
  /\ UNCHANGED <<has, group>>

\* recipe_update publishes the item whose lines it wrote.
RecipeUpdate(d) ==
  /\ Edit
  /\ \E comps \in Recipes :
       /\ line' = Rewritten(line, d, comps)
       /\ item' = Publish(item, line', has, {d})
  /\ UNCHANGED <<has, group>>

UsersOf(lines, x) == {d \in Dishes : <<d, x>> \in lines}

\* subrecipe_add: a batch of ingredients, then every dish that draws on it.
SubrecipeAdd(b) ==
  /\ Edit
  /\ \E comps \in SUBSET Stock \ {{}} :
       /\ line' = Rewritten(line, b, comps)
       /\ item' = Publish([item EXCEPT ![b].batch = TRUE], line', has, {b} \cup UsersOf(line', b))
  /\ UNCHANGED <<has, group>>

\* item_upsert, and republishUsing: the items with a line of that ingredient.
ItemUpsert(i) ==
  /\ Edit
  /\ \E now \in SUBSET Allergens :
       /\ has' = [has EXCEPT ![i] = now]
       /\ item' = Publish(item, line, has', UsersOf(line, i))
  /\ UNCHANGED <<line, group>>

\* modifier_update adds the group to the items it names; modifier_remove takes a group whose
\* last modifier went off every item (ON DELETE CASCADE).
ModifierUpdate(g) ==
  /\ Edit /\ group' = group \cup {g}
  /\ \E on \in SUBSET Dishes :
       item' = [d \in Dishes |-> IF d \in on THEN [item[d] EXCEPT !.addons = @ \cup {g}]
                                 ELSE item[d]]
  /\ UNCHANGED <<line, has>>

ModifierRemove(g) ==
  /\ Edit /\ g \in group /\ group' = group \ {g}
  /\ item' = [d \in Dishes |-> [item[d] EXCEPT !.addons = @ \ {g}]]
  /\ UNCHANGED <<line, has>>

MenuNext ==
  \/ \E d \in Dishes : DishUpsert(d) \/ RecipeUpdate(d) \/ SubrecipeAdd(d)
  \/ \E i \in Stock : ItemUpsert(i)
  \/ \E g \in Addons : ModifierUpdate(g) \/ ModifierRemove(g)

MenuSpec == MenuInit /\ [][MenuNext]_menuVars
-----------------------------------------------------------------------------
\* What is in a dish, by the book: the items that every set closed under the recipes has,
\* once it has the dish, and their ingredients.
Within(d) == {x \in Dishes : \A S \in SUBSET Dishes :
                d \in S /\ Of(line, S) \cap Dishes \subseteq S => x \in S}
MadeOf(d) == Of(line, Within(d)) \cap Stock

\* Nothing in it nests Depth deep: every batch ranks below what it is put into.
Shallow(d) ==
  \E rank \in [Dishes -> 0..(Depth - 1)] :
    \A l \in line : l[1] \in Within(d) /\ l[2] \in Dishes => rank[l[2]] < rank[l[1]]

(* Two readings of one recipe agree.  Whenever a dish can be declared, its declaration is   *)
(* worked out from everything its recipe leads to, round cycles and through batches.  A     *)
(* sale of such dishes moves all that and what is bought in, or what the till said it       *)
(* moved, and never part of it; and it moves all that, whatever a stale till said, where no *)
(* recipe is as deep as the walk (publishDeclaration, deriveConsumption).                   *)
DrawnIsDeclared ==
  /\ \A d \in Dishes : Declarable(line, d) => Parts(line, d) = MadeOf(d)
  /\ \A sold \in SUBSET Dishes, till \in SUBSET Stock :
       LET all == (UNION {MadeOf(d) : d \in sold}) \cup Bought(item, sold)
       IN /\ (\A d \in sold : Declarable(line, d)) => SaleDraws(line, item, sold, till) \in {till, all}
          /\ (\A d \in sold : Shallow(d)) /\ all # {} => SaleDraws(line, item, sold, till) = all

(* "An ingredient's name, category or own declaration changed: every dish that uses it     *)
(* says something different now" (apply.js, above republishUsing).                          *)
EveryUserSaysSo ==
  \A d \in Dishes : Declarable(line, d) => item[d].decl = Says(has, MadeOf(d))
=============================================================================
