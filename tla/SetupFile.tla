----------------------------- MODULE SetupFile -----------------------------
(***************************************************************************)
(* A store's setup as a file (src/setup.js): the export reads the outlet   *)
(* part by part and writes the op that would make each row again; the      *)
(* import runs those ops, each in a savepoint of its own, so that one the  *)
(* outlet refuses leaves no trace.  The parts are in an order in which a   *)
(* row's parents come before it.                                           *)
(***************************************************************************)
EXTENDS Menu, Sequences

\* Mutant: recipes go in as soon as the dishes are there.
RecipesFirst == <<"ingredients", "menu", "recipes", "batches", "modifiers">>
PARTS == <<"ingredients", "menu", "batches", "recipes", "modifiers">>

Batches == {d \in Dishes : item[d].batch}
LinesOf(d) == Of(line, {d})

\* An empty store.
Empty == [stock |-> {}, items |-> {}, line |-> {}, group |-> {},
          buy |-> [d \in Dishes |-> NoItem], addons |-> [d \in Dishes |-> {}]]

\* item_upsert for every ingredient.
Ingredients(s) == [s EXCEPT !.stock = Stock]

\* dish_upsert for what is not a batch: groups that are not there yet are dropped, and so is
\* what is bought in of an ingredient that is not there.
DishRows(s) ==
  LET made == {d \in Dishes \ Batches : item[d].buy \in s.stock \cup {NoItem}}
  IN [s EXCEPT !.items = made,
        !.buy = [d \in Dishes |-> IF d \in made THEN item[d].buy ELSE NoItem],
        !.addons = [d \in Dishes |-> IF d \in made THEN item[d].addons \cap s.group ELSE {}]]

\* subrecipe_add: every line of a batch is written as an ingredient, and one that is not
\* refuses the batch.
BatchRows(s) ==
  LET made == {b \in Batches : LinesOf(b) # {} /\ LinesOf(b) \subseteq s.stock}
  IN [s EXCEPT !.items = @ \cup made,
               !.line = @ \cup {l \in line : l[1] \in made}]

\* recipe_update: a line on a batch that is not there refuses the recipe.
RecipeRows(s) ==
  LET made == {d \in Dishes \ Batches : LinesOf(d) \subseteq s.stock \cup s.items}
  IN [s EXCEPT !.line = @ \cup {l \in line : l[1] \in made}]

\* modifier_update: the group, and the items that are there.
ModifierRows(s) ==
  [s EXCEPT !.group = group,
            !.addons = [d \in Dishes |-> s.addons[d] \cup
                          (IF d \in s.items THEN item[d].addons ELSE {})]]

Import(s, part) ==
  CASE part = "ingredients" -> Ingredients(s)
    [] part = "menu" -> DishRows(s)
    [] part = "batches" -> BatchRows(s)
    [] part = "recipes" -> RecipeRows(s)
    [] part = "modifiers" -> ModifierRows(s)

\* importSetup of a file that exportSetup wrote with these parts.
Imported(parts) ==
  LET after[k \in 0..Len(parts)] == IF k = 0 THEN Empty ELSE Import(after[k - 1], parts[k])
  IN after[Len(parts)]
-----------------------------------------------------------------------------
\* Batches are made of ingredients, which is what the till's form writes.
FlatBatches == \A b \in Batches : LinesOf(b) # {} /\ LinesOf(b) \subseteq Stock

(* What is exported is what an empty store gets: the recipes, what is bought in, and what  *)
(* every dish offers, whatever order they were made in (setup.js PARTS).                    *)
SetupSurvives ==
  FlatBatches =>
    LET s == Imported(PARTS) IN
      /\ s.items = Dishes /\ s.line = line /\ s.group = group
      /\ \A d \in Dishes : ~item[d].batch =>
           s.buy[d] = item[d].buy /\ s.addons[d] = item[d].addons
=============================================================================
