------------------------------ MODULE MCCooking ------------------------------
(* Small instances of Cooking for TLC. *)
EXTENDS Cooking, TLC

Symmetry == Permutations(Weeks) \cup Permutations(Occurrences)
              \cup Permutations(CookEvents) \cup Permutations(Dishes)

\* Bounds: a second plan is explored with one event and one dish, a second
\* meal with two events.
DishesInUse == {meals[o].dish : o \in DOMAIN meals}
                 \cup {history[e].dish : e \in DOMAIN history}
SmallHousehold ==
    /\ Cardinality(DOMAIN plans) = 2 =>
          Cardinality(DOMAIN history) <= 1 /\ Cardinality(DishesInUse) <= 1
    /\ Cardinality(DOMAIN meals) = 2 => Cardinality(DOMAIN history) <= 2
=============================================================================
