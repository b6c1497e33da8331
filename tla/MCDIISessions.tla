---------------------------- MODULE MCDIISessions ------------------------------
(***************************************************************************)
(* Small instances of DIISessions for TLC.                                 *)
(***************************************************************************)
EXTENDS DIISessions, TLC

CONSTANT egg

\* A list that repeats an ingredient.
Ranked(i, e) == [ingredient |-> i, essential |-> e]
EggLists == {<<Ranked(egg, TRUE), Ranked(egg, FALSE)>>}

\* The processes are alike.
Symmetry == Permutations(Processes)
===============================================================================
