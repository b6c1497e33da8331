---------------------------- MODULE MealOccurrence ----------------------------
(***************************************************************************)
(* What a planned meal promises, whatever files and events record it: a    *)
(* meal is cooked physically at most once, only that uses up prep, and     *)
(* correcting, retracting or recovering the record of it never does.       *)
(* Cooking implements this specification.                                  *)
(***************************************************************************)
EXTENDS Naturals

CONSTANT Occurrences

VARIABLES
    phase,      \* what has become of each occurrence
    prep        \* remaining uses of the prep item

vars == <<phase, prep>>

Phase == {"absent", "planned", "cooked", "reopened", "cancelled", "gone"}

Init ==
    /\ phase \in [Occurrences -> {"absent", "cooked"}]
    /\ prep \in Nat

Move(o, from, to) ==
    /\ phase[o] = from
    /\ phase' = [phase EXCEPT ![o] = to]

Use == prep' = IF prep > 0 THEN prep - 1 ELSE 0

\* The one physical cook of a planned meal, or of a dish no plan asks for.
Cook(o) == Move(o, "planned", "cooked") /\ Use
CookUnplanned == Use /\ UNCHANGED phase

Undo(o) == Move(o, "cooked", "reopened") /\ UNCHANGED prep
Redo(o) == Move(o, "reopened", "cooked") /\ UNCHANGED prep
Cancel(o) ==
    \E from \in {"planned", "reopened"} :
        Move(o, from, "cancelled") /\ UNCHANGED prep

\* A plan is written or deleted: meals appear and disappear, and a meal that
\* was cooked never comes back as one that was not.
Rewritten(from, to) ==
    \/ to = from
    \/ from = "absent" /\ to = "planned"
    \/ from \in {"planned", "cancelled"} /\ to = "absent"
    \/ from \in {"cooked", "reopened", "cancelled"} /\ to = "gone"

Rewrite ==
    /\ phase' \in [Occurrences -> Phase]
    /\ \A o \in Occurrences : Rewritten(phase[o], phase'[o])
    /\ UNCHANGED prep

Next ==
    \/ \E o \in Occurrences : Cook(o) \/ Undo(o) \/ Redo(o) \/ Cancel(o)
    \/ CookUnplanned
    \/ Rewrite

Spec == Init /\ [][Next]_vars
=============================================================================
