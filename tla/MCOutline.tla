------------------------------ MODULE MCOutline ------------------------------
(* Outline for TLC: the Plotter and the Author on briefs; the Plotter and the
   director on blueprints; the Plotter and the Author on beats while a promise
   comes and goes; the Keeper on arcs. *)
EXTENDS Outline, TLC

CONSTANTS b1, b2, a1, a2, hero

Lengths == [b \in Blueprints |-> IF b = b1 THEN 3 ELSE 4]

Writing == {{"plotter", "author", "briefs"}}

Meetings == Writing \cup {{"plotter", "director", "shape"},
                         {"plotter", "author", "ledger", "beats"}, {"keeper"}}

=============================================================================
