------------------------------ MODULE MCProposals ------------------------------
(* Proposals for TLC: a retcon (tier 1), a chapter (tier 2), and blueprints,
   which every level gates. *)
EXTENDS Proposals, TLC

CONSTANTS author, retconner, retcon, chapter, outline, blueprint, screen, console, shell

Tiers == [w \in Works |-> IF w = retcon THEN 1 ELSE IF w = chapter THEN 2 ELSE 0]

Dials == [s \in Consoles \cup Shells |-> {"autonomy"}]
Decisions == [s \in Consoles \cup Shells |-> {"approve", "reject"}]

=============================================================================
