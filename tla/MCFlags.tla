------------------------------- MODULE MCFlags -------------------------------
(* Flags for TLC: "curation" is the Curator's, "thematic" is the Plotter's, who
   polls no flags, and "other" is nobody's. *)
EXTENDS Flags, TLC

CONSTANTS f1, f2, f3

Subjects == [i \in Ids |-> i]

Owners == [curation |-> "curator", thematic |-> "plotter", other |-> None]

Desks == [triage |-> {"curation", "thematic", "other"}, curator |-> {"curation"}]

(* Catch-all flags: one on which every call fails beside another, with much on its
   way, or with FlagLabeler or a person at work too; and two that are judged. *)
Unowned ==
  LET Filed(ids, crew, lag) == [crew |-> {"triage", "curator"} \cup crew, lag |-> lag,
                                category |-> [i \in ids |-> "other"]]
  IN {Filed({f1, f2}, {}, 2), Filed({f1, f2}, {"flaglabeler"}, 1),
      Filed({f1, f2}, {"human"}, 1), Filed({f2, f3}, {}, 1)}

(* A flag that Triage may pass on, and nobody else at work *)
PassedOn == {[crew |-> {"triage", "curator"}, lag |-> 2, category |-> [i \in {f2} |-> "other"]]}

=============================================================================
