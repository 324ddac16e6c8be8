----------------------------- MODULE MCChapters -----------------------------
(* Instances of Chapters for TLC: three chapters, as many as stand the Author
   down, between the Author and the Editor alone; then one chapter with one
   worker at a time. *)
EXTENDS Chapters

InTurn ==
  [c \in {{}} \cup {{w} : w \in Workers} |->
     IF c = {} THEN [chapters |-> 3, signals |-> 2, lag |-> 1]
     ELSE [chapters |-> 1, signals |-> 1, lag |-> MaxPending]]

=============================================================================
