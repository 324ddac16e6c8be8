------------------------------ MODULE MCBrain ------------------------------
(* Instances of the brain's two sides for TLC: each is about one of the things it
   watches, with the actors that this one takes; the other side keeps quiet. *)
EXTENDS Continuity, Pacing

CONSTANTS c1, c2, c3, c4, c5, mara, kes

MCIds == <<c1, c2, c3, c4>>
MCDrafts == <<c1, c2, c3, c4, c5>>
Nobody == {{}}

Topic(acts, written, upto, who, places, casts, uses, causes) ==
  [acts |-> acts, written |-> written, upto |-> upto, who |-> who, places |-> places, casts |-> casts, refs |-> uses, edges |-> causes]

(* A secret used in chapters of which one is not drafted yet *)
LeaksTopic ==
  Topic({"draft", "refer", "learn", "reveal", "decide", "check"}, 1, 2, {mara}, {Unplaced}, Nobody, 2, 0)
(* Chapters that come, are mined, and are revised *)
MiningTopic == Topic({"draft", "revise", "check", "mine", "fail"}, 1, 2, {mara}, {}, Nobody, 1, 1)
(* Edges among chapters, one of which is not drafted yet *)
CausesTopic == Topic({"draft", "declare", "decide", "check", "fail"}, 1, 2, {}, {}, Nobody, 0, 2)
(* Every graph of up to four causes over four chapters *)
CirclesTopic == Topic({"declare"}, 4, 4, {}, {}, Nobody, 0, 4)
(* Who is in a scene, and who knows what by then *)
IronyTopic == Topic({"draft", "refer", "learn", "reveal"}, 1, 3, Cast, {c1, c2, c3, Unplaced}, {{mara}, {mara, kes}}, 2, 0)

QuietTopic == Topic({}, 0, 0, {}, {}, Nobody, 0, 0)

MCTopics == {QuietTopic, LeaksTopic, MiningTopic, CausesTopic, CirclesTopic, IronyTopic}

-----------------------------------------------------------------------------
MCWindows == {<<1, 3>>, <<2, 2>>, <<3, 4>>}

Subject(upto, lines, owed, hidden, who, plans, acts) ==
  [upto |-> upto, threads |-> lines, promises |-> owed, reveals |-> hidden, arcs |-> who,
   plans |-> plans, acts |-> acts]
Plan(template, target) == [template |-> template, target |-> target]

QuietSubject == Subject(0, {}, {}, {}, {}, {}, {})
(* Threads and reveals crowd in windows, and the windows pass *)
WindowsSubject == Subject(4, {"sea"}, {}, {"heir", "map", "will"}, {}, {}, {})
(* A short book that runs over, with all that is to be settled *)
EndSubject ==
  Subject(4, {}, {"gift"}, {}, {"maras"}, {Plan("kishotenketsu", 3)}, {"fulfil", "resolve"})
(* An arc with its pivot, in a book that is planned anew and retargeted *)
ArcsSubject ==
  Subject(5, {}, {}, {}, {"maras"}, {Plan("kishotenketsu", 3), Plan("kishotenketsu", 5)},
          {"retarget", "pivot"})
(* The three acts of four chapters, scored *)
ShapeSubject == Subject(5, {}, {}, {}, {}, {Plan("six", 4)}, {"score"})

MCSubjects == {QuietSubject, WindowsSubject, EndSubject, ArcsSubject, ShapeSubject}

-----------------------------------------------------------------------------
Init == ContinuityInit /\ PacingInit /\ (topic = QuietTopic) # (subject = QuietSubject)
Next == \/ ContinuityNext /\ UNCHANGED pacingVars
        \/ PacingNext /\ UNCHANGED continuityVars
Spec == Init /\ [][Next]_<<continuityVars, pacingVars>> /\ ContinuityFairness /\ PacingFairness

(* No chapter is left out for good by the Checker's mining or the Analyst's scoring. *)
EveryChapterIsRead == EveryChapterIsMined /\ EveryChapterIsScored
=============================================================================
