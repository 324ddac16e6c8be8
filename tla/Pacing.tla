------------------------------- MODULE Pacing -------------------------------
(* What the brain measures the story's pace by, and how canon moves it: threads,
   promises and reveals with the chapters they are planned for, the blueprint's
   beats, the characters' arcs, and the tension that the Structure Analyst
   (agents/structure_analyst.py) scores chapters with.  The handlers that fold
   these events are canon/projections/{threads,promises,secrets,outline,arcs}.py;
   the agents that commit them are left out, so any of them may come at any time. *)
EXTENDS Brain

CONSTANTS
  Drafts,     \* the identifiers that chapters get, in the order they get them
  Threads,
  Promises,
  Reveals,    \* secrets, as far as their reveal is planned
  Windows,    \* the chapters something may be planned for, <<first, last>>
  Arcs,       \* each of a character of its own
  ArcTypes,   \* those that are declared
  Tensions,   \* in hundredths
  BATCH_SIZE, \* chapters the Analyst is given at once
  Subjects    \* bound: what an instance is about

Unset == <<0, 0>>
Templates == DOMAIN BEAT_TEMPLATES

ASSUME PacingAssumption ==
  /\ Drafts \in Seq(ToSet(Drafts)) /\ \A i, j \in DOMAIN Drafts : Drafts[i] = Drafts[j] => i = j
  /\ None \notin ToSet(Drafts)
  /\ Windows \subseteq Nat \X Nat /\ \A w \in Windows : 1 <= w[1] /\ w[1] <= w[2]
  /\ Threads \cap Reveals = {}
  /\ Tensions \subseteq 0 .. 100 /\ BATCH_SIZE \in Nat \ {0}
  /\ \A s \in Subjects :
       /\ s.upto \in 0 .. Len(Drafts) /\ s.threads \subseteq Threads /\ s.promises \subseteq Promises
       /\ s.reveals \subseteq Reveals /\ s.arcs \subseteq Arcs /\ s.acts \subseteq {"retarget", "fulfil", "pivot", "resolve", "score"}
       /\ s.plans \subseteq [template : Templates, target : {n \in Nat : n >= 3}]

VARIABLES
  subject,   \* what this instance is about
  order,     \* the chapters drafted
  threads, promises, reveals, arcs,
  plan,      \* the blueprint in force with its beats, or None
  scores,    \* the tension of each chapter that has one
  analyst    \* the chapters the Analyst was given, or None

story == <<threads, promises, reveals, arcs, plan>>
pacingVars == <<subject, order, threads, promises, reveals, arcs, plan, scores, analyst>>

PacingInit ==
  /\ subject \in Subjects
  /\ order = <<>>
  /\ threads = [t \in Threads |-> [state |-> "none", last |-> None, window |-> Unset]]
  /\ promises = [p \in Promises |-> [state |-> "none", window |-> Unset]]
  /\ reveals = [s \in Reveals |-> [revealed |-> FALSE, window |-> Unset]]
  /\ arcs = [a \in Arcs |-> [active |-> FALSE, resolved |-> FALSE, type |-> None, outcome |-> None,
                             pivots |-> {}, last |-> None]]
  /\ plan = None /\ scores = <<>> /\ analyst = None

(* The chapter an event is about: the newest, or none *)
Now == IF order = <<>> THEN None ELSE Last(order)

DraftNext ==
  /\ Len(order) < subject.upto
  /\ order' = Append(order, Drafts[Len(order) + 1])
  /\ UNCHANGED story

(* Threads.  A window is planned for a thread that is not over; touching does
   not move it. *)
Plant ==
  \E t \in subject.threads, c \in {Now, None} :
    /\ threads[t].state = "none"
    /\ threads' = [threads EXCEPT ![t] = [state |-> "planted", last |-> c, window |-> Unset]]
    /\ UNCHANGED <<order, promises, reveals, arcs, plan>>

Touch ==
  \E t \in subject.threads :
    /\ Live(threads[t])
    /\ threads' = [threads EXCEPT ![t].state = "touched", ![t].last = Now]
    /\ UNCHANGED <<order, promises, reveals, arcs, plan>>

Finish ==
  \E t \in subject.threads, s \in {"paid_off", "abandoned"} :
    /\ Live(threads[t]) /\ threads' = [threads EXCEPT ![t].state = s]
    /\ UNCHANGED <<order, promises, reveals, arcs, plan>>

PlanResolution ==
  \E t \in subject.threads, w \in Windows \cup {Unset} :
    /\ Live(threads[t]) /\ threads' = [threads EXCEPT ![t].window = w]
    /\ UNCHANGED <<order, promises, reveals, arcs, plan>>

PlanReveal ==
  \E s \in subject.reveals, w \in Windows \cup {Unset} :
    /\ ~reveals[s].revealed /\ reveals' = [reveals EXCEPT ![s].window = w]
    /\ UNCHANGED <<order, threads, promises, arcs, plan>>

RevealIt ==
  \E s \in subject.reveals :
    /\ ~reveals[s].revealed /\ reveals' = [reveals EXCEPT ![s].revealed = TRUE]
    /\ UNCHANGED <<order, threads, promises, arcs, plan>>

Make ==
  \E p \in subject.promises, w \in Windows \cup {Unset} :
    /\ promises[p].state = "none"
    /\ promises' = [promises EXCEPT ![p] = [state |-> "open", window |-> w]]
    /\ UNCHANGED <<order, threads, reveals, arcs, plan>>

Settle ==
  \E p \in subject.promises, s \in {"paid", "released"} :
    /\ promises[p].state = "open" /\ promises' = [promises EXCEPT ![p].state = s]
    /\ UNCHANGED <<order, threads, reveals, arcs, plan>>

(* A blueprint's beats are its template's; those of the blueprint before it are
   gone, and the pivots that cite them are lost. *)
Lost == 0

Adopt ==
  \E p \in subject.plans :
    /\ plan' = [beats |-> BEAT_TEMPLATES[p.template], target |-> p.target,
                landed |-> [i \in DOMAIN BEAT_TEMPLATES[p.template] |-> None]]
    /\ arcs' = [a \in Arcs |-> [arcs[a] EXCEPT !.pivots = IF @ = {} THEN {} ELSE {Lost}]]
    /\ UNCHANGED <<order, threads, promises, reveals>>

Retarget ==
  \E p \in subject.plans :
    /\ "retarget" \in subject.acts /\ plan # None /\ p.target # plan.target
    /\ plan' = [plan EXCEPT !.target = p.target]
    /\ UNCHANGED <<order, threads, promises, reveals, arcs>>

Fulfil ==
  \E i \in IF plan = None \/ Now = None THEN {} ELSE Unfulfilled(plan) :
    /\ "fulfil" \in subject.acts /\ plan' = [plan EXCEPT !.landed[i] = Now]
    /\ UNCHANGED <<order, threads, promises, reveals, arcs>>

(* Arcs.  One that is declared anew is superseded, which is not followed. *)
DeclareArc ==
  \E a \in subject.arcs, type \in ArcTypes :
    /\ ~arcs[a].active
    /\ arcs' = [arcs EXCEPT ![a].active = TRUE, ![a].type = type]
    /\ UNCHANGED <<order, threads, promises, reveals, plan>>

Going(a) == arcs[a].active /\ ~arcs[a].resolved

PlanPivot ==
  \E a \in subject.arcs, i \in IF plan = None THEN {} ELSE DOMAIN plan.beats :
    /\ "pivot" \in subject.acts /\ Going(a) /\ arcs[a].pivots = {} /\ arcs' = [arcs EXCEPT ![a].pivots = {i}]
    /\ UNCHANGED <<order, threads, promises, reveals, plan>>

AdvanceArc ==
  \E a \in subject.arcs :
    /\ "pivot" \in subject.acts /\ Going(a) /\ arcs' = [arcs EXCEPT ![a].last = Now]
    /\ UNCHANGED <<order, threads, promises, reveals, plan>>

ResolveArc ==
  \E a \in subject.arcs, outcome \in {None, "truth_embraced", "lie_embraced"} :
    /\ "resolve" \in subject.acts /\ Going(a) /\ arcs' = [arcs EXCEPT ![a].resolved = TRUE, ![a].outcome = outcome]
    /\ UNCHANGED <<order, threads, promises, reveals, plan>>

StoryMoves ==
  /\ \/ DraftNext \/ Plant \/ Touch \/ Finish \/ PlanResolution \/ PlanReveal \/ RevealIt
     \/ Make \/ Settle \/ Adopt \/ Retarget \/ Fulfil
     \/ DeclareArc \/ PlanPivot \/ AdvanceArc \/ ResolveArc
  /\ UNCHANGED <<subject, scores, analyst>>

-----------------------------------------------------------------------------
(* The Structure Analyst *)

(* The newest of those that are not scored *)
UnscoredRecentChapters ==
  LET unscored == ToSet(order) \ DOMAIN scores
      Newer(c) == {d \in unscored : Ordinal(d, order) > Ordinal(c, order)}
  IN {c \in unscored : Cardinality(Newer(c)) < BATCH_SIZE}

AnalystPolls ==
  /\ "score" \in subject.acts /\ analyst = None /\ UnscoredRecentChapters # {}
  /\ analyst' = UnscoredRecentChapters
  /\ UNCHANGED <<subject, order, story, scores>>

(* Scores for chapters it was not given are dropped; a chapter may be left out. *)
AnalystCommits(done) ==
  /\ analyst # None /\ done \subseteq analyst
  /\ \E given \in [done -> Tensions] :
       scores' = [c \in DOMAIN scores \cup done |-> IF c \in done THEN given[c] ELSE scores[c]]
  /\ analyst' = None
  /\ UNCHANGED <<subject, order, story>>

PacingNext ==
  \/ StoryMoves
  \/ AnalystPolls
  \/ \E done \in SUBSET ToSet(Drafts) : AnalystCommits(done)

(* The Analyst is scheduled while it has something to score; asked again and
   again, it now and then scores every chapter it is given. *)
PacingFairness ==
  /\ WF_pacingVars(AnalystPolls)
  /\ SF_pacingVars(analyst # None /\ AnalystCommits(analyst))

PacingSpec == PacingInit /\ [][PacingNext]_pacingVars /\ PacingFairness

-----------------------------------------------------------------------------
PacingTypeOK ==
  /\ order = SubSeq(Drafts, 1, Len(order))
  /\ \A t \in Threads : threads[t].state \in {"none", "planted", "touched", "paid_off", "abandoned"}
  /\ DOMAIN scores \subseteq ToSet(order) /\ (analyst # None => analyst \subseteq ToSet(order))
  /\ plan # None => \A i \in DOMAIN plan.beats : plan.landed[i] \in ToSet(order) \cup {None}

(* The spans reported as congested (brain/resolution_pacing.py) are the clusters
   of more than two windows.  A window's cluster is what is in every set of windows
   that has it and, with a window, those it meets; span and count are the cluster's. *)
SpansAreClusters ==
  LET windows == Windowed(threads, reveals)
      Item == DOMAIN windows
      Meet(i, j) == windows[i][1] <= windows[j][2] /\ windows[j][1] <= windows[i][2]
      Closed == {c \in SUBSET Item : \A i \in c, j \in Item : Meet(i, j) => j \in c}
      Cluster(i) == {j \in Item : \A c \in Closed : i \in c => j \in c}
      Span(c) == [lo |-> Min({windows[i][1] : i \in c}), hi |-> Max({windows[i][2] : i \in c}),
                  count |-> Cardinality(c)]
  IN CongestedWindows(threads, reveals)
       = {Span(c) : c \in {d \in {Cluster(i) : i \in Item} : Cardinality(d) > 2}}

(* The end of the book.  When as many chapters are written as were planned, the
   Author is told of every kind of thing that is left, and of nothing else; a
   beat that is still to come after that counts as late; and the room is told to
   write the ending only when nothing is left. *)
TheEndIsAnnounced ==
  plan # None =>
    LET left == Blockers(plan, promises, arcs) IN
    /\ Len(order) >= plan.target => FinaleConvergenceNote(plan, promises, arcs, order) = left
    /\ Len(order) > plan.target => OutlineTab(plan, order) = Cardinality(Unfulfilled(plan))
    /\ ("satisfied" \in CompletionNote(plan, promises, arcs)) = (left = {})

(* The Threads tab's alarm is quiet just when nothing on it is wrong: an empty
   board does not hide a reveal that is overdue or reveals that crowd. *)
ThreadsTabMissesNothing ==
  (ThreadsTab(threads, promises, reveals, order, 3) = 0)
    = /\ StaleThreads(threads, order, 3) = {} /\ OverdueResolutions(threads, Len(order)) = {}
      /\ OverdueReveals(reveals, Len(order)) = {} /\ OverduePromises(promises, Len(order)) = {}
      /\ CongestedWindows(threads, reveals) = {}

(* What the Arcs tab and its note ask for helps: an arc that advances in the newest
   chapter is neither stagnant nor behind on a pivot any more, and raises no new
   alarm, also one that advanced too early and now advances too late, which the
   comment at arc_alignment.py:94-96 expects to be reported as missed.  A pivot that
   cites a beat of a blueprint that is gone stays. *)
AdvancingClears ==
  [][\A a \in Arcs :
       (arcs'[a].last # arcs[a].last /\ arcs'[a].last = Now /\ Going(a)) =>
         /\ \A f \in ArcFindings(arcs', plan, order) : f[1] = a => f[2] = "pivot_orphaned"
         /\ ArcsTab(arcs', plan, order) <= ArcsTab(arcs, plan, order)]_pacingVars

(* Tension is held to the plan: a chapter written where a beat is planned, or past
   the end when the last beat is, is off plan just when it is further than the
   tolerance from what that beat promises; and a Shape tab without an alarm is flat. *)
TensionFollowsThePlan ==
  plan # None =>
    LET At(i) == Least(plan.target, Most(1, Round(plan.beats[i].pct, plan.target)))
        Polar == {i \in DOMAIN plan.beats : plan.beats[i].polarity # None}
        Promised(o) == POLARITY_TARGETS[plan.beats[Max({i \in Polar : At(i) = o})].polarity]
        off == TensionDeviations(plan, scores, order, TENSION_DELTA)
    IN /\ \A c \in DOMAIN scores :
            LET o == Least(plan.target, Ordinal(c, order)) IN
            o \in {At(i) : i \in Polar} =>
              (c \in off) = (scores[c] > Promised(o) + TENSION_DELTA \/ scores[c] < Promised(o) - TENSION_DELTA)
       /\ (ShapeTab(plan, scores, order, SAG_SPIKE_DELTA) = 0) =>
            \A c, d \in DOMAIN scores : scores[c] - scores[d] < 2 * SAG_SPIKE_DELTA

(* What the panel and the prompts read off the book is so, all four. *)
PanelIsRight == SpansAreClusters /\ TheEndIsAnnounced /\ ThreadsTabMissesNothing /\ TensionFollowsThePlan

(* Every chapter is scored in the end, however far the writing runs ahead of the
   Analyst, whose batch is the newest chapters. *)
EveryChapterIsScored == "score" \in subject.acts => <>[](DOMAIN scores = ToSet(order))
=============================================================================
