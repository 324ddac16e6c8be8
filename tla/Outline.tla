------------------------------- MODULE Outline -------------------------------
(* The shape the book is written to: blueprints and their beats, the briefs
   drafted against them for chapters to come, and the characters' arcs.

   The Plotter (agents/plotter.py) plans on what it polled, the director decides
   on its blueprints, the Author (agents/author.py) writes to a brief, and the
   Character Keeper plans arcs; the events they append wait for a projector
   (canon/projections/outline.py, arcs.py) that is behind.

   Of the Plotter's poll the Ledger's promises are kept as one, open or not.
   What a brief cites is filtered against the poll as the Ledger's citations
   are, and is left out, as are notes, obligatory scenes, the frameworks' own
   windows and the two guards that reject a malformed answer. *)
EXTENDS Naturals, Sequences, FiniteSets

CONSTANTS
  Blueprints,
  Slots,        \* the beats of a framework
  Targets,      \* the lengths, in chapters, a blueprint may be given
  Length,       \* the length each blueprint is proposed with
  Cast,         \* the characters there are
  Arcs,
  MaxBriefs,    \* bound: briefs drafted
  MaxChapters,  \* bound: chapters written
  MaxPending,   \* bound: events the projector is behind
  MaxFaults,    \* bound: runs that fail half way
  Desks,        \* the parties at work, and topics of the Plotter, tried together
  None

Parties == {"plotter", "author", "keeper", "director", "ledger"}
Topics == {"shape", "briefs", "beats"}  \* what a Plotter's answer may be about

ASSUME OutlineAssumption ==
  /\ Length \in [Blueprints -> Targets]
  /\ Slots # {} /\ None \notin Blueprints
  /\ MaxBriefs \in Nat /\ MaxChapters \in Nat /\ MaxPending \in Nat \ {0} /\ MaxFaults \in Nat
  /\ Desks \subseteq SUBSET (Parties \cup Topics)

Ordinals == 1 .. MaxChapters
Beats == Blueprints \X Slots

VARIABLES
  \* the read model
  blueprints,  \* by id, those there are
  beats,       \* by id, those there are: the chapter that fulfilled each; 0: none
  briefs,      \* in the order they were drafted
  arcs,        \* by id, those there are
  proposals,   \* by id, those there are: the status of each blueprint's proposal
  chapters,    \* the chapters there are, numbered in order
  owed,        \* is a promise open?
  pending,     \* the events the projector has not folded
  plot, draft, keep,  \* what the Plotter, the Author and the Keeper at work hold
  minted,      \* the ids of blueprints and arcs given out
  drafted,     \* the briefs drafted, and the chapters written, so far
  written,
  met,         \* the beats that were ever fulfilled
  anew,        \* the blueprints that were adopted once more
  desk, faults

rows == <<blueprints, beats, briefs, arcs, proposals, chapters, owed, met, anew>>
vars == <<rows, pending, plot, draft, keep, minted, drafted, written, desk, faults>>

Blank == [x \in {} |-> 0]

Event(type, id, arg) == [type |-> type, id |-> id, arg |-> arg]

(* A story may be created with a blueprint (adopt_blueprint_story_dir). *)
Init ==
  /\ blueprints = Blank /\ beats = Blank /\ briefs = <<>> /\ arcs = Blank
  /\ proposals = Blank /\ chapters = 0 /\ owed = FALSE /\ met = {} /\ anew = {}
  /\ \/ pending = <<>> /\ minted = {}
     \/ \E b \in Blueprints : pending = <<Event("adopted", b, 0)>> /\ minted = {b}
  /\ plot = None /\ draft = None /\ keep = None
  /\ drafted = 0 /\ written = 0
  /\ desk \in Desks /\ faults = 0

(* f with x mapped to y *)
Upsert(f, x, y) == [z \in DOMAIN f \cup {x} |-> IF z = x THEN y ELSE f[z]]

-----------------------------------------------------------------------------
(* The handlers: what an event makes of the rows                           *)

Active(b) == b \in DOMAIN blueprints /\ blueprints[b].active

Superseded == [b \in DOMAIN blueprints |-> [blueprints[b] EXCEPT !.active = FALSE]]

(* mutant: the beats of the blueprint before stay *)
BlueprintAdoptedBesides(e) ==
  /\ blueprints' = Upsert(Superseded, e.id, [active |-> TRUE, target |-> Length[e.id], completed |-> None])
  /\ beats' = [x \in ({e.id} \X Slots) \cup DOMAIN beats |->
                 IF x[1] = e.id THEN 0 ELSE beats[x]]
  /\ anew' = IF e.id \in DOMAIN blueprints THEN anew \cup {e.id} ELSE anew
  /\ UNCHANGED met

BlueprintAdopted(e) ==
  /\ blueprints' = Upsert(Superseded, e.id, [active |-> TRUE, target |-> Length[e.id], completed |-> None])
  /\ beats' = [x \in {e.id} \X Slots |-> 0]
  /\ anew' = IF e.id \in DOMAIN blueprints THEN anew \cup {e.id} ELSE anew
  /\ UNCHANGED met

BlueprintRetargeted(e) ==
  /\ blueprints' = IF Active(e.id) THEN [blueprints EXCEPT ![e.id].target = e.arg]
                   ELSE blueprints
  /\ UNCHANGED <<beats, met, anew>>

BookCompleted(e) ==
  /\ blueprints' = IF Active(e.id) /\ blueprints[e.id].completed = None
                   THEN [blueprints EXCEPT ![e.id].completed = e.arg] ELSE blueprints
  /\ UNCHANGED <<beats, met, anew>>

(* A beat is fulfilled by a chapter, or by none any more. *)
BeatFulfilled(e) ==
  /\ beats' = IF e.id \in DOMAIN beats THEN [beats EXCEPT ![e.id] = e.arg] ELSE beats
  /\ met' = IF e.id \in DOMAIN beats /\ e.arg # 0 THEN met \cup {e.id} ELSE met
  /\ UNCHANGED <<blueprints, anew>>

ChapterBriefDrafted(e) ==
  briefs' = Append(briefs, [ordinal |-> e.arg, state |-> "open", chapter |-> 0])

(* mutant: the last to close a brief has it *)
ChapterBriefClosedAnew(e) ==
  briefs' = IF e.id \in DOMAIN briefs
            THEN [briefs EXCEPT ![e.id].state = e.type, ![e.id].chapter = e.arg]
            ELSE briefs

ChapterBriefClosed(e) ==
  briefs' = IF e.id \in DOMAIN briefs /\ briefs[e.id].state = "open"
            THEN [briefs EXCEPT ![e.id].state = e.type, ![e.id].chapter = e.arg]
            ELSE briefs

ArcDeclared(e) ==
  arcs' = IF e.id \in DOMAIN arcs THEN arcs
          ELSE Upsert([a \in DOMAIN arcs |->
                         IF arcs[a].of = e.arg THEN [arcs[a] EXCEPT !.active = FALSE]
                         ELSE arcs[a]],
                      e.id, [of |-> e.arg, active |-> TRUE, resolved |-> FALSE,
                             pivots |-> {}])

Unresolved(a) == a \in DOMAIN arcs /\ ~ arcs[a].resolved

(* A second pivot on the same beat replaces the first. *)
ArcPivotPlanned(e) ==
  arcs' = IF Unresolved(e.id) THEN [arcs EXCEPT ![e.id].pivots = @ \cup {e.arg}] ELSE arcs

ArcResolved(e) ==
  arcs' = IF Unresolved(e.id) THEN [arcs EXCEPT ![e.id].resolved = TRUE] ELSE arcs

(* The projector folds the next event. *)
Fold ==
  LET e == Head(pending) IN
  /\ pending # <<>> /\ pending' = Tail(pending)
  /\ \/ /\ \/ e.type = "adopted" /\ BlueprintAdopted(e)
           \/ e.type = "retargeted" /\ BlueprintRetargeted(e)
           \/ e.type = "completed" /\ BookCompleted(e)
           \/ e.type = "beat" /\ BeatFulfilled(e)
        /\ UNCHANGED <<briefs, arcs, proposals, chapters, owed>>
     \/ /\ \/ e.type = "drafted" /\ ChapterBriefDrafted(e)
           \/ e.type \in {"superseded", "fulfilled"} /\ ChapterBriefClosed(e)
        /\ UNCHANGED <<blueprints, beats, arcs, proposals, chapters, owed, met, anew>>
     \/ /\ \/ e.type = "declared" /\ ArcDeclared(e)
           \/ e.type = "pivot" /\ ArcPivotPlanned(e)
           \/ e.type = "resolved" /\ ArcResolved(e)
        /\ UNCHANGED <<blueprints, beats, briefs, proposals, chapters, owed, met, anew>>
     \/ /\ e.type \in {"open", "decided"} /\ proposals' = Upsert(proposals, e.id, e.type)
        /\ UNCHANGED <<blueprints, beats, briefs, arcs, chapters, owed, met, anew>>
     \/ /\ e.type = "chapter" /\ chapters' = chapters + 1
        /\ UNCHANGED <<blueprints, beats, briefs, arcs, proposals, owed, met, anew>>
     \/ /\ e.type = "promise" /\ owed' = e.arg
        /\ UNCHANGED <<blueprints, beats, briefs, arcs, proposals, chapters, met, anew>>
  /\ UNCHANGED <<plot, draft, keep, minted, drafted, written, desk, faults>>

Room == Len(pending) < MaxPending

(* An agent's or the director's event joins those the projector has to fold. *)
Commit(type, id, arg) == Room /\ pending' = Append(pending, Event(type, id, arg))

-----------------------------------------------------------------------------
(* The Plotter                                                             *)

OpenBriefs == {i \in DOMAIN briefs : briefs[i].state = "open"}

HasBlueprint == \E b \in DOMAIN blueprints : blueprints[b].active

(* fewer than two open briefs for the three chapters to come *)
ShortOfBriefs ==
  Cardinality({i \in OpenBriefs : chapters < briefs[i].ordinal
                                 /\ briefs[i].ordinal <= chapters + 3}) < 2

(* Plotter.readiness; with briefs enough it is a late beat that may wake it *)
Ready ==
  \/ ~ HasBlueprint /\ \A b \in DOMAIN proposals : proposals[b] # "open"
  \/ HasBlueprint /\ (ShortOfBriefs \/ \E x \in DOMAIN beats : beats[x] = 0)

(* Plotter.poll reads the chapters and the blueprint ... *)
PlotterPoll ==
  /\ "plotter" \in desk /\ plot = None /\ Ready
  /\ \E b \in IF HasBlueprint THEN {x \in DOMAIN blueprints : blueprints[x].active}
              ELSE {None} :
       plot' = [stage |-> "beats", chapters |-> chapters, blueprint |-> b,
                target |-> IF b = None THEN 0 ELSE blueprints[b].target,
                ended |-> IF b = None THEN TRUE ELSE blueprints[b].completed # None,
                beats |-> {}, open |-> {}, latest |-> [o \in Ordinals |-> 0],
                stale |-> {}, complete |-> FALSE, asked |-> FALSE, redraft |-> 0]
  /\ UNCHANGED <<rows, pending, draft, keep, minted, drafted, written, desk, faults>>

(* completion_status: is the shape fully realised, ... *)
Realised(fulfilled) == DOMAIN fulfilled # {} /\ \A x \in DOMAIN fulfilled : fulfilled[x] # 0

(* ... and no arc that is followed still open? *)
ArcsResolved == \A a \in DOMAIN arcs : arcs[a].active => arcs[a].resolved

(* mutant: the brief of the chapter just written is left open *)
StaleStrictly(done) == {i \in OpenBriefs : briefs[i].ordinal < done}

Stale(done) == {i \in OpenBriefs : briefs[i].ordinal <= done}

LatestFor(o) ==
  LET S == {i \in OpenBriefs : briefs[i].ordinal = o}
  IN IF S = {} THEN 0 ELSE CHOOSE i \in S : \A j \in S : j <= i

(* ... then, each at an await of its own, the beats, the open briefs, the
   promises, the open proposals and the arcs; its housekeeping follows of them
   together. *)
PlotterReads ==
  /\ plot # None
  /\ \/ /\ plot.stage = "beats"
        /\ plot' = [plot EXCEPT !.stage = "briefs", !.beats = DOMAIN beats,
                      !.complete = ~ plot.ended /\ Realised(beats)]
     \/ /\ plot.stage = "briefs"
        /\ plot' = [plot EXCEPT !.stage = "promises", !.open = OpenBriefs,
                      !.latest = [o \in Ordinals |-> LatestFor(o)],
                      !.stale = Stale(plot.chapters)]
     \/ /\ plot.stage = "promises"
        /\ plot' = [plot EXCEPT !.stage = "proposals", !.complete = @ /\ ~ owed]
     \/ /\ plot.stage = "proposals"
        /\ plot' = [plot EXCEPT !.stage = "arcs",
                      !.asked = \E b \in DOMAIN proposals : proposals[b] = "open"]
     \/ /\ plot.stage = "arcs"
        /\ plot' = [plot EXCEPT !.stage = "reap", !.complete = @ /\ ArcsResolved]
  /\ UNCHANGED <<rows, pending, draft, keep, minted, drafted, written, desk, faults>>

(* _reap_stale_open_briefs *)
PlotterReaps ==
  /\ plot # None /\ plot.stage = "reap" /\ plot.stale # {}
  /\ \E i \in plot.stale : /\ Commit("superseded", i, 0)
                           /\ plot' = [plot EXCEPT !.stale = @ \ {i}]
  /\ UNCHANGED <<rows, draft, keep, minted, drafted, written, desk, faults>>

(* _declare_completion_if_satisfied *)
PlotterDeclares ==
  /\ plot # None /\ plot.stage = "reap" /\ plot.stale = {}
  /\ plot' = [plot EXCEPT !.stage = "plan"]
  /\ IF plot.complete THEN Commit("completed", plot.blueprint, plot.chapters)
     ELSE UNCHANGED pending
  /\ UNCHANGED <<rows, draft, keep, minted, drafted, written, desk, faults>>

Planning == plot # None /\ plot.stage = "plan"

(* commit_blueprint_plan: always gated, so a proposal *)
PlotterProposes(b) ==
  /\ Planning /\ "shape" \in desk /\ plot.redraft = 0 /\ b \in Blueprints \ minted
  /\ plot.blueprint = None /\ ~ plot.asked
  /\ Commit("open", b, 0) /\ minted' = minted \cup {b}
  /\ plot' = [plot EXCEPT !.asked = TRUE]
  /\ UNCHANGED <<rows, draft, keep, drafted, written, desk, faults>>

(* commit_retarget_intent *)
PlotterRetargets(t) ==
  /\ Planning /\ "shape" \in desk /\ plot.redraft = 0 /\ plot.blueprint # None /\ t # plot.target
  /\ Commit("retargeted", plot.blueprint, t)
  /\ UNCHANGED <<rows, plot, draft, keep, minted, drafted, written, desk, faults>>

(* commit_brief_intents: the brief it knows for a chapter gives way first, *)
PlotterReplaces(o) ==
  /\ Planning /\ "briefs" \in desk /\ plot.redraft = 0 /\ drafted < MaxBriefs
  /\ plot.chapters < o /\ plot.latest[o] # 0
  /\ Commit("superseded", plot.latest[o], 0)
  /\ plot' = [plot EXCEPT !.latest[o] = 0, !.redraft = o]
  /\ UNCHANGED <<rows, draft, keep, minted, drafted, written, desk, faults>>

(* and the new one is drafted. *)
PlotterDrafts(o) ==
  /\ Planning /\ "briefs" \in desk /\ plot.redraft \in {0, o} /\ drafted < MaxBriefs
  /\ plot.chapters < o /\ plot.latest[o] = 0
  /\ Commit("drafted", drafted + 1, o)
  /\ drafted' = drafted + 1
  /\ plot' = [plot EXCEPT !.latest[o] = drafted + 1, !.redraft = 0]
  /\ UNCHANGED <<rows, draft, keep, minted, written, desk, faults>>

PlotterSupersedes(i) ==
  /\ Planning /\ "briefs" \in desk /\ plot.redraft = 0 /\ i \in plot.open
  /\ Commit("superseded", i, 0)
  /\ UNCHANGED <<rows, plot, draft, keep, minted, drafted, written, desk, faults>>

(* commit_beat_intents; a blank chapter clears the beat *)
PlotterFulfils(x, c) ==
  /\ Planning /\ "beats" \in desk /\ plot.redraft = 0 /\ x \in plot.beats /\ c \in 0 .. plot.chapters
  /\ Commit("beat", x, c)
  /\ UNCHANGED <<rows, plot, draft, keep, minted, drafted, written, desk, faults>>

PlotterEnds ==
  /\ Planning /\ plot.redraft = 0
  /\ plot' = None
  /\ UNCHANGED <<rows, pending, draft, keep, minted, drafted, written, desk, faults>>

-----------------------------------------------------------------------------
(* The Author, the Keeper, the director and the Ledger                     *)

(* brain/gate.py, on by default: with a blueprint, or with a proposal that nobody
   decides.  The second way needs a world entry as well; whether one is there
   is left open, so a draft without a blueprint is never a duty. *)
MayDraft == HasBlueprint \/ \E b \in DOMAIN proposals : proposals[b] = "open"

BriefFor(o) ==
  LET S == {i \in OpenBriefs : briefs[i].ordinal = o}
  IN IF S = {} THEN 0 ELSE CHOOSE i \in S : \A j \in S : i <= j

AuthorPoll ==
  /\ "author" \in desk /\ draft = None /\ MayDraft /\ written < MaxChapters
  /\ draft' = [brief |-> BriefFor(chapters + 1), chapter |-> 0]
  /\ UNCHANGED <<rows, pending, plot, keep, minted, drafted, written, desk, faults>>

AuthorWrites ==
  /\ draft # None /\ draft.chapter = 0
  /\ Commit("chapter", written + 1, 0)
  /\ written' = written + 1
  /\ draft' = IF draft.brief = 0 THEN None ELSE [draft EXCEPT !.chapter = written + 1]
  /\ UNCHANGED <<rows, plot, keep, minted, drafted, desk, faults>>

AuthorFulfils ==
  /\ draft # None /\ draft.chapter # 0
  /\ Commit("fulfilled", draft.brief, draft.chapter)
  /\ draft' = None
  /\ UNCHANGED <<rows, plot, keep, minted, drafted, written, desk, faults>>

ActiveArcs == {a \in DOMAIN arcs : arcs[a].active}

(* CharacterKeeper: the beats are polled, the arcs read again to commit *)
KeeperPoll ==
  /\ "keeper" \in desk /\ keep = None
  /\ keep' = [beats |-> DOMAIN beats, arcs |-> None]
  /\ UNCHANGED <<rows, pending, plot, draft, minted, drafted, written, desk, faults>>

KeeperReads ==
  /\ keep # None /\ keep.arcs = None
  /\ keep' = [keep EXCEPT !.arcs = ActiveArcs]
  /\ UNCHANGED <<rows, pending, plot, draft, minted, drafted, written, desk, faults>>

(* commit_arc_intents; an advance only notes a chapter *)
KeeperCommits ==
  /\ keep # None /\ keep.arcs # None
  /\ \/ \E a \in Arcs \ minted, c \in Cast : /\ Commit("declared", a, c)
                                             /\ minted' = minted \cup {a}
     \/ /\ \/ \E a \in keep.arcs, x \in keep.beats : Commit("pivot", a, x)
           \/ \E a \in keep.arcs : Commit("resolved", a, 0)
        /\ UNCHANGED minted
  /\ UNCHANGED <<rows, plot, draft, keep, drafted, written, desk, faults>>

KeeperEnds ==
  /\ keep # None /\ keep.arcs # None
  /\ keep' = None
  /\ UNCHANGED <<rows, pending, plot, draft, minted, drafted, written, desk, faults>>

(* ProposalService on a proposal of a blueprint; the copy of its status that
   the guards read says open for ever (Proposals) *)
Approve(b) ==
  /\ "director" \in desk /\ b \in DOMAIN proposals /\ Len(pending) + 2 <= MaxPending
  /\ pending' = pending \o <<Event("adopted", b, 0), Event("decided", b, 0)>>
  /\ UNCHANGED <<rows, plot, draft, keep, minted, drafted, written, desk, faults>>

Reject(b) ==
  /\ "director" \in desk /\ b \in DOMAIN proposals
  /\ Commit("decided", b, 0)
  /\ UNCHANGED <<rows, plot, draft, keep, minted, drafted, written, desk, faults>>

(* retarget_blueprint *)
Retarget(t) ==
  /\ "director" \in desk
  /\ \E b \in DOMAIN blueprints : /\ blueprints[b].active /\ t # blueprints[b].target
                                 /\ Commit("retargeted", b, t)
  /\ UNCHANGED <<rows, plot, draft, keep, minted, drafted, written, desk, faults>>

(* A promise is made, or the last open one kept or released. *)
PromiseMoves ==
  /\ "ledger" \in desk /\ Commit("promise", None, ~ owed)
  /\ UNCHANGED <<rows, plot, draft, keep, minted, drafted, written, desk, faults>>

(* A run fails at one of its awaits. *)
Fail ==
  /\ faults < MaxFaults /\ faults' = faults + 1
  /\ \/ plot # None /\ plot' = None /\ UNCHANGED <<draft, keep>>
     \/ draft # None /\ draft' = None /\ UNCHANGED <<plot, keep>>
     \/ keep # None /\ keep' = None /\ UNCHANGED <<plot, draft>>
  /\ UNCHANGED <<rows, pending, minted, drafted, written, desk>>

PlotterSteps ==
  \/ PlotterPoll \/ PlotterReads \/ PlotterReaps \/ PlotterDeclares \/ PlotterEnds
  \/ \E o \in Ordinals : plot # None /\ plot.redraft = o /\ PlotterDrafts(o)

AuthorSteps == AuthorPoll \/ AuthorWrites \/ AuthorFulfils

Next ==
  \/ Fold
  \/ PlotterSteps \/ AuthorSteps
  \/ \E b \in Blueprints : PlotterProposes(b) \/ Approve(b) \/ Reject(b)
  \/ \E t \in Targets : PlotterRetargets(t) \/ Retarget(t)
  \/ \E o \in Ordinals : PlotterReplaces(o) \/ PlotterDrafts(o)
  \/ \E i \in 1 .. MaxBriefs : PlotterSupersedes(i)
  \/ \E x \in Beats, c \in 0 .. MaxChapters : PlotterFulfils(x, c)
  \/ KeeperPoll \/ KeeperReads \/ KeeperCommits \/ KeeperEnds
  \/ PromiseMoves
  \/ Fail

Spec == Init /\ [][Next]_vars

PlotterGoesOn ==
  \/ PlotterReads \/ PlotterReaps \/ PlotterDeclares \/ PlotterEnds
  \/ \E o \in Ordinals : plot # None /\ plot.redraft = o /\ PlotterDrafts(o)

(* The projector loop runs on; an agent that is ready is dispatched in turn
   (Scheduler) and a run that began goes on.  What a model answers is nobody's
   duty.  Steps that append are fair in the strong sense because only the bound
   MaxPending can hold them up. *)
FairSpec ==
  /\ Spec
  /\ WF_vars(Fold)
  /\ WF_vars(HasBlueprint /\ ShortOfBriefs /\ PlotterPoll)
  /\ SF_vars(PlotterGoesOn)
  /\ WF_vars(HasBlueprint /\ AuthorPoll) /\ SF_vars(AuthorWrites \/ AuthorFulfils)

-----------------------------------------------------------------------------
Chapter == 0 .. MaxChapters
BriefIds == 1 .. MaxBriefs

BlueprintRecord == [active : BOOLEAN, target : Targets, completed : Chapter \cup {None}]

BriefStatus == {"open", "superseded", "fulfilled"}
ChapterBriefRecord == [ordinal : Ordinals, state : BriefStatus, chapter : Chapter]

ArcRecord == [of : Cast, active : BOOLEAN, resolved : BOOLEAN, pivots : SUBSET Beats]

EventOK(e) ==
  \/ e.type \in {"adopted", "open", "decided"} /\ e.id \in Blueprints /\ e.arg = 0
  \/ e.type = "retargeted" /\ e.id \in Blueprints /\ e.arg \in Targets
  \/ e.type = "completed" /\ e.id \in Blueprints /\ e.arg \in Chapter
  \/ e.type = "beat" /\ e.id \in Beats /\ e.arg \in Chapter
  \/ e.type = "drafted" /\ e.id \in BriefIds /\ e.arg \in Ordinals
  \/ e.type \in {"superseded", "fulfilled"} /\ e.id \in BriefIds /\ e.arg \in Chapter
  \/ e.type = "declared" /\ e.id \in Arcs /\ e.arg \in Cast
  \/ e.type = "pivot" /\ e.id \in Arcs /\ e.arg \in Beats
  \/ e.type = "resolved" /\ e.id \in Arcs
  \/ e.type = "chapter" /\ e.id \in Ordinals
  \/ e.type = "promise" /\ e.arg \in BOOLEAN

PlotOK(r) ==
  /\ r.stage \in {"beats", "briefs", "promises", "proposals", "arcs", "reap", "plan"} /\ r.chapters \in Chapter
  /\ r.blueprint \in Blueprints \cup {None} /\ r.target \in Targets \cup {0}
  /\ r.ended \in BOOLEAN /\ r.beats \subseteq Beats /\ r.open \subseteq BriefIds
  /\ r.latest \in [Ordinals -> {0} \cup BriefIds] /\ r.stale \subseteq BriefIds
  /\ r.complete \in BOOLEAN /\ r.asked \in BOOLEAN /\ r.redraft \in {0} \cup Ordinals
  /\ r.blueprint = None => ~ r.complete

(* Every variable keeps its type. *)
TypeOK ==
  /\ DOMAIN blueprints \subseteq Blueprints
  /\ \A b \in DOMAIN blueprints : blueprints[b] \in BlueprintRecord
  /\ DOMAIN beats \subseteq Beats /\ \A x \in DOMAIN beats : beats[x] \in Chapter
  /\ briefs \in Seq(ChapterBriefRecord)
  /\ Len(briefs) <= drafted
  /\ DOMAIN arcs \subseteq Arcs
  /\ \A a \in DOMAIN arcs : arcs[a] \in ArcRecord
  /\ DOMAIN proposals \subseteq Blueprints
  /\ \A b \in DOMAIN proposals : proposals[b] \in {"open", "decided"}
  /\ chapters \in Chapter /\ chapters <= written /\ owed \in BOOLEAN /\ met \subseteq Beats
  /\ anew \subseteq DOMAIN blueprints
  /\ Len(pending) <= MaxPending /\ \A i \in DOMAIN pending : EventOK(pending[i])
  /\ plot = None \/ PlotOK(plot)
  /\ draft = None \/ (draft.brief \in {0} \cup BriefIds /\ draft.chapter \in Chapter)
  /\ keep = None \/ (keep.beats \subseteq Beats
                     /\ (keep.arcs = None \/ keep.arcs \subseteq Arcs))
  /\ minted \subseteq Blueprints \cup Arcs
  /\ drafted \in 0 .. MaxBriefs /\ written \in Chapter
  /\ desk \in Desks /\ faults \in 0 .. MaxFaults

(* However many blueprints are proposed, approved twice or retargeted late, one
   is active as soon as there is any, and the beats there are are its own. *)
OneShape ==
  IF blueprints = Blank THEN beats = Blank
  ELSE \E b \in DOMAIN blueprints :
         /\ blueprints[b].active
         /\ \A c \in DOMAIN blueprints \ {b} : ~ blueprints[c].active
         /\ DOMAIN beats = {b} \X Slots

(* A character with an arc has one that is active, whoever declared how many on
   what old a list. *)
OneActiveArc ==
  \A a \in DOMAIN arcs :
    \E b \in DOMAIN arcs :
      /\ arcs[b].of = arcs[a].of /\ arcs[b].active
      /\ \A c \in DOMAIN arcs \ {b} : arcs[c].of = arcs[a].of => ~ arcs[c].active

(* A book that is declared complete has had each of its beats fulfilled by a
   chapter, though the poll behind the declaration was read in two parts and was
   old when the declaration was folded; not so one whose blueprint was adopted,
   superseded and adopted once more: a poll that took the blueprint before and
   the beats of the one between completes it on those. *)
CompletionIsEarned ==
  \A b \in DOMAIN blueprints \ anew : blueprints[b].completed # None => {b} \X Slots \subseteq met

(* All three: the outline is one, for the book and for each character, and the end of
   the book is what it says. *)
OneOutline == OneShape /\ OneActiveArc /\ CompletionIsEarned

(* A book ends once: every run until the first declaration is folded makes
   another, of its own last chapter, and only adopting the blueprint anew
   takes the first one back. *)
CompletedOnce ==
  [][\A b \in DOMAIN blueprints :
       blueprints[b].completed \notin {None, blueprints'[b].completed} =>
         Head(pending).type = "adopted" /\ Head(pending).id = b]_vars

(* A brief is closed by the Author or the Plotter, who do not see each other,
   and stays as the first of them closed it. *)
BriefState(i) == IF i \in DOMAIN briefs THEN briefs[i].state ELSE "none"
Brief == INSTANCE Obligation WITH
  Items <- BriefIds, Ways <- {"superseded", "fulfilled"},
  state <- [i \in BriefIds |-> BriefState(i)],
  worked <- [i \in BriefIds |-> 0]

(* An arc is planned on until it is resolved, and then stays as it is. *)
ArcState(a) ==
  IF a \notin DOMAIN arcs THEN "none" ELSE IF arcs[a].resolved THEN "resolved" ELSE "open"
Arc == INSTANCE Obligation WITH
  Items <- Arcs, Ways <- {"resolved"},
  state <- [a \in Arcs |-> ArcState(a)],
  worked <- [a \in Arcs |-> IF a \in DOMAIN arcs THEN Cardinality(arcs[a].pivots) ELSE 0]

(* Briefs and arcs implement Obligation, and a book is completed once. *)
OutlineRunsItsCourse == Brief!OSpec /\ Arc!OSpec /\ CompletedOnce

(* With a blueprint to plan for and chapters being written, no brief stays open
   for a chapter that is already there: the one its Author did not write to, or
   failed to close, is reaped by the Plotter. *)
StaleBriefsAreReaped ==
  \A i \in BriefIds :
    (/\ {"plotter", "author"} \subseteq desk /\ HasBlueprint
     /\ i \in OpenBriefs /\ briefs[i].ordinal <= chapters) ~> i \notin OpenBriefs

=============================================================================
