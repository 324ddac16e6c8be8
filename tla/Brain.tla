-------------------------------- MODULE Brain --------------------------------
(* The Story Brain's faculties (brain/): pure functions that read canon and say
   what is wrong with it, the notes the prompts carry about that (context.py),
   and the alarms the Brain panel counts (tui/widgets/brain_model.py).

   Chapters are known by identifiers that do not sort; `order` is the sequence
   of them in which they were drafted.  Shares of the book are in hundredths, and
   so are tensions.  What a note says is left out: a note is what it names. *)
EXTENDS Integers, Sequences, FiniteSets, SequencesExt

CONSTANT None  \* no chapter, no ordinal, no drift

(* Why a secret has no irony to play *)
Reasons == {"no gap", "unanchored", "revealed off page", "not on page"}

(* What can be wrong with where a beat landed *)
Drifts == {"early", "late", "off_window"}

ASSUME NoneAssumption == None \notin Int \cup Reasons \cup Drifts

Least(a, b) == IF a < b THEN a ELSE b
Most(a, b) == IF a > b THEN a ELSE b

(* The position of a chapter; None of a chapter that is not there *)
Ordinal(c, order) ==
  IF c \in ToSet(order) THEN CHOOSE i \in DOMAIN order : order[i] = c ELSE None

ChaptersElapsedSince(c, order) ==
  IF c \in ToSet(order) THEN Len(order) - Ordinal(c, order) ELSE Len(order)

-----------------------------------------------------------------------------
(* Threads, promises and windows.  A window <<0, 0>> is not set. *)
Live(t) == t.state \notin {"none", "paid_off", "abandoned"}

IsThreadStale(t, order, threshold) ==
  Live(t) /\ ChaptersElapsedSince(t.last, order) >= threshold

StaleThreads(threads, order, threshold) ==
  {t \in DOMAIN threads : IsThreadStale(threads[t], order, threshold)}

Past(window, now) == window[2] > 0 /\ now > window[2]

OverdueResolutions(threads, now) ==
  {t \in DOMAIN threads : Live(threads[t]) /\ Past(threads[t].window, now)}

OverdueReveals(secrets, now) ==
  {s \in DOMAIN secrets : ~secrets[s].revealed /\ Past(secrets[s].window, now)}

OpenPromises(promises) == {p \in DOMAIN promises : promises[p].state = "open"}

OverduePromises(promises, now) ==
  {p \in OpenPromises(promises) : Past(promises[p].window, now)}

(* mutant: a window that ends inside the span cuts it short *)
WidenShort(spans, w) ==
  LET s == Last(spans) IN
  IF w[1] <= s.hi THEN Append(Front(spans), [s EXCEPT !.hi = w[2], !.count = @ + 1])
  ELSE Append(spans, [lo |-> w[1], hi |-> w[2], count |-> 1])

(* One window more, in the order of their beginnings *)
Widen(spans, w) ==
  LET s == Last(spans) IN
  IF w[1] <= s.hi
    THEN Append(Front(spans), [s EXCEPT !.hi = Most(@, w[2]), !.count = @ + 1])
  ELSE Append(spans, [lo |-> w[1], hi |-> w[2], count |-> 1])

(* What is still to be resolved or revealed in a window, by identifier *)
Windowed(threads, secrets) ==
  [i \in {t \in DOMAIN threads : Live(threads[t]) /\ threads[t].window[2] > 0}
         \cup {s \in DOMAIN secrets : ~secrets[s].revealed /\ secrets[s].window[2] > 0} |->
     IF i \in DOMAIN threads THEN threads[i].window ELSE secrets[i].window]

Earlier(v, w) == v[1] < w[1] \/ (v[1] = w[1] /\ v[2] < w[2])

MaxPerWindow == 2

(* The identifiers in the order of their windows; those of one window in any *)
InOrder(windows) ==
  CHOOSE s \in SetToSeqs(DOMAIN windows) :
    \A i, j \in DOMAIN s : i < j => ~Earlier(windows[s[j]], windows[s[i]])

(* The windows merged, those after the first one by one *)
Spans(windows) ==
  LET sorted == InOrder(windows)
      merged[k \in 1 .. Len(sorted)] ==
        LET w == windows[sorted[k]] IN
        IF k = 1 THEN <<[lo |-> w[1], hi |-> w[2], count |-> 1]>> ELSE Widen(merged[k - 1], w)
  IN merged[Len(sorted)]

CongestedWindows(threads, secrets) ==
  LET windows == Windowed(threads, secrets) IN
  IF DOMAIN windows = {} THEN {}
  ELSE {s \in ToSet(Spans(windows)) : s.count > MaxPerWindow}

-----------------------------------------------------------------------------
(* Beats, the lengths they are planned for, and the tension they promise *)
Beat(pct, tol, polarity) == [pct |-> pct, tol |-> tol, polarity |-> polarity]

BEAT_TEMPLATES ==
  [six |-> <<Beat(10, 5, None), Beat(25, 5, None), Beat(50, 5, "flip"),
             Beat(75, 5, "down"), Beat(80, 5, "up"), Beat(90, 5, "up")>>,
   kishotenketsu |-> <<Beat(5, 8, None), Beat(40, 8, None), Beat(75, 8, "flip"), Beat(95, 8, None)>>]

(* Python's round of so many hundredths of n: a half goes to the even one *)
Round(pct, n) ==
  LET whole == (pct * n) \div 100  rest == (pct * n) % 100 IN
  IF rest > 50 \/ (rest = 50 /\ whole % 2 = 1) THEN whole + 1 ELSE whole

BeatWindow(b, n) ==
  LET center == Round(b.pct, n)  tol == Most(1, Round(b.tol, n)) IN
  <<Most(1, center - tol), Least(n, Most(1, center + tol))>>

(* A plan is a blueprint with its beats: the chapter that fulfilled each. *)
BeatDrift(plan, i, order) ==
  LET w == BeatWindow(plan.beats[i], plan.target)
      at == Ordinal(plan.landed[i], order) IN
  CASE plan.landed[i] = None -> IF Len(order) > w[2] THEN "late" ELSE None
    [] plan.landed[i] # None /\ at = None -> "off_window"
    [] plan.landed[i] # None /\ at # None ->
         IF at < w[1] THEN "early" ELSE IF at > w[2] THEN "off_window" ELSE None

BeatDrifts(plan, order) ==
  IF plan = None THEN {}
  ELSE {<<i, BeatDrift(plan, i, order)>> :
          i \in {j \in DOMAIN plan.beats : BeatDrift(plan, j, order) # None}}

Unfulfilled(plan) == {i \in DOMAIN plan.beats : plan.landed[i] = None}

(* The tension planned for each chapter, as a fraction of hundredths: straight
   lines between the beats that have a polarity, the last of those at the same
   chapter, and the two ends. *)
POLARITY_TARGETS == [up |-> 75, down |-> 35, flip |-> 85]

TargetCurve(plan) ==
  LET n == plan.target
      At(i) == Least(n, Most(1, Round(plan.beats[i].pct, n)))
      Polar == {i \in DOMAIN plan.beats : plan.beats[i].polarity # None}
      Anchors == {At(i) : i \in Polar} \cup {1, n}
      Value(o) == LET here == {i \in Polar : At(i) = o} IN
                  IF here # {} THEN POLARITY_TARGETS[plan.beats[Max(here)].polarity]
                  ELSE IF o = 1 THEN 30 ELSE 50
  IN [o \in 1 .. n |->
        LET a == Max({x \in Anchors : x <= o})  b == Min({x \in Anchors : x >= o}) IN
        IF a = b THEN [num |-> Value(a), den |-> 1]
        ELSE [num |-> Value(a) * (b - a) + (o - a) * (Value(b) - Value(a)), den |-> b - a]]

(* How far off its plan a chapter may be for the Author's note; the Shape tab holds
   both its alarms to the tolerance of sags and spikes. *)
TENSION_DELTA == 25
SAG_SPIKE_DELTA == 30

Apart(x, f) == LET d == x * f.den - f.num IN IF d < 0 THEN -d ELSE d

(* Chapters past the planned end are held to the last value. *)
TensionDeviations(plan, scores, order, delta) ==
  IF plan = None THEN {}
  ELSE {c \in DOMAIN scores \cap ToSet(order) :
          LET f == TargetCurve(plan)[Least(plan.target, Ordinal(c, order))] IN
          Apart(scores[c], f) > delta * f.den}

DetectSagSpike(scores, delta) ==
  LET n == Cardinality(DOMAIN scores)
      sum == FoldSet(LAMBDA c, acc : scores[c] + acc, 0, DOMAIN scores)
  IN IF n < 2 THEN {}
     ELSE {<<c, "sag">> : c \in {d \in DOMAIN scores : scores[d] * n - sum <= -delta * n}}
            \cup {<<c, "spike">> : c \in {d \in DOMAIN scores : scores[d] * n - sum >= delta * n}}

-----------------------------------------------------------------------------
(* Arcs and the end of the book *)
ARC_CONSISTENT_OUTCOMES ==
  [positive |-> {"truth_embraced"}, flat |-> {"world_changed", "truth_embraced"},
   disillusionment |-> {"truth_tragic"}, fall |-> {"lie_embraced"},
   corruption |-> {"lie_embraced"}]

STAGNATION_CHAPTERS == 4

(* mutant: an arc that advanced late has missed its pivot all the same *)
PivotMissedLate(a, i, plan, order) ==
  Len(order) > BeatWindow(plan.beats[i], plan.target)[2]

(* A pivot cites a beat by its place in a plan, or one of a plan that is gone.  The
   comment on this code (arc_alignment.py:94-96) has an arc that advanced early and
   then after the window closed misreported as missed; the code asks only whether
   the last advance came before the window, so that it is not. *)
PivotMissed(a, i, plan, order) ==
  LET w == BeatWindow(plan.beats[i], plan.target)  last == Ordinal(a.last, order) IN
  Len(order) > w[2] /\ (IF last = None THEN TRUE ELSE last < w[1])

ArcFindings(arcs, plan, order) ==
  LET Going == {a \in DOMAIN arcs : arcs[a].active /\ ~arcs[a].resolved}
      Pivots(a) == IF plan = None THEN {} ELSE arcs[a].pivots
      Lost(a) == {p \in Pivots(a) : p \notin DOMAIN plan.beats}
  IN {<<a, "contradiction", None>> : a \in {b \in DOMAIN arcs :
         /\ arcs[b].active /\ arcs[b].resolved
         /\ arcs[b].outcome # None /\ arcs[b].type \in DOMAIN ARC_CONSISTENT_OUTCOMES
         /\ arcs[b].outcome \notin ARC_CONSISTENT_OUTCOMES[arcs[b].type]}}
     \cup {<<a, "stagnant", None>> :
             a \in {b \in Going : ChaptersElapsedSince(arcs[b].last, order) >= STAGNATION_CHAPTERS}}
     \cup (UNION {{<<a, "pivot_orphaned", p>> : p \in Lost(a)} : a \in Going})
     \cup (UNION {{<<a, "pivot_missed", p>> :
                     p \in {q \in Pivots(a) \ Lost(a) : PivotMissed(arcs[a], q, plan, order)}} :
                  a \in Going})

(* CompletionStatus.blockers, by kind *)
Blockers(plan, promises, arcs) ==
  (IF Unfulfilled(plan) # {} THEN {"beats"} ELSE {})
    \cup (IF OpenPromises(promises) # {} THEN {"promises"} ELSE {})
    \cup (IF \E a \in DOMAIN arcs : arcs[a].active /\ ~arcs[a].resolved THEN {"arcs"} ELSE {})

(* The Plotter is told when the book is all but done, or done. *)
CompletionNote(plan, promises, arcs) ==
  IF plan = None THEN {}
  ELSE LET left == Blockers(plan, promises, arcs) IN
       CASE left = {} -> {"satisfied"}
         [] Cardinality(left) = 1 -> left
         [] OTHER -> {}

(* The finale begins where the window of the latest beat does. *)
FinaleFrom(plan) ==
  LET climax == CHOOSE i \in DOMAIN plan.beats :
                  \A j \in DOMAIN plan.beats : plan.beats[j].pct <= plan.beats[i].pct
  IN BeatWindow(plan.beats[climax], plan.target)[1]

FinaleConvergenceNote(plan, promises, arcs, order) ==
  IF plan = None THEN {}
  ELSE IF Len(order) < FinaleFrom(plan) THEN {} ELSE Blockers(plan, promises, arcs)

-----------------------------------------------------------------------------
(* Who knows what.  A matrix is the secrets revealed and who knows which. *)
(* mutant: being out says nothing of one character *)
KnowledgeCellStatePerCell(matrix, s, who) ==
  IF <<s, who>> \in matrix.knows THEN "known" ELSE "unknown"

KnowledgeCellState(matrix, s, who) ==
  IF s \in matrix.revealed THEN "revealed"
  ELSE IF <<s, who>> \in matrix.knows THEN "known" ELSE "unknown"

FindLeaks(refs, matrix) ==
  {r \in ToSet(refs) : KnowledgeCellState(matrix, r.secret, r.who) = "unknown"}

(* The reader meets a secret in the first chapter that refers to it. *)
ReaderOnset(s, refs, order) ==
  LET placed == {Ordinal(r.chapter, order) :
                   r \in {q \in ToSet(refs) : q.secret = s /\ q.chapter \in ToSet(order)}}
  IN IF placed = {} THEN None ELSE Min(placed)

(* One character's window: when it closes, how, and the scenes inside it *)
GapFor(s, who, from, learned, matrix, on, last) ==
  LET by == CASE learned # None -> "learned"
              [] learned = None -> IF KnowledgeCellState(matrix, s, who) = "revealed"
                                     THEN "reveal" ELSE "open"
      closed == IF learned # None THEN learned ELSE last + 1
  IN [who |-> who, by |-> by, live |-> {o \in on : from <= o /\ o < closed}]

(* Each chapter has an identifier and a cast; `learned` is the chapter in which
   a character learned a secret, or no chapter that is there. *)
ChapterOrder(chapters) == [i \in DOMAIN chapters |-> chapters[i].id]
OnPage(who, chapters) == {i \in DOMAIN chapters : who \in chapters[i].cast}

(* The windows of everyone in the book that have a scene in them *)
GapsFrom(s, from, learned, chapters, matrix) ==
  {g \in {GapFor(s, who, from, Ordinal(learned[s, who], ChapterOrder(chapters)), matrix,
                 OnPage(who, chapters), Len(chapters)) :
            who \in UNION {chapters[i].cast : i \in DOMAIN chapters}} :
     g.live # {}}

BuildIronyLedger(secrets, refs, learned, chapters, matrix) ==
  [s \in secrets |->
     LET from == ReaderOnset(s, refs, ChapterOrder(chapters))
         gaps == IF from = None THEN {} ELSE GapsFrom(s, from, learned, chapters, matrix)
     IN [from |-> from, gaps |-> gaps,
         note |-> CASE from # None -> IF gaps = {} THEN "no gap" ELSE None
                    [] from = None /\ \E r \in ToSet(refs) : r.secret = s -> "unanchored"
                    [] OTHER -> IF s \in matrix.revealed THEN "revealed off page"
                                ELSE "not on page"]]

-----------------------------------------------------------------------------
(* Causes.  An edge is a pair of chapters; edges may repeat.  Tarjan's strongly
   connected components, nodes being visited in the order they are given. *)
Enter(node, s) ==
  [s EXCEPT !.next = @ + 1, !.index[node] = s.next, !.low[node] = s.next,
            !.stack = Append(@, node)]

(* A component is taken off the stack, down to its first node. *)
Close(node, s) ==
  IF s.low[node] # s.index[node] THEN s
  ELSE LET k == CHOOSE i \in DOMAIN s.stack : s.stack[i] = node IN
       [s EXCEPT !.of = [n \in DOMAIN s.of |->
                           IF n \in ToSet(SubSeq(s.stack, k, Len(s.stack))) THEN node ELSE @[n]],
                 !.stack = SubSeq(s.stack, 1, k - 1)]

(* mutant: every node met before counts as one of this path *)
LowAnyway(s, node, m) == [s EXCEPT !.low[node] = Least(@, s.index[m])]

(* A neighbour that has been visited counts while it is on the stack. *)
LowFromStack(s, node, m) ==
  IF m \in ToSet(s.stack) THEN [s EXCEPT !.low[node] = Least(@, s.index[m])] ELSE s

Joined(s, node, m) == [s EXCEPT !.low[node] = Least(@, s.low[m])]

(* strongconnect of a node goes over its neighbours one by one, entering those
   that have not been visited. *)
Components(nodes, effects) ==
  LET Node == ToSet(nodes)
      State == [next : Nat, index : [Node -> Nat], low : [Node -> Nat], stack : Seq(Node),
                of : [Node -> Node \cup {None}]]
      none == [n \in Node |-> 0]
      start == [next |-> 1, index |-> none, low |-> none, stack |-> <<>>,
                of |-> [n \in Node |-> None]]
      strongconnect[s \in State, node \in Node, k \in Nat] ==
        IF k > Len(effects[node]) THEN Close(node, s)
        ELSE LET m == effects[node][k] IN
             IF s.index[m] # 0 THEN strongconnect[LowFromStack(s, node, m), node, k + 1]
             ELSE strongconnect[Joined(strongconnect[Enter(m, s), m, 1], node, m), node, k + 1]
      all[s \in State, k \in Nat] ==
        IF k > Len(nodes) THEN s.of
        ELSE all[IF s.index[nodes[k]] = 0 THEN strongconnect[Enter(nodes[k], s), nodes[k], 1] ELSE s,
                 k + 1]
  IN all[start, 1]

(* The edges between two chapters of one component *)
CycleEdges(edges, nodes) ==
  LET effects == [n \in ToSet(nodes) |->
                    LET out == SelectSeq(edges, LAMBDA e : e[1] = n) IN
                    [i \in DOMAIN out |-> out[i][2]]]
      of == Components(nodes, effects)
  IN {e \in ToSet(edges) : of[e[1]] = of[e[2]]}

FindParadoxes(edges, order, nodes) ==
  LET cyclic == CycleEdges(edges, nodes)
      Backwards(e) == /\ {e[1], e[2]} \subseteq ToSet(order)
                      /\ Ordinal(e[2], order) <= Ordinal(e[1], order)
  IN {<<e, "ordering">> : e \in {d \in ToSet(edges) : Backwards(d)}}
       \cup {<<e, "cycle">> : e \in {d \in cyclic : ~Backwards(d)}}

-----------------------------------------------------------------------------
(* The panel: what each tab counts for the alarm strip *)

(* A thread that is stale and overdue counts twice. *)
ThreadsTab(threads, promises, secrets, order, threshold) ==
  LET spans == CongestedWindows(threads, secrets)
      late == OverdueReveals(secrets, Len(order)) IN
  IF /\ \A t \in DOMAIN threads : threads[t].state = "none"
     /\ \A p \in DOMAIN promises : promises[p].state = "none"
     /\ spans = {} /\ late = {}
  THEN 0
  ELSE Cardinality(StaleThreads(threads, order, threshold))
         + Cardinality(OverdueResolutions(threads, Len(order)))
         + Cardinality(late)
         + Cardinality(OverduePromises(promises, Len(order)))
         + Cardinality(spans)

ShapeTab(plan, scores, order, delta) ==
  Cardinality(DetectSagSpike(scores, delta))
    + Cardinality(TensionDeviations(plan, scores, order, delta))

(* A row for each secret that is not out: who is shown to know it. *)
SecretsTab(secrets, matrix, cast) ==
  [s \in secrets \ matrix.revealed |-> {who \in cast : KnowledgeCellState(matrix, s, who) = "known"}]

CausewayTab(edges, order, nodes) ==
  LET bad == {p[1] : p \in FindParadoxes(edges, order, nodes)} IN
  Cardinality({i \in DOMAIN edges : edges[i] \in bad})

(* Late beats; the briefs for chapters that are written are Outline's. *)
OutlineTab(plan, order) == Cardinality({d \in BeatDrifts(plan, order) : d[2] = "late"})

ArcsTab(arcs, plan, order) == Cardinality(ArcFindings(arcs, plan, order))
=============================================================================
