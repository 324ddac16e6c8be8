--------------------------------- MODULE Drain ---------------------------------
(***************************************************************************)
(* The background drains of the event log: CanonIndexer and KGProjector    *)
(* (store/indexer.py, store/kg_projector.py), which share drain_pending    *)
(* (store/drain.py) and PoisonLadder (store/poison_ladder.py), driven by   *)
(* the TUI's projector loop (tui/app.py) while agents append.              *)
(*                                                                         *)
(* A drain reads the events above its cursor file, runs one operation for  *)
(* each aggregate they name, several at once, on that aggregate's record   *)
(* in the read model, and then walks the events in order to move the       *)
(* cursor over those it is done with.                                      *)
(***************************************************************************)
EXTENDS Naturals, Sequences, FiniteSets

CONSTANTS
  Aggregates,     \* what events are about: chapters, characters, threads ...
  Broken,         \* aggregates whose operation always fails
  Flaky,          \* aggregates whose operation may fail
  Unprojectable,  \* aggregates whose events the canon projector cannot fold
  Workers,        \* drain_concurrency
  SkipAfter,      \* poison_skip_after, floored at 1
  Guarded,        \* does the operation raise when it finds no record?  TRUE for
                  \* CanonIndexer, FALSE for KGProjector
  MaxSeq,      \* bound: events
  MaxFailures,      \* bound: crashes, and passes that fail on a locked database
  MaxUnsaved      \* bound: writes of the cursor file that fail

ASSUME DrainAssumption ==
  /\ Broken \subseteq Aggregates /\ Flaky \subseteq Aggregates
  /\ Unprojectable \subseteq Aggregates
  /\ Workers \in Nat \ {0} /\ SkipAfter \in Nat \ {0} /\ Guarded \in BOOLEAN
  /\ MaxSeq \in Nat /\ MaxFailures \in Nat /\ MaxUnsaved \in Nat

VARIABLES
  journal,        \* the aggregate each event of the log is about
  proj,       \* the event up to which the read model is folded
  cur,        \* the cursor file
  index,      \* the event as of which each aggregate is indexed; 0: it is not
  lpc,        \* the loop: "project", "read", "drain"
  top,        \* the last event the pass read
  todo,       \* the events that drive operations the workers have yet to take
  running,    \* operations under way, with the version of the record they read
  ok,         \* aggregates whose operation succeeded in this pass
  tally,      \* PoisonLadder._failures
  abandoned,  \* history: events the log said would never be indexed
  streak,     \* history: passes in a row an event's operation failed, at most SkipAfter
  failures, unsaved

pass == <<top, todo, running, ok>>
history == <<abandoned, streak>>
drainVars == <<journal, proj, cur, index, lpc, pass, tally, history, failures, unsaved>>

Seqs == 1 .. MaxSeq

DrainInit ==
  /\ journal = <<>> /\ proj = 0 /\ cur = 0
  /\ index = [a \in Aggregates |-> 0]
  /\ lpc = "project" /\ top = 0 /\ todo = {} /\ running = {} /\ ok = {}
  /\ tally = [s \in Seqs |-> 0]
  /\ abandoned = {} /\ streak = [s \in Seqs |-> 0]
  /\ failures = 0 /\ unsaved = 0

(* An agent, a command or another process appends an event. *)
AppendEvent(a) ==
  /\ Len(journal) < MaxSeq
  /\ journal' = Append(journal, a)
  /\ UNCHANGED <<proj, cur, index, lpc, pass, tally, history, failures, unsaved>>

-----------------------------------------------------------------------------
(* n is as far as a Projector.catch_up gets: to the end of the log, or to the
   event before the first that does not project. *)
FoldsTo(n) ==
  /\ n \in proj .. Len(journal)
  /\ \A s \in proj + 1 .. n : journal[s] \notin Unprojectable
  /\ n < Len(journal) => journal[n + 1] \in Unprojectable

(* The loop's own catch_up; it goes on to the drain even if that raised. *)
CatchUp ==
  /\ lpc = "project"
  /\ \/ \E n \in proj .. Len(journal) : FoldsTo(n) /\ proj' = n /\ UNCHANGED failures
     \/ failures < MaxFailures /\ failures' = failures + 1 /\ UNCHANGED proj
  /\ lpc' = "read"
  /\ UNCHANGED <<journal, cur, index, pass, tally, history, unsaved>>

(* catch_up called by the approval screen, meanwhile *)
OtherCatchUp ==
  /\ \E n \in proj .. Len(journal) : n > proj /\ FoldsTo(n) /\ proj' = n
  /\ UNCHANGED <<journal, cur, index, lpc, pass, tally, history, failures, unsaved>>

-----------------------------------------------------------------------------
Window == cur + 1 .. top

(* mutant: no dedupe, one operation for each event *)
LatestOfEachAll(from, to) == from .. to

(* latest_by_agg *)
LatestOfEach(from, to) ==
  {s \in from .. to : \A t \in from .. to : journal[t] = journal[s] => t <= s}

(* The operation for s comes no later than t's: dicts keep the order of first
   insertion. *)
Before(s, t) ==
  \E i \in Window : journal[i] = journal[s] /\ \A j \in Window : journal[j] = journal[t] => i <= j

(* catch_up: the cursor and the events above it, or nothing when that raises *)
ReadBacklog ==
  /\ lpc = "read"
  /\ \/ /\ top' = Len(journal)
        /\ todo' = LatestOfEach(cur + 1, Len(journal))
        /\ lpc' = IF cur < Len(journal) THEN "drain" ELSE "project"
        /\ UNCHANGED failures
     \/ /\ failures < MaxFailures /\ failures' = failures + 1
        /\ lpc' = "project"
        /\ UNCHANGED <<top, todo>>
  /\ ok' = {}
  /\ UNCHANGED <<journal, proj, cur, index, running, tally, history, unsaved>>

(* v is the version of a's record in the read model. *)
IsVersion(v, a) ==
  /\ v \in 0 .. proj /\ (v # 0 => journal[v] = a)
  /\ \A s \in 1 .. proj : journal[s] = a => s <= v

(* A worker takes the next operation and reads the current record. *)
StartOp(s) ==
  /\ s \in todo /\ \A t \in todo \ {s} : Before(s, t)
  /\ Cardinality(running) < Workers
  /\ \E v \in 0 .. proj : IsVersion(v, journal[s]) /\ running' = running \cup {[seq |-> s, ver |-> v]}
  /\ todo' = todo \ {s}
  /\ UNCHANGED <<journal, proj, cur, index, lpc, top, ok, tally, history, failures, unsaved>>

(* The operation ends: it wrote the record it read, or it failed.  With no
   record it fails if Guarded, and else does nothing and succeeds. *)
EndOp(r) ==
  /\ r \in running /\ running' = running \ {r}
  /\ \/ /\ journal[r.seq] \notin Broken /\ (Guarded => r.ver # 0)
        /\ index' = IF r.ver = 0 THEN index ELSE [index EXCEPT ![journal[r.seq]] = r.ver]
        /\ ok' = ok \cup {journal[r.seq]}
     \/ /\ journal[r.seq] \in Broken \cup Flaky \/ (Guarded /\ r.ver = 0)
        /\ UNCHANGED <<index, ok>>
  /\ UNCHANGED <<journal, proj, cur, lpc, top, todo, tally, history, failures, unsaved>>

-----------------------------------------------------------------------------
(* mutant: the budget is spent by failures fleet-wide *)
SpentTogether(s) == \E t \in Seqs : tally[t] + 1 >= SkipAfter

(* PoisonLadder.record_failure: is the budget of s spent by one more failure? *)
Spent(s) == tally[s] + 1 >= SkipAfter

Failed(s) == journal[s] \notin ok

FirstOfIts(s) == \A t \in Window : journal[t] = journal[s] => s <= t

(* s is abandoned: the budget of its aggregate's first event is spent. *)
Skipped(s) ==
  Failed(s) /\ \E t \in Window : journal[t] = journal[s] /\ FirstOfIts(t) /\ Spent(t)

(* mutant: the cursor moves past failures to the last success *)
BarrierPassed(s) ==
  /\ s \in cur + 1 .. top + 1
  /\ \A t \in Window : t >= s => Failed(t)
  /\ s > cur + 1 => ~ Failed(s - 1)

(* Where the walk stops: the first event that failed and is to be tried again *)
Barrier(s) ==
  /\ s \in cur + 1 .. top + 1
  /\ s <= top => Failed(s) /\ ~ Skipped(s)
  /\ \A t \in cur + 1 .. s - 1 : Failed(t) => Skipped(t)

(* mutant: no count outlives its pass *)
TalliedAfresh(s, b) == 0
(* the count of s after a walk that stopped at b *)
Tallied(s, b) ==
  IF s \in cur + 1 .. b - 1 /\ (Failed(s) => FirstOfIts(s)) THEN 0
  ELSE IF s = b /\ b <= top THEN tally[s] + 1 ELSE tally[s]

(* The walk over the window, once every operation has ended *)
Walk ==
  /\ lpc = "drain" /\ todo = {} /\ running = {}
  /\ \E b \in cur + 1 .. top + 1 :
       /\ Barrier(b)
       /\ tally' = [s \in Seqs |-> Tallied(s, b)]
       /\ abandoned' = abandoned \cup {s \in cur + 1 .. b - 1 : Skipped(s)}
       /\ \/ cur' = b - 1 /\ UNCHANGED unsaved
          \/ /\ b > cur + 1 /\ unsaved < MaxUnsaved
             /\ unsaved' = unsaved + 1
             /\ UNCHANGED cur
  /\ streak' = [s \in Seqs |->
                  IF s \notin Window THEN streak[s]
                  ELSE IF ~ Failed(s) THEN 0
                  ELSE IF streak[s] < SkipAfter THEN streak[s] + 1 ELSE streak[s]]
  /\ lpc' = "project"
  /\ UNCHANGED <<journal, proj, index, pass, failures>>

(* The process ends.  The files stay; the ladder's counts were in memory. *)
DrainCrash ==
  /\ failures < MaxFailures /\ failures' = failures + 1
  /\ lpc' = "project" /\ todo' = {} /\ running' = {} /\ ok' = {}
  /\ tally' = [s \in Seqs |-> 0]
  /\ UNCHANGED <<journal, proj, cur, index, top, history, unsaved>>

Stepping ==
  \/ CatchUp \/ ReadBacklog \/ Walk
  \/ \E s \in todo : StartOp(s)
  \/ \E r \in running : EndOp(r)

DrainNext ==
  \/ \E a \in Aggregates : AppendEvent(a)
  \/ Stepping \/ OtherCatchUp \/ DrainCrash

DrainSpec == DrainInit /\ [][DrainNext]_drainVars

(* The loop runs again after every pass and embedding requests end, if only
   by their timeout; nobody has to append. *)
FairDrainSpec == DrainSpec /\ WF_drainVars(Stepping)

-----------------------------------------------------------------------------
DrainTypeOK ==
  /\ journal \in Seq(Aggregates) /\ Len(journal) <= MaxSeq
  /\ proj \in 0 .. Len(journal) /\ cur \in 0 .. Len(journal) /\ top \in 0 .. Len(journal)
  /\ index \in [Aggregates -> 0 .. Len(journal)]
  /\ lpc \in {"project", "read", "drain"}
  /\ todo \subseteq 1 .. top /\ running \subseteq [seq : 1 .. top, ver : 0 .. proj]
  /\ ok \subseteq Aggregates
  /\ tally \in [Seqs -> 0 .. SkipAfter - 1]
  /\ abandoned \subseteq 1 .. Len(journal) /\ streak \in [Seqs -> 0 .. SkipAfter]
  /\ failures \in 0 .. MaxFailures /\ unsaved \in 0 .. MaxUnsaved

(* Behind the cursor nothing is lost silently: each event's aggregate is in the
   index, or the log said that the event would never be. *)
NothingLost == \A s \in 1 .. cur : index[journal[s]] # 0 \/ s \in abandoned

(* However operations overlap and passes repeat, an aggregate's entry is never
   replaced by one of an older version of its record. *)
NeverOlder == [][\A a \in Aggregates : index'[a] >= index[a]]_drainVars

(* An event is given up only after its operation, or that of an earlier event
   of its aggregate, failed in SkipAfter passes in a row.  (A cursor write that
   failed leaves the count of an operation that succeeded.) *)
AbandonedAfterBudget ==
  [][unsaved = 0 =>
       \A s \in abandoned' \ abandoned :
         \E t \in cur + 1 .. s : journal[t] = journal[s] /\ streak'[t] >= SkipAfter]_drainVars

(* Every event is in the end behind the cursor, even when some of them always
   fail: agents waiting for the backlog are never stopped for good. *)
EveryEventSettles == \A s \in Seqs : (s <= Len(journal)) ~> (s <= cur)
=============================================================================
