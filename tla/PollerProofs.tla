------------------------------ MODULE PollerProofs ------------------------------
(***************************************************************************)
(* What holds of the loops that come back to canon and remember how far    *)
(* they got.  Of the drains, for any aggregates, failures, workers, budget *)
(* and length of the log: that nothing is lost silently behind the cursor, *)
(* that the index never goes back, that nothing is given up before its     *)
(* budget is spent.  Of the Continuity Checker, for any cast, secrets,     *)
(* bounds and whatever is written between its reads: that the ledgers say  *)
(* what is so, that leaks it filed were leaks, and that it misses none.    *)
(* Of what the brain reads off the book, for any threads, promises,        *)
(* reveals, arcs, blueprints and scores, and whatever moves them: that the *)
(* spans it calls congested are the clusters of the windows planned, that  *)
(* the end is announced when it is there, that no alarm stays quiet, that  *)
(* tension is held to the plan, and that advancing an arc helps.           *)
(***************************************************************************)
EXTENDS Drain, Continuity, Pacing, FiniteSetTheorems, SequenceTheorems, WellFoundedInduction, TLAPS

-----------------------------------------------------------------------------
(* Drain *)

LEMMA LogTypes ==
  ASSUME DrainTypeOK
  PROVE  Len(journal) \in Nat /\ \A i \in 1 .. Len(journal) : journal[i] \in Aggregates
BY LenProperties, ElementOfSeq DEF DrainTypeOK

(* The log only grows, at its end. *)
LEMMA LogGrows ==
  ASSUME DrainTypeOK, [DrainNext]_drainVars
  PROVE  /\ journal' \in Seq(Aggregates)
         /\ Len(journal') \in Nat /\ Len(journal) <= Len(journal') /\ Len(journal') <= MaxSeq
         /\ \A i \in 1 .. Len(journal) : journal'[i] = journal[i] /\ journal[i] \in Aggregates
<1>1. Len(journal) \in Nat /\ \A i \in 1 .. Len(journal) : journal[i] \in Aggregates
  BY LogTypes
<1>2. CASE journal' = journal
  BY <1>1, <1>2 DEF DrainTypeOK
<1>3. ASSUME NEW a \in Aggregates, AppendEvent(a)
      PROVE  /\ journal' \in Seq(Aggregates)
             /\ Len(journal') = Len(journal) + 1 /\ Len(journal') <= MaxSeq
             /\ \A i \in 1 .. Len(journal) : journal'[i] = journal[i]
  BY <1>1, <1>3, AppendProperties, DrainAssumption DEF DrainTypeOK, AppendEvent
<1>4. journal' = journal \/ \E a \in Aggregates : AppendEvent(a)
  BY DEF DrainNext, drainVars, Stepping, CatchUp, OtherCatchUp, ReadBacklog, StartOp, EndOp, Walk,
     DrainCrash
<1> QED BY <1>1, <1>2, <1>3, <1>4

(* The walk stops at an event that is the first of its aggregate and whose
   budget is not spent. *)
LEMMA BarrierUnspent ==
  ASSUME DrainTypeOK, NEW b \in cur + 1 .. top, Barrier(b)
  PROVE  FirstOfIts(b) /\ ~ Spent(b)
<1>1. cur \in Nat /\ top \in Nat
  BY LogTypes DEF DrainTypeOK
<1>2. FirstOfIts(b)
  <2> SUFFICES ASSUME NEW t \in Window, journal[t] = journal[b], t < b PROVE FALSE
    BY <1>1 DEF FirstOfIts, Window
  <2>1. Failed(b) /\ ~ Skipped(b)
    BY <1>1 DEF Barrier
  <2>2. Failed(t) /\ t \in cur + 1 .. b - 1
    BY <1>1, <2>1 DEF Failed, Window
  <2>3. Skipped(t)
    BY <2>2 DEF Barrier
  <2> QED BY <2>1, <2>3 DEF Skipped
<1> QED BY <1>1, <1>2 DEF Barrier, Skipped, Window

(* Every reachable state of the drain is well typed: in particular a count
   that reaches the budget is dropped with its event. *)
THEOREM TypeCorrect == DrainSpec => []DrainTypeOK
<1> USE DrainAssumption
<1>1. DrainInit => DrainTypeOK
  BY EmptySeq DEF DrainInit, DrainTypeOK, Seqs
<1>2. DrainTypeOK /\ [DrainNext]_drainVars => DrainTypeOK'
  <2> SUFFICES ASSUME DrainTypeOK, [DrainNext]_drainVars PROVE DrainTypeOK'
    OBVIOUS
  <2>1. /\ Len(journal) \in Nat /\ Len(journal') \in Nat
        /\ Len(journal) <= Len(journal') /\ Len(journal') <= MaxSeq /\ journal' \in Seq(Aggregates)
        /\ \A i \in 1 .. Len(journal) : journal[i] \in Aggregates
    BY LogTypes, LogGrows
  <2>2. ASSUME NEW a \in Aggregates, AppendEvent(a) PROVE DrainTypeOK'
    <3>1. /\ UNCHANGED <<proj, cur, lpc, top, todo, running, ok, tally, failures, unsaved>>
          /\ UNCHANGED <<index, abandoned, streak>>
      BY <2>2 DEF AppendEvent, pass, history
    <3>2. \A n : n \in 0 .. Len(journal) => n \in 0 .. Len(journal')
      BY <2>1
    <3>3. proj' \in 0 .. Len(journal') /\ cur' \in 0 .. Len(journal') /\ top' \in 0 .. Len(journal')
      BY <3>1, <3>2 DEF DrainTypeOK
    <3>4. index' \in [Aggregates -> 0 .. Len(journal')]
      <4>1. index \in [Aggregates -> 0 .. Len(journal)]
        BY DEF DrainTypeOK
      <4> QED BY <3>1, <3>2, <4>1
    <3>5. abandoned' \subseteq 1 .. Len(journal')
      <4>1. abandoned \subseteq 1 .. Len(journal)
        BY DEF DrainTypeOK
      <4> QED BY <2>1, <3>1, <4>1
    <3>6. /\ lpc' \in {"project", "read", "drain"} /\ ok' \subseteq Aggregates
          /\ todo' \subseteq 1 .. top' /\ running' \subseteq [seq : 1 .. top', ver : 0 .. proj']
      BY <3>1 DEF DrainTypeOK
    <3>7. /\ tally' \in [Seqs -> 0 .. SkipAfter - 1] /\ streak' \in [Seqs -> 0 .. SkipAfter]
          /\ failures' \in 0 .. MaxFailures /\ unsaved' \in 0 .. MaxUnsaved
      BY <3>1 DEF DrainTypeOK, Seqs
    <3> QED BY <2>1, <3>3, <3>4, <3>5, <3>6, <3>7 DEF DrainTypeOK
  <2>3. CASE CatchUp
    <3>1. proj' \in proj .. Len(journal) /\ failures' \in 0 .. MaxFailures
      BY <2>1, <2>3 DEF DrainTypeOK, CatchUp
    <3>2. running' \subseteq [seq : 1 .. top, ver : 0 .. proj']
      BY <2>1, <2>3, <3>1 DEF DrainTypeOK, CatchUp, pass
    <3>3. /\ lpc' = "read" /\ journal' = journal /\ cur' = cur /\ index' = index /\ tally' = tally /\ unsaved' = unsaved
          /\ top' = top /\ todo' = todo /\ ok' = ok /\ abandoned' = abandoned /\ streak' = streak
      BY <2>3 DEF CatchUp, pass, history
    <3>4. proj' \in 0 .. Len(journal)
      BY <2>1, <3>1 DEF DrainTypeOK
    <3> QED BY <3>1, <3>2, <3>3, <3>4 DEF DrainTypeOK
  <2>4. CASE OtherCatchUp
    <3>1. proj' \in proj .. Len(journal)
      BY <2>1, <2>4 DEF DrainTypeOK, OtherCatchUp
    <3>2. running' \subseteq [seq : 1 .. top, ver : 0 .. proj']
      BY <2>1, <2>4, <3>1 DEF DrainTypeOK, OtherCatchUp, pass
    <3> QED BY <2>1, <2>4, <3>1, <3>2 DEF DrainTypeOK, OtherCatchUp, pass, history
  <2>5. CASE ReadBacklog
    <3>1. /\ top' \in 0 .. Len(journal) /\ top <= top' /\ todo' \subseteq 1 .. top'
          /\ lpc' \in {"project", "read", "drain"} /\ failures' \in 0 .. MaxFailures
      <4>1. /\ top \in 0 .. Len(journal) /\ cur \in Nat /\ todo \subseteq 1 .. top
            /\ lpc \in {"project", "read", "drain"} /\ failures \in 0 .. MaxFailures
        BY <2>1 DEF DrainTypeOK
      <4>2. LatestOfEach(cur + 1, Len(journal)) \subseteq 1 .. Len(journal)
        BY <2>1, <4>1 DEF LatestOfEach
      <4>3. CASE top' = Len(journal) /\ UNCHANGED failures
        BY <2>1, <2>5, <4>1, <4>2, <4>3 DEF ReadBacklog
      <4>4. CASE UNCHANGED <<top, todo>>
        BY <2>1, <2>5, <4>1, <4>4 DEF ReadBacklog
      <4> QED BY <2>5, <4>3, <4>4 DEF ReadBacklog
    <3>2. running' \subseteq [seq : 1 .. top', ver : 0 .. proj]
      BY <2>1, <2>5, <3>1 DEF DrainTypeOK, ReadBacklog
    <3> QED BY <2>1, <2>5, <3>1, <3>2 DEF DrainTypeOK, ReadBacklog, history
  <2>6. ASSUME NEW s \in todo, StartOp(s) PROVE DrainTypeOK'
    <3>1. PICK v \in 0 .. proj : running' = running \cup {[seq |-> s, ver |-> v]}
      BY <2>6 DEF StartOp
    <3>2. running' \subseteq [seq : 1 .. top, ver : 0 .. proj] /\ todo' \subseteq 1 .. top
      <4>1. /\ running \subseteq [seq : 1 .. top, ver : 0 .. proj]
            /\ todo \subseteq 1 .. top /\ todo' = todo \ {s}
        BY <2>6 DEF DrainTypeOK, StartOp
      <4>2. [seq |-> s, ver |-> v] \in [seq : 1 .. top, ver : 0 .. proj]
        BY <4>1
      <4> QED BY <3>1, <4>1, <4>2
    <3>3. /\ UNCHANGED <<journal, proj, cur, index, lpc, top, ok, tally, failures, unsaved>>
          /\ UNCHANGED <<abandoned, streak>>
      BY <2>6 DEF StartOp, history
    <3> QED BY <3>2, <3>3 DEF DrainTypeOK
  <2>7. ASSUME NEW r \in running, EndOp(r) PROVE DrainTypeOK'
    <3>1. r.seq \in 1 .. Len(journal) /\ r.ver \in 0 .. Len(journal)
      <4>1. /\ running \subseteq [seq : 1 .. top, ver : 0 .. proj]
            /\ top \in 0 .. Len(journal) /\ proj \in 0 .. Len(journal)
        BY DEF DrainTypeOK
      <4>2. r.seq \in 1 .. top /\ r.ver \in 0 .. proj
        BY <4>1
      <4> QED BY <2>1, <4>1, <4>2
    <3>2. journal[r.seq] \in Aggregates
      BY <2>1, <3>1
    <3>3. index' \in [Aggregates -> 0 .. Len(journal)] /\ ok' \subseteq Aggregates
      BY <2>7, <3>1, <3>2 DEF DrainTypeOK, EndOp
    <3> QED BY <2>1, <2>7, <3>3 DEF DrainTypeOK, EndOp, history
  <2>8. CASE Walk
    <3>1. PICK b \in cur + 1 .. top + 1 :
            /\ Barrier(b)
            /\ tally' = [s \in Seqs |-> Tallied(s, b)]
            /\ abandoned' = abandoned \cup {s \in cur + 1 .. b - 1 : Skipped(s)}
            /\ \/ cur' = b - 1 /\ UNCHANGED unsaved
               \/ /\ b > cur + 1 /\ unsaved < MaxUnsaved
                  /\ unsaved' = unsaved + 1
                  /\ UNCHANGED cur
      BY <2>8 DEF Walk
    <3>0. cur \in 0 .. Len(journal) /\ top \in 0 .. Len(journal) /\ b - 1 \in 0 .. Len(journal)
      <4>1. cur \in 0 .. Len(journal) /\ top \in 0 .. Len(journal)
        BY DEF DrainTypeOK
      <4> QED BY <2>1, <4>1
    <3>2. cur' \in 0 .. Len(journal) /\ unsaved' \in 0 .. MaxUnsaved
      <4>1. unsaved \in 0 .. MaxUnsaved
        BY DEF DrainTypeOK
      <4> QED BY <2>1, <3>1, <3>0, <4>1
    <3>3. abandoned' \subseteq 1 .. Len(journal)
      <4>1. abandoned \subseteq 1 .. Len(journal)
        BY DEF DrainTypeOK
      <4>2. \A s \in cur + 1 .. b - 1 : s \in 1 .. Len(journal)
        BY <2>1, <3>0
      <4> QED BY <3>1, <4>1, <4>2
    <3>4. tally' \in [Seqs -> 0 .. SkipAfter - 1]
      <4> SUFFICES ASSUME NEW s \in Seqs PROVE Tallied(s, b) \in 0 .. SkipAfter - 1
        BY <3>1
      <4>1. tally[s] \in 0 .. SkipAfter - 1
        BY DEF DrainTypeOK
      <4>2. s = b /\ b <= top => tally[s] + 1 < SkipAfter
        BY <3>1, <4>1, BarrierUnspent DEF Spent
      <4> QED BY <4>1, <4>2 DEF Tallied
    <3>5. streak' \in [Seqs -> 0 .. SkipAfter]
      <4>1. streak' = [s \in Seqs |->
                         IF s \notin Window THEN streak[s]
                         ELSE IF ~ Failed(s) THEN 0
                         ELSE IF streak[s] < SkipAfter THEN streak[s] + 1 ELSE streak[s]]
        BY <2>8 DEF Walk
      <4> QED BY <4>1 DEF DrainTypeOK
    <3> QED BY <2>1, <2>8, <3>2, <3>3, <3>4, <3>5 DEF DrainTypeOK, Walk, pass
  <2>9. CASE DrainCrash
    BY <2>1, <2>9 DEF DrainTypeOK, DrainCrash, history
  <2>10. CASE UNCHANGED drainVars
    BY <2>10 DEF DrainTypeOK, drainVars, pass, history
  <2> QED
    BY <2>2, <2>3, <2>4, <2>5, <2>6, <2>7, <2>8, <2>9, <2>10 DEF DrainNext, Stepping
<1> QED BY <1>1, <1>2, PTL DEF DrainSpec

-----------------------------------------------------------------------------
(* Behind the cursor nothing is lost silently, as long as an operation without
   a record raises.  Inductive because an aggregate counted as done in this pass
   is already in the index. *)
LossInv ==
  /\ NothingLost
  /\ \A a \in ok : index[a] # 0

THEOREM NothingIsLost == ASSUME Guarded PROVE DrainSpec => []NothingLost
<1> USE DrainAssumption
<1>1. DrainInit => LossInv
  BY DEF DrainInit, LossInv, NothingLost
<1>2. DrainTypeOK /\ LossInv /\ [DrainNext]_drainVars => LossInv'
  <2> SUFFICES ASSUME DrainTypeOK, LossInv, [DrainNext]_drainVars PROVE LossInv'
    OBVIOUS
  <2>0. /\ Len(journal) \in Nat /\ cur \in 0 .. Len(journal) /\ top \in 0 .. Len(journal)
        /\ \A i \in 1 .. Len(journal) : journal'[i] = journal[i] /\ journal[i] \in Aggregates
    BY LogTypes, LogGrows DEF DrainTypeOK
  <2>1. ASSUME UNCHANGED <<cur, index, abandoned>>, ok' \in {ok, {}} PROVE LossInv'
    BY <2>0, <2>1 DEF LossInv, NothingLost
  <2>2. ASSUME NEW r \in running, EndOp(r) PROVE LossInv'
    <3>1. /\ UNCHANGED <<journal, cur, abandoned>> /\ r.seq \in 1 .. Len(journal)
          /\ journal[r.seq] \in Aggregates
      BY <2>0, <2>2 DEF EndOp, DrainTypeOK, history
    <3>2. CASE UNCHANGED <<index, ok>>
      BY <3>1, <3>2 DEF LossInv, NothingLost
    <3>3. CASE /\ r.ver # 0 /\ index' = [index EXCEPT ![journal[r.seq]] = r.ver]
               /\ ok' = ok \cup {journal[r.seq]}
      <4>1. \A a \in Aggregates : index[a] # 0 => index'[a] # 0
        BY <3>1, <3>3 DEF DrainTypeOK
      <4>2. index'[journal[r.seq]] # 0
        BY <3>1, <3>3 DEF DrainTypeOK
      <4>3. \A s \in 1 .. cur : journal[s] \in Aggregates
        BY <2>0
      <4> QED BY <3>1, <3>3, <4>1, <4>2, <4>3 DEF LossInv, NothingLost, DrainTypeOK
    <3> QED BY <2>2, <3>2, <3>3 DEF EndOp
  <2>3. CASE Walk
    <3>1. PICK b \in cur + 1 .. top + 1 :
            /\ Barrier(b)
            /\ abandoned' = abandoned \cup {s \in cur + 1 .. b - 1 : Skipped(s)}
            /\ cur' = b - 1 \/ cur' = cur
      BY <2>3 DEF Walk
    <3>2. UNCHANGED <<journal, index, ok>>
      BY <2>3 DEF Walk, pass
    <3>3. ASSUME NEW s \in cur + 1 .. b - 1 PROVE index[journal[s]] # 0 \/ s \in abandoned'
      <4>1. CASE Failed(s)
        BY <3>1, <3>3, <4>1 DEF Barrier
      <4>2. CASE ~ Failed(s)
        BY <4>2 DEF Failed, LossInv
      <4> QED BY <4>1, <4>2
    <3>4. \A s \in 1 .. cur' : s \in 1 .. cur \/ s \in cur + 1 .. b - 1
      BY <2>0, <3>1
    <3> QED BY <3>1, <3>2, <3>3, <3>4 DEF LossInv, NothingLost
  <2>4. CASE ~ (Walk \/ \E r \in running : EndOp(r))
    <3>1. UNCHANGED <<cur, index, abandoned>> /\ ok' \in {ok, {}}
      BY <2>4 DEF DrainNext, Stepping, drainVars, pass, history, AppendEvent, CatchUp,
         OtherCatchUp, ReadBacklog, StartOp, DrainCrash
    <3> QED BY <2>1, <3>1
  <2> QED BY <2>2, <2>3, <2>4
<1> QED BY <1>1, <1>2, TypeCorrect, PTL DEF DrainSpec, LossInv

-----------------------------------------------------------------------------
(* The index never goes back.  Inductive because a pass runs at most one
   operation for an aggregate, and what an operation read is at least what the
   index held then. *)
OneEach ==
  /\ \A s, t \in todo : journal[s] = journal[t] => s = t
  /\ \A r, q \in running : journal[r.seq] = journal[q.seq] => r = q
  /\ \A r \in running, s \in todo : journal[r.seq] # journal[s]
  /\ lpc # "drain" => todo = {} /\ running = {}

IndexVersions ==
  /\ \A a \in Aggregates : index[a] <= proj /\ (index[a] # 0 => journal[index[a]] = a)
  /\ \A r \in running : r.ver # 0 => journal[r.ver] = journal[r.seq]
  /\ \A r \in running : index[journal[r.seq]] <= r.ver

(* todo and running name events of the log, and an entry a version in it. *)
LEMMA PassInLog ==
  ASSUME DrainTypeOK
  PROVE  /\ Len(journal) \in Nat /\ proj \in 0 .. Len(journal)
         /\ \A s \in todo : s \in 1 .. Len(journal)
         /\ \A r \in running : r.seq \in 1 .. Len(journal) /\ r.ver \in 0 .. proj
         /\ \A a \in Aggregates : index[a] \in 0 .. Len(journal)
<1>1. /\ Len(journal) \in Nat /\ proj \in 0 .. Len(journal) /\ top \in 0 .. Len(journal)
      /\ todo \subseteq 1 .. top /\ running \subseteq [seq : 1 .. top, ver : 0 .. proj]
      /\ index \in [Aggregates -> 0 .. Len(journal)]
  BY LogTypes DEF DrainTypeOK
<1>2. \A n \in 1 .. top : n \in 1 .. Len(journal)
  BY <1>1
<1>3. ASSUME NEW r \in running PROVE r.seq \in 1 .. top /\ r.ver \in 0 .. proj
  BY <1>1
<1> QED BY <1>1, <1>2, <1>3

LEMMA EndOpWrites ==
  ASSUME DrainTypeOK, NEW r \in running, EndOp(r)
  PROVE  /\ UNCHANGED <<journal, proj, todo, lpc>> /\ running' = running \ {r}
         /\ journal[r.seq] \in Aggregates
         /\ \A a \in Aggregates :
              index'[a] = index[a] \/ (a = journal[r.seq] /\ r.ver # 0 /\ index'[a] = r.ver)
<1>1. r.seq \in 1 .. Len(journal) /\ journal[r.seq] \in Aggregates
  BY PassInLog, LogTypes
<1> QED BY <1>1 DEF EndOp, DrainTypeOK

THEOREM IndexNeverGoesBack == DrainSpec => NeverOlder
<1> USE DrainAssumption
<1>1. DrainInit => OneEach /\ IndexVersions
  BY DEF DrainInit, OneEach, IndexVersions
<1>2. DrainTypeOK /\ OneEach /\ [DrainNext]_drainVars => OneEach'
  <2> SUFFICES ASSUME DrainTypeOK, OneEach, [DrainNext]_drainVars PROVE OneEach'
    OBVIOUS
  <2>0. /\ \A i \in 1 .. Len(journal) : journal'[i] = journal[i]
        /\ \A s \in todo : s \in 1 .. Len(journal)
        /\ \A r \in running : r.seq \in 1 .. Len(journal)
    BY LogGrows, PassInLog
  <2>1. ASSUME todo' \subseteq todo, running' \subseteq running,
               lpc' = lpc \/ (todo' = {} /\ running' = {})
        PROVE  OneEach'
    BY <2>0, <2>1 DEF OneEach
  <2>2. CASE CatchUp
    BY <2>2 DEF OneEach, CatchUp, pass
  <2>3. CASE ReadBacklog
    <3>1. running' = {} /\ running = {} /\ todo = {} /\ journal' = journal
      BY <2>3 DEF OneEach, ReadBacklog
    <3>2. cur \in Nat /\ Len(journal) \in Nat
      BY PassInLog DEF DrainTypeOK
    <3>3. \A s, t \in LatestOfEach(cur + 1, Len(journal)) : journal[s] = journal[t] => s = t
      BY <3>2 DEF LatestOfEach
    <3>4. cur >= Len(journal) => LatestOfEach(cur + 1, Len(journal)) = {}
      BY <3>2 DEF LatestOfEach
    <3>5. CASE UNCHANGED <<top, todo>>
      BY <3>1, <3>5 DEF OneEach
    <3>6. CASE /\ todo' = LatestOfEach(cur + 1, Len(journal))
               /\ lpc' = IF cur < Len(journal) THEN "drain" ELSE "project"
      BY <3>1, <3>2, <3>3, <3>4, <3>6 DEF OneEach
    <3> QED BY <2>3, <3>5, <3>6 DEF ReadBacklog
  <2>4. ASSUME NEW s \in todo, StartOp(s) PROVE OneEach'
    <3>1. PICK v \in 0 .. proj : running' = running \cup {[seq |-> s, ver |-> v]}
      BY <2>4 DEF StartOp
    <3>2. todo' = todo \ {s} /\ UNCHANGED <<journal, lpc>>
      BY <2>4 DEF StartOp
    <3>3. \A r \in running' : r \in running \/ (r = [seq |-> s, ver |-> v] /\ r.seq = s)
      BY <3>1
    <3> QED BY <3>2, <3>3 DEF OneEach
  <2>5. CASE ~ (CatchUp \/ ReadBacklog \/ \E s \in todo : StartOp(s))
    <3>1. /\ todo' \subseteq todo /\ running' \subseteq running
          /\ lpc' = lpc \/ (todo' = {} /\ running' = {})
      BY <2>5 DEF DrainNext, Stepping, drainVars, pass, AppendEvent, OtherCatchUp, EndOp, Walk, DrainCrash
    <3> QED BY <2>1, <3>1
  <2> QED BY <2>2, <2>3, <2>4, <2>5
<1>3. DrainTypeOK /\ OneEach /\ IndexVersions /\ [DrainNext]_drainVars => IndexVersions'
  <2> SUFFICES ASSUME DrainTypeOK, OneEach, IndexVersions, [DrainNext]_drainVars PROVE IndexVersions'
    OBVIOUS
  <2>0. /\ Len(journal) \in Nat /\ proj \in 0 .. Len(journal)
        /\ \A i \in 1 .. Len(journal) : journal'[i] = journal[i] /\ journal[i] \in Aggregates
        /\ \A r \in running : r.seq \in 1 .. Len(journal) /\ r.ver \in 0 .. proj
        /\ \A a \in Aggregates : index[a] \in 0 .. Len(journal)
    BY LogGrows, PassInLog
  <2>1. ASSUME UNCHANGED index, proj' \in Nat, proj <= proj', running' \subseteq running
        PROVE  IndexVersions'
    <3>1. \A a \in Aggregates : index[a] # 0 => journal'[index[a]] = a
      BY <2>0 DEF IndexVersions
    <3>2. \A r \in running : journal'[r.seq] = journal[r.seq] /\ (r.ver # 0 => journal'[r.ver] = journal[r.ver])
      BY <2>0
    <3>3. \A a \in Aggregates : index[a] <= proj'
      BY <2>0, <2>1 DEF IndexVersions
    <3> QED BY <2>1, <3>1, <3>2, <3>3 DEF IndexVersions
  <2>2. ASSUME NEW s \in todo, StartOp(s) PROVE IndexVersions'
    <3>1. PICK v \in 0 .. proj :
            IsVersion(v, journal[s]) /\ running' = running \cup {[seq |-> s, ver |-> v]}
      BY <2>2 DEF StartOp
    <3>2. UNCHANGED <<journal, proj, index>> /\ s \in 1 .. Len(journal) /\ journal[s] \in Aggregates
      BY <2>0, <2>2, PassInLog DEF StartOp
    <3>3. index[journal[s]] <= v
      BY <2>0, <3>1, <3>2 DEF IndexVersions, IsVersion
    <3>4. \A r \in running' :
            r \in running \/ (r = [seq |-> s, ver |-> v] /\ r.seq = s /\ r.ver = v)
      BY <3>1
    <3> QED BY <3>1, <3>2, <3>3, <3>4 DEF IndexVersions, IsVersion
  <2>3. ASSUME NEW r \in running, EndOp(r) PROVE IndexVersions'
    <3>1. \A a \in Aggregates :
            index'[a] <= proj /\ (index'[a] # 0 => journal[index'[a]] = a)
      BY <2>0, <2>3, EndOpWrites DEF IndexVersions
    <3>2. \A q \in running \ {r} : journal[q.seq] # journal[r.seq] /\ journal[q.seq] \in Aggregates
      BY <2>0 DEF OneEach
    <3>3. \A q \in running \ {r} : index'[journal[q.seq]] = index[journal[q.seq]]
      BY <2>3, <3>2, EndOpWrites
    <3> QED BY <2>3, <3>1, <3>3, EndOpWrites DEF IndexVersions
  <2>4. CASE ~ ((\E s \in todo : StartOp(s)) \/ (\E r \in running : EndOp(r)))
    <3>1. UNCHANGED index /\ running' \subseteq running
      BY <2>4 DEF DrainNext, Stepping, drainVars, pass, AppendEvent, CatchUp, OtherCatchUp,
         ReadBacklog, Walk, DrainCrash
    <3>2. proj' = proj \/ CatchUp \/ OtherCatchUp
      BY <2>4 DEF DrainNext, Stepping, drainVars, AppendEvent, ReadBacklog, Walk, DrainCrash
    <3>3. proj' \in Nat /\ proj <= proj'
      BY <2>0, <3>2 DEF CatchUp, OtherCatchUp
    <3> QED BY <2>1, <3>1, <3>3
  <2> QED BY <2>2, <2>3, <2>4
<1>4. DrainTypeOK /\ IndexVersions /\ [DrainNext]_drainVars =>
        [\A a \in Aggregates : index'[a] >= index[a]]_drainVars
  <2> SUFFICES ASSUME DrainTypeOK, IndexVersions, DrainNext, NEW a \in Aggregates
               PROVE  index'[a] >= index[a]
    OBVIOUS
  <2>1. index[a] \in Nat
    BY PassInLog
  <2>2. ASSUME NEW r \in running, EndOp(r) PROVE index'[a] >= index[a]
    <3>1. r.ver \in Nat /\ index[journal[r.seq]] <= r.ver
      BY PassInLog DEF IndexVersions
    <3> QED BY <2>1, <2>2, <3>1, EndOpWrites
  <2>3. CASE ~ \E r \in running : EndOp(r)
    <3>1. UNCHANGED index
      BY <2>3 DEF DrainNext, Stepping, AppendEvent, CatchUp, OtherCatchUp, ReadBacklog, StartOp,
         Walk, DrainCrash
    <3> QED BY <2>1, <3>1
  <2> QED BY <2>2, <2>3
<1> QED BY <1>1, <1>2, <1>3, <1>4, TypeCorrect, PTL DEF DrainSpec, NeverOlder

-----------------------------------------------------------------------------
(* Nothing is given up before its budget, until a write of the cursor file
   fails.  Inductive because only the event at the barrier has a count, so
   that a failure counted is one of the passes it has failed in a row. *)
Counted ==
  /\ unsaved = 0 =>
       \A s \in Seqs : tally[s] <= streak[s] /\ (tally[s] # 0 => s = cur + 1)
  /\ lpc = "drain" => cur < top

THEOREM NoneGivenUpEarly == DrainSpec => AbandonedAfterBudget
<1> USE DrainAssumption
<1>1. DrainInit => Counted
  BY DEF DrainInit, Counted
<1>2. DrainTypeOK => /\ cur \in Nat /\ top \in Nat /\ top <= MaxSeq
                /\ \A s \in Seqs : /\ tally[s] \in 0 .. SkipAfter - 1
                                     /\ streak[s] \in 0 .. SkipAfter
                /\ unsaved \in Nat
  BY LogTypes DEF DrainTypeOK
<1>3. DrainTypeOK /\ Walk =>
        \A s \in Window :
          /\ s \in Seqs
          /\ ~ Failed(s) => streak'[s] = 0
          /\ Failed(s) => streak'[s] = IF streak[s] < SkipAfter THEN streak[s] + 1
                                       ELSE streak[s]
  <2> SUFFICES ASSUME DrainTypeOK, Walk, NEW s \in Window
               PROVE  /\ s \in Seqs
                      /\ ~ Failed(s) => streak'[s] = 0
                      /\ Failed(s) => streak'[s] = IF streak[s] < SkipAfter THEN streak[s] + 1
                                                   ELSE streak[s]
    OBVIOUS
  <2>1. s \in Seqs
    BY <1>2 DEF Window, Seqs
  <2>2. streak' = [e \in Seqs |->
                     IF e \notin Window THEN streak[e]
                     ELSE IF ~ Failed(e) THEN 0
                     ELSE IF streak[e] < SkipAfter THEN streak[e] + 1 ELSE streak[e]]
    BY DEF Walk
  <2> QED BY <2>1, <2>2
<1>4. DrainTypeOK /\ Counted /\ [DrainNext]_drainVars => Counted'
  <2> SUFFICES ASSUME DrainTypeOK, Counted, [DrainNext]_drainVars PROVE Counted'
    OBVIOUS
  <2>1. CASE Walk /\ unsaved' = 0
    <3>0. unsaved = 0
      <4>1. unsaved' = unsaved \/ unsaved' = unsaved + 1
        BY <2>1 DEF Walk
      <4>2. unsaved \in Nat
        BY DEF DrainTypeOK
      <4> QED BY <2>1, <4>1, <4>2
    <3>1. PICK b \in cur + 1 .. top + 1 :
            /\ Barrier(b) /\ tally' = [s \in Seqs |-> Tallied(s, b)] /\ cur' = b - 1
      <4>1. PICK b \in cur + 1 .. top + 1 :
              /\ Barrier(b) /\ tally' = [s \in Seqs |-> Tallied(s, b)]
              /\ cur' = b - 1 \/ unsaved' = unsaved + 1
        BY <2>1 DEF Walk
      <4>2. cur' = b - 1
        BY <2>1, <3>0, <4>1
      <4> QED BY <4>1, <4>2
    <3> SUFFICES ASSUME NEW s \in Seqs
                 PROVE  tally'[s] <= streak'[s] /\ (tally'[s] # 0 => s = b)
      BY <1>2, <2>1, <3>1 DEF Counted, Walk
    <3>2. tally'[s] = Tallied(s, b) /\ s \in Nat
      BY <3>1 DEF Seqs
    <3>3. streak'[s] \in 0 .. SkipAfter /\ tally[s] \in 0 .. SkipAfter - 1
      BY <1>2, <1>3, <2>1 DEF Walk
    <3>4. CASE s = b /\ b <= top
      <4>1. s \in Window /\ Failed(s)
        BY <1>2, <3>1, <3>4 DEF Barrier, Window
      <4>2. tally[s] + 1 <= streak'[s]
        BY <1>2, <1>3, <2>1, <3>0, <4>1 DEF Counted
      <4>3. Tallied(s, b) = tally[s] + 1
        BY <1>2, <3>1, <3>4 DEF Tallied
      <4> QED BY <3>2, <3>4, <4>2, <4>3
    <3>5. CASE ~ (s = b /\ b <= top)
      <4>1. Tallied(s, b) = 0 \/ (Tallied(s, b) = tally[s] /\ tally[s] = 0)
        <5>1. CASE s = cur + 1 /\ s <= b - 1
          <6>1. FirstOfIts(s)
            BY <1>2, <5>1 DEF FirstOfIts, Window
          <6> QED BY <1>2, <3>1, <5>1, <6>1 DEF Tallied
        <5>2. CASE s = cur + 1 /\ b = cur + 1
          BY <1>2, <2>1, <3>0, <3>5, <5>2 DEF Counted, Walk
        <5>3. CASE s # cur + 1
          BY <1>2, <3>0, <3>5, <5>3 DEF Counted, Tallied
        <5> QED BY <1>2, <3>1, <5>1, <5>2, <5>3
      <4> QED BY <3>2, <3>3, <4>1
    <3> QED BY <3>4, <3>5
  <2>2. CASE DrainCrash
    BY <1>2, <2>2 DEF Counted, DrainCrash, history
  <2>3. CASE ~ (Walk \/ DrainCrash)
    <3>1. UNCHANGED <<tally, streak, cur, unsaved>>
      BY <2>3 DEF DrainNext, Stepping, drainVars, history, AppendEvent, CatchUp, OtherCatchUp,
         ReadBacklog, StartOp, EndOp
    <3>2. CASE ReadBacklog
      BY <3>1, <3>2 DEF Counted, ReadBacklog
    <3>3. CASE ~ ReadBacklog
      <4>1. lpc' = "drain" => lpc = "drain" /\ UNCHANGED top
        BY <2>3, <3>3 DEF DrainNext, Stepping, drainVars, pass, AppendEvent, CatchUp, OtherCatchUp,
           StartOp, EndOp
      <4> QED BY <3>1, <4>1 DEF Counted
    <3> QED BY <3>2, <3>3
  <2>4. CASE Walk /\ unsaved' # 0
    BY <2>4 DEF Counted, Walk
  <2> QED BY <2>1, <2>2, <2>3, <2>4
<1>5. DrainTypeOK /\ Counted /\ [DrainNext]_drainVars =>
        [unsaved = 0 =>
           \A s \in abandoned' \ abandoned :
             \E t \in cur + 1 .. s : journal[t] = journal[s] /\ streak'[t] >= SkipAfter]_drainVars
  <2> SUFFICES ASSUME DrainTypeOK, Counted, DrainNext, unsaved = 0, NEW s \in abandoned' \ abandoned
               PROVE  \E t \in cur + 1 .. s : journal[t] = journal[s] /\ streak'[t] >= SkipAfter
    OBVIOUS
  <2>1. Walk
    BY DEF DrainNext, Stepping, history, AppendEvent, CatchUp, OtherCatchUp, ReadBacklog,
       StartOp, EndOp, DrainCrash
  <2>2. PICK b \in cur + 1 .. top + 1 :
          abandoned' = abandoned \cup {e \in cur + 1 .. b - 1 : Skipped(e)}
    BY <2>1 DEF Walk
  <2>3. s \in Window /\ Skipped(s)
    BY <1>2, <2>2 DEF Window
  <2>4. PICK t \in Window : journal[t] = journal[s] /\ FirstOfIts(t) /\ Spent(t)
    BY <2>3 DEF Skipped
  <2>5. t \in cur + 1 .. s
    BY <1>2, <2>3, <2>4 DEF FirstOfIts, Window
  <2>6. Failed(t)
    BY <2>3, <2>4 DEF Skipped, Failed
  <2>7. streak'[t] >= SkipAfter
    BY <1>2, <1>3, <2>1, <2>4, <2>6 DEF Spent, Counted
  <2> QED BY <2>4, <2>5, <2>7
<1> QED BY <1>1, <1>4, <1>5, TypeCorrect, PTL DEF DrainSpec, AbandonedAfterBudget

-----------------------------------------------------------------------------
(* The Checker: the inductive invariant *)

Uses == [secret : Secrets, who : Cast, chapter : ToSet(Ids)]

CanonOK ==
  /\ topic \in Topics
  /\ chapters \in Seq([id : ToSet(Ids), cast : SUBSET Cast]) /\ Len(chapters) <= Len(Ids)
  /\ \A i \in DOMAIN chapters : chapters[i].id = Ids[i]
  /\ refs \in Seq(Uses) /\ edges \in Seq(ToSet(Ids) \X ToSet(Ids))
  /\ learned \in [Secrets \X Cast -> ToSet(Ids) \cup {None, Unplaced}]
  /\ revealed \in SUBSET Secrets /\ mined \in SUBSET Nodes

(* A beginning of the chapters in their order, and an edge that runs backwards there *)
Laid(o) ==
  /\ o \in Seq(ToSet(Ids)) /\ Len(o) <= Len(Ids)
  /\ \A i \in 1 .. Len(o) : o[i] = Ids[i]

Inverted(e, n) == \E i, j \in 1 .. n : i < j /\ e = <<Ids[j], Ids[i]>>

(* A pass knows of chapters that are there. *)
CheckOK ==
  check # None =>
    /\ check.pc \in {"chapters", "references", "matrix", "asked", "commit"}
    /\ check.pc # "chapters" => Laid(check.order)
    /\ check.pc \in {"references", "matrix", "asked"} => check.unmined \subseteq Nodes
    /\ check.pc = "commit" =>
         /\ check.ok \subseteq Nodes
         /\ check = [pc |-> "commit", fp |-> check.fp, before |-> check.before,
                     order |-> check.order, refs |-> check.refs, matrix |-> check.matrix,
                     edges |-> check.edges, todo |-> check.todo, ok |-> check.ok]

(* What was wrong when it began is in canon still, so far as it does not heal, and
   is in what the pass has read. *)
PassOK ==
  check # None =>
    /\ check.before.leaks \subseteq ToSet(refs)
    /\ \A e \in check.before.backwards : e \in ToSet(edges) /\ Inverted(e, Len(chapters))
    /\ check.pc # "chapters" =>
         \A e \in check.before.backwards : Inverted(e, Len(check.order))
    /\ check.pc \in {"matrix", "asked", "commit"} =>
         check.before.leaks \subseteq ToSet(check.refs) /\ ToSet(check.refs) \subseteq ToSet(refs)
    /\ check.pc \in {"asked", "commit"} =>
         /\ check.before.backwards \subseteq ToSet(check.edges)
         /\ check.matrix.revealed \subseteq revealed /\ check.matrix.knows \subseteq Matrix.knows
         /\ FindLeaks(check.refs, check.matrix) \subseteq leaked

(* What is filed, or about to be, was so at some time; and nothing that the pass
   found is neither. *)
FilesOK ==
  /\ open \subseteq filed /\ LeaksWereReal
  /\ check # None /\ check.pc = "commit" =>
       /\ \A d \in check.todo : d[1] = "leak" => Ref(d[2], d[3], d[4]) \in leaked
       /\ \A r \in FindLeaks(check.refs, check.matrix) : LeakDescription(r) \in filed \cup check.todo
       /\ \A e \in check.before.backwards :
            ParadoxDescription(<<e, "ordering">>) \in filed \cup check.todo

ContInv == CanonOK /\ CheckOK /\ PassOK /\ FilesOK

-----------------------------------------------------------------------------
(* Canon only grows, its stamps apart. *)
Grows ==
  /\ Nodes \subseteq Nodes' /\ Len(chapters) <= Len(chapters')
  /\ ToSet(refs) \subseteq ToSet(refs') /\ ToSet(edges) \subseteq ToSet(edges')
  /\ revealed \subseteq revealed' /\ Matrix.knows \subseteq Matrix'.knows

(* An element more at the end of a sequence *)
LEMMA OneMore ==
  ASSUME NEW S, NEW s \in Seq(S), NEW e \in S
  PROVE  /\ Append(s, e) \in Seq(S) /\ Len(Append(s, e)) = Len(s) + 1 /\ Len(s) \in Nat
         /\ DOMAIN s = 1 .. Len(s) /\ DOMAIN Append(s, e) = 1 .. Len(s) + 1
         /\ \A i \in 1 .. Len(s) : Append(s, e)[i] = s[i]
         /\ Append(s, e)[Len(s) + 1] = e
         /\ ToSet(Append(s, e)) = ToSet(s) \cup {e}
<1>1. /\ Append(s, e) \in Seq(S) /\ Len(Append(s, e)) = Len(s) + 1 /\ Len(s) \in Nat
      /\ DOMAIN s = 1 .. Len(s) /\ DOMAIN Append(s, e) = 1 .. Len(s) + 1
      /\ \A i \in 1 .. Len(s) : Append(s, e)[i] = s[i]
      /\ Append(s, e)[Len(s) + 1] = e
  BY AppendProperties, LenProperties
<1>2. ToSet(Append(s, e)) = ToSet(s) \cup {e}
  BY <1>1 DEF ToSet
<1> QED BY <1>1, <1>2

LEMMA ElementsIn ==
  ASSUME NEW S, NEW s \in Seq(S)
  PROVE  ToSet(s) \subseteq S
BY LenProperties, ElementOfSeq DEF ToSet

LEMMA Identifiers ==
  /\ \A i, j \in 1 .. Len(Ids) : Ids[i] = Ids[j] => i = j
  /\ Len(Ids) \in Nat /\ DOMAIN Ids = 1 .. Len(Ids)
  /\ \A i \in 1 .. Len(Ids) : Ids[i] \in ToSet(Ids)
  /\ \A t \in Topics : t.upto \in Nat /\ t.upto <= Len(Ids) /\ t.written \in Nat /\ t.written <= Len(Ids)
                    /\ t.casts \subseteq SUBSET Cast /\ t.who \subseteq Cast
                    /\ t.places \subseteq ToSet(Ids) \cup {Unplaced}
<1>1. Ids \in Seq(ToSet(Ids))
  BY ContinuityAssumption
<1>2. Len(Ids) \in Nat /\ DOMAIN Ids = 1 .. Len(Ids)
  BY <1>1, LenProperties
<1>3. \A i \in 1 .. Len(Ids) : Ids[i] \in ToSet(Ids)
  BY <1>2 DEF ToSet
<1>4. \A i, j \in 1 .. Len(Ids) : Ids[i] = Ids[j] => i = j
  BY <1>2, ContinuityAssumption
<1> QED BY <1>2, <1>3, <1>4, ContinuityAssumption

(* The chapters in order *)
LEMMA OrderIs ==
  ASSUME CanonOK
  PROVE  /\ Len(chapters) \in Nat /\ Len(chapters) <= Len(Ids)
         /\ DOMAIN chapters = 1 .. Len(chapters)
         /\ Laid(Order) /\ Len(Order) = Len(chapters)
         /\ DOMAIN Order = 1 .. Len(chapters)
         /\ \A i \in 1 .. Len(chapters) : Order[i] = Ids[i]
         /\ Nodes = {Ids[i] : i \in 1 .. Len(chapters)}
         /\ Nodes \subseteq ToSet(Ids)
<1>1. Len(chapters) \in Nat /\ DOMAIN chapters = 1 .. Len(chapters)
  BY LenProperties DEF CanonOK
<1>2. Order = [i \in 1 .. Len(chapters) |-> chapters[i].id]
  BY <1>1 DEF Order, ChapterOrder
<1>3. /\ DOMAIN Order = 1 .. Len(chapters)
      /\ \A i \in 1 .. Len(chapters) : Order[i] = Ids[i]
  BY <1>1, <1>2 DEF CanonOK
<1>4. Order \in [1 .. Len(chapters) -> ToSet(Ids)]
  <2>1. \A i \in 1 .. Len(chapters) : Ids[i] \in ToSet(Ids)
    BY <1>1, Identifiers DEF CanonOK
  <2> QED BY <1>2, <1>3, <2>1
<1>5. Order \in Seq(ToSet(Ids)) /\ Len(Order) = Len(chapters)
  BY <1>1, <1>3, <1>4, LenProperties, SeqDef
<1>6. Nodes = {Ids[i] : i \in 1 .. Len(chapters)}
  BY <1>3 DEF Nodes, ToSet
<1> QED BY <1>1, <1>3, <1>5, <1>6, Identifiers DEF CanonOK, Laid

(* What a step that leaves canon alone, or adds to it, does to the types *)
LEMMA CitableIs ==
  ASSUME CanonOK
  PROVE  /\ Nodes \subseteq Citable /\ Citable \subseteq ToSet(Ids)
         /\ topic.who \subseteq Cast /\ topic.casts \subseteq SUBSET Cast
         /\ topic.upto \in Nat /\ topic.upto <= Len(Ids)
<1>1. topic \in Topics
  BY DEF CanonOK
<1>2. /\ topic.who \subseteq Cast /\ topic.casts \subseteq SUBSET Cast
      /\ topic.upto \in Nat /\ topic.upto <= Len(Ids)
  BY <1>1, Identifiers
<1>3. Len(chapters) < topic.upto => Ids[Len(chapters) + 1] \in ToSet(Ids)
  BY <1>2, OrderIs, Identifiers
<1> QED BY <1>2, <1>3, OrderIs DEF Citable

LEMMA DraftGrows ==
  ASSUME CanonOK, Draft, topic' = topic
  PROVE  CanonOK' /\ Grows
<1> DEFINE S == [id : ToSet(Ids), cast : SUBSET Cast]
<1>1. PICK cast \in topic.casts :
        chapters' = Append(chapters, [id |-> Ids[Len(chapters) + 1], cast |-> cast])
  BY DEF Draft
<1> DEFINE e == [id |-> Ids[Len(chapters) + 1], cast |-> cast]
<1>2. Len(chapters) \in Nat /\ Len(chapters) + 1 <= Len(Ids)
  BY CitableIs, OrderIs DEF Draft
<1>3. e \in S
  BY <1>2, CitableIs, Identifiers
<1>4. chapters \in Seq(S)
  BY DEF CanonOK
<1> HIDE DEF S
<1>5. /\ chapters' \in Seq(S) /\ Len(chapters') = Len(chapters) + 1
      /\ DOMAIN chapters = 1 .. Len(chapters) /\ DOMAIN chapters' = 1 .. Len(chapters) + 1
      /\ \A i \in 1 .. Len(chapters) : chapters'[i] = chapters[i]
      /\ chapters'[Len(chapters) + 1] = e
  BY <1>1, <1>3, <1>4, OneMore
<1>6. \A i \in DOMAIN chapters' : chapters'[i].id = Ids[i]
  BY <1>2, <1>5 DEF CanonOK
<1>7. /\ Nodes = {chapters[i].id : i \in DOMAIN chapters}
      /\ Nodes' = {chapters'[i].id : i \in DOMAIN chapters'}
  BY DEF Nodes, ToSet, Order, ChapterOrder
<1>8. Nodes \subseteq Nodes'
  BY <1>2, <1>5, <1>7
<1>9. Grows
  BY <1>2, <1>5, <1>8 DEF Draft, Grows, Matrix
<1>10. CanonOK'
  BY <1>2, <1>5, <1>6, <1>8 DEF CanonOK, Draft, S
<1> QED BY <1>9, <1>10

LEMMA RefersGrow ==
  ASSUME CanonOK, NEW s \in Secrets, NEW who \in Cast, NEW c \in ToSet(Ids),
         refs' = Append(refs, Ref(s, who, c)),
         UNCHANGED <<topic, chapters, learned, revealed, edges, mined>>
  PROVE  CanonOK' /\ Grows
<1>1. Ref(s, who, c) \in Uses
  BY DEF Ref, Uses
<1>2. refs \in Seq(Uses)
  BY DEF CanonOK
<1>3. refs' \in Seq(Uses) /\ ToSet(refs') = ToSet(refs) \cup {Ref(s, who, c)}
  BY <1>1, <1>2, OneMore
<1>4. Nodes' = Nodes /\ Matrix' = Matrix
  BY DEF Nodes, Order, Matrix
<1>5. Grows
  BY <1>3, <1>4, OrderIs DEF Grows
<1> QED BY <1>3, <1>4, <1>5 DEF CanonOK

LEMMA CausesGrow ==
  ASSUME CanonOK, NEW e \in ToSet(Ids) \X ToSet(Ids), edges' = Append(edges, e),
         UNCHANGED <<topic, chapters, refs, learned, revealed, mined>>
  PROVE  CanonOK' /\ Grows
<1>1. edges \in Seq(ToSet(Ids) \X ToSet(Ids))
  BY DEF CanonOK
<1>2. edges' \in Seq(ToSet(Ids) \X ToSet(Ids)) /\ ToSet(edges') = ToSet(edges) \cup {e}
  BY <1>1, OneMore
<1>3. Nodes' = Nodes /\ Matrix' = Matrix
  BY DEF Nodes, Order, Matrix
<1>4. Grows
  BY <1>2, <1>3, OrderIs DEF Grows
<1> QED BY <1>2, <1>3, <1>4 DEF CanonOK

LEMMA LearnsGrow ==
  ASSUME CanonOK, NEW k \in Secrets \X Cast, NEW c \in ToSet(Ids) \cup {Unplaced},
         learned' = [learned EXCEPT ![k] = IF @ = None THEN c ELSE @],
         UNCHANGED <<topic, chapters, refs, revealed, edges, mined>>
  PROVE  CanonOK' /\ Grows
<1>1. learned' \in [Secrets \X Cast -> ToSet(Ids) \cup {None, Unplaced}]
  BY DEF CanonOK
<1>2. c # None
  BY ContinuityAssumption
<1>3. \A l \in Secrets \X Cast : learned[l] # None => learned'[l] # None
  BY <1>2 DEF CanonOK
<1>4. Nodes' = Nodes
  BY DEF Nodes, Order
<1>5. Matrix.knows \subseteq Matrix'.knows
  BY <1>3 DEF Matrix
<1>6. Grows
  BY <1>4, <1>5, OrderIs DEF Grows
<1> QED BY <1>1, <1>4, <1>6 DEF CanonOK

LEMMA RestGrows ==
  ASSUME CanonOK, UNCHANGED <<topic, chapters, refs, learned, edges>>,
         revealed' \subseteq Secrets, revealed \subseteq revealed', mined' \subseteq Nodes
  PROVE  CanonOK' /\ Grows
<1>1. Nodes' = Nodes /\ Matrix'.knows = Matrix.knows
  BY DEF Nodes, Order, Matrix
<1> QED BY <1>1, OrderIs DEF Grows, CanonOK

LEMMA OthersGrow ==
  ASSUME CanonOK, Others
  PROVE  CanonOK' /\ Grows
<1>0. /\ topic' = topic /\ Nodes \subseteq Citable /\ Citable \subseteq ToSet(Ids)
      /\ topic.who \subseteq Cast
  BY CitableIs DEF Others
<1>1. CASE Draft
  BY <1>0, <1>1, DraftGrows
<1>2. CASE Revise
  <2>1. mined' \subseteq Nodes
    BY <1>2 DEF Revise, CanonOK
  <2> QED BY <1>0, <1>2, <2>1, RestGrows DEF Revise, CanonOK
<1>3. CASE Refer
  <2>1. PICK s \in Secrets, who \in topic.who, c \in Citable : refs' = Append(refs, Ref(s, who, c))
    BY <1>3 DEF Refer
  <2> QED BY <1>0, <1>3, <2>1, RefersGrow DEF Refer
<1>4. CASE Learn
  <2>1. PICK s \in Secrets, who \in topic.who, c \in Citable \cup {Unplaced} :
          learned[<<s, who>>] = None /\ learned' = [learned EXCEPT ![<<s, who>>] = c]
    BY <1>4 DEF Learn
  <2>2. <<s, who>> \in Secrets \X Cast /\ c \in ToSet(Ids) \cup {Unplaced}
    BY <1>0, <2>1
  <2>3. learned' = [learned EXCEPT ![<<s, who>>] = IF @ = None THEN c ELSE @]
    BY <2>1
  <2> QED BY <1>0, <1>4, <2>2, <2>3, LearnsGrow DEF Learn
<1>5. CASE Reveal
  BY <1>0, <1>5, RestGrows DEF Reveal, CanonOK
<1>6. CASE Declare
  <2>1. PICK c, e \in Citable : edges' = Append(edges, <<c, e>>)
    BY <1>6 DEF Declare
  <2>2. <<c, e>> \in ToSet(Ids) \X ToSet(Ids)
    BY <1>0, <2>1
  <2> QED BY <1>0, <1>6, <2>1, <2>2, CausesGrow DEF Declare
<1> QED BY <1>1, <1>2, <1>3, <1>4, <1>5, <1>6 DEF Others

LEMMA MiningGrows ==
  ASSUME CanonOK, CheckOK, CheckerMines
  PROVE  CanonOK' /\ Grows
<1>1. /\ topic' = topic /\ topic.who \subseteq Cast /\ Nodes \subseteq ToSet(Ids)
      /\ check.ok \subseteq Nodes /\ Laid(check.order)
  BY CitableIs DEF CheckerMines, Held, CheckOK
<1>2. PICK c \in check.ok : MinedUse(c) \/ MinedLearn(c) \/ MinedCause
  BY DEF CheckerMines
<1>3. c \in ToSet(Ids)
  BY <1>1, <1>2
<1>4. CASE MinedUse(c)
  <2>1. PICK s \in Secrets, who \in topic.who : refs' = Append(refs, Ref(s, who, c))
    BY <1>4 DEF MinedUse
  <2> QED BY <1>1, <1>3, <1>4, <2>1, RefersGrow DEF MinedUse, CheckerMines
<1>5. CASE MinedLearn(c)
  <2>1. PICK k \in Secrets \X topic.who :
          learned' = [learned EXCEPT ![k] = IF @ = None THEN c ELSE @]
    BY <1>5 DEF MinedLearn
  <2>2. k \in Secrets \X Cast
    BY <1>1, <2>1
  <2> QED BY <1>1, <1>3, <1>5, <2>1, <2>2, LearnsGrow DEF MinedLearn, CheckerMines
<1>6. CASE MinedCause
  <2>1. PICK e \in ToSet(check.order) \X ToSet(check.order) : edges' = Append(edges, e)
    BY <1>6 DEF MinedCause
  <2>2. ToSet(check.order) \subseteq ToSet(Ids)
    <3>1. DOMAIN check.order = 1 .. Len(check.order) /\ Len(check.order) \in Nat
      BY <1>1, LenProperties DEF Laid
    <3> QED BY <1>1, <3>1, Identifiers DEF Laid, ToSet
  <2>3. e \in ToSet(Ids) \X ToSet(Ids)
    BY <2>1, <2>2
  <2> QED BY <1>1, <1>6, <2>1, <2>3, CausesGrow DEF MinedCause, CheckerMines
<1> QED BY <1>2, <1>4, <1>5, <1>6

LEMMA StampsGrow ==
  ASSUME CanonOK, CheckOK, CheckerStamps
  PROVE  CanonOK' /\ Grows
<1>1. check.ok \subseteq Nodes
  BY DEF CheckerStamps, CheckOK
<1>2. mined' \subseteq Nodes /\ topic' = topic
  BY <1>1 DEF CheckerStamps, CanonOK, Held
<1> QED BY <1>2, RestGrows DEF CheckerStamps, CanonOK

LEMMA NothingGrows ==
  ASSUME CanonOK, UNCHANGED canon, topic' = topic
  PROVE  CanonOK' /\ Grows
BY RestGrows DEF CanonOK, canon

-----------------------------------------------------------------------------
(* The Checker: what it holds, and what it filed *)

(* While it is not at work, or the pass is where it was, what is known holds on. *)
LEMMA PassStands ==
  ASSUME ContInv, CanonOK', Grows, leaked \subseteq leaked', check' = check \/ check' = None,
         filed' = filed, open' \subseteq filed
  PROVE  ContInv'
<1>1. LeaksWereReal'
  BY DEF LeaksWereReal, ContInv, FilesOK
<1>2. CASE check' = None
  BY <1>1, <1>2 DEF ContInv, CheckOK, PassOK, FilesOK
<1>3. CASE check' = check /\ check # None
  <2>1. CheckOK'
    BY <1>3 DEF ContInv, CheckOK, Grows
  <2>2. PassOK'
    <3>1. \A e : Inverted(e, Len(chapters)) => Inverted(e, Len(chapters'))
      <4>1. Len(chapters) \in Nat /\ Len(chapters') \in Nat /\ Len(chapters) <= Len(chapters')
        BY LenProperties DEF ContInv, CanonOK, Grows
      <4> QED BY <4>1 DEF Inverted
    <3> QED BY <1>3, <3>1 DEF ContInv, PassOK, Grows
  <2>3. FilesOK'
    BY <1>1, <1>3 DEF ContInv, FilesOK
  <2> QED BY <2>1, <2>2, <2>3 DEF ContInv
<1> QED BY <1>2, <1>3

(* An identifier's place among those of a beginning *)
LEMMA OrdinalIs ==
  ASSUME NEW o, Laid(o)
  PROVE  /\ Len(o) \in Nat /\ Len(o) <= Len(Ids)
         /\ \A c : c \in ToSet(o) <=> \E i \in 1 .. Len(o) : c = Ids[i]
         /\ \A i \in 1 .. Len(o) : Ordinal(Ids[i], o) = i
         /\ \A c : c \notin ToSet(o) => Ordinal(c, o) = None
<1>1. Len(o) \in Nat /\ DOMAIN o = 1 .. Len(o) /\ Len(o) <= Len(Ids)
  BY LenProperties DEF Laid
<1>2. \A c : c \in ToSet(o) <=> \E i \in 1 .. Len(o) : c = Ids[i]
  BY <1>1 DEF ToSet, Laid
<1>3. ASSUME NEW i \in 1 .. Len(o) PROVE Ordinal(Ids[i], o) = i
  <2>1. o[i] = Ids[i] /\ Ids[i] \in ToSet(o)
    BY <1>2, <1>3 DEF Laid
  <2>2. \A j \in DOMAIN o : o[j] = Ids[i] => j = i
    BY <1>1, Identifiers DEF Laid
  <2> QED BY <1>1, <2>1, <2>2 DEF Ordinal
<1> QED BY <1>1, <1>2, <1>3 DEF Ordinal

LEMMA BackwardsIs ==
  ASSUME NEW o, Laid(o), NEW e \in ToSet(Ids) \X ToSet(Ids)
  PROVE  Backwards(e, o) <=> Inverted(e, Len(o))
<1>1. /\ Len(o) \in Nat /\ \A i \in 1 .. Len(o) : Ids[i] \in ToSet(o) /\ Ordinal(Ids[i], o) = i
      /\ \A c : c \in ToSet(o) => \E i \in 1 .. Len(o) : c = Ids[i]
  BY OrdinalIs
<1>2. ASSUME Backwards(e, o) PROVE Inverted(e, Len(o))
  <2>1. e[1] \in ToSet(o) /\ e[2] \in ToSet(o) /\ Ordinal(e[2], o) < Ordinal(e[1], o)
    BY <1>2 DEF Backwards
  <2>2. PICK i \in 1 .. Len(o) : e[2] = Ids[i]
    BY <1>1, <2>1
  <2>3. PICK j \in 1 .. Len(o) : e[1] = Ids[j]
    BY <1>1, <2>1
  <2>4. i < j /\ e = <<Ids[j], Ids[i]>>
    BY <1>1, <2>1, <2>2, <2>3
  <2> QED BY <2>4 DEF Inverted
<1>3. ASSUME Inverted(e, Len(o)) PROVE Backwards(e, o)
  BY <1>1, <1>3 DEF Inverted, Backwards
<1> QED BY <1>2, <1>3

LEMMA StartsStand ==
  ASSUME ContInv, CanonOK', CheckerStarts, leaked \subseteq leaked'
  PROVE  ContInv'
<1>1. /\ check' = [pc |-> "chapters", fp |-> Fingerprint,
                   before |-> [leaks |-> Leaks, backwards |-> {e \in ToSet(edges) : Backwards(e, Order)},
                               circular |-> {e \in ToSet(edges) : Circular(e)}]]
      /\ UNCHANGED <<chapters, refs, edges, open, filed>>
  BY DEF CheckerStarts, canon
<1>2. Leaks \subseteq ToSet(refs)
  BY DEF Leaks
<1>3. ASSUME NEW e \in ToSet(edges), Backwards(e, Order) PROVE Inverted(e, Len(chapters))
  <2>1. e \in ToSet(Ids) \X ToSet(Ids)
    <3>1. edges \in Seq(ToSet(Ids) \X ToSet(Ids))
      BY DEF ContInv, CanonOK
    <3> QED BY <3>1, ElementsIn
  <2> QED BY <1>3, <2>1, OrderIs, BackwardsIs DEF ContInv
<1>4. CheckOK'
  BY <1>1 DEF CheckOK
<1>5. PassOK'
  BY <1>1, <1>2, <1>3 DEF PassOK
<1>6. FilesOK'
  BY <1>1 DEF ContInv, FilesOK, LeaksWereReal
<1> QED BY <1>4, <1>5, <1>6 DEF ContInv

LEMMA ChaptersStand ==
  ASSUME ContInv, CanonOK', CheckerReadsChapters, leaked \subseteq leaked'
  PROVE  ContInv'
<1>1. /\ check' = [pc |-> "references", fp |-> check.fp, before |-> check.before,
                   order |-> Order, unmined |-> Unmined]
      /\ UNCHANGED <<chapters, refs, edges, open, filed>>
      /\ check # None /\ check.pc = "chapters"
  BY DEF CheckerReadsChapters, canon
<1>2. Nodes' = Nodes /\ Unmined \subseteq Nodes
  BY <1>1 DEF Nodes, Order, Unmined
<1>3. Laid(Order) /\ Len(Order) = Len(chapters)
  BY OrderIs DEF ContInv
<1>4. CheckOK'
  BY <1>1, <1>2, <1>3 DEF CheckOK
<1>5. PassOK'
  BY <1>1, <1>3 DEF PassOK, ContInv
<1>6. FilesOK'
  BY <1>1 DEF ContInv, FilesOK, LeaksWereReal
<1> QED BY <1>4, <1>5, <1>6 DEF ContInv

LEMMA ReferencesStand ==
  ASSUME ContInv, CanonOK', CheckerReadsReferences, leaked \subseteq leaked'
  PROVE  ContInv'
<1>1. /\ check' = [pc |-> "matrix", fp |-> check.fp, before |-> check.before,
                   order |-> check.order, unmined |-> check.unmined, refs |-> refs]
      /\ UNCHANGED <<chapters, refs, edges, open, filed>>
      /\ check # None /\ check.pc = "references"
  BY DEF CheckerReadsReferences, canon
<1>2. Nodes' = Nodes
  BY <1>1 DEF Nodes, Order
<1>4. CheckOK'
  BY <1>1, <1>2 DEF CheckOK, ContInv
<1>5. PassOK'
  BY <1>1 DEF PassOK, ContInv
<1>6. FilesOK'
  BY <1>1 DEF ContInv, FilesOK, LeaksWereReal
<1> QED BY <1>4, <1>5, <1>6 DEF ContInv

(* What the matrix leaves unexplained of the references read was so a moment ago. *)
LEMMA MatrixStands ==
  ASSUME ContInv, CanonOK', CheckerReadsMatrixAndEdges, Remembered
  PROVE  ContInv'
<1>1. /\ check' = [pc |-> "asked", fp |-> check.fp, before |-> check.before,
                   order |-> check.order, unmined |-> check.unmined, refs |-> check.refs,
                   matrix |-> Matrix, edges |-> edges]
      /\ UNCHANGED <<chapters, refs, edges, revealed, learned, open, filed>>
      /\ check # None /\ check.pc = "matrix"
  BY DEF CheckerReadsMatrixAndEdges, canon
<1>2. Nodes' = Nodes /\ Matrix' = Matrix /\ Leaks' = Leaks
  BY <1>1 DEF Nodes, Order, Matrix, Leaks
<1>3. leaked' = leaked \cup Leaks
  BY <1>2 DEF Remembered
<1>4. CheckOK'
  BY <1>1, <1>2 DEF CheckOK, ContInv
<1>5. FindLeaks(check.refs, Matrix) \subseteq Leaks
  <2>1. \A r \in ToSet(check.refs) : r \in ToSet(refs)
    BY <1>1 DEF ContInv, PassOK
  <2>2. \A r \in ToSet(refs) : r.secret \in Secrets /\ r.who \in Cast
    <3>1. refs \in Seq(Uses)
      BY DEF ContInv, CanonOK
    <3>2. ToSet(refs) \subseteq Uses
      BY <3>1, ElementsIn
    <3> QED BY <3>2 DEF Uses
  <2>3. \A r \in ToSet(refs) : KnowledgeCellState(Matrix, r.secret, r.who) = "unknown" =>
          r.secret \notin revealed /\ learned[r.secret, r.who] = None
    BY <2>2 DEF KnowledgeCellState, Matrix
  <2> QED BY <2>1, <2>3 DEF FindLeaks, Leaks
<1>6. PassOK'
  BY <1>1, <1>2, <1>3, <1>5 DEF PassOK, ContInv, Matrix
<1>7. FilesOK'
  BY <1>1, <1>3 DEF ContInv, FilesOK, LeaksWereReal
<1> QED BY <1>4, <1>6, <1>7 DEF ContInv

(* What is to be filed are leaks that were, and all that the pass found and is not
   in the queue. *)
LEMMA AnswerStands ==
  ASSUME ContInv, CanonOK', NEW given, CheckerIsAnswered(given), leaked \subseteq leaked'
  PROVE  ContInv'
<1>1. /\ check' = [pc |-> "commit", fp |-> check.fp, before |-> check.before, order |-> check.order,
                   refs |-> check.refs, matrix |-> check.matrix, edges |-> check.edges,
                   todo |-> Descriptions(check) \ open, ok |-> given]
      /\ UNCHANGED <<chapters, refs, edges, revealed, learned, open, filed>>
      /\ check # None /\ check.pc = "asked" /\ given \subseteq check.unmined
  BY DEF CheckerIsAnswered, canon
<1>2. Nodes' = Nodes /\ Matrix' = Matrix
  BY <1>1 DEF Nodes, Order, Matrix
<1>3. /\ Laid(check.order) /\ check.unmined \subseteq Nodes
      /\ \A e \in check.before.backwards : e \in ToSet(check.edges) /\ Inverted(e, Len(check.order))
      /\ ToSet(check.refs) \subseteq ToSet(refs) /\ ToSet(refs) \subseteq Uses
      /\ FindLeaks(check.refs, check.matrix) \subseteq leaked
  <2>1. ToSet(refs) \subseteq Uses
    BY ElementsIn DEF ContInv, CanonOK
  <2> QED BY <1>1, <2>1 DEF ContInv, CheckOK, PassOK
<1>4. CheckOK'
  BY <1>1, <1>2, <1>3 DEF CheckOK
<1>5. PassOK'
  BY <1>1, <1>2 DEF PassOK, ContInv
<1>6. \A r \in FindLeaks(check.refs, check.matrix) :
        LeakDescription(r) \in Descriptions(check) /\ Ref(r.secret, r.who, r.chapter) = r
  <2>1. \A r \in FindLeaks(check.refs, check.matrix) : r \in Uses
    BY <1>3 DEF FindLeaks
  <2> QED BY <2>1 DEF Descriptions, Uses, Ref
<1>7. ASSUME NEW d \in Descriptions(check), d[1] = "leak"
      PROVE  Ref(d[2], d[3], d[4]) \in leaked
  <2>0. \A p : ParadoxDescription(p)[1] = "paradox"
    BY DEF ParadoxDescription
  <2>1. PICK r \in FindLeaks(check.refs, check.matrix) : d = LeakDescription(r)
    BY <1>7, <2>0 DEF Descriptions
  <2>2. d[2] = r.secret /\ d[3] = r.who /\ d[4] = r.chapter
    BY <2>1 DEF LeakDescription
  <2> QED BY <1>3, <1>6, <2>1, <2>2
<1>8. ASSUME NEW e \in check.before.backwards
      PROVE  ParadoxDescription(<<e, "ordering">>) \in Descriptions(check)
  <2>1. e \in ToSet(check.edges) /\ Inverted(e, Len(check.order))
    BY <1>3
  <2>2. PICK i, j \in 1 .. Len(check.order) : i < j /\ e = <<Ids[j], Ids[i]>>
    BY <2>1 DEF Inverted
  <2>3. /\ Ordinal(Ids[i], check.order) = i /\ Ordinal(Ids[j], check.order) = j
        /\ Ids[i] \in ToSet(check.order) /\ Ids[j] \in ToSet(check.order)
    BY <1>3, OrdinalIs
  <2>4. /\ {e[1], e[2]} \subseteq ToSet(check.order)
        /\ Ordinal(e[2], check.order) <= Ordinal(e[1], check.order)
    BY <2>2, <2>3
  <2>5. \A nodes : <<e, "ordering">> \in FindParadoxes(check.edges, check.order, nodes)
    BY <2>1, <2>4 DEF FindParadoxes
  <2> QED BY <2>5 DEF Descriptions
<1>9. open \subseteq filed /\ LeaksWereReal
  BY DEF ContInv, FilesOK
<1>10. FilesOK'
  BY <1>1, <1>6, <1>7, <1>8, <1>9 DEF FilesOK, LeaksWereReal
<1> QED BY <1>4, <1>5, <1>10 DEF ContInv

LEMMA FilesStand ==
  ASSUME ContInv, CanonOK', CheckerFiles, leaked \subseteq leaked'
  PROVE  ContInv'
<1>1. PICK d \in check.todo :
        check' = [check EXCEPT !.todo = @ \ {d}] /\ open' = open \cup {d} /\ filed' = filed \cup {d}
  BY DEF CheckerFiles
<1>2. /\ UNCHANGED <<chapters, refs, edges, revealed, learned>>
      /\ check # None /\ check.pc = "commit"
  BY DEF CheckerFiles, canon
<1>3. check = [pc |-> "commit", fp |-> check.fp, before |-> check.before,
               order |-> check.order, refs |-> check.refs, matrix |-> check.matrix,
               edges |-> check.edges, todo |-> check.todo, ok |-> check.ok]
  BY <1>2 DEF ContInv, CheckOK
<1>4. check' = [pc |-> "commit", fp |-> check.fp, before |-> check.before,
                order |-> check.order, refs |-> check.refs, matrix |-> check.matrix,
                edges |-> check.edges, todo |-> check.todo \ {d}, ok |-> check.ok]
  BY <1>1, <1>3
<1>5. Nodes' = Nodes /\ Matrix' = Matrix
  BY <1>2 DEF Nodes, Order, Matrix
<1>6. CheckOK'
  BY <1>2, <1>4, <1>5 DEF CheckOK, ContInv
<1>7. PassOK'
  BY <1>2, <1>4, <1>5 DEF PassOK, ContInv
<1>8. FilesOK'
  BY <1>1, <1>2, <1>4 DEF ContInv, FilesOK, LeaksWereReal
<1> QED BY <1>6, <1>7, <1>8 DEF ContInv

LEMMA StampsStand ==
  ASSUME ContInv, CanonOK', Grows, CheckerStamps, leaked \subseteq leaked'
  PROVE  ContInv'
<1>1. PICK c \in check.ok : check' = [check EXCEPT !.ok = @ \ {c}]
  BY DEF CheckerStamps
<1>2. /\ UNCHANGED <<chapters, refs, edges, revealed, learned, open, filed>>
      /\ check # None /\ check.pc = "commit"
  BY DEF CheckerStamps
<1>3. check = [pc |-> "commit", fp |-> check.fp, before |-> check.before,
               order |-> check.order, refs |-> check.refs, matrix |-> check.matrix,
               edges |-> check.edges, todo |-> check.todo, ok |-> check.ok]
  BY <1>2 DEF ContInv, CheckOK
<1>4. check' = [pc |-> "commit", fp |-> check.fp, before |-> check.before,
                order |-> check.order, refs |-> check.refs, matrix |-> check.matrix,
                edges |-> check.edges, todo |-> check.todo, ok |-> check.ok \ {c}]
  BY <1>1, <1>3
<1>5. Nodes' = Nodes /\ Matrix' = Matrix
  BY <1>2 DEF Nodes, Order, Matrix
<1>6. CheckOK'
  BY <1>2, <1>4, <1>5 DEF CheckOK, ContInv
<1>7. PassOK'
  BY <1>2, <1>4, <1>5 DEF PassOK, ContInv
<1>8. FilesOK'
  BY <1>2, <1>4 DEF ContInv, FilesOK, LeaksWereReal
<1> QED BY <1>6, <1>7, <1>8 DEF ContInv

LEMMA BeginsWell ==
  ASSUME ContinuityInit
  PROVE  ContInv
<1>1. topic \in Topics /\ topic.written \in Nat /\ topic.written <= Len(Ids)
      /\ topic.casts \subseteq SUBSET Cast
  BY Identifiers DEF ContinuityInit
<1>2. chapters \in [1 .. topic.written -> [id : ToSet(Ids), cast : SUBSET Cast]]
  BY <1>1 DEF ContinuityInit
<1>3. chapters \in Seq([id : ToSet(Ids), cast : SUBSET Cast]) /\ Len(chapters) = topic.written
  <2> DEFINE S == [id : ToSet(Ids), cast : SUBSET Cast]
  <2>1. chapters \in [1 .. topic.written -> S] /\ topic.written \in Nat
    BY <1>1, <1>2
  <2> HIDE DEF S
  <2>2. chapters \in Seq(S)
    BY <2>1, SeqDef
  <2>3. DOMAIN chapters = 1 .. topic.written /\ DOMAIN chapters = 1 .. Len(chapters)
        /\ Len(chapters) \in Nat
    BY <2>1, <2>2, LenProperties
  <2> QED BY <2>1, <2>2, <2>3 DEF S
<1>4. refs \in Seq(Uses) /\ edges \in Seq(ToSet(Ids) \X ToSet(Ids))
  BY EmptySeq DEF ContinuityInit
<1>5. CanonOK
  BY <1>1, <1>3, <1>4 DEF ContinuityInit, CanonOK
<1> QED BY <1>5 DEF ContinuityInit, ContInv, CheckOK, PassOK, FilesOK, LeaksWereReal

LEMMA ContinuityInductive ==
  ASSUME ContInv, [ContinuityNext]_continuityVars
  PROVE  ContInv'
<1>0. CanonOK /\ CheckOK /\ open \subseteq filed
  BY DEF ContInv, FilesOK
<1>1. CASE UNCHANGED continuityVars
  <2>1. UNCHANGED canon /\ UNCHANGED <<topic, check, filed, open, leaked>>
    BY <1>1 DEF continuityVars, canon
  <2> QED BY <1>0, <2>1, NothingGrows, PassStands
<1>2. CASE ContinuityNext
  <2>0. Remembered /\ leaked \subseteq leaked'
    BY <1>2 DEF ContinuityNext, Remembered
  <2>1. CASE Others
    BY <1>0, <2>0, <2>1, OthersGrow, PassStands DEF Others
  <2>2. CASE Decide
    BY <1>0, <2>0, <2>2, NothingGrows, PassStands DEF Decide
  <2>3. CASE CheckerStarts
    BY <1>0, <2>0, <2>3, NothingGrows, StartsStand DEF CheckerStarts, Held
  <2>4. CASE CheckerReadsChapters
    BY <1>0, <2>0, <2>4, NothingGrows, ChaptersStand DEF CheckerReadsChapters, Held
  <2>5. CASE CheckerReadsReferences
    BY <1>0, <2>0, <2>5, NothingGrows, ReferencesStand DEF CheckerReadsReferences, Held
  <2>6. CASE CheckerReadsMatrixAndEdges
    BY <1>0, <2>0, <2>6, NothingGrows, MatrixStands DEF CheckerReadsMatrixAndEdges, Held
  <2>7. CASE CheckerAnswered
    BY <1>0, <2>0, <2>7, NothingGrows, AnswerStands DEF CheckerAnswered, CheckerIsAnswered, Held
  <2>8. CASE CheckerMines
    BY <1>0, <2>0, <2>8, MiningGrows, PassStands DEF CheckerMines
  <2>9. CASE CheckerFiles
    BY <1>0, <2>0, <2>9, NothingGrows, FilesStand DEF CheckerFiles, Held
  <2>10. CASE CheckerStamps
    BY <1>0, <2>0, <2>10, StampsGrow, StampsStand
  <2>11. CASE CheckerEnds
    BY <1>0, <2>0, <2>11, NothingGrows, PassStands DEF CheckerEnds, Held
  <2>12. CASE CheckerFails
    BY <1>0, <2>0, <2>12, NothingGrows, PassStands DEF CheckerFails, Held
  <2>13. CASE Restart
    BY <1>0, <2>0, <2>13, NothingGrows, PassStands DEF Restart, Held
  <2> QED BY <1>2, <2>1, <2>2, <2>3, <2>4, <2>5, <2>6, <2>7, <2>8, <2>9, <2>10, <2>11, <2>12, <2>13
      DEF ContinuityNext, CheckerReads, CheckerCommits
<1> QED BY <1>1, <1>2

LEMMA ContinuityInvariant == ContinuitySpec => []ContInv
<1>1. ContinuityInit => ContInv
  BY BeginsWell
<1>2. ContInv /\ [ContinuityNext]_continuityVars => ContInv'
  BY ContinuityInductive
<1> QED BY <1>1, <1>2, PTL DEF ContinuitySpec

(* The types of canon and of the Checker, whatever is written while it works *)
THEOREM ContinuityTypeCorrect == ContinuitySpec => []ContinuityTypeOK
<1>1. ContInv => ContinuityTypeOK
  <2> SUFFICES ASSUME ContInv PROVE ContinuityTypeOK
    OBVIOUS
  <2>1. ToSet(refs) \subseteq Uses /\ ToSet(edges) \subseteq ToSet(Ids) \X ToSet(Ids)
    BY ElementsIn DEF ContInv, CanonOK
  <2>2. \A i \in DOMAIN chapters : chapters[i].cast \subseteq Cast
    <3>1. DOMAIN chapters = 1 .. Len(chapters) /\ Len(chapters) \in Nat
      BY OrderIs DEF ContInv
    <3>2. \A i \in 1 .. Len(chapters) : chapters[i] \in [id : ToSet(Ids), cast : SUBSET Cast]
      BY ElementOfSeq DEF ContInv, CanonOK
    <3> QED BY <3>1, <3>2
  <2> QED BY <2>1, <2>2 DEF ContInv, CanonOK, FilesOK, ContinuityTypeOK, Uses
<1> QED BY <1>1, ContinuityInvariant, PTL

(* A pass that ends has filed every leak there was when it began and is still,
   though other agents write between any two of its reads. *)
THEOREM PassFilesItsLeaks == ContinuitySpec => LeaksAreFiled
<1>1. ContInv /\ [ContinuityNext]_continuityVars =>
        [CheckerEnds => \A r \in check.before.leaks \cap Leaks : LeakDescription(r) \in filed]_continuityVars
  <2> SUFFICES ASSUME ContInv, CheckerEnds, NEW r \in check.before.leaks \cap Leaks
               PROVE  LeakDescription(r) \in filed
    OBVIOUS
  <2>1. check # None /\ check.pc = "commit" /\ check.todo = {}
    BY DEF CheckerEnds, Done
  <2>2. /\ r \in ToSet(check.refs) /\ r \in ToSet(refs)
        /\ check.matrix.revealed \subseteq revealed /\ check.matrix.knows \subseteq Matrix.knows
    BY <2>1 DEF ContInv, PassOK
  <2>3. r.secret \notin revealed /\ learned[r.secret, r.who] = None
    BY DEF Leaks
  <2>4. <<r.secret, r.who>> \notin check.matrix.knows
    BY <2>2, <2>3 DEF Matrix
  <2>5. r \in FindLeaks(check.refs, check.matrix)
    BY <2>2, <2>3, <2>4 DEF FindLeaks, KnowledgeCellState
  <2> QED BY <2>1, <2>5 DEF ContInv, FilesOK
<1> QED BY <1>1, ContinuityInvariant, PTL DEF ContinuitySpec, LeaksAreFiled

(* It has filed every edge that ran backwards when it began. *)
THEOREM PassFilesItsDisorder == ContinuitySpec => DisorderIsFiled
<1>1. ContInv /\ [ContinuityNext]_continuityVars =>
        [CheckerEnds =>
           \A e \in check.before.backwards : ParadoxDescription(<<e, "ordering">>) \in filed]_continuityVars
  BY DEF ContInv, FilesOK, CheckerEnds, Done
<1> QED BY <1>1, ContinuityInvariant, PTL DEF ContinuitySpec, DisorderIsFiled

-----------------------------------------------------------------------------
(* The ledgers *)

LEMMA LeastOf ==
  ASSUME NEW T, T \subseteq Nat, T # {}
  PROVE  Min(T) \in T /\ \A y \in T : Min(T) <= y
<1> DEFINE R == {ss \in Nat \X Nat : ss[1] < ss[2]}
<1>1. IsWellFoundedOn(R, Nat)
  BY NatLessThanWellFounded DEF OpToRel
<1>2. PICK x \in T : \A y \in T : <<y, x>> \notin R
  BY <1>1, WFMin
<1>3. \A y \in T : ~(y < x)
  BY <1>2
<1>4. \A y \in T : x <= y
  BY <1>3
<1> QED BY <1>4 DEF Min

(* The chapters up to one of them *)
LEMMA FirstChapters ==
  ASSUME CanonOK, NEW i \in 1 .. Len(chapters)
  PROVE  \A c : c \in ToSet(SubSeq(Order, 1, i)) <=> \E j \in 1 .. i : c = Ids[j]
<1>1. /\ Order \in Seq(ToSet(Ids)) /\ Len(Order) = Len(chapters) /\ Len(chapters) \in Nat
      /\ \A j \in 1 .. Len(chapters) : Order[j] = Ids[j]
  BY OrderIs DEF Laid
<1>2. /\ Len(SubSeq(Order, 1, i)) = i /\ DOMAIN SubSeq(Order, 1, i) = 1 .. i
      /\ \A j \in 1 .. i : SubSeq(Order, 1, i)[j] = Ids[j]
  <2>1. \A j \in 1 .. i : Order[j] \in ToSet(Ids) /\ Order[j] = Ids[j]
    BY <1>1, ElementOfSeq
  <2>2. PICK o : o = Order
    OBVIOUS
  <2>3. /\ SubSeq(o, 1, i) \in Seq(ToSet(Ids)) /\ Len(SubSeq(o, 1, i)) = i
        /\ \A j \in 1 .. i : SubSeq(o, 1, i)[j] = o[j]
    BY <1>1, <2>1, <2>2, SubSeqProperties
  <2> QED BY <2>1, <2>2, <2>3, LenProperties
<1> QED BY <1>2 DEF ToSet

(* The reader meets a secret in a chapter or later just when its onset is there or
   before. *)
LEMMA OnsetIs ==
  ASSUME CanonOK, NEW s \in Secrets
  PROVE  LET from == ReaderOnset(s, refs, Order) IN
         /\ from = None \/ from \in 1 .. Len(chapters)
         /\ \A i \in 1 .. Len(chapters) : Met(s, i) <=> from # None /\ from <= i
<1> DEFINE from == ReaderOnset(s, refs, Order)
           T == {Ordinal(r.chapter, Order) :
                   r \in {q \in ToSet(refs) : q.secret = s /\ q.chapter \in ToSet(Order)}}
<1>1. /\ Laid(Order) /\ Len(Order) = Len(chapters) /\ Len(chapters) \in Nat
  BY OrderIs
<1>2. /\ \A c : c \in ToSet(Order) <=> \E j \in 1 .. Len(chapters) : c = Ids[j]
      /\ \A j \in 1 .. Len(chapters) : Ordinal(Ids[j], Order) = j
  BY <1>1, OrdinalIs
<1>3. from = IF T = {} THEN None ELSE Min(T)
  BY DEF ReaderOnset
<1>4. T \subseteq 1 .. Len(chapters)
  BY <1>2
<1>5. \A j \in 1 .. Len(chapters) :
        j \in T <=> \E r \in ToSet(refs) : r.secret = s /\ r.chapter = Ids[j]
  BY <1>2
<1>6. None \notin 1 .. Len(chapters)
  BY NoneAssumption
<1>7. \A i \in 1 .. Len(chapters) : Met(s, i) <=> \E j \in 1 .. i : j \in T
  <2> SUFFICES ASSUME NEW i \in 1 .. Len(chapters)
               PROVE  Met(s, i) <=> \E j \in 1 .. i : j \in T
    OBVIOUS
  <2>1. \A c : c \in ToSet(SubSeq(Order, 1, i)) <=> \E j \in 1 .. i : c = Ids[j]
    BY FirstChapters
  <2>2. \A j \in 1 .. i : j \in 1 .. Len(chapters)
    BY <1>1
  <2> QED BY <1>5, <2>1, <2>2 DEF Met
<1> HIDE DEF T, from
<1>8. CASE T = {}
  BY <1>3, <1>7, <1>8 DEF from
<1>9. CASE T # {}
  <2>1. Min(T) \in T /\ \A y \in T : Min(T) <= y
    <3>1. PICK U : U = T
      OBVIOUS
    <3>2. U \subseteq Nat /\ U # {}
      BY <1>1, <1>4, <1>9, <3>1
    <3>3. Min(U) \in U /\ \A y \in U : Min(U) <= y
      BY <3>2, LeastOf
    <3> QED BY <3>1, <3>3
  <2>2. from = Min(T) /\ from \in 1 .. Len(chapters) /\ from # None
    BY <1>3, <1>4, <1>6, <1>9, <2>1
  <2>3. ASSUME NEW i \in 1 .. Len(chapters)
        PROVE  (\E j \in 1 .. i : j \in T) <=> from <= i
    <3>1. ASSUME NEW j \in 1 .. i, j \in T PROVE from <= i
      BY <1>1, <1>4, <2>1, <2>2, <3>1
    <3>2. ASSUME from <= i PROVE from \in 1 .. i /\ from \in T
      BY <1>1, <2>1, <2>2, <3>2
    <3> QED BY <3>1, <3>2
  <2> QED BY <1>7, <2>2, <2>3 DEF from
<1> QED BY <1>8, <1>9

(* One character's window *)
GapOf(s, who, from) ==
  GapFor(s, who, from, Ordinal(learned[s, who], Order), Matrix, OnPage(who, chapters), Len(chapters))

LEMMA GapIs ==
  ASSUME CanonOK, NEW s \in Secrets, NEW who \in Cast, NEW from \in 1 .. Len(chapters)
  PROVE  /\ GapOf(s, who, from).who = who
         /\ GapOf(s, who, from).live \subseteq 1 .. Len(chapters)
         /\ \A i \in 1 .. Len(chapters) :
              i \in GapOf(s, who, from).live <=>
                who \in chapters[i].cast /\ from <= i /\ ~ Knew(s, who, i)
         /\ GapOf(s, who, from).by = "learned" => learned[s, who] \in ToSet(Order)
         /\ GapOf(s, who, from).by = "open" => s \notin revealed /\ learned[s, who] \notin ToSet(Order)
         /\ GapOf(s, who, from).by = "reveal" => s \in revealed
<1>0. PICK c : c = learned[s, who]
  OBVIOUS
<1> DEFINE at == Ordinal(c, Order)
           n == Len(chapters)
           g == GapOf(s, who, from)
           closed == IF at # None THEN at ELSE n + 1
<1>1. /\ Laid(Order) /\ Len(Order) = n /\ n \in Nat /\ DOMAIN chapters = 1 .. n
  BY OrderIs
<1>2. /\ \A d : d \in ToSet(Order) <=> \E j \in 1 .. n : d = Ids[j]
      /\ \A j \in 1 .. n : Ordinal(Ids[j], Order) = j
      /\ \A d : d \notin ToSet(Order) => Ordinal(d, Order) = None
  BY <1>1, OrdinalIs
<1>3. None \notin 1 .. n
  BY NoneAssumption
<1>4. at # None <=> c \in ToSet(Order)
  BY <1>2, <1>3
<1>5. \A i \in 1 .. n : Knew(s, who, i) <=> at # None /\ at <= i
  <2> SUFFICES ASSUME NEW i \in 1 .. n PROVE Knew(s, who, i) <=> at # None /\ at <= i
    OBVIOUS
  <2>1. Knew(s, who, i) <=> \E j \in 1 .. i : c = Ids[j]
    BY <1>0, FirstChapters DEF Knew
  <2>2. ASSUME NEW j \in 1 .. i, c = Ids[j] PROVE at # None /\ at <= i
    <3>1. j \in 1 .. n /\ j <= i
      BY <1>1
    <3>2. Ordinal(Ids[j], Order) = j
      BY <1>2, <3>1
    <3>3. at = j
      BY <1>0, <2>2, <3>2
    <3> QED BY <1>3, <3>1, <3>3
  <2>3. ASSUME at # None, at <= i PROVE \E j \in 1 .. i : c = Ids[j]
    <3>1. PICK j \in 1 .. n : c = Ids[j]
      BY <1>2, <1>4, <2>3
    <3>2. j = at
      BY <1>2, <3>1
    <3> QED BY <1>1, <2>3, <3>1, <3>2
  <2> QED BY <2>1, <2>2, <2>3
<1>6. at \in 1 .. n \/ at = None
  BY <1>2, <1>4
<1> HIDE DEF at
<1>7. /\ g.who = who
      /\ g.live = {o \in OnPage(who, chapters) : from <= o /\ o < closed}
      /\ g.by = IF at # None THEN "learned"
                ELSE IF KnowledgeCellState(Matrix, s, who) = "revealed" THEN "reveal" ELSE "open"
  BY <1>0 DEF GapOf, GapFor, at
<1>8. OnPage(who, chapters) = {i \in 1 .. n : who \in chapters[i].cast}
  BY <1>1 DEF OnPage
<1>9. \A i \in 1 .. n : i < closed <=> ~ Knew(s, who, i)
  BY <1>1, <1>5, <1>6
<1>10. KnowledgeCellState(Matrix, s, who) = "revealed" <=> s \in revealed
  BY DEF KnowledgeCellState, Matrix
<1> QED BY <1>0, <1>4, <1>7, <1>8, <1>9, <1>10

(* The row of a secret *)
LEMMA RowIs ==
  ASSUME CanonOK, NEW s \in Secrets
  PROVE  LET from == ReaderOnset(s, refs, Order) IN
         /\ from = None => IronyLedger[s].gaps = {}
         /\ from # None => \A g : g \in IronyLedger[s].gaps <=>
              \E i \in 1 .. Len(chapters) : \E who \in chapters[i].cast :
                g = GapOf(s, who, from) /\ g.live # {}
         /\ (IronyLedger[s].gaps = {}) <=> (IronyLedger[s].note # None)
<1> DEFINE from == ReaderOnset(s, refs, Order)
           gaps == IF from = None THEN {} ELSE GapsFrom(s, from, learned, chapters, Matrix)
<1>1. IronyLedger[s].gaps = gaps
  BY DEF IronyLedger, BuildIronyLedger, Order
<1>2. IronyLedger[s].note =
        CASE from # None -> IF gaps = {} THEN "no gap" ELSE None
          [] from = None /\ \E r \in ToSet(refs) : r.secret = s -> "unanchored"
          [] OTHER -> IF s \in Matrix.revealed THEN "revealed off page" ELSE "not on page"
  BY DEF IronyLedger, BuildIronyLedger, Order
<1>3. from # None => \A g : g \in gaps <=>
        \E i \in 1 .. Len(chapters) : \E who \in chapters[i].cast :
          g = GapOf(s, who, from) /\ g.live # {}
  <2>1. DOMAIN chapters = 1 .. Len(chapters)
    BY OrderIs
  <2> QED BY <2>1 DEF GapsFrom, GapOf, Order
<1> HIDE DEF from
<1>4. (gaps = {}) <=> (IronyLedger[s].note # None)
  <2>1. CASE from # None
    <3>1. IronyLedger[s].note = IF gaps = {} THEN "no gap" ELSE None
      BY <1>2, <2>1
    <3>2. "no gap" # None
      BY NoneAssumption DEF Reasons
    <3> QED BY <3>1, <3>2
  <2>2. CASE from = None
    <3>1. IronyLedger[s].note \in {"unanchored", "revealed off page", "not on page"}
      BY <1>2, <2>2
    <3>2. None \notin {"unanchored", "revealed off page", "not on page"}
      BY NoneAssumption DEF Reasons
    <3> QED BY <2>2, <3>1, <3>2
  <2> QED BY <2>1, <2>2
<1> QED BY <1>1, <1>3, <1>4 DEF from

(* The irony ledger names just the scenes in which the irony can be played. *)
LEMMA IronyHolds ==
  ASSUME CanonOK
  PROVE  IronyIsPlayable
<1> SUFFICES ASSUME NEW s \in Secrets
             PROVE  /\ UNION {{g.who} \X g.live : g \in IronyLedger[s].gaps}
                       = {p \in Cast \X DOMAIN chapters :
                            p[1] \in chapters[p[2]].cast /\ Met(s, p[2]) /\ ~Knew(s, p[1], p[2])}
                    /\ (IronyLedger[s].gaps = {}) = (IronyLedger[s].note # None)
  BY DEF IronyIsPlayable
<1> DEFINE from == ReaderOnset(s, refs, Order)
           n == Len(chapters)
           gaps == IronyLedger[s].gaps
           Scene(p) == \E g \in gaps : p \in {g.who} \X g.live
           Playable(p) == /\ p \in Cast \X (1 .. n)
                          /\ p[1] \in chapters[p[2]].cast /\ Met(s, p[2]) /\ ~Knew(s, p[1], p[2])
<1>1. /\ n \in Nat /\ DOMAIN chapters = 1 .. n
      /\ \A i \in 1 .. n : chapters[i].cast \subseteq Cast
  <2>1. \A i \in 1 .. n : chapters[i] \in [id : ToSet(Ids), cast : SUBSET Cast]
    BY OrderIs, ElementOfSeq DEF CanonOK
  <2> QED BY <2>1, OrderIs
<1>2. /\ from = None \/ from \in 1 .. n
      /\ \A i \in 1 .. n : Met(s, i) <=> from # None /\ from <= i
  BY OnsetIs
<1>3. /\ from = None => gaps = {}
      /\ from # None => \A g : g \in gaps <=>
           \E i \in 1 .. n : \E who \in chapters[i].cast : g = GapOf(s, who, from) /\ g.live # {}
      /\ (gaps = {}) <=> (IronyLedger[s].note # None)
  BY RowIs
<1>4. from \in 1 .. n => \A who \in Cast :
        /\ GapOf(s, who, from).who = who /\ GapOf(s, who, from).live \subseteq 1 .. n
        /\ \A i \in 1 .. n : i \in GapOf(s, who, from).live <=>
             who \in chapters[i].cast /\ from <= i /\ ~ Knew(s, who, i)
  BY GapIs
<1> HIDE DEF from, gaps
<1>5. ASSUME NEW p, Scene(p) PROVE Playable(p)
  <2>1. PICK g \in gaps : p \in {g.who} \X g.live
    BY <1>5
  <2>2. from # None /\ from \in 1 .. n
    BY <1>2, <1>3, <2>1
  <2>3. PICK i \in 1 .. n : \E who \in chapters[i].cast : g = GapOf(s, who, from)
    BY <1>3, <2>1, <2>2
  <2>6. PICK who \in chapters[i].cast : g = GapOf(s, who, from)
    BY <2>3
  <2>4. who \in Cast
    BY <1>1, <2>6
  <2>5. p = <<who, p[2]>> /\ p[2] \in GapOf(s, who, from).live /\ p[2] \in 1 .. n
    BY <1>4, <2>1, <2>2, <2>6, <2>4
  <2> QED BY <1>2, <1>4, <2>2, <2>4, <2>5
<1>6. ASSUME NEW p, Playable(p) PROVE Scene(p)
  <2>1. PICK who \in Cast, i \in 1 .. n : p = <<who, i>>
    BY <1>6
  <2>2. who \in chapters[i].cast /\ Met(s, i) /\ ~Knew(s, who, i)
    BY <1>6, <2>1
  <2>3. from # None /\ from \in 1 .. n /\ from <= i
    BY <1>2, <2>1, <2>2
  <2>4. i \in GapOf(s, who, from).live /\ GapOf(s, who, from).who = who
    BY <1>4, <2>2, <2>3
  <2>5. GapOf(s, who, from) \in gaps
    BY <1>3, <2>2, <2>3, <2>4
  <2> QED BY <2>1, <2>4, <2>5
<1>7. UNION {{g.who} \X g.live : g \in gaps}
      = {p \in Cast \X (1 .. n) :
           p[1] \in chapters[p[2]].cast /\ Met(s, p[2]) /\ ~Knew(s, p[1], p[2])}
  <2>1. \A p : p \in UNION {{g.who} \X g.live : g \in gaps} <=> Scene(p)
    OBVIOUS
  <2>2. \A p : Scene(p) <=> Playable(p)
    BY <1>5, <1>6
  <2> QED BY <2>1, <2>2
<1> QED BY <1>1, <1>3, <1>7 DEF gaps

(* Tab and ledger tell the same story. *)
LEMMA TabAgrees ==
  ASSUME CanonOK
  PROVE  TabAndLedgerAgree
<1> DEFINE tab == SecretsTab(Secrets, Matrix, Cast)
<1> SUFFICES ASSUME NEW s \in Secrets, NEW g \in IronyLedger[s].gaps
             PROVE  /\ s \in DOMAIN tab /\ g.by = "learned" => g.who \in tab[s]
                    /\ g.by = "open" => s \in DOMAIN tab /\ (g.who \in tab[s] => learned[s, g.who] \notin ToSet(Order))
                    /\ g.by = "reveal" => s \notin DOMAIN tab
  BY DEF TabAndLedgerAgree
<1> DEFINE from == ReaderOnset(s, refs, Order)
<1>1. from # None /\ from \in 1 .. Len(chapters)
  BY RowIs, OnsetIs
<1>2. PICK i \in 1 .. Len(chapters) : \E who \in chapters[i].cast : g = GapOf(s, who, from)
  BY <1>1, RowIs
<1>9. PICK who \in chapters[i].cast : g = GapOf(s, who, from)
  BY <1>2
<1>3. who \in Cast
  <2>1. chapters[i] \in [id : ToSet(Ids), cast : SUBSET Cast]
    BY OrderIs, ElementOfSeq DEF CanonOK
  <2> QED BY <1>9, <2>1
<1>4. PICK c : c = learned[s, who]
  OBVIOUS
<1>5. /\ g.who = who
      /\ g.by = "learned" => c \in ToSet(Order)
      /\ g.by = "open" => s \notin revealed /\ c \notin ToSet(Order)
      /\ g.by = "reveal" => s \in revealed
  <2>1. PICK o \in 1 .. Len(chapters) : o = from
    BY <1>1
  <2>2. g = GapOf(s, who, o)
    BY <1>9, <2>1
  <2> HIDE DEF from, tab
  <2> QED BY <1>3, <1>4, <2>2, GapIs
<1>6. DOMAIN tab = Secrets \ revealed
  BY DEF SecretsTab, Matrix
<1>7. c \in ToSet(Order) => c # None
  BY OrderIs, ContinuityAssumption DEF Nodes
<1>8. s \notin revealed /\ c # None => who \in tab[s]
  BY <1>3, <1>4 DEF SecretsTab, Matrix, KnowledgeCellState
<1> QED BY <1>4, <1>5, <1>6, <1>7, <1>8

(* Neither ledger says anything of the book that is not so, for any cast, secrets
   and order of events; what was filed as a leak was one. *)
THEOREM LedgersHold == ContinuitySpec => []LedgersAreRight
<1>1. ContInv => LedgersAreRight
  BY IronyHolds, TabAgrees DEF ContInv, FilesOK, LedgersAreRight
<1> QED BY <1>1, ContinuityInvariant, PTL

-----------------------------------------------------------------------------
(* Pacing *)

-----------------------------------------------------------------------------
(* Shares of a book, and the windows of beats *)

(* A share of n chapters is a number of chapters, and not more than n. *)
LEMMA RoundIs ==
  ASSUME NEW pct \in 0 .. 100, NEW n \in Nat
  PROVE  Round(pct, n) \in 0 .. n
<1>1. PICK x \in Nat : x = pct * n
  OBVIOUS
<1>2. x <= 100 * n
  <2>1. (100 - pct) * n >= 0
    OBVIOUS
  <2>2. (100 - pct) * n = 100 * n - pct * n
    OBVIOUS
  <2> QED BY <1>1, <2>1, <2>2
<1>3. PICK whole \in Nat, part \in 0 .. 99 : whole = x \div 100 /\ part = x % 100 /\ x = 100 * whole + part
  OBVIOUS
<1>4. Round(pct, n) = IF part > 50 \/ (part = 50 /\ whole % 2 = 1) THEN whole + 1 ELSE whole
  BY <1>1, <1>3 DEF Round
<1> QED BY <1>2, <1>3, <1>4

(* The window of a beat is one in the book. *)
LEMMA BeatWindowIs ==
  ASSUME NEW b, b.pct \in 0 .. 100, b.tol \in 0 .. 100, NEW n \in Nat \ {0}
  PROVE  /\ BeatWindow(b, n)[1] \in 1 .. n /\ BeatWindow(b, n)[2] \in 1 .. n
         /\ BeatWindow(b, n)[1] <= BeatWindow(b, n)[2]
<1>1. PICK center \in 0 .. n : center = Round(b.pct, n)
  BY RoundIs
<1>2. PICK some \in 0 .. n : some = Round(b.tol, n)
  BY RoundIs
<1>3. PICK tol \in Nat : tol = Most(1, some) /\ 1 <= tol
  BY DEF Most
<1>4. BeatWindow(b, n) = <<Most(1, center - tol), Least(n, Most(1, center + tol))>>
  BY <1>1, <1>2, <1>3 DEF BeatWindow
<1>5. PICK x \in Int, y \in Int : x = Most(1, center - tol) /\ y = Least(n, Most(1, center + tol))
  BY DEF Most, Least
<1>6. x \in 1 .. n
  BY <1>3, <1>5 DEF Most
<1>7. y \in 1 .. n
  BY <1>3, <1>5 DEF Most, Least
<1>8. x <= y
  <2>1. x = 1 \/ x = center - tol
    BY <1>5 DEF Most
  <2>2. y = n \/ y = Most(1, center + tol)
    BY <1>5 DEF Least
  <2>3. center - tol <= Most(1, center + tol)
    BY <1>3 DEF Most
  <2> QED BY <1>6, <1>7, <2>1, <2>2, <2>3
<1> QED BY <1>4, <1>5, <1>6, <1>7, <1>8

(* The beats of a template *)
BeatLists == {BEAT_TEMPLATES[t] : t \in Templates}

LEMMA BeatsAre ==
  ASSUME NEW bs \in BeatLists
  PROVE  /\ DOMAIN bs = 1 .. Len(bs) /\ Len(bs) \in {4, 6}
         /\ \A i \in DOMAIN bs : /\ bs[i].pct \in 0 .. 100 /\ bs[i].tol \in 0 .. 100
                                 /\ bs[i].polarity \in {None, "up", "down", "flip"}
         /\ \E i \in DOMAIN bs : \A j \in DOMAIN bs : bs[j].pct <= bs[i].pct
<1>1. CASE bs = <<Beat(10, 5, None), Beat(25, 5, None), Beat(50, 5, "flip"),
                 Beat(75, 5, "down"), Beat(80, 5, "up"), Beat(90, 5, "up")>>
  <2>1. Len(bs) = 6 /\ DOMAIN bs = 1 .. 6
    BY <1>1
  <2>2. \A i \in DOMAIN bs : i = 1 \/ i = 2 \/ i = 3 \/ i = 4 \/ i = 5 \/ i = 6
    BY <2>1
  <2>3. bs[1] = Beat(10, 5, None) /\ bs[2] = Beat(25, 5, None) /\ bs[3] = Beat(50, 5, "flip")
        /\ bs[4] = Beat(75, 5, "down") /\ bs[5] = Beat(80, 5, "up") /\ bs[6] = Beat(90, 5, "up")
    BY <1>1
  <2>4. \A i \in DOMAIN bs : /\ bs[i].pct \in 0 .. 100 /\ bs[i].tol \in 0 .. 100
                             /\ bs[i].polarity \in {None, "up", "down", "flip"} /\ bs[i].pct <= bs[6].pct
    BY <2>2, <2>3 DEF Beat
  <2> QED BY <2>1, <2>4
<1>2. CASE bs = <<Beat(5, 8, None), Beat(40, 8, None), Beat(75, 8, "flip"), Beat(95, 8, None)>>
  <2>1. Len(bs) = 4 /\ DOMAIN bs = 1 .. 4
    BY <1>2
  <2>2. \A i \in DOMAIN bs : i = 1 \/ i = 2 \/ i = 3 \/ i = 4
    BY <2>1
  <2>3. bs[1] = Beat(5, 8, None) /\ bs[2] = Beat(40, 8, None) /\ bs[3] = Beat(75, 8, "flip")
        /\ bs[4] = Beat(95, 8, None)
    BY <1>2
  <2>4. \A i \in DOMAIN bs : /\ bs[i].pct \in 0 .. 100 /\ bs[i].tol \in 0 .. 100
                             /\ bs[i].polarity \in {None, "up", "down", "flip"} /\ bs[i].pct <= bs[4].pct
    BY <2>2, <2>3 DEF Beat
  <2> QED BY <2>1, <2>4
<1> QED BY <1>1, <1>2 DEF BeatLists, Templates, BEAT_TEMPLATES

(* A plan that is in force *)
PlanOK(p, here) ==
  /\ DOMAIN p = {"beats", "target", "landed"}
  /\ p.beats \in BeatLists /\ p.target \in Nat /\ 3 <= p.target
  /\ DOMAIN p.landed = DOMAIN p.beats /\ \A i \in DOMAIN p.beats : p.landed[i] \in here \cup {None}

(* When the planned end is reached the finale has begun. *)
LEMMA FinaleIsBefore ==
  ASSUME NEW p, NEW here, PlanOK(p, here)
  PROVE  FinaleFrom(p) \in 1 .. p.target
<1>1. PICK bs \in BeatLists : bs = p.beats
  BY DEF PlanOK
<1> DEFINE climax == CHOOSE i \in DOMAIN bs : \A j \in DOMAIN bs : bs[j].pct <= bs[i].pct
<1>2. climax \in DOMAIN bs
  BY BeatsAre
<1>3. PICK b : b = bs[climax] /\ b.pct \in 0 .. 100 /\ b.tol \in 0 .. 100
  BY <1>2, BeatsAre
<1>4. p.target \in Nat \ {0}
  BY DEF PlanOK
<1>5. PICK n \in Nat \ {0} : n = p.target
  BY <1>4
<1>6. BeatWindow(b, n)[1] \in 1 .. n
  BY <1>3, BeatWindowIs
<1>7. FinaleFrom(p) = BeatWindow(b, n)[1]
  BY <1>1, <1>3, <1>5 DEF FinaleFrom
<1> QED BY <1>5, <1>6, <1>7

-----------------------------------------------------------------------------
(* The invariant *)
Fields == {"active", "resolved", "type", "outcome", "pivots", "last"}

(* An arc was last advanced in a chapter that is there, or in none. *)
ArcOK(r, here) ==
  DOMAIN r = Fields /\ r.pivots \in SUBSET (0 .. 6) /\ r.last \in here \cup {None}

Active(as) == {a \in DOMAIN as : as[a].active}

LiveOnes(ts) == {t \in DOMAIN ts : Live(ts[t])}

BookOK ==
  /\ subject \in Subjects
  /\ order \in Seq(ToSet(Drafts)) /\ Len(order) <= Len(Drafts)
  /\ \A i \in 1 .. Len(order) : order[i] = Drafts[i]

ThreadsOK ==
  /\ DOMAIN threads = Threads
  /\ \A t \in Threads : /\ DOMAIN threads[t] = {"state", "last", "window"}
                        /\ threads[t].state \in {"none", "planted", "touched", "paid_off", "abandoned"}
                        /\ threads[t].window \in Windows \cup {Unset}
  /\ IsFiniteSet(LiveOnes(threads))

ArcsOK ==
  /\ DOMAIN arcs = Arcs /\ \A a \in Arcs : ArcOK(arcs[a], ToSet(order))
  /\ IsFiniteSet(Active(arcs))

PlanIsOK == plan # None => PlanOK(plan, ToSet(order))

ScoresOK ==
  /\ DOMAIN scores \subseteq ToSet(order) /\ \A c \in DOMAIN scores : scores[c] \in Tensions
  /\ analyst # None => analyst \subseteq ToSet(order)

PacingInv == BookOK /\ ThreadsOK /\ ArcsOK /\ PlanIsOK /\ ScoresOK

-----------------------------------------------------------------------------
(* The chapters drafted *)

LEMMA DraftsAre ==
  /\ Len(Drafts) \in Nat /\ DOMAIN Drafts = 1 .. Len(Drafts)
  /\ \A i \in 1 .. Len(Drafts) : Drafts[i] \in ToSet(Drafts)
  /\ \A i, j \in 1 .. Len(Drafts) : Drafts[i] = Drafts[j] => i = j
<1>1. Drafts \in Seq(ToSet(Drafts))
  BY PacingAssumption
<1>2. Len(Drafts) \in Nat /\ DOMAIN Drafts = 1 .. Len(Drafts)
  BY <1>1, LenProperties
<1>3. \A i \in 1 .. Len(Drafts) : Drafts[i] \in ToSet(Drafts)
  BY <1>2 DEF ToSet
<1>4. \A i, j \in 1 .. Len(Drafts) : Drafts[i] = Drafts[j] => i = j
  BY <1>2, PacingAssumption
<1> QED BY <1>2, <1>3, <1>4

LEMMA BookIs ==
  ASSUME BookOK
  PROVE  /\ Len(order) \in Nat /\ DOMAIN order = 1 .. Len(order)
         /\ ToSet(order) = {Drafts[i] : i \in 1 .. Len(order)}
         /\ \A i \in 1 .. Len(order) : Ordinal(Drafts[i], order) = i
         /\ \A c : c \notin ToSet(order) => Ordinal(c, order) = None
         /\ None \notin ToSet(order) /\ IsFiniteSet(ToSet(order))
         /\ Now = IF order = <<>> THEN None ELSE Drafts[Len(order)]
         /\ (order = <<>>) <=> (Len(order) = 0)
         /\ Now \in ToSet(order) \cup {None}
<1>1. Len(order) \in Nat /\ DOMAIN order = 1 .. Len(order)
  BY LenProperties DEF BookOK
<1>2. ToSet(order) = {Drafts[i] : i \in 1 .. Len(order)}
  BY <1>1 DEF ToSet, BookOK
<1>3. ASSUME NEW i \in 1 .. Len(order) PROVE Ordinal(Drafts[i], order) = i
  <2>1. order[i] = Drafts[i] /\ Drafts[i] \in ToSet(order)
    BY <1>2, <1>3 DEF BookOK
  <2>2. \A j \in DOMAIN order : order[j] = Drafts[i] => j = i
    BY <1>1, DraftsAre DEF BookOK
  <2> QED BY <1>1, <2>1, <2>2 DEF Ordinal
<1>4. ToSet(order) \subseteq ToSet(Drafts) /\ None \notin ToSet(Drafts)
  <2>1. \A i \in 1 .. Len(order) : i \in 1 .. Len(Drafts)
    BY <1>1, DraftsAre DEF BookOK
  <2> QED BY <2>1, <1>2, DraftsAre, PacingAssumption
<1>5. IsFiniteSet(ToSet(order))
  <2>1. PICK n \in Nat : n = Len(order)
    BY <1>1
  <2>2. PICK I : I = 1 .. n
    OBVIOUS
  <2>3. IsFiniteSet(I)
    BY <2>1, <2>2, FS_Interval
  <2>4. PICK S, f : S = ToSet(order) /\ f = [i \in I |-> Drafts[i]]
    OBVIOUS
  <2>5. f \in Surjection(I, S)
    BY <1>2, <2>1, <2>2, <2>4 DEF Surjection
  <2> QED BY <2>3, <2>4, <2>5, FS_Surjection
<1>6. (order = <<>>) <=> (Len(order) = 0)
  BY EmptySeq DEF BookOK
<1>7. Now = IF order = <<>> THEN None ELSE Drafts[Len(order)]
  <2>1. order # <<>> => Len(order) \in 1 .. Len(order)
    BY <1>1, <1>6
  <2> QED BY <2>1 DEF Now, Last, BookOK
<1>8. Now \in ToSet(order) \cup {None}
  <2>1. order # <<>> => Len(order) \in 1 .. Len(order)
    BY <1>1, <1>6
  <2> QED BY <1>2, <1>7, <2>1
<1> QED BY <1>1, <1>2, <1>3, <1>4, <1>5, <1>6, <1>7, <1>8 DEF Ordinal

LEMMA BookGrows ==
  ASSUME BookOK, DraftNext, subject' = subject
  PROVE  BookOK' /\ ToSet(order) \subseteq ToSet(order)'
<1>1. PICK n \in Nat : n = Len(order)
  BY BookIs
<1>2. n + 1 <= Len(Drafts) /\ n + 1 \in 1 .. Len(Drafts)
  BY <1>1, DraftsAre, PacingAssumption DEF DraftNext, BookOK
<1>3. PICK c \in ToSet(Drafts) : c = Drafts[n + 1]
  BY <1>2, DraftsAre
<1>4. /\ order' \in Seq(ToSet(Drafts)) /\ Len(order') = n + 1
      /\ \A i \in 1 .. n : order'[i] = order[i]
      /\ order'[n + 1] = c
  BY <1>1, <1>3, AppendProperties DEF DraftNext, BookOK
<1>5. BookOK'
  BY <1>1, <1>2, <1>3, <1>4 DEF BookOK
<1>6. ToSet(order) \subseteq ToSet(order)'
  <2>1. DOMAIN order = 1 .. n /\ DOMAIN order' = 1 .. n + 1
    BY <1>1, <1>4, LenProperties DEF BookOK
  <2> QED BY <1>1, <1>4, <2>1 DEF ToSet
<1> QED BY <1>5, <1>6

-----------------------------------------------------------------------------
(* The threads and the arcs *)

LEMMA ThreadsMove ==
  ASSUME ThreadsOK, BookOK, Plant \/ Touch \/ Finish \/ PlanResolution
  PROVE  ThreadsOK'
<1> DEFINE Kept(r) == /\ DOMAIN r = {"state", "last", "window"}
                      /\ r.state \in {"none", "planted", "touched", "paid_off", "abandoned"}
                      /\ r.window \in Windows \cup {Unset}
<1>0. \A s \in Subjects : s.threads \subseteq Threads
  BY PacingAssumption
<1>1. \E t \in Threads : \E r : Kept(r) /\ threads' = [threads EXCEPT ![t] = r]
  <2>1. CASE Plant
    <3>1. PICK t \in subject.threads, c \in {Now, None} :
            threads' = [threads EXCEPT ![t] = [state |-> "planted", last |-> c, window |-> Unset]]
      BY <2>1 DEF Plant
    <3>2. PICK r : r = [state |-> "planted", last |-> c, window |-> Unset]
      OBVIOUS
    <3>3. Kept(r)
      BY <3>2
    <3> QED BY <1>0, <3>1, <3>2, <3>3 DEF BookOK
  <2>2. CASE Touch
    <3>1. PICK t \in subject.threads :
            threads' = [threads EXCEPT ![t].state = "touched", ![t].last = Now]
      BY <2>2 DEF Touch
    <3>2. t \in Threads
      BY <1>0, <3>1 DEF BookOK
    <3>3. PICK q : q = [threads[t] EXCEPT !.state = "touched"]
      OBVIOUS
    <3>4. PICK r : r = [q EXCEPT !.last = Now]
      OBVIOUS
    <3>5. Kept(r)
      BY <3>2, <3>3, <3>4 DEF ThreadsOK
    <3>6. threads' = [threads EXCEPT ![t] = r]
      BY <3>1, <3>2, <3>3, <3>4 DEF ThreadsOK
    <3> QED BY <3>2, <3>5, <3>6
  <2>3. CASE Finish
    <3>1. PICK t \in subject.threads, s \in {"paid_off", "abandoned"} :
            threads' = [threads EXCEPT ![t].state = s]
      BY <2>3 DEF Finish
    <3>2. t \in Threads
      BY <1>0, <3>1 DEF BookOK
    <3>3. PICK r : r = [threads[t] EXCEPT !.state = s]
      OBVIOUS
    <3>4. Kept(r)
      BY <3>1, <3>2, <3>3 DEF ThreadsOK
    <3> QED BY <3>1, <3>2, <3>3, <3>4
  <2>4. CASE PlanResolution
    <3>1. PICK t \in subject.threads, w \in Windows \cup {Unset} :
            threads' = [threads EXCEPT ![t].window = w]
      BY <2>4 DEF PlanResolution
    <3>2. t \in Threads
      BY <1>0, <3>1 DEF BookOK
    <3>3. PICK r : r = [threads[t] EXCEPT !.window = w]
      OBVIOUS
    <3>4. Kept(r)
      BY <3>1, <3>2, <3>3 DEF ThreadsOK
    <3> QED BY <3>1, <3>2, <3>3, <3>4
  <2> QED BY <2>1, <2>2, <2>3, <2>4
<1>2. PICK t \in Threads : \E r : Kept(r) /\ threads' = [threads EXCEPT ![t] = r]
  BY <1>1
<1>3. PICK r : Kept(r) /\ threads' = [threads EXCEPT ![t] = r]
  BY <1>2
<1>4. /\ DOMAIN threads' = Threads /\ \A u \in Threads : threads'[u] = IF u = t THEN r ELSE threads[u]
  BY <1>3 DEF ThreadsOK
<1>5. IsFiniteSet(LiveOnes(threads)')
  <2>1. PICK L, M : L = LiveOnes(threads) /\ M = LiveOnes(threads)'
    OBVIOUS
  <2>2. M \subseteq L \cup {t}
    BY <1>4, <2>1 DEF LiveOnes, ThreadsOK
  <2>3. PICK N : N = L \cup {t}
    OBVIOUS
  <2>4. IsFiniteSet(N)
    BY <2>1, <2>3, FS_AddElement DEF ThreadsOK
  <2> QED BY <2>1, <2>2, <2>3, <2>4, FS_Subset
<1>6. \A u \in Threads : Kept(threads'[u])
  BY <1>3, <1>4 DEF ThreadsOK
<1> QED BY <1>4, <1>5, <1>6 DEF ThreadsOK

(* One arc changes, into one that is in order. *)
LEMMA OneArcMoves ==
  ASSUME NEW here, NEW as, NEW a \in DOMAIN as, NEW r, ArcOK(r, here),
         \A b \in DOMAIN as : ArcOK(as[b], here), IsFiniteSet(Active(as))
  PROVE  /\ DOMAIN [as EXCEPT ![a] = r] = DOMAIN as
         /\ \A b \in DOMAIN as : ArcOK([as EXCEPT ![a] = r][b], here)
         /\ IsFiniteSet(Active([as EXCEPT ![a] = r]))
<1>1. PICK n : n = [as EXCEPT ![a] = r]
  OBVIOUS
<1>2. DOMAIN n = DOMAIN as /\ \A b \in DOMAIN as : n[b] = IF b = a THEN r ELSE as[b]
  BY <1>1
<1>3. \A b \in DOMAIN as : ArcOK(n[b], here)
  BY <1>2
<1>4. IsFiniteSet(Active(n))
  <2>1. Active(n) \subseteq Active(as) \cup {a}
    BY <1>2 DEF Active
  <2>2. PICK S : S = Active(as) \cup {a}
    OBVIOUS
  <2>3. IsFiniteSet(S)
    BY <2>2, FS_AddElement
  <2>4. PICK T \in SUBSET S : T = Active(n)
    BY <2>1, <2>2
  <2>5. IsFiniteSet(T)
    BY <2>3, FS_Subset
  <2> QED BY <2>4, <2>5
<1> QED BY <1>1, <1>2, <1>3, <1>4

LEMMA ArcsMove ==
  ASSUME ArcsOK, BookOK, PlanIsOK, DeclareArc \/ PlanPivot \/ AdvanceArc \/ ResolveArc
  PROVE  ArcsOK' /\ ToSet(order)' = ToSet(order)
<1>0. PICK here : here = ToSet(order) /\ Now \in here \cup {None}
  BY BookIs
<1>a. \E a \in Arcs : \E r : ArcOK(r, here) /\ arcs' = [arcs EXCEPT ![a] = r]
  <2>0. \A s \in Subjects : s.arcs \subseteq Arcs
    BY PacingAssumption
  <2>1. CASE DeclareArc
    <3>1. PICK a \in subject.arcs, type \in ArcTypes :
            arcs' = [arcs EXCEPT ![a].active = TRUE, ![a].type = type]
      BY <2>1 DEF DeclareArc
    <3>2. a \in Arcs
      BY <2>0, <3>1 DEF BookOK
    <3>3. PICK q : q = [arcs[a] EXCEPT !.active = TRUE]
      OBVIOUS
    <3>4. PICK r : r = [q EXCEPT !.type = type]
      OBVIOUS
    <3>5. ArcOK(r, here)
      BY <1>0, <3>2, <3>3, <3>4 DEF ArcsOK, ArcOK, Fields
    <3>6. arcs' = [arcs EXCEPT ![a] = r]
      BY <3>1, <3>2, <3>3, <3>4 DEF ArcsOK, ArcOK, Fields
    <3> QED BY <3>2, <3>5, <3>6
  <2>2. CASE PlanPivot
    <3>1. PICK a \in subject.arcs, i \in IF plan = None THEN {} ELSE DOMAIN plan.beats :
            arcs' = [arcs EXCEPT ![a].pivots = {i}]
      BY <2>2 DEF PlanPivot
    <3>2. a \in Arcs
      BY <2>0, <3>1 DEF BookOK
    <3>3. i \in 0 .. 6
      <4>1. plan # None /\ PlanOK(plan, ToSet(order)) /\ i \in DOMAIN plan.beats
        BY <3>1 DEF PlanIsOK
      <4>2. PICK bs \in BeatLists : bs = plan.beats
        BY <4>1 DEF PlanOK
      <4> QED BY <4>1, <4>2, BeatsAre
    <3>4. PICK r : r = [arcs[a] EXCEPT !.pivots = {i}]
      OBVIOUS
    <3>5. ArcOK(r, here)
      BY <1>0, <3>2, <3>3, <3>4 DEF ArcsOK, ArcOK, Fields
    <3> QED BY <3>1, <3>2, <3>4, <3>5
  <2>3. CASE AdvanceArc
    <3>1. PICK a \in subject.arcs : arcs' = [arcs EXCEPT ![a].last = Now]
      BY <2>3 DEF AdvanceArc
    <3>2. a \in Arcs
      BY <2>0, <3>1 DEF BookOK
    <3>4. PICK r : r = [arcs[a] EXCEPT !.last = Now]
      OBVIOUS
    <3>5. ArcOK(r, here)
      BY <1>0, <3>2, <3>4 DEF ArcsOK, ArcOK, Fields
    <3> QED BY <3>1, <3>2, <3>4, <3>5
  <2>4. CASE ResolveArc
    <3>1. PICK a \in subject.arcs, outcome \in {None, "truth_embraced", "lie_embraced"} :
            arcs' = [arcs EXCEPT ![a].resolved = TRUE, ![a].outcome = outcome]
      BY <2>4 DEF ResolveArc
    <3>2. a \in Arcs
      BY <2>0, <3>1 DEF BookOK
    <3>3. PICK q : q = [arcs[a] EXCEPT !.resolved = TRUE]
      OBVIOUS
    <3>4. PICK r : r = [q EXCEPT !.outcome = outcome]
      OBVIOUS
    <3>5. ArcOK(r, here)
      BY <1>0, <3>2, <3>3, <3>4 DEF ArcsOK, ArcOK, Fields
    <3>6. arcs' = [arcs EXCEPT ![a] = r]
      BY <3>1, <3>2, <3>3, <3>4 DEF ArcsOK, ArcOK, Fields
    <3> QED BY <3>2, <3>5, <3>6
  <2> QED BY <2>1, <2>2, <2>3, <2>4
<1>b. PICK a \in Arcs : \E r : ArcOK(r, here) /\ arcs' = [arcs EXCEPT ![a] = r]
  BY <1>a
<1>1. PICK r : ArcOK(r, here) /\ arcs' = [arcs EXCEPT ![a] = r]
  BY <1>b
<1>2. order' = order
  BY DEF DeclareArc, PlanPivot, AdvanceArc, ResolveArc
<1>3. PICK as : as = arcs /\ DOMAIN as = Arcs
  BY DEF ArcsOK
<1>4. /\ \A b \in DOMAIN as : ArcOK(as[b], here)
      /\ IsFiniteSet(Active(as)) /\ a \in DOMAIN as
  BY <1>0, <1>1, <1>3 DEF ArcsOK
<1>5. /\ DOMAIN [as EXCEPT ![a] = r] = DOMAIN as
      /\ \A b \in DOMAIN as : ArcOK([as EXCEPT ![a] = r][b], here)
      /\ IsFiniteSet(Active([as EXCEPT ![a] = r]))
  BY <1>1, <1>4, OneArcMoves
<1> HIDE DEF ArcOK, Active
<1>6. DOMAIN arcs' = Arcs /\ (\A b \in Arcs : ArcOK(arcs'[b], here)) /\ IsFiniteSet(Active(arcs'))
  BY <1>1, <1>3, <1>5
<1>7. ToSet(order)' = here
  BY <1>0, <1>2 DEF ToSet
<1> QED BY <1>0, <1>6, <1>7 DEF ArcsOK

(* A plan that is adopted leaves of the pivots that they were. *)
LEMMA AdoptKeeps ==
  ASSUME ArcsOK, Adopt
  PROVE  ArcsOK'
<1>1. arcs' = [a \in Arcs |-> [arcs[a] EXCEPT !.pivots = IF @ = {} THEN {} ELSE {Lost}]]
  BY DEF Adopt
<1>2. PICK here : here = ToSet(order)
  OBVIOUS
<1>3. ASSUME NEW a \in Arcs
      PROVE  ArcOK(arcs'[a], here) /\ arcs'[a].active = arcs[a].active
  <2>1. PICK ps : ps = IF arcs[a].pivots = {} THEN {} ELSE {Lost}
    OBVIOUS
  <2>2. PICK r : r = [arcs[a] EXCEPT !.pivots = ps]
    OBVIOUS
  <2>3. arcs'[a] = r
    BY <1>1, <2>1, <2>2
  <2>4. ps \in SUBSET (0 .. 6)
    BY <2>1 DEF Lost
  <2> QED BY <1>2, <2>2, <2>3, <2>4 DEF ArcsOK, ArcOK, Fields
<1>4. Active(arcs') = Active(arcs)
  <2>1. DOMAIN arcs' = Arcs /\ DOMAIN arcs = Arcs
    BY <1>1 DEF ArcsOK
  <2> QED BY <1>3, <2>1 DEF Active
<1>5. ToSet(order)' = here /\ DOMAIN arcs' = Arcs
  BY <1>1, <1>2 DEF ToSet, Adopt
<1> HIDE DEF ArcOK, Active
<1> QED BY <1>2, <1>3, <1>4, <1>5 DEF ArcsOK

LEMMA PlanMoves ==
  ASSUME PlanIsOK, BookOK, Adopt \/ Retarget \/ Fulfil
  PROVE  PlanIsOK' /\ ToSet(order)' = ToSet(order)
<1>0. PICK here : here = ToSet(order) /\ Now \in here \cup {None}
  BY BookIs
<1>1. ASSUME NEW p \in subject.plans
      PROVE  p.template \in Templates /\ p.target \in Nat /\ 3 <= p.target
  BY PacingAssumption DEF BookOK
<1>2. PlanOK(plan', here)
  <2>1. CASE Adopt
    <3>1. PICK p \in subject.plans :
            plan' = [beats |-> BEAT_TEMPLATES[p.template], target |-> p.target,
                     landed |-> [i \in DOMAIN BEAT_TEMPLATES[p.template] |-> None]]
      BY <2>1 DEF Adopt
    <3>2. PICK bs \in BeatLists : bs = BEAT_TEMPLATES[p.template]
      BY <1>1 DEF BeatLists
    <3>3. plan' = [beats |-> bs, target |-> p.target, landed |-> [i \in DOMAIN bs |-> None]]
      BY <3>1, <3>2
    <3> QED BY <1>1, <3>3 DEF PlanOK
  <2>2. CASE Retarget
    <3>1. PICK p \in subject.plans : plan # None /\ plan' = [plan EXCEPT !.target = p.target]
      BY <2>2 DEF Retarget
    <3>2. PICK q, n : q = plan /\ PlanOK(q, here) /\ n = p.target /\ n \in Nat /\ 3 <= n
      BY <1>0, <1>1, <3>1 DEF PlanIsOK
    <3>3. plan' = [q EXCEPT !.target = n]
      BY <3>1, <3>2
    <3>4. plan'.beats = q.beats /\ plan'.landed = q.landed /\ plan'.target = n /\ DOMAIN plan' = DOMAIN q
      BY <3>2, <3>3 DEF PlanOK
    <3> QED BY <3>2, <3>4 DEF PlanOK
  <2>3. CASE Fulfil
    <3>1. PICK i : plan # None /\ i \in Unfulfilled(plan) /\ plan' = [plan EXCEPT !.landed[i] = Now]
      BY <2>3 DEF Fulfil
    <3>2. PICK q, c : q = plan /\ PlanOK(q, here) /\ c = Now /\ c \in here \cup {None}
      BY <1>0, <3>1 DEF PlanIsOK
    <3>3. plan' = [q EXCEPT !.landed[i] = c]
      BY <3>1, <3>2
    <3>4. PICK f, g : f = q.landed /\ g = [f EXCEPT ![i] = c]
      OBVIOUS
    <3>5. plan' = [q EXCEPT !.landed = g]
      BY <3>3, <3>4
    <3>6. plan'.beats = q.beats /\ plan'.target = q.target /\ plan'.landed = g /\ DOMAIN plan' = DOMAIN q
      BY <3>2, <3>5 DEF PlanOK
    <3>7. DOMAIN g = DOMAIN f /\ \A j \in DOMAIN f : g[j] = f[j] \/ g[j] = c
      BY <3>4
    <3> QED BY <3>2, <3>4, <3>6, <3>7 DEF PlanOK
  <2> QED BY <2>1, <2>2, <2>3
<1>3. order' = order
  BY DEF Adopt, Retarget, Fulfil
<1>4. ToSet(order)' = here
  BY <1>0, <1>3 DEF ToSet
<1> QED BY <1>0, <1>2, <1>4 DEF PlanIsOK

-----------------------------------------------------------------------------
(* The scores *)

LEMMA AnalystReads ==
  ASSUME ScoresOK, AnalystPolls \/ \E done \in SUBSET ToSet(Drafts) : AnalystCommits(done)
  PROVE  ScoresOK' /\ order' = order
<1>0. PICK here : here = ToSet(order)
  OBVIOUS
<1>1. CASE AnalystPolls
  <2>1. UnscoredRecentChapters \subseteq here
    BY <1>0 DEF UnscoredRecentChapters
  <2>2. analyst' = UnscoredRecentChapters /\ scores' = scores /\ order' = order
    BY <1>1 DEF AnalystPolls
  <2>3. ToSet(order)' = here
    BY <1>0, <2>2 DEF ToSet
  <2> QED BY <1>0, <2>1, <2>2, <2>3 DEF ScoresOK
<1>2. CASE \E done \in SUBSET ToSet(Drafts) : AnalystCommits(done)
  <2>1. PICK done : AnalystCommits(done)
    BY <1>2
  <2>2. PICK given \in [done -> Tensions] :
          scores' = [c \in DOMAIN scores \cup done |-> IF c \in done THEN given[c] ELSE scores[c]]
    BY <2>1 DEF AnalystCommits
  <2>3. done \subseteq here /\ analyst' = None /\ order' = order
    BY <1>0, <2>1 DEF AnalystCommits, ScoresOK
  <2>4. ToSet(order)' = here
    BY <1>0, <2>3 DEF ToSet
  <2> QED BY <1>0, <2>2, <2>3, <2>4 DEF ScoresOK
<1> QED BY <1>1, <1>2

-----------------------------------------------------------------------------
LEMMA PacingBegins == PacingInit => PacingInv
<1> SUFFICES ASSUME PacingInit PROVE PacingInv
  OBVIOUS
<1>1. BookOK
  <2>1. order = <<>> /\ subject \in Subjects
    BY DEF PacingInit
  <2>2. Len(order) = 0 /\ order \in Seq(ToSet(Drafts))
    BY <2>1, EmptySeq
  <2> QED BY <2>1, <2>2, DraftsAre DEF BookOK
<1>2. ThreadsOK
  <2>1. LiveOnes(threads) = {}
    BY DEF PacingInit, LiveOnes, Live
  <2> QED BY <2>1, FS_EmptySet DEF PacingInit, ThreadsOK
<1>3. ArcsOK
  <2>1. arcs = [a \in Arcs |-> [active |-> FALSE, resolved |-> FALSE, type |-> None, outcome |-> None,
                                pivots |-> {}, last |-> None]]
    BY DEF PacingInit
  <2>2. Active(arcs) = {}
    BY <2>1 DEF Active
  <2>3. \A a \in Arcs : ArcOK(arcs[a], ToSet(order))
    BY <2>1 DEF ArcOK, Fields
  <2> QED BY <2>1, <2>2, <2>3, FS_EmptySet DEF ArcsOK
<1>4. PlanIsOK /\ ScoresOK
  <2>1. DOMAIN scores = {}
    BY DEF PacingInit
  <2> QED BY <2>1 DEF PacingInit, PlanIsOK, ScoresOK
<1> QED BY <1>1, <1>2, <1>3, <1>4 DEF PacingInv

(* What the story's moves leave alone stays in order in a book that grows. *)
LEMMA BookStands ==
  ASSUME BookOK, order' = order, subject' = subject
  PROVE  BookOK' /\ ToSet(order)' = ToSet(order)
BY DEF BookOK, ToSet

LEMMA ArcsStand ==
  ASSUME ArcsOK, ToSet(order) \subseteq ToSet(order)', arcs' = arcs
  PROVE  ArcsOK'
<1>1. \A a \in Arcs : ArcOK(arcs[a], ToSet(order)')
  BY DEF ArcsOK, ArcOK
<1> QED BY <1>1 DEF ArcsOK

LEMMA PlanStands ==
  ASSUME PlanIsOK, ToSet(order) \subseteq ToSet(order)', plan' = plan
  PROVE  PlanIsOK'
<1>1. plan # None => PlanOK(plan, ToSet(order)')
  BY DEF PlanIsOK, PlanOK
<1> QED BY <1>1 DEF PlanIsOK

LEMMA ScoresStand ==
  ASSUME ScoresOK, ToSet(order) \subseteq ToSet(order)', scores' = scores, analyst' = analyst
  PROVE  ScoresOK'
BY DEF ScoresOK

LEMMA StoryStands ==
  ASSUME PacingInv, StoryMoves
  PROVE  PacingInv'
<1>0. /\ BookOK /\ ThreadsOK /\ ArcsOK /\ PlanIsOK /\ ScoresOK
      /\ subject' = subject /\ scores' = scores /\ analyst' = analyst
  BY DEF PacingInv, StoryMoves
<1>1. CASE DraftNext
  <2>1. BookOK' /\ ToSet(order) \subseteq ToSet(order)' /\ threads' = threads /\ arcs' = arcs /\ plan' = plan
    BY <1>0, <1>1, BookGrows DEF DraftNext, story
  <2>2. ThreadsOK'
    BY <1>0, <2>1 DEF ThreadsOK
  <2> QED BY <1>0, <2>1, <2>2, ArcsStand, PlanStands, ScoresStand DEF PacingInv
<1>2. CASE Plant \/ Touch \/ Finish \/ PlanResolution
  <2>1. order' = order /\ arcs' = arcs /\ plan' = plan
    BY <1>2 DEF Plant, Touch, Finish, PlanResolution
  <2>2. BookOK' /\ ToSet(order)' = ToSet(order)
    BY <1>0, <2>1, BookStands
  <2> QED BY <1>0, <1>2, <2>1, <2>2, ThreadsMove, ArcsStand, PlanStands, ScoresStand DEF PacingInv
<1>3. CASE PlanReveal \/ RevealIt \/ Make \/ Settle
  <2>1. order' = order /\ arcs' = arcs /\ plan' = plan /\ threads' = threads
    BY <1>3 DEF PlanReveal, RevealIt, Make, Settle
  <2>2. BookOK' /\ ToSet(order)' = ToSet(order)
    BY <1>0, <2>1, BookStands
  <2>3. ThreadsOK'
    BY <1>0, <2>1 DEF ThreadsOK
  <2> QED BY <1>0, <2>1, <2>2, <2>3, ArcsStand, PlanStands, ScoresStand DEF PacingInv
<1>4. CASE Adopt \/ Retarget \/ Fulfil
  <2>1. order' = order /\ threads' = threads
    BY <1>4 DEF Adopt, Retarget, Fulfil
  <2>2. BookOK' /\ ToSet(order)' = ToSet(order)
    BY <1>0, <2>1, BookStands
  <2>3. ThreadsOK'
    BY <1>0, <2>1 DEF ThreadsOK
  <2>4. ArcsOK'
    <3>1. CASE Adopt
      BY <1>0, <3>1, AdoptKeeps
    <3>2. CASE Retarget \/ Fulfil
      <4>1. arcs' = arcs
        BY <3>2 DEF Retarget, Fulfil
      <4> QED BY <1>0, <2>2, <4>1, ArcsStand
    <3> QED BY <1>4, <3>1, <3>2
  <2>5. PlanIsOK'
    BY <1>0, <1>4, PlanMoves
  <2> QED BY <1>0, <2>2, <2>3, <2>4, <2>5, ScoresStand DEF PacingInv
<1>5. CASE DeclareArc \/ PlanPivot \/ AdvanceArc \/ ResolveArc
  <2>1. order' = order /\ threads' = threads /\ plan' = plan
    BY <1>5 DEF DeclareArc, PlanPivot, AdvanceArc, ResolveArc
  <2>2. BookOK' /\ ToSet(order)' = ToSet(order)
    BY <1>0, <2>1, BookStands
  <2>3. ThreadsOK'
    BY <1>0, <2>1 DEF ThreadsOK
  <2>4. ArcsOK'
    BY <1>0, <1>5, ArcsMove
  <2> QED BY <1>0, <2>1, <2>2, <2>3, <2>4, PlanStands, ScoresStand DEF PacingInv
<1> QED BY <1>1, <1>2, <1>3, <1>4, <1>5 DEF StoryMoves

LEMMA PacingInductive == PacingInv /\ [PacingNext]_pacingVars => PacingInv'
<1> SUFFICES ASSUME PacingInv, [PacingNext]_pacingVars PROVE PacingInv'
  OBVIOUS
<1>0. BookOK /\ ThreadsOK /\ ArcsOK /\ PlanIsOK /\ ScoresOK
  BY DEF PacingInv
<1>1. CASE UNCHANGED pacingVars
  <2>1. /\ order' = order /\ subject' = subject /\ threads' = threads /\ arcs' = arcs /\ plan' = plan
        /\ scores' = scores /\ analyst' = analyst
    BY <1>1 DEF pacingVars
  <2>2. BookOK' /\ ToSet(order)' = ToSet(order)
    BY <1>0, <2>1, BookStands
  <2>3. ThreadsOK'
    BY <1>0, <2>1 DEF ThreadsOK
  <2> QED BY <1>0, <2>1, <2>2, <2>3, ArcsStand, PlanStands, ScoresStand DEF PacingInv
<1>2. CASE AnalystPolls \/ \E done \in SUBSET ToSet(Drafts) : AnalystCommits(done)
  <2>1. /\ order' = order /\ subject' = subject /\ threads' = threads /\ arcs' = arcs /\ plan' = plan
    BY <1>2 DEF AnalystPolls, AnalystCommits, story
  <2>2. BookOK' /\ ToSet(order)' = ToSet(order)
    BY <1>0, <2>1, BookStands
  <2>3. ThreadsOK'
    BY <1>0, <2>1 DEF ThreadsOK
  <2>4. ScoresOK'
    BY <1>0, <1>2, AnalystReads
  <2> QED BY <1>0, <2>1, <2>2, <2>3, <2>4, ArcsStand, PlanStands DEF PacingInv
<1>3. CASE StoryMoves
  BY <1>3, StoryStands
<1> QED BY <1>1, <1>2, <1>3 DEF PacingNext

LEMMA PacingInvariant == PacingSpec => []PacingInv
BY PacingBegins, PacingInductive, PTL DEF PacingSpec

(* The types of the book, the threads, the plan and the scores, whatever the order
   in which chapters, plans and scores come *)
THEOREM PacingTypeCorrect == PacingSpec => []PacingTypeOK
<1>1. PacingInv => PacingTypeOK
  <2> SUFFICES ASSUME PacingInv PROVE PacingTypeOK
    OBVIOUS
  <2>0. BookOK /\ ThreadsOK /\ PlanIsOK /\ ScoresOK
    BY DEF PacingInv
  <2>1. order = SubSeq(Drafts, 1, Len(order))
    <3>1. Len(order) \in Nat /\ DOMAIN order = 1 .. Len(order) /\ Len(order) <= Len(Drafts)
      BY <2>0, BookIs DEF BookOK
    <3>2. SubSeq(Drafts, 1, Len(order)) = [i \in 1 .. Len(order) |-> Drafts[i]]
      BY <3>1 DEF SubSeq
    <3>3. order \in [1 .. Len(order) -> ToSet(Drafts)]
      BY <2>0, LenProperties DEF BookOK
    <3>4. order = [i \in 1 .. Len(order) |-> Drafts[i]]
      BY <2>0, <3>3 DEF BookOK
    <3> QED BY <3>2, <3>4
  <2> QED BY <2>0, <2>1 DEF ThreadsOK, PlanIsOK, PlanOK, ScoresOK, PacingTypeOK
<1> QED BY <1>1, PacingInvariant, PTL

-----------------------------------------------------------------------------
(* What is wrong with the arcs *)

On(r) == r.active /\ ~r.resolved
Off(r) == /\ r.active /\ r.resolved
          /\ r.outcome # None /\ r.type \in DOMAIN ARC_CONSISTENT_OUTCOMES
          /\ r.outcome \notin ARC_CONSISTENT_OUTCOMES[r.type]
PivotsOf(r, p) == IF p = None THEN {} ELSE r.pivots

(* What is wrong with one arc *)
Found(f, a, r, p, o) ==
  \/ Off(r) /\ f = <<a, "contradiction", None>>
  \/ On(r) /\ ChaptersElapsedSince(r.last, o) >= STAGNATION_CHAPTERS /\ f = <<a, "stagnant", None>>
  \/ On(r) /\ \E i \in PivotsOf(r, p) : i \notin DOMAIN p.beats /\ f = <<a, "pivot_orphaned", i>>
  \/ On(r) /\ \E i \in PivotsOf(r, p) :
                i \in DOMAIN p.beats /\ PivotMissed(r, i, p, o) /\ f = <<a, "pivot_missed", i>>

LEMMA FindingsAre ==
  ASSUME NEW as, NEW pl, NEW o, NEW f
  PROVE  f \in ArcFindings(as, pl, o) <=> \E a \in DOMAIN as : Found(f, a, as[a], pl, o)
<1> DEFINE Gone == {a \in DOMAIN as : as[a].active /\ ~as[a].resolved}
           Pivots(a) == IF pl = None THEN {} ELSE as[a].pivots
           Lapsed(a) == {p \in Pivots(a) : p \notin DOMAIN pl.beats}
           Late(a) == {q \in Pivots(a) \ Lapsed(a) : PivotMissed(as[a], q, pl, o)}
           Wrong == {b \in DOMAIN as :
                       /\ as[b].active /\ as[b].resolved
                       /\ as[b].outcome # None /\ as[b].type \in DOMAIN ARC_CONSISTENT_OUTCOMES
                       /\ as[b].outcome \notin ARC_CONSISTENT_OUTCOMES[as[b].type]}
           Stale == {b \in Gone : ChaptersElapsedSince(as[b].last, o) >= STAGNATION_CHAPTERS}
           Orphans(a) == {<<a, "pivot_orphaned", p>> : p \in Lapsed(a)}
           Misses(a) == {<<a, "pivot_missed", p>> : p \in Late(a)}
           First == {<<a, "contradiction", None>> : a \in Wrong}
           Second == {<<a, "stagnant", None>> : a \in Stale}
           Third == UNION {Orphans(a) : a \in Gone}
           Fourth == UNION {Misses(a) : a \in Gone}
<1>1. ArcFindings(as, pl, o) = First \cup Second \cup Third \cup Fourth
  BY Zenon DEF ArcFindings
<1>2. \A a : a \in Wrong <=> a \in DOMAIN as /\ Off(as[a])
  BY DEF Off
<1>3. \A a : a \in Stale <=> a \in DOMAIN as /\ On(as[a])
                              /\ ChaptersElapsedSince(as[a].last, o) >= STAGNATION_CHAPTERS
  BY DEF On
<1>4. \A a : a \in Gone <=> a \in DOMAIN as /\ On(as[a])
  BY DEF On
<1>5. \A a, i : i \in Lapsed(a) <=> i \in PivotsOf(as[a], pl) /\ i \notin DOMAIN pl.beats
  BY DEF PivotsOf
<1>6. \A a, i : i \in Late(a) <=> /\ i \in PivotsOf(as[a], pl) /\ i \in DOMAIN pl.beats
                                  /\ PivotMissed(as[a], i, pl, o)
  BY DEF PivotsOf
<1> HIDE DEF Gone, Lapsed, Late, Wrong, Stale
<1>7. f \in First <=> \E a \in Wrong : f = <<a, "contradiction", None>>
  BY Zenon
<1>8. f \in Second <=> \E a \in Stale : f = <<a, "stagnant", None>>
  BY Zenon
<1>9. \A a : /\ f \in Orphans(a) <=> \E i \in Lapsed(a) : f = <<a, "pivot_orphaned", i>>
             /\ f \in Misses(a) <=> \E i \in Late(a) : f = <<a, "pivot_missed", i>>
  BY Zenon
<1> HIDE DEF Orphans, Misses
<1>10. f \in Third <=> \E a \in Gone : f \in Orphans(a)
  OBVIOUS
<1>11. f \in Fourth <=> \E a \in Gone : f \in Misses(a)
  OBVIOUS
<1> HIDE DEF First, Second, Third, Fourth
<1> QED BY <1>1, <1>2, <1>3, <1>4, <1>5, <1>6, <1>7, <1>8, <1>9, <1>10, <1>11 DEF Found

(* There are only so many of them. *)
LEMMA FindingsAreFew ==
  ASSUME NEW as, NEW p, NEW o, IsFiniteSet(Active(as)),
         \A a \in DOMAIN as : as[a].pivots \subseteq 0 .. 6
  PROVE  IsFiniteSet(ArcFindings(as, p, o))
<1> DEFINE Kinds == {"contradiction", "stagnant", "pivot_orphaned", "pivot_missed"}
<1>1. PICK A : A = Active(as)
  OBVIOUS
<1>2. PICK K : K = Kinds
  OBVIOUS
<1>3. PICK I : I = (0 .. 6) \cup {None}
  OBVIOUS
<1>4. IsFiniteSet(K)
  <2>1. IsFiniteSet({"contradiction"})
    BY FS_Singleton
  <2>2. IsFiniteSet({"contradiction"} \cup {"stagnant"})
    BY <2>1, FS_AddElement
  <2>3. IsFiniteSet({"contradiction"} \cup {"stagnant"} \cup {"pivot_orphaned"})
    BY <2>2, FS_AddElement
  <2>4. IsFiniteSet({"contradiction"} \cup {"stagnant"} \cup {"pivot_orphaned"} \cup {"pivot_missed"})
    BY <2>3, FS_AddElement
  <2>5. K = {"contradiction"} \cup {"stagnant"} \cup {"pivot_orphaned"} \cup {"pivot_missed"}
    BY <1>2
  <2> QED BY <2>4, <2>5
<1>5. IsFiniteSet(I)
  <2>1. PICK lo \in Int, hi \in Int : lo = 0 /\ hi = 6
    OBVIOUS
  <2>2. IsFiniteSet(lo .. hi)
    BY FS_Interval
  <2>3. PICK J : J = lo .. hi
    OBVIOUS
  <2>4. IsFiniteSet(J \cup {None})
    BY <2>2, <2>3, FS_AddElement
  <2> QED BY <1>3, <2>1, <2>3, <2>4
<1>6. IsFiniteSet(A)
  BY <1>1
<1>7. IsFiniteSet(A \X K)
  BY <1>4, <1>6, FS_Product
<1>8. PICK AK : AK = A \X K
  OBVIOUS
<1>9. IsFiniteSet(AK \X I)
  BY <1>5, <1>7, <1>8, FS_Product
<1>10. PICK Z : Z = AK \X I
  OBVIOUS
<1>11. PICK g : g = [z \in Z |-> <<z[1][1], z[1][2], z[2]>>]
  OBVIOUS
<1>12. PICK T : T = {g[z] : z \in Z}
  OBVIOUS
<1>13. g \in Surjection(Z, T)
  BY <1>11, <1>12 DEF Surjection
<1>14. IsFiniteSet(T)
  BY <1>9, <1>10, <1>13, FS_Surjection
<1>15. ASSUME NEW a \in A, NEW k \in K, NEW i \in I PROVE <<a, k, i>> \in T
  <2>1. PICK z : z = <<<<a, k>>, i>>
    OBVIOUS
  <2>2. z \in Z /\ z[1][1] = a /\ z[1][2] = k /\ z[2] = i
    BY <1>8, <1>10, <1>15, <2>1
  <2>3. g[z] = <<a, k, i>>
    BY <1>11, <2>2
  <2> QED BY <1>12, <2>2, <2>3
<1>16. ASSUME NEW f \in ArcFindings(as, p, o) PROVE f \in T
  <2>1. PICK a \in DOMAIN as : Found(f, a, as[a], p, o)
    BY FindingsAre
  <2>2. as[a].active /\ PivotsOf(as[a], p) \subseteq 0 .. 6
    BY <2>1 DEF Found, On, Off, PivotsOf
  <2>3. a \in A
    BY <1>1, <2>2 DEF Active
  <2>4. \E k \in K, i \in I : f = <<a, k, i>>
    BY <1>2, <1>3, <2>1, <2>2 DEF Found
  <2> QED BY <1>15, <2>3, <2>4
<1>17. PICK F \in SUBSET T : F = ArcFindings(as, p, o)
  BY <1>16
<1> QED BY <1>14, <1>17, FS_Subset

(* An arc that advances in the newest chapter of a book raises no alarm but for
   the pivots that it lost. *)
LEMMA AdvancedArcIsQuiet ==
  ASSUME PacingInv, NEW r, On(r), r.last = Now, order # <<>>, NEW f, NEW a, Found(f, a, r, plan, order)
  PROVE  \E i \in PivotsOf(r, plan) : i \notin DOMAIN plan.beats /\ f = <<a, "pivot_orphaned", i>>
<1>0. BookOK /\ PlanIsOK
  BY DEF PacingInv
<1>1. PICK n \in Nat \ {0} : n = Len(order)
  BY <1>0, BookIs
<1>2. r.last = Drafts[n] /\ r.last \in ToSet(order) /\ Ordinal(r.last, order) = n
  BY <1>0, <1>1, BookIs
<1>3. ~(ChaptersElapsedSince(r.last, order) >= STAGNATION_CHAPTERS)
  BY <1>1, <1>2 DEF ChaptersElapsedSince, STAGNATION_CHAPTERS
<1>4. ~Off(r)
  BY DEF On, Off
<1>5. ASSUME NEW i \in PivotsOf(r, plan), i \in DOMAIN plan.beats PROVE ~PivotMissed(r, i, plan, order)
  <2>1. plan # None /\ PlanOK(plan, ToSet(order))
    BY <1>0, <1>5 DEF PivotsOf, PlanIsOK
  <2>2. PICK bs \in BeatLists : bs = plan.beats
    BY <2>1 DEF PlanOK
  <2>3. PICK b : b = bs[i] /\ b.pct \in 0 .. 100 /\ b.tol \in 0 .. 100
    BY <1>5, <2>2, BeatsAre
  <2>3a. PICK m \in Nat \ {0} : m = plan.target
    BY <2>1 DEF PlanOK
  <2>4. /\ BeatWindow(b, m)[1] \in 1 .. m /\ BeatWindow(b, m)[2] \in 1 .. m
        /\ BeatWindow(b, m)[1] <= BeatWindow(b, m)[2]
    BY <2>3, BeatWindowIs
  <2>5. PICK w : w = BeatWindow(b, m) /\ w[1] \in Nat /\ w[2] \in Nat /\ w[1] <= w[2]
    BY <2>4
  <2>6. BeatWindow(plan.beats[i], plan.target) = w
    BY <2>2, <2>3, <2>3a, <2>5
  <2>7. ~(n > w[2] /\ n < w[1])
    BY <2>5
  <2>8. n # None
    BY NoneAssumption
  <2>9. PivotMissed(r, i, plan, order) <=> n > w[2] /\ n < w[1]
    BY <1>1, <1>2, <2>6, <2>8 DEF PivotMissed
  <2> QED BY <2>7, <2>9
<1> HIDE DEF On, Off, PivotsOf
<1> QED BY <1>3, <1>4, <1>5 DEF Found

LEMMA AdvanceClears ==
  ASSUME PacingInv, AdvanceArc, NEW a \in Arcs, arcs'[a].last # arcs[a].last, Going(a)
  PROVE  /\ \A f \in ArcFindings(arcs', plan, order) : f[1] = a => f[2] = "pivot_orphaned"
         /\ ArcsTab(arcs', plan, order) <= ArcsTab(arcs, plan, order)
<1>0. BookOK /\ ArcsOK
  BY DEF PacingInv
<1>1. PICK b \in subject.arcs : arcs' = [arcs EXCEPT ![b].last = Now]
  BY DEF AdvanceArc
<1>2. PICK as, r, q : as = arcs /\ r = arcs[a] /\ q = [r EXCEPT !.last = Now]
  OBVIOUS
<1>3. a = b /\ arcs' = [as EXCEPT ![a] = q]
  <2>1. a = b
    <3> SUFFICES ASSUME a # b PROVE FALSE
      OBVIOUS
    <3>1. arcs'[a] = arcs[a]
      BY <1>0, <1>1 DEF ArcsOK
    <3> QED BY <3>1
  <2> QED BY <1>1, <1>2, <2>1
<1>4. /\ DOMAIN arcs' = DOMAIN as /\ DOMAIN as = Arcs
      /\ arcs'[a] = q /\ \A c \in DOMAIN as : c # a => arcs'[c] = as[c]
  BY <1>0, <1>2, <1>3 DEF ArcsOK
<1>5. ArcOK(r, ToSet(order))
  BY <1>0, <1>2 DEF ArcsOK
<1>6. /\ q.last = Now /\ q.pivots = r.pivots /\ q.active = r.active /\ q.resolved = r.resolved
      /\ q.type = r.type /\ q.outcome = r.outcome
  BY <1>2, <1>5 DEF ArcOK, Fields
<1>7. On(r) /\ On(q)
  BY <1>2, <1>6 DEF Going, On
<1>8. order # <<>>
  <2> SUFFICES ASSUME order = <<>> PROVE FALSE
    OBVIOUS
  <2>1. Now = None /\ ToSet(order) = {}
    BY <1>0, BookIs
  <2>2. r.last = None
    BY <1>5, <2>1 DEF ArcOK
  <2> QED BY <1>2, <1>4, <1>6, <2>1, <2>2
<1>9. PICK new : new = arcs'
  OBVIOUS
<1>10. ASSUME NEW f \in ArcFindings(new, plan, order)
       PROVE  /\ f[1] = a => f[2] = "pivot_orphaned"
              /\ f \in ArcFindings(as, plan, order)
  <2>1. PICK c \in DOMAIN new : Found(f, c, new[c], plan, order)
    BY FindingsAre
  <2>2. CASE c = a
    <3>1. new[c] = q
      BY <1>4, <1>9, <2>2
    <3>2. PICK i \in PivotsOf(q, plan) : i \notin DOMAIN plan.beats /\ f = <<a, "pivot_orphaned", i>>
      BY <1>6, <1>7, <1>8, <2>1, <2>2, <3>1, AdvancedArcIsQuiet
    <3>3. i \in PivotsOf(r, plan)
      BY <1>6, <3>2 DEF PivotsOf
    <3>4. Found(f, a, r, plan, order)
      BY <1>7, <3>2, <3>3 DEF Found
    <3>5. Found(f, a, as[a], plan, order)
      BY <1>2, <3>4
    <3> QED BY <1>4, <3>2, <3>5, FindingsAre
  <2>3. CASE c # a
    <3>1. Found(f, c, as[c], plan, order) /\ c \in DOMAIN as
      BY <1>4, <1>9, <2>1, <2>3
    <3>2. f[1] = c
      BY <2>1 DEF Found
    <3> QED BY <2>3, <3>1, <3>2, FindingsAre
  <2> QED BY <2>2, <2>3
<1>11. PICK S : S = ArcFindings(as, plan, order)
  OBVIOUS
<1>12. IsFiniteSet(S)
  <2>1. PICK p, o : p = plan /\ o = order
    OBVIOUS
  <2>2. IsFiniteSet(ArcFindings(as, p, o))
    BY <1>0, <1>2, FindingsAreFew DEF ArcsOK, ArcOK
  <2> QED BY <1>11, <2>1, <2>2
<1>13. PICK T \in SUBSET S : T = ArcFindings(new, plan, order)
  BY <1>10, <1>11
<1>14. Cardinality(T) <= Cardinality(S)
  BY <1>12, <1>13, FS_Subset
<1> QED BY <1>2, <1>9, <1>10, <1>11, <1>13, <1>14 DEF ArcsTab

(* What the Arcs tab and its note ask for helps: when an arc advances in the newest
   chapter, nothing is wrong with it but pivots of a plan that is gone, and the
   tab's alarm does not rise, whatever the plan, the arcs and the chapters. *)
THEOREM AdvancingHelps == PacingSpec => AdvancingClears
<1> DEFINE Cleared ==
      \A a \in Arcs :
        (arcs'[a].last # arcs[a].last /\ arcs'[a].last = Now /\ Going(a)) =>
          /\ \A f \in ArcFindings(arcs', plan, order) : f[1] = a => f[2] = "pivot_orphaned"
          /\ ArcsTab(arcs', plan, order) <= ArcsTab(arcs, plan, order)
<1>1. PacingInv /\ [PacingNext]_pacingVars => [Cleared]_pacingVars
  <2> SUFFICES ASSUME PacingInv, [PacingNext]_pacingVars,
                      NEW a \in Arcs, arcs'[a].last # arcs[a].last, Going(a)
               PROVE  /\ \A f \in ArcFindings(arcs', plan, order) : f[1] = a => f[2] = "pivot_orphaned"
                      /\ ArcsTab(arcs', plan, order) <= ArcsTab(arcs, plan, order)
    BY Zenon
  <2>0. ArcsOK
    BY DEF PacingInv
  <2>1. arcs' # arcs
    OBVIOUS
  <2>2. PacingNext /\ ~(AnalystPolls \/ \E done \in SUBSET ToSet(Drafts) : AnalystCommits(done))
    BY <2>1 DEF pacingVars, AnalystPolls, AnalystCommits, story
  <2>3. StoryMoves
    BY <2>2 DEF PacingNext
  <2>4. ~(\/ DraftNext \/ Plant \/ Touch \/ Finish \/ PlanResolution \/ PlanReveal \/ RevealIt
          \/ Make \/ Settle \/ Retarget \/ Fulfil)
    BY <2>1 DEF DraftNext, story, Plant, Touch, Finish, PlanResolution, PlanReveal, RevealIt,
                Make, Settle, Retarget, Fulfil
  <2>5. PICK r : r = arcs[a] /\ DOMAIN r = Fields
    BY <2>0 DEF ArcsOK, ArcOK
  <2>6. ~Adopt
    <3> SUFFICES ASSUME Adopt PROVE FALSE
      OBVIOUS
    <3>1. arcs' = [c \in Arcs |-> [arcs[c] EXCEPT !.pivots = IF @ = {} THEN {} ELSE {Lost}]]
      BY DEF Adopt
    <3>2. PICK ps : ps = IF r.pivots = {} THEN {} ELSE {Lost}
      OBVIOUS
    <3>3. arcs'[a] = [r EXCEPT !.pivots = ps]
      BY <2>5, <3>1, <3>2
    <3>4. arcs'[a].last = r.last
      BY <2>5, <3>3 DEF Fields
    <3> QED BY <2>5, <3>4
  <2>7. ~DeclareArc
    <3> SUFFICES ASSUME DeclareArc PROVE FALSE
      OBVIOUS
    <3>1. PICK c \in subject.arcs : ~arcs[c].active /\ \E type : arcs' = [arcs EXCEPT ![c].active = TRUE, ![c].type = type]
      BY DEF DeclareArc
    <3>2. c # a
      BY <3>1 DEF Going
    <3>3. arcs'[a] = arcs[a]
      BY <2>0, <3>1, <3>2 DEF ArcsOK
    <3> QED BY <3>3
  <2>8. ~PlanPivot
    <3> SUFFICES ASSUME PlanPivot PROVE FALSE
      OBVIOUS
    <3>1. PICK c, i : arcs' = [arcs EXCEPT ![c].pivots = {i}]
      BY DEF PlanPivot
    <3>2. arcs'[a] = arcs[a] \/ arcs'[a] = [r EXCEPT !.pivots = {i}]
      BY <2>0, <2>5, <3>1 DEF ArcsOK
    <3>3. arcs'[a].last = r.last
      BY <2>5, <3>2 DEF Fields
    <3> QED BY <2>5, <3>3
  <2>9. ~ResolveArc
    <3> SUFFICES ASSUME ResolveArc PROVE FALSE
      OBVIOUS
    <3>1. PICK c, x : arcs' = [arcs EXCEPT ![c].resolved = TRUE, ![c].outcome = x]
      BY DEF ResolveArc
    <3>2. PICK q : q = [r EXCEPT !.resolved = TRUE]
      OBVIOUS
    <3>3. arcs'[a] = arcs[a] \/ arcs'[a] = [q EXCEPT !.outcome = x]
      BY <2>0, <2>5, <3>1, <3>2 DEF ArcsOK
    <3>4. arcs'[a].last = r.last
      BY <2>5, <3>2, <3>3 DEF Fields
    <3> QED BY <2>5, <3>4
  <2>10. AdvanceArc
    BY <2>3, <2>4, <2>6, <2>7, <2>8, <2>9 DEF StoryMoves
  <2> QED BY <2>10, AdvanceClears
<1> QED BY <1>1, PacingInvariant, PTL DEF PacingSpec, AdvancingClears

-----------------------------------------------------------------------------
(* The end of the book *)

(* The window of each beat of a plan ends in the book. *)
LEMMA WindowEnds ==
  ASSUME NEW p, NEW here, PlanOK(p, here), NEW i \in DOMAIN p.beats
  PROVE  /\ BeatWindow(p.beats[i], p.target)[1] \in Nat
         /\ BeatWindow(p.beats[i], p.target)[2] \in 1 .. p.target
<1>1. PICK bs \in BeatLists : bs = p.beats
  BY DEF PlanOK
<1>2. PICK b : b = bs[i] /\ b.pct \in 0 .. 100 /\ b.tol \in 0 .. 100
  BY <1>1, BeatsAre
<1>3. PICK m \in Nat \ {0} : m = p.target
  BY DEF PlanOK
<1>4. BeatWindow(b, m)[1] \in 1 .. m /\ BeatWindow(b, m)[2] \in 1 .. m
  BY <1>2, BeatWindowIs
<1> QED BY <1>1, <1>2, <1>3, <1>4

(* Past the planned end the beats that are late are those that did not land. *)
LEMMA LateBeats ==
  ASSUME BookOK, PlanIsOK, plan # None, Len(order) > plan.target, NEW i \in DOMAIN plan.beats
  PROVE  BeatDrift(plan, i, order) = "late" <=> plan.landed[i] = None
<1>1. PlanOK(plan, ToSet(order))
  BY DEF PlanIsOK
<1>2. PICK n \in Nat, m \in Nat : n = Len(order) /\ m = plan.target /\ n > m
  BY <1>1, BookIs DEF PlanOK
<1>3. PICK w : w = BeatWindow(plan.beats[i], plan.target)
  OBVIOUS
<1>4. w[2] \in 1 .. m
  BY <1>1, <1>2, <1>3, WindowEnds
<1>5. n > w[2]
  BY <1>2, <1>4
<1>6. PICK at : at = Ordinal(plan.landed[i], order)
  OBVIOUS
<1>7. BeatDrift(plan, i, order) =
        CASE plan.landed[i] = None -> IF n > w[2] THEN "late" ELSE None
          [] plan.landed[i] # None /\ at = None -> "off_window"
          [] plan.landed[i] # None /\ at # None ->
               IF at < w[1] THEN "early" ELSE IF at > w[2] THEN "off_window" ELSE None
  BY <1>2, <1>3, <1>6 DEF BeatDrift
<1>8. None # "late"
  BY NoneAssumption DEF Drifts
<1>9. CASE plan.landed[i] = None
  BY <1>5, <1>7, <1>9
<1>10. CASE plan.landed[i] # None /\ at = None
  BY <1>7, <1>10
<1>11. CASE plan.landed[i] # None /\ at # None
  <2>1. BeatDrift(plan, i, order) = IF at < w[1] THEN "early" ELSE IF at > w[2] THEN "off_window" ELSE None
    BY <1>7, <1>11
  <2> QED BY <1>8, <1>11, <2>1
<1> QED BY <1>9, <1>10, <1>11

LEMMA LateTab ==
  ASSUME BookOK, PlanIsOK, plan # None, Len(order) > plan.target
  PROVE  OutlineTab(plan, order) = Cardinality(Unfulfilled(plan))
<1> DEFINE drift(i) == BeatDrift(plan, i, order)
<1>1. PICK U : U = Unfulfilled(plan)
  OBVIOUS
<1>2. PICK D : D = {d \in BeatDrifts(plan, order) : d[2] = "late"}
  OBVIOUS
<1>3. \A i \in DOMAIN plan.beats : drift(i) = "late" <=> i \in U
  BY <1>1, LateBeats DEF Unfulfilled
<1>4. "late" # None
  BY NoneAssumption DEF Drifts
<1> HIDE DEF drift
<1>5. BeatDrifts(plan, order) = {<<i, drift(i)>> : i \in {j \in DOMAIN plan.beats : drift(j) # None}}
  BY DEF BeatDrifts, drift
<1>6. U \subseteq DOMAIN plan.beats
  BY <1>1 DEF Unfulfilled
<1>7. ASSUME NEW d \in D PROVE d[1] \in U /\ d = <<d[1], "late">>
  BY <1>2, <1>3, <1>5, <1>7
<1>8. ASSUME NEW i \in U PROVE <<i, "late">> \in D
  <2>1. i \in DOMAIN plan.beats /\ drift(i) = "late"
    BY <1>3, <1>6
  <2>2. <<i, drift(i)>> \in BeatDrifts(plan, order)
    BY <1>4, <1>5, <2>1
  <2>3. <<i, "late">>[2] = "late"
    OBVIOUS
  <2> QED BY <1>2, <2>1, <2>2, <2>3
<1>9. PICK f : f = [i \in U |-> <<i, "late">>]
  OBVIOUS
<1>10. f \in Bijection(U, D)
  <2>1. f \in [U -> D]
    BY <1>8, <1>9
  <2>2. \A i, j \in U : f[i] = f[j] => i = j
    BY <1>9
  <2>3. \A d \in D : \E i \in U : f[i] = d
    BY <1>7, <1>9
  <2> QED BY <2>1, <2>2, <2>3 DEF Bijection, Injection, Surjection, IsInjective
<1>11. IsFiniteSet(U)
  <2>1. PICK bs \in BeatLists : bs = plan.beats
    BY DEF PlanIsOK, PlanOK
  <2>2. PICK n \in Nat : DOMAIN bs = 1 .. n
    BY BeatsAre
  <2>3. IsFiniteSet(1 .. n)
    BY FS_Interval
  <2>4. PICK I : I = 1 .. n
    OBVIOUS
  <2>5. IsFiniteSet(I) /\ U \in SUBSET I
    BY <1>6, <2>1, <2>2, <2>3, <2>4
  <2> QED BY <2>5, FS_Subset
<1>12. Cardinality(D) = Cardinality(U)
  BY <1>10, <1>11, FS_Bijection DEF ExistsBijection
<1> QED BY <1>1, <1>2, <1>12 DEF OutlineTab

LEMMA EndIsAnnounced ==
  ASSUME PacingInv
  PROVE  TheEndIsAnnounced
<1> SUFFICES ASSUME plan # None PROVE TheEndIsAnnounced
  BY DEF TheEndIsAnnounced
<1>0. BookOK /\ PlanIsOK
  BY DEF PacingInv
<1>1. PICK left : left = Blockers(plan, promises, arcs)
  OBVIOUS
<1>2. Len(order) >= plan.target => FinaleConvergenceNote(plan, promises, arcs, order) = left
  <2> SUFFICES ASSUME Len(order) >= plan.target
               PROVE  FinaleConvergenceNote(plan, promises, arcs, order) = left
    OBVIOUS
  <2>1. PICK n \in Nat, m \in Nat : n = Len(order) /\ m = plan.target /\ n >= m
    BY <1>0, BookIs DEF PlanIsOK, PlanOK
  <2>2. FinaleFrom(plan) \in 1 .. m
    BY <1>0, <2>1, FinaleIsBefore DEF PlanIsOK
  <2>3. ~(n < FinaleFrom(plan))
    BY <2>1, <2>2
  <2> QED BY <1>1, <2>1, <2>3 DEF FinaleConvergenceNote
<1>3. Len(order) > plan.target => OutlineTab(plan, order) = Cardinality(Unfulfilled(plan))
  BY <1>0, LateTab
<1>4. "satisfied" \in CompletionNote(plan, promises, arcs) <=> left = {}
  <2>1. left \subseteq {"beats", "promises", "arcs"}
    BY <1>1 DEF Blockers
  <2>2. CompletionNote(plan, promises, arcs) =
          CASE left = {} -> {"satisfied"} [] Cardinality(left) = 1 -> left [] OTHER -> {}
    BY <1>1 DEF CompletionNote
  <2>3. CASE left = {}
    <3>1. Cardinality(left) # 1
      BY <2>3, FS_EmptySet
    <3> QED BY <2>2, <2>3, <3>1
  <2>4. CASE left # {}
    <3>1. "satisfied" \notin left
      BY <2>1
    <3>2. CASE Cardinality(left) = 1
      BY <2>2, <2>4, <3>1, <3>2
    <3>3. CASE Cardinality(left) # 1
      BY <2>2, <2>4, <3>3
    <3> QED BY <2>4, <3>2, <3>3
  <2> QED BY <2>3, <2>4
<1>5. ("satisfied" \in CompletionNote(plan, promises, arcs)) = (left = {})
  BY <1>4
<1> QED BY <1>1, <1>2, <1>3, <1>5, Zenon DEF TheEndIsAnnounced

(* The end of the book is announced: when as many chapters are written as were
   planned, the Author is told of what is left and of nothing else, the beats to
   come are late, and the ending is asked for only when nothing is left.  For any
   plan of the two frameworks, however often it is adopted anew or retargeted. *)
THEOREM TheEndIsAlwaysAnnounced == PacingSpec => []TheEndIsAnnounced
BY EndIsAnnounced, PacingInvariant, PTL

-----------------------------------------------------------------------------
(* Tension *)

(* The sum of the scores, as FoldSet goes over the chapters one by one *)
Total(sc, D) == FoldSet(LAMBDA c, acc : sc[c] + acc, 0, D)

LEMMA SumIs ==
  ASSUME NEW D, IsFiniteSet(D), NEW sc, \A c \in D : sc[c] \in Int
  PROVE  Total(sc, D) \in Int
<1> DEFINE First(s) == CHOOSE x \in s : TRUE
           Sum(g, s) == IF s = {} THEN 0 ELSE sc[First(s)] + g[s \ {First(s)}]
           Whole(g) == g = [s \in SUBSET D |-> Sum(g, s)]
           iter == CHOOSE g : Whole(g)
           Upto(g, k) == \A s \in SUBSET D : Cardinality(s) <= k => g[s] = Sum(g, s)
<1>1. Total(sc, D) = iter[D]
  BY DEF Total, FoldSet, MapThenFoldSet
<1>2. ASSUME NEW s \in SUBSET D, s # {}
      PROVE  /\ First(s) \in s /\ First(s) \in D /\ s \ {First(s)} \in SUBSET D
             /\ Cardinality(s) \in Nat /\ Cardinality(s \ {First(s)}) \in Nat
             /\ Cardinality(s \ {First(s)}) = Cardinality(s) - 1
  <2>1. First(s) \in s
    BY <1>2
  <2>2. PICK x : x = First(s) /\ x \in s
    BY <2>1
  <2>3. IsFiniteSet(s)
    BY FS_Subset
  <2>4. IsFiniteSet(s \ {x}) /\ Cardinality(s \ {x}) = Cardinality(s) - 1
    BY <2>2, <2>3, FS_RemoveElement
  <2>5. Cardinality(s) \in Nat
    BY <2>3, FS_CardinalityType
  <2>6. PICK q : q = s \ {x}
    OBVIOUS
  <2>7. Cardinality(q) \in Nat
    BY <2>4, <2>6, FS_CardinalityType
  <2> HIDE DEF First
  <2> QED BY <2>1, <2>2, <2>4, <2>5, <2>6, <2>7
<1> HIDE DEF First
<1>3. ASSUME NEW k \in Nat PROVE \E g : Upto(g, k)
  <2> SUFFICES ASSUME ~ \E g : Upto(g, k) PROVE FALSE
    OBVIOUS
  <2> DEFINE Bad == {j \in Nat : ~ \E g : Upto(g, j)}
  <2>1. PICK B : B = Bad
    OBVIOUS
  <2>2. B \subseteq Nat /\ B # {}
    BY <2>1
  <2>3. PICK m \in B : m = Min(B) /\ \A y \in B : m <= y
    BY <2>2, LeastOf
  <2>4. m \in Nat /\ ~ \E g : Upto(g, m)
    BY <2>1
  <2>5. m # 0
    <3> SUFFICES ASSUME m = 0 PROVE FALSE
      OBVIOUS
    <3>1. PICK g : g = [s \in SUBSET D |-> 0]
      OBVIOUS
    <3>2. ASSUME NEW s \in SUBSET D, Cardinality(s) <= 0 PROVE g[s] = Sum(g, s)
      <4>1. s = {}
        <5> SUFFICES ASSUME s # {} PROVE FALSE
          OBVIOUS
        <5>1. Cardinality(s) - 1 \in Nat /\ Cardinality(s) \in Nat
          BY <1>2
        <5> QED BY <3>2, <5>1
      <4> QED BY <3>1, <4>1
    <3> QED BY <2>4, <3>2
  <2>6. PICK j \in Nat : m = j + 1
    BY <2>4, <2>5
  <2>7. PICK g : Upto(g, j)
    <3>1. j \notin B
      BY <2>3, <2>6
    <3> QED BY <2>1, <3>1
  <2>8. PICK h : h = [s \in SUBSET D |-> Sum(g, s)]
    OBVIOUS
  <2>9. ASSUME NEW s \in SUBSET D, Cardinality(s) <= m PROVE h[s] = Sum(h, s)
    <3>1. CASE s = {}
      BY <2>8, <3>1
    <3>2. CASE s # {}
      <4>1. PICK q \in SUBSET D : q = s \ {First(s)} /\ Cardinality(q) \in Nat /\ Cardinality(q) = Cardinality(s) - 1
        BY <1>2, <3>2
      <4>2. Cardinality(q) <= j
        <5>1. PICK u \in Nat, v \in Nat : u = Cardinality(s) /\ v = Cardinality(q) /\ v = u - 1 /\ u <= m
          BY <1>2, <2>9, <3>2, <4>1
        <5> QED BY <2>6, <5>1
      <4>3. g[q] = Sum(g, q)
        BY <2>7, <4>2
      <4>4. h[q] = Sum(g, q)
        BY <2>8
      <4>5. h[s] = sc[First(s)] + g[q]
        BY <2>8, <3>2, <4>1
      <4>6. Sum(h, s) = sc[First(s)] + h[q]
        BY <3>2, <4>1
      <4> HIDE DEF Sum
      <4> QED BY <4>3, <4>4, <4>5, <4>6
    <3> QED BY <3>1, <3>2
  <2> QED BY <2>4, <2>9
<1>4. \E g : Whole(g)
  <2>1. PICK n \in Nat : n = Cardinality(D)
    BY FS_CardinalityType
  <2>2. PICK g : Upto(g, n)
    BY <1>3
  <2>3. ASSUME NEW s \in SUBSET D PROVE g[s] = Sum(g, s)
    <3>1. Cardinality(s) <= n
      BY <2>1, FS_Subset
    <3> QED BY <2>2, <3>1
  <2>4. PICK h : h = [s \in SUBSET D |-> g[s]]
    OBVIOUS
  <2>5. ASSUME NEW s \in SUBSET D PROVE h[s] = Sum(h, s)
    <3>1. h[s] = Sum(g, s)
      BY <2>3, <2>4
    <3>2. s # {} => s \ {First(s)} \in SUBSET D
      OBVIOUS
    <3>3. s # {} => h[s \ {First(s)}] = g[s \ {First(s)}]
      BY <2>4, <3>2
    <3> QED BY <3>1, <3>3
  <2>6. h = [s \in SUBSET D |-> Sum(h, s)]
    <3> HIDE DEF Sum
    <3>1. h = [s \in SUBSET D |-> h[s]]
      BY <2>4
    <3> QED BY <2>5, <3>1
  <2> QED BY <2>6
<1>5. Whole(iter)
  BY <1>4, Zenon
<1>6. ASSUME NEW s \in SUBSET D PROVE iter[s] = Sum(iter, s)
  <2>1. PICK g : g = iter /\ Whole(g)
    BY <1>5, Zenon
  <2>2. g[s] = Sum(g, s)
    <3> HIDE DEF Sum
    <3> QED BY <2>1
  <2> HIDE DEF iter
  <2> QED BY <2>1, <2>2
<1> HIDE DEF iter
<1>7. ASSUME NEW k \in Nat PROVE \A s \in SUBSET D : Cardinality(s) = k => iter[s] \in Int
  <2> SUFFICES ASSUME ~ \A s \in SUBSET D : Cardinality(s) = k => iter[s] \in Int PROVE FALSE
    OBVIOUS
  <2> DEFINE Bad == {j \in Nat : \E s \in SUBSET D : Cardinality(s) = j /\ iter[s] \notin Int}
  <2>1. PICK B : B = Bad
    OBVIOUS
  <2>2. B \subseteq Nat /\ B # {}
    BY <2>1
  <2>3. PICK m \in B : m = Min(B) /\ \A y \in B : m <= y
    BY <2>2, LeastOf
  <2>4. PICK s \in SUBSET D : Cardinality(s) = m /\ iter[s] \notin Int
    BY <2>1
  <2>5. s # {}
    <3> SUFFICES ASSUME s = {} PROVE FALSE
      OBVIOUS
    <3>1. iter[s] = 0
      BY <1>6
    <3> QED BY <2>4, <3>1
  <2>6. PICK q \in SUBSET D : q = s \ {First(s)} /\ Cardinality(q) \in Nat /\ Cardinality(q) = Cardinality(s) - 1
    BY <1>2, <2>5
  <2>7. iter[s] = sc[First(s)] + iter[q]
    BY <1>6, <2>5, <2>6
  <2>8. sc[First(s)] \in Int
    BY <1>2, <2>5
  <2>9. iter[q] \in Int
    <3>1. PICK u \in Nat : u = Cardinality(q) /\ u = m - 1
      BY <2>4, <2>6
    <3>2. u \notin B
      BY <2>1, <2>3, <3>1
    <3> QED BY <2>1, <3>1, <3>2
  <2>10. iter[s] \in Int
    BY <2>7, <2>8, <2>9
  <2> QED BY <2>4, <2>10
<1>8. iter[D] \in Int
  <2>1. PICK n \in Nat : n = Cardinality(D)
    BY FS_CardinalityType
  <2>2. D \in SUBSET D
    OBVIOUS
  <2> QED BY <1>7, <2>1, <2>2
<1> QED BY <1>1, <1>8

LEMMA GreatestOf ==
  ASSUME NEW n \in Nat, NEW T, T \subseteq 1 .. n, T # {}
  PROVE  Max(T) \in T /\ \A y \in T : Max(T) >= y
<1>1. PICK U : U = {n - t : t \in T}
  OBVIOUS
<1>2. U \subseteq Nat /\ U # {}
  <2>1. ASSUME NEW t \in T PROVE n - t \in Nat
    <3>1. t \in 1 .. n
      OBVIOUS
    <3> QED BY <3>1
  <2> QED BY <1>1, <2>1
<1>3. PICK m \in U : \A y \in U : m <= y
  BY <1>2, LeastOf
<1>4. PICK x \in T : m = n - x
  BY <1>1
<1>5. ASSUME NEW y \in T PROVE x >= y
  <2>1. n - x <= n - y
    BY <1>1, <1>3, <1>4
  <2>2. x \in Nat /\ y \in Nat
    OBVIOUS
  <2> QED BY <2>1, <2>2
<1> QED BY <1>5 DEF Max

(* Where a beat is planned, the beats that promise a tension, and what they promise *)
PlannedAt(p, i) == Least(p.target, Most(1, Round(p.beats[i].pct, p.target)))
PolarBeats(p) == {i \in DOMAIN p.beats : p.beats[i].polarity # None}
PromisedAt(p, o) ==
  POLARITY_TARGETS[p.beats[Max({i \in PolarBeats(p) : PlannedAt(p, i) = o})].polarity]

LEMMA PromisesAre ==
  ASSUME NEW p, NEW here, PlanOK(p, here), NEW o, o \in {PlannedAt(p, i) : i \in PolarBeats(p)}
  PROVE  o \in 1 .. p.target /\ PromisedAt(p, o) \in {35, 75, 85}
<1>1. PICK bs \in BeatLists : bs = p.beats
  BY DEF PlanOK
<1>2. PICK n \in Nat \ {0} : n = p.target
  BY DEF PlanOK
<1>3. PICK i \in PolarBeats(p) : o = PlannedAt(p, i)
  OBVIOUS
<1>4. PICK b : b = bs[i] /\ b.pct \in 0 .. 100
  BY <1>1, <1>3, BeatsAre DEF PolarBeats
<1>5. PICK r \in 0 .. n : r = Round(b.pct, n)
  BY <1>4, RoundIs
<1>6. o = Least(n, Most(1, r))
  BY <1>1, <1>2, <1>3, <1>4, <1>5 DEF PlannedAt
<1>7. o \in 1 .. n
  BY <1>6 DEF Least, Most
<1>8. PICK T : T = {j \in PolarBeats(p) : PlannedAt(p, j) = o}
  OBVIOUS
<1>9. PICK k \in Nat : DOMAIN bs = 1 .. k
  BY BeatsAre
<1>10. T \subseteq 1 .. k /\ T # {}
  BY <1>1, <1>3, <1>8, <1>9 DEF PolarBeats
<1>11. PICK m \in T : m = Max(T)
  BY <1>10, GreatestOf
<1>12. bs[m].polarity \in {"up", "down", "flip"}
  BY <1>1, <1>8, <1>9, <1>10, <1>11, BeatsAre DEF PolarBeats
<1>13. PromisedAt(p, o) = POLARITY_TARGETS[bs[m].polarity]
  BY <1>1, <1>8, <1>11 DEF PromisedAt
<1> QED BY <1>2, <1>7, <1>12, <1>13 DEF POLARITY_TARGETS

(* The curve goes through what the beats promise. *)
LEMMA CurveKeepsPromises ==
  ASSUME NEW p, NEW here, PlanOK(p, here), NEW o, o \in {PlannedAt(p, i) : i \in PolarBeats(p)}
  PROVE  TargetCurve(p)[o] = [num |-> PromisedAt(p, o), den |-> 1]
<1>1. PICK n \in Nat \ {0} : n = p.target
  BY DEF PlanOK
<1>2. o \in 1 .. n
  BY <1>1, PromisesAre
<1> DEFINE Anchors == {PlannedAt(p, i) : i \in PolarBeats(p)} \cup {1, n}
           Value(x) == LET those == {i \in PolarBeats(p) : PlannedAt(p, i) = x} IN
                       IF those # {} THEN POLARITY_TARGETS[p.beats[Max(those)].polarity]
                       ELSE IF x = 1 THEN 30 ELSE 50
<1>3. TargetCurve(p) =
        [x \in 1 .. n |->
           LET a == Max({y \in Anchors : y <= x})  b == Min({y \in Anchors : y >= x}) IN
           IF a = b THEN [num |-> Value(a), den |-> 1]
           ELSE [num |-> Value(a) * (b - a) + (x - a) * (Value(b) - Value(a)), den |-> b - a]]
  BY <1>1 DEF TargetCurve, PlannedAt, PolarBeats
<1>4. PICK A : A = Anchors
  OBVIOUS
<1>5. o \in A /\ A \subseteq Nat
  BY <1>1, <1>4, PromisesAre
<1>6. Max({y \in A : y <= o}) = o
  BY <1>2, <1>5 DEF Max
<1>7. Min({y \in A : y >= o}) = o
  BY <1>2, <1>5 DEF Min
<1>8. Value(o) = PromisedAt(p, o)
  <2>1. {i \in PolarBeats(p) : PlannedAt(p, i) = o} # {}
    OBVIOUS
  <2> QED BY <2>1 DEF PromisedAt
<1> HIDE DEF Value
<1>9. TargetCurve(p)[o] = [num |-> Value(o), den |-> 1]
  <2> HIDE DEF Anchors
  <2> QED BY <1>2, <1>3, <1>4, <1>6, <1>7
<1> QED BY <1>8, <1>9

LEMMA ScoresAre ==
  ASSUME PacingInv
  PROVE  \A c \in DOMAIN scores : c \in ToSet(order) /\ scores[c] \in Int
<1>1. Tensions \subseteq 0 .. 100
  BY PacingAssumption
<1>2. ScoresOK
  BY DEF PacingInv
<1>3. ASSUME NEW c \in DOMAIN scores PROVE c \in ToSet(order) /\ scores[c] \in Tensions
  BY <1>2 DEF ScoresOK
<1>4. \A x \in Tensions : x \in Int
  <2>1. \A x \in 0 .. 100 : x \in Int
    OBVIOUS
  <2> QED BY <1>1, <2>1
<1> QED BY <1>3, <1>4

LEMMA DeviationsAre ==
  ASSUME PacingInv, plan # None, NEW c \in DOMAIN scores, NEW o,
         o = Least(plan.target, Ordinal(c, order)), o \in {PlannedAt(plan, i) : i \in PolarBeats(plan)}
  PROVE  (c \in TensionDeviations(plan, scores, order, TENSION_DELTA)) =
           (scores[c] > PromisedAt(plan, o) + TENSION_DELTA \/ scores[c] < PromisedAt(plan, o) - TENSION_DELTA)
<1>0. c \in ToSet(order) /\ scores[c] \in Int /\ PlanOK(plan, ToSet(order))
  BY ScoresAre DEF PacingInv, PlanIsOK
<1>1. PICK t \in Int : t = PromisedAt(plan, o)
  BY <1>0, PromisesAre
<1>2. PICK x \in Int : x = scores[c]
  BY <1>0
<1>3. PICK f : f = [num |-> t, den |-> 1]
  OBVIOUS
<1>4. TargetCurve(plan)[o] = f
  BY <1>0, <1>1, <1>3, CurveKeepsPromises
<1>5. c \in TensionDeviations(plan, scores, order, TENSION_DELTA) <=> Apart(x, f) > TENSION_DELTA * f.den
  BY <1>0, <1>2, <1>4 DEF TensionDeviations
<1>6. Apart(x, f) = IF x - t < 0 THEN t - x ELSE x - t
  <2>1. f.num = t /\ f.den = 1 /\ x * f.den - f.num = x - t
    BY <1>3
  <2> QED BY <2>1 DEF Apart
<1>7. TENSION_DELTA * f.den = 25 /\ TENSION_DELTA = 25
  BY <1>3 DEF TENSION_DELTA
<1>8. c \in TensionDeviations(plan, scores, order, TENSION_DELTA) <=> x > t + 25 \/ x < t - 25
  BY <1>5, <1>6, <1>7
<1> HIDE DEF TensionDeviations, PromisedAt
<1> QED BY <1>1, <1>2, <1>7, <1>8

LEMMA SagsAndSpikesAre ==
  ASSUME NEW sc, NEW D, D = DOMAIN sc
  PROVE  DetectSagSpike(sc, 30) =
           LET n == Cardinality(D)  sum == Total(sc, D) IN
           IF n < 2 THEN {}
           ELSE {<<c, "sag">> : c \in {d \in D : sc[d] * n - sum <= -30 * n}}
                  \cup {<<c, "spike">> : c \in {d \in D : sc[d] * n - sum >= 30 * n}}
BY DEF DetectSagSpike, Total

(* Scores of which none is a sag or a spike are close to each other. *)
LEMMA FlatIsClose ==
  ASSUME NEW sc, IsFiniteSet(DOMAIN sc), \A c \in DOMAIN sc : sc[c] \in Int,
         DetectSagSpike(sc, 30) = {}, NEW c \in DOMAIN sc, NEW d \in DOMAIN sc
  PROVE  sc[c] - sc[d] < 60
<1>1. PICK D : D = DOMAIN sc
  OBVIOUS
<1>2. PICK n \in Nat : n = Cardinality(D)
  BY <1>1, FS_CardinalityType
<1>3. PICK sum \in Int : sum = Total(sc, D)
  BY <1>1, SumIs
<1>4. CASE n < 2
  <2>1. n # 0
    BY <1>1, <1>2, FS_EmptySet
  <2>2. n = 1
    BY <1>4, <2>1
  <2>3. PICK x : D = {x}
    BY <1>1, <1>2, <2>2, FS_Singleton
  <2>4. c = d /\ sc[c] \in Int
    BY <1>1, <2>3
  <2> QED BY <2>4
<1>5. CASE ~(n < 2)
  <2>1. DetectSagSpike(sc, 30) =
          {<<e, "sag">> : e \in {g \in D : sc[g] * n - sum <= -30 * n}}
            \cup {<<e, "spike">> : e \in {g \in D : sc[g] * n - sum >= 30 * n}}
    BY <1>1, <1>2, <1>3, <1>5, SagsAndSpikesAre
  <2>2. \A g \in D : ~(sc[g] * n - sum <= -30 * n) /\ ~(sc[g] * n - sum >= 30 * n)
    BY <2>1
  <2>3. PICK x \in Int, y \in Int : x = sc[c] /\ y = sc[d]
    OBVIOUS
  <2>4. ~(y * n - sum <= -30 * n) /\ ~(x * n - sum >= 30 * n)
    BY <1>1, <2>2, <2>3
  <2>5. PICK u \in Int, v \in Int, w \in Int : u = x * n /\ v = y * n /\ w = 30 * n
    OBVIOUS
  <2>6. u - v < 2 * w
    <3>1. -30 * n = -w
      BY <2>5
    <3> QED BY <2>4, <2>5, <3>1
  <2>7. x - y < 60
    <3> SUFFICES ASSUME ~(x - y < 60) PROVE FALSE
      OBVIOUS
    <3>1. PICK z \in Nat : x = y + 60 + z
      <4>1. x - y - 60 \in Nat
        OBVIOUS
      <4> QED BY <4>1
    <3>2. u = v + 60 * n + z * n
      BY <2>5, <3>1
    <3>3. z * n >= 0
      OBVIOUS
    <3>4. u - v >= 2 * w
      BY <2>5, <3>2, <3>3
    <3> QED BY <2>6, <3>4
  <2> QED BY <2>3, <2>7
<1> QED BY <1>4, <1>5

LEMMA TensionFollows ==
  ASSUME PacingInv
  PROVE  TensionFollowsThePlan
<1> SUFFICES ASSUME plan # None PROVE TensionFollowsThePlan
  BY DEF TensionFollowsThePlan
<1>0. /\ DOMAIN scores \subseteq ToSet(order) /\ IsFiniteSet(ToSet(order))
      /\ \A c \in DOMAIN scores : scores[c] \in Int
  BY BookIs, ScoresAre DEF PacingInv
<1>1. PICK off : off = TensionDeviations(plan, scores, order, TENSION_DELTA)
  OBVIOUS
<1>2. ASSUME NEW c \in DOMAIN scores
      PROVE  LET o == Least(plan.target, Ordinal(c, order)) IN
             o \in {PlannedAt(plan, i) : i \in PolarBeats(plan)} =>
               (c \in off) = (scores[c] > PromisedAt(plan, o) + TENSION_DELTA
                              \/ scores[c] < PromisedAt(plan, o) - TENSION_DELTA)
  <2>1. PICK o : o = Least(plan.target, Ordinal(c, order))
    OBVIOUS
  <2>2. o \in {PlannedAt(plan, i) : i \in PolarBeats(plan)} =>
          (c \in off) = (scores[c] > PromisedAt(plan, o) + TENSION_DELTA
                         \/ scores[c] < PromisedAt(plan, o) - TENSION_DELTA)
    BY <1>1, <2>1, DeviationsAre, Zenon
  <2> QED BY <2>1, <2>2, Zenon
<1>3. ShapeTab(plan, scores, order, SAG_SPIKE_DELTA) = 0 =>
        \A c, d \in DOMAIN scores : scores[c] - scores[d] < 2 * SAG_SPIKE_DELTA
  <2> SUFFICES ASSUME ShapeTab(plan, scores, order, SAG_SPIKE_DELTA) = 0
               PROVE  \A c, d \in DOMAIN scores : scores[c] - scores[d] < 2 * SAG_SPIKE_DELTA
    OBVIOUS
  <2>1. PICK sc, D : sc = scores /\ D = DOMAIN sc
    OBVIOUS
  <2>2. IsFiniteSet(D)
    <3>1. PICK S : S = ToSet(order)
      OBVIOUS
    <3>2. IsFiniteSet(S) /\ D \in SUBSET S
      BY <1>0, <2>1, <3>1
    <3> QED BY <3>2, FS_Subset
  <2>3. PICK flags : flags = DetectSagSpike(sc, 30)
    OBVIOUS
  <2>4. IsFiniteSet(flags)
    <3>1. IsFiniteSet({"sag"}) /\ IsFiniteSet({"sag"} \cup {"spike"})
      BY FS_Singleton, FS_AddElement
    <3>2. PICK K : K = {"sag"} \cup {"spike"}
      OBVIOUS
    <3>3. IsFiniteSet(D \X K)
      BY <2>2, <3>1, <3>2, FS_Product
    <3>4. PICK P : P = D \X K
      OBVIOUS
    <3>5. PICK n, sum : flags = IF n < 2 THEN {}
                                ELSE {<<c, "sag">> : c \in {d \in D : sc[d] * n - sum <= -30 * n}}
                                  \cup {<<c, "spike">> : c \in {d \in D : sc[d] * n - sum >= 30 * n}}
      BY <2>1, <2>3, SagsAndSpikesAre
    <3>6. flags \in SUBSET P
      <4>1. ASSUME NEW e \in flags PROVE e \in P
        <5>1. \E c \in D : e = <<c, "sag">> \/ e = <<c, "spike">>
          BY <3>5
        <5> QED BY <3>2, <3>4, <5>1
      <4> QED BY <4>1
    <3> QED BY <3>3, <3>4, <3>6, FS_Subset
  <2>5. PICK wide : wide = TensionDeviations(plan, scores, order, 30)
    OBVIOUS
  <2>6. IsFiniteSet(wide)
    <3>1. wide \in SUBSET D
      BY <2>1, <2>5 DEF TensionDeviations
    <3> QED BY <2>2, <3>1, FS_Subset
  <2>7. PICK m \in Nat, k \in Nat : m = Cardinality(flags) /\ k = Cardinality(wide)
    BY <2>4, <2>6, FS_CardinalityType
  <2>8. m + k = 0
    BY <2>1, <2>3, <2>5, <2>7 DEF ShapeTab, SAG_SPIKE_DELTA
  <2>9. m = 0
    BY <2>8
  <2>10. flags = {}
    BY <2>4, <2>7, <2>9, FS_EmptySet
  <2>11. \A c, d \in D : sc[c] - sc[d] < 60
    BY <1>0, <2>1, <2>2, <2>3, <2>10, FlatIsClose
  <2> QED BY <2>1, <2>11 DEF SAG_SPIKE_DELTA
<1> HIDE DEF TensionDeviations, ShapeTab, TENSION_DELTA, SAG_SPIKE_DELTA, Least, Ordinal
<1> QED BY <1>1, <1>2, <1>3, Zenon DEF TensionFollowsThePlan, PlannedAt, PolarBeats, PromisedAt

(* Tension is held to the plan, for any scores, tolerances of the beats and target:
   a chapter at a planned beat is off plan just when it misses what the beat
   promises; and a curve with no alarm on it is flat. *)
THEOREM TensionIsHeld == PacingSpec => []TensionFollowsThePlan
BY TensionFollows, PacingInvariant, PTL

-----------------------------------------------------------------------------
(* Windows in their order *)

WindowsOK(w) ==
  \A i \in DOMAIN w : w[i][1] \in Nat /\ w[i][2] \in Nat /\ w[i][1] <= w[i][2]

(* Among some windows there is one that none is before. *)
LEMMA FirstWindow ==
  ASSUME NEW w, WindowsOK(w), NEW S, S \subseteq DOMAIN w, S # {}
  PROVE  \E m \in S : \A j \in S : ~Earlier(w[j], w[m])
<1>1. PICK T : T = {w[i][1] : i \in S}
  OBVIOUS
<1>2. T \subseteq Nat /\ T # {}
  BY <1>1 DEF WindowsOK
<1>3. PICK lo \in T : \A y \in T : lo <= y
  BY <1>2, LeastOf
<1>4. PICK U : U = {w[i][2] : i \in {j \in S : w[j][1] = lo}}
  OBVIOUS
<1>5. U \subseteq Nat /\ U # {}
  BY <1>1, <1>3, <1>4 DEF WindowsOK
<1>6. PICK hi \in U : \A y \in U : hi <= y
  BY <1>5, LeastOf
<1>7. PICK m \in S : w[m][1] = lo /\ w[m][2] = hi
  BY <1>4
<1>8. ASSUME NEW j \in S PROVE ~Earlier(w[j], w[m])
  <2>1. w[j][1] \in Nat /\ w[j][2] \in Nat /\ lo \in Nat /\ hi \in Nat
    BY <1>2, <1>5 DEF WindowsOK
  <2>2. lo <= w[j][1]
    BY <1>1, <1>3
  <2>3. w[j][1] = lo => hi <= w[j][2]
    BY <1>4, <1>6
  <2> QED BY <1>7, <2>1, <2>2, <2>3 DEF Earlier
<1> QED BY <1>8

Sorted(s, w) == \A i, j \in DOMAIN s : i < j => ~Earlier(w[s[j]], w[s[i]])

(* So the windows can be put in order. *)
LEMMA SortExists ==
  ASSUME NEW w, WindowsOK(w), IsFiniteSet(DOMAIN w)
  PROVE  \E s \in SetToSeqs(DOMAIN w) : Sorted(s, w)
<1> DEFINE Good(S) == \E s \in SetToSeqs(S) : Sorted(s, w)
           Bad == {n \in Nat : \E S \in SUBSET DOMAIN w : IsFiniteSet(S) /\ Cardinality(S) = n /\ ~Good(S)}
<1> SUFFICES ASSUME ~Good(DOMAIN w) PROVE FALSE
  OBVIOUS
<1> HIDE DEF Good
<1>1. PICK B : B = Bad
  OBVIOUS
<1>2. B # {} /\ B \subseteq Nat
  <2>1. PICK D : D = DOMAIN w
    OBVIOUS
  <2>2. Cardinality(D) \in Nat
    BY <2>1, FS_CardinalityType
  <2> QED BY <1>1, <2>1, <2>2
<1>3. PICK n \in B : \A y \in B : n <= y
  BY <1>2, LeastOf
<1>4. PICK S \in SUBSET DOMAIN w : IsFiniteSet(S) /\ Cardinality(S) = n /\ ~Good(S)
  BY <1>1
<1>5. S # {}
  <2> SUFFICES ASSUME S = {} PROVE FALSE
    OBVIOUS
  <2>1. Cardinality(S) = 0
    BY FS_EmptySet
  <2>2. PICK s : s = [i \in 1 .. 0 |-> 0]
    OBVIOUS
  <2>3. s \in SetToSeqs(S) /\ Sorted(s, w)
    <3>1. 1 .. 0 = {}
      OBVIOUS
    <3>2. s \in [1 .. 0 -> S]
      BY <2>2, <3>1
    <3> QED BY <2>1, <2>2, <3>1, <3>2 DEF SetToSeqs, Sorted
  <2> QED BY <1>4, <2>3 DEF Good
<1>6. PICK m \in S : \A j \in S : ~Earlier(w[j], w[m])
  BY <1>5, FirstWindow
<1>7. PICK R : R = S \ {m}
  OBVIOUS
<1>8. IsFiniteSet(R) /\ Cardinality(R) = n - 1 /\ R \in SUBSET DOMAIN w
  BY <1>4, <1>6, <1>7, FS_RemoveElement
<1>9. n - 1 \in Nat
  <2>1. Cardinality(R) \in Nat
    BY <1>8, FS_CardinalityType
  <2> QED BY <1>8, <2>1
<1>10. Good(R)
  <2>1. n - 1 \notin B
    BY <1>2, <1>3, <1>9
  <2> QED BY <1>1, <1>8, <1>9, <2>1
<1>11. PICK k \in Nat : n = k + 1
  BY <1>2, <1>9
<1>12. PICK t \in SetToSeqs(R) : Sorted(t, w)
  BY <1>10 DEF Good
<1>13. /\ t \in [1 .. k -> R] /\ DOMAIN t = 1 .. k
       /\ \A i, j \in 1 .. k : i # j => t[i] # t[j]
  BY <1>8, <1>11, <1>12 DEF SetToSeqs
<1>14. PICK s : s = [i \in 1 .. k + 1 |-> IF i = 1 THEN m ELSE t[i - 1]]
  OBVIOUS
<1>15. /\ DOMAIN s = 1 .. k + 1 /\ s[1] = m
       /\ \A i \in 1 .. k + 1 : i # 1 => i - 1 \in 1 .. k /\ s[i] = t[i - 1] /\ s[i] \in R
  BY <1>13, <1>14
<1>16. s \in SetToSeqs(S)
  <2>1. s \in [1 .. k + 1 -> S]
    BY <1>7, <1>14, <1>15
  <2>2. ASSUME NEW i \in 1 .. k + 1, NEW j \in 1 .. k + 1, i # j PROVE s[i] # s[j]
    <3>1. CASE i = 1
      BY <1>7, <1>15, <2>2, <3>1
    <3>2. CASE j = 1
      BY <1>7, <1>15, <2>2, <3>2
    <3>3. CASE i # 1 /\ j # 1
      <4>1. i - 1 # j - 1
        BY <2>2
      <4> QED BY <1>13, <1>15, <3>3, <4>1
    <3> QED BY <3>1, <3>2, <3>3
  <2> QED BY <1>4, <1>11, <2>1, <2>2 DEF SetToSeqs
<1>17. Sorted(s, w)
  <2> SUFFICES ASSUME NEW i \in 1 .. k + 1, NEW j \in 1 .. k + 1, i < j
               PROVE  ~Earlier(w[s[j]], w[s[i]])
    BY <1>15 DEF Sorted
  <2>1. s[j] \in S /\ j # 1
    BY <1>7, <1>15
  <2>2. CASE i = 1
    BY <1>6, <1>15, <2>1, <2>2
  <2>3. CASE i # 1
    <3>1. i - 1 < j - 1
      OBVIOUS
    <3>2. PICK a \in 1 .. k, b \in 1 .. k : a = i - 1 /\ b = j - 1 /\ a < b /\ s[i] = t[a] /\ s[j] = t[b]
      BY <1>15, <2>1, <2>3, <3>1
    <3> QED BY <1>12, <1>13, <3>2 DEF Sorted
  <2> QED BY <2>2, <2>3
<1> QED BY <1>4, <1>16, <1>17 DEF Good

LEMMA InOrderIs ==
  ASSUME NEW w, WindowsOK(w), IsFiniteSet(DOMAIN w)
  PROVE  /\ InOrder(w) \in [1 .. Cardinality(DOMAIN w) -> DOMAIN w]
         /\ \A i, j \in 1 .. Cardinality(DOMAIN w) :
              i # j => InOrder(w)[i] # InOrder(w)[j]
         /\ \A i, j \in 1 .. Cardinality(DOMAIN w) :
              i < j => w[InOrder(w)[i]][1] <= w[InOrder(w)[j]][1]
<1>1. InOrder(w) = CHOOSE s \in SetToSeqs(DOMAIN w) : Sorted(s, w)
  BY DEF InOrder, Sorted
<1>2. PICK s \in SetToSeqs(DOMAIN w) : s = InOrder(w) /\ Sorted(s, w)
  BY <1>1, SortExists, Zenon
<1>3. PICK n : n = Cardinality(DOMAIN w)
  OBVIOUS
<1>4. s \in [1 .. n -> DOMAIN w] /\ (\A i, j \in 1 .. n : i # j => s[i] # s[j]) /\ DOMAIN s = 1 .. n
  BY <1>3 DEF SetToSeqs
<1>5. ASSUME NEW i \in 1 .. n, NEW j \in 1 .. n, i < j PROVE w[s[i]][1] <= w[s[j]][1]
  <2>1. ~Earlier(w[s[j]], w[s[i]])
    BY <1>2, <1>4, <1>5 DEF Sorted
  <2>2. w[s[i]][1] \in Nat /\ w[s[j]][1] \in Nat
    BY <1>4, <1>5 DEF WindowsOK
  <2> QED BY <2>1, <2>2 DEF Earlier
<1> QED BY <1>2, <1>3, <1>4, <1>5

-----------------------------------------------------------------------------
(* The sweep *)

One(v) == [lo |-> v[1], hi |-> v[2], count |-> 1]
Sweep(g, s, w, k) == IF k = 1 THEN <<One(w[s[k]])>> ELSE Widen(g[k - 1], w[s[k]])

SweptBy(g, s, w, n) == g = [k \in 1 .. n |-> Sweep(g, s, w, k)]

LEMMA SweepExists ==
  ASSUME NEW w, NEW s, NEW n \in Nat
  PROVE  \E g : SweptBy(g, s, w, n)
<1> DEFINE Upto(g, j) == \A k \in 1 .. n : k <= j => g[k] = Sweep(g, s, w, k)
           Bad == {j \in Nat : ~ \E g : Upto(g, j)}
<1> HIDE DEF Upto
<1>1. \E g : Upto(g, n)
  <2> SUFFICES ASSUME ~ \E g : Upto(g, n) PROVE FALSE
    OBVIOUS
  <2>1. PICK B : B = Bad
    OBVIOUS
  <2>2. B \subseteq Nat /\ B # {}
    BY <2>1
  <2>3. PICK m \in B : \A y \in B : m <= y
    BY <2>2, LeastOf
  <2>4. m \in Nat /\ ~ \E g : Upto(g, m)
    BY <2>1
  <2>5. m # 0
    <3> SUFFICES ASSUME m = 0 PROVE FALSE
      OBVIOUS
    <3>1. \A k \in 1 .. n : ~(k <= 0)
      OBVIOUS
    <3>2. Upto(<<>>, m)
      BY <3>1 DEF Upto
    <3> QED BY <2>4, <3>2
  <2>6. PICK j \in Nat : m = j + 1
    BY <2>4, <2>5
  <2>7. PICK g : Upto(g, j)
    <3>1. j \notin B
      BY <2>3, <2>6
    <3> QED BY <2>1, <3>1
  <2>8. PICK h : h = [k \in 1 .. n |-> Sweep(g, s, w, k)]
    OBVIOUS
  <2>9. ASSUME NEW k \in 1 .. n, k <= m PROVE h[k] = Sweep(h, s, w, k)
    <3>1. h[k] = Sweep(g, s, w, k)
      BY <2>8
    <3>2. CASE k = 1
      BY <3>1, <3>2 DEF Sweep
    <3>3. CASE k # 1
      <4>1. k - 1 \in 1 .. n /\ k - 1 <= j
        BY <2>6, <2>9, <3>3
      <4>2. h[k - 1] = Sweep(g, s, w, k - 1) /\ g[k - 1] = Sweep(g, s, w, k - 1)
        <5>1. PICK l \in 1 .. n : l = k - 1 /\ l <= j
          BY <4>1
        <5>2. h[l] = Sweep(g, s, w, l)
          BY <2>8
        <5>3. g[l] = Sweep(g, s, w, l)
          BY <2>7, <5>1 DEF Upto
        <5> HIDE DEF Sweep
        <5> QED BY <5>1, <5>2, <5>3
      <4> QED BY <3>1, <3>3, <4>2 DEF Sweep
    <3> QED BY <3>2, <3>3
  <2>10. Upto(h, m)
    BY <2>9 DEF Upto
  <2> QED BY <2>4, <2>10
<1>2. PICK g : Upto(g, n)
  BY <1>1
<1>3. PICK h : h = [k \in 1 .. n |-> g[k]]
  OBVIOUS
<1>4. ASSUME NEW k \in 1 .. n PROVE g[k] = Sweep(h, s, w, k)
  <2>1. g[k] = Sweep(g, s, w, k)
    BY <1>2 DEF Upto
  <2>2. k # 1 => h[k - 1] = g[k - 1]
    <3>1. k # 1 => k - 1 \in 1 .. n
      OBVIOUS
    <3> QED BY <1>3, <3>1
  <2> QED BY <2>1, <2>2 DEF Sweep
<1>5. SweptBy(h, s, w, n)
  <2> HIDE DEF Sweep
  <2> QED BY <1>3, <1>4 DEF SweptBy
<1> QED BY <1>5

LEMMA SpansAreSwept ==
  ASSUME NEW w, WindowsOK(w), IsFiniteSet(DOMAIN w), NEW n \in Nat \ {0}, n = Cardinality(DOMAIN w)
  PROVE  \E g : Spans(w) = g[n] /\ \A k \in 1 .. n : g[k] = Sweep(g, InOrder(w), w, k)
<1>1. PICK s, D : s = InOrder(w) /\ D = DOMAIN w
  OBVIOUS
<1>2. s \in [1 .. n -> D]
  BY <1>1, InOrderIs
<1>3. s \in Seq(D) /\ Len(s) = n
  <2>1. s \in Seq(D)
    BY <1>2, SeqDef
  <2> QED BY <1>2, <2>1, LenProperties
<1> DEFINE merged == CHOOSE g : SweptBy(g, s, w, n)
<1>4. Spans(w) = merged[n]
  <2>1. PICK t : t = s /\ Len(t) = n /\ t = InOrder(w)
    BY <1>1, <1>3
  <2> DEFINE other == CHOOSE g : g = [k \in 1 .. Len(t) |->
                        LET v == w[t[k]] IN
                        IF k = 1 THEN <<[lo |-> v[1], hi |-> v[2], count |-> 1]>> ELSE Widen(g[k - 1], v)]
  <2>2. Spans(w) = other[Len(t)]
    BY <2>1 DEF Spans
  <2>3. other = CHOOSE g : g = [k \in 1 .. n |->
                        LET v == w[s[k]] IN
                        IF k = 1 THEN <<[lo |-> v[1], hi |-> v[2], count |-> 1]>> ELSE Widen(g[k - 1], v)]
    BY <2>1
  <2>4. other = merged
    BY <2>3 DEF SweptBy, Sweep, One
  <2> HIDE DEF other, merged
  <2> QED BY <2>1, <2>2, <2>4
<1>5. SweptBy(merged, s, w, n)
  <2>0. n \in Nat
    OBVIOUS
  <2>1. \E g : SweptBy(g, s, w, n)
    BY <2>0, SweepExists, Zenon
  <2> QED BY <2>1, Zenon
<1>6. PICK g : g = merged /\ SweptBy(g, s, w, n)
  BY <1>5, Zenon
<1>7. \A k \in 1 .. n : g[k] = Sweep(g, s, w, k)
  <2> HIDE DEF Sweep
  <2> QED BY <1>6 DEF SweptBy
<1> HIDE DEF merged
<1> QED BY <1>1, <1>4, <1>6, <1>7

-----------------------------------------------------------------------------
(* What the sweep keeps *)

Meets(w, i, j) == w[i][1] <= w[j][2] /\ w[j][1] <= w[i][2]

(* Windows that no part of hangs together alone *)
Tight(w, b) ==
  b # {} /\ \A c \in SUBSET b : c # {} /\ (\A i \in c, j \in b : Meets(w, i, j) => j \in c) => c = b

Spanned(w, b, r) ==
  /\ r = [lo |-> r.lo, hi |-> r.hi, count |-> r.count] /\ r.lo \in Nat /\ r.hi \in Nat /\ r.count \in Nat
  /\ \E i \in b : w[i][1] = r.lo
  /\ \E i \in b : w[i][2] = r.hi
  /\ \A i \in b : r.lo <= w[i][1] /\ w[i][2] <= r.hi
  /\ IsFiniteSet(b) /\ r.count = Cardinality(b)

Swept(w, S, sp, B, m) ==
  /\ sp \in Seq({r \in [lo : Nat, hi : Nat, count : Nat] : TRUE}) /\ Len(sp) = m
  /\ B \in [1 .. m -> SUBSET S]
  /\ \A i \in S : \E b \in 1 .. m : i \in B[b]
  /\ \A b, c \in 1 .. m : b # c => \A i \in B[b], j \in B[c] : ~Meets(w, i, j)
  /\ \A b \in 1 .. m : Tight(w, B[b]) /\ Spanned(w, B[b], sp[b])
  /\ \A i \in S : w[i][2] <= sp[m].hi
  /\ \A i \in S : i \notin B[m] => w[i][2] < sp[m].lo

LEMMA SweepBegins ==
  ASSUME NEW w, WindowsOK(w), NEW x \in DOMAIN w
  PROVE  \E B : Swept(w, {x}, <<One(w[x])>>, B, 1)
<1>1. PICK r : r = One(w[x])
  OBVIOUS
<1>2. /\ r = [lo |-> w[x][1], hi |-> w[x][2], count |-> 1] /\ r.lo = w[x][1] /\ r.hi = w[x][2] /\ r.count = 1
      /\ r \in [lo : Nat, hi : Nat, count : Nat]
  BY <1>1 DEF One, WindowsOK
<1>3. PICK sp : sp = <<r>>
  OBVIOUS
<1>4. sp \in Seq({q \in [lo : Nat, hi : Nat, count : Nat] : TRUE}) /\ Len(sp) = 1 /\ sp[1] = r
  BY <1>2, <1>3
<1>5. PICK B : B = [b \in 1 .. 1 |-> {x}]
  OBVIOUS
<1>6. B \in [1 .. 1 -> SUBSET {x}] /\ B[1] = {x} /\ \A b \in 1 .. 1 : b = 1
  BY <1>5
<1>7. Tight(w, {x})
  BY DEF Tight
<1>8. Spanned(w, {x}, r)
  <2>1. IsFiniteSet({x}) /\ Cardinality({x}) = 1
    BY FS_Singleton
  <2>2. w[x][1] \in Nat /\ w[x][2] \in Nat
    BY DEF WindowsOK
  <2> QED BY <1>2, <2>1, <2>2 DEF Spanned
<1>9. \A i \in {x} : w[i][2] <= r.hi
  BY <1>2
<1> HIDE DEF Tight, Spanned
<1>10. Swept(w, {x}, sp, B, 1)
  <2>1. \A i \in {x} : \E b \in 1 .. 1 : i \in B[b]
    BY <1>6
  <2>2. \A b, c \in 1 .. 1 : b # c => \A i \in B[b], j \in B[c] : ~Meets(w, i, j)
    BY <1>6
  <2>3. \A b \in 1 .. 1 : Tight(w, B[b]) /\ Spanned(w, B[b], sp[b])
    BY <1>4, <1>6, <1>7, <1>8
  <2>4. \A i \in {x} : w[i][2] <= sp[1].hi
    BY <1>4, <1>9
  <2>5. \A i \in {x} : i \notin B[1] => w[i][2] < sp[1].lo
    BY <1>6
  <2> QED BY <1>4, <1>6, <2>1, <2>2, <2>3, <2>4, <2>5 DEF Swept
<1> QED BY <1>1, <1>3, <1>10

(* A window more that begins before the last span ends *)
LEMMA SweepMerges ==
  ASSUME NEW w, WindowsOK(w), NEW S \in SUBSET DOMAIN w, NEW m \in Nat \ {0}, NEW sp, NEW B,
         Swept(w, S, sp, B, m), NEW x \in DOMAIN w, x \notin S,
         \A i \in S : w[i][1] <= w[x][1], w[x][1] <= sp[m].hi
  PROVE  \E A : Swept(w, S \cup {x}, Widen(sp, w[x]), A, m)
<1> DEFINE Recs == {r \in [lo : Nat, hi : Nat, count : Nat] : TRUE}
<1>1. PICK lo \in Nat, hi \in Nat : lo = w[x][1] /\ hi = w[x][2] /\ lo <= hi
  BY DEF WindowsOK
<1>2. PICK r : r = sp[m] /\ Spanned(w, B[m], r) /\ Tight(w, B[m]) /\ B[m] \in SUBSET S
  BY DEF Swept
<1>3. PICK q : q = [lo |-> r.lo, hi |-> Most(r.hi, hi), count |-> r.count + 1]
  OBVIOUS
<1>4. r.lo \in Nat /\ r.hi \in Nat /\ r.count \in Nat /\ r = [lo |-> r.lo, hi |-> r.hi, count |-> r.count]
  BY <1>2 DEF Spanned
<1>5. q.lo = r.lo /\ q.hi \in Nat /\ q.hi >= r.hi /\ q.hi >= hi /\ (q.hi = r.hi \/ q.hi = hi)
      /\ q.count = r.count + 1 /\ q \in Recs
  BY <1>1, <1>3, <1>4 DEF Most
<1>6. [r EXCEPT !.hi = Most(@, hi), !.count = @ + 1] = q
  <2>1. PICK a \in Nat, b \in Nat, c \in Nat : a = r.lo /\ b = r.hi /\ c = r.count
    BY <1>4
  <2>2. r = [lo |-> a, hi |-> b, count |-> c]
    BY <1>4, <2>1
  <2>3. PICK u : u = [r EXCEPT !.hi = Most(b, hi)]
    OBVIOUS
  <2>4. u = [lo |-> a, hi |-> Most(b, hi), count |-> c]
    BY <2>2, <2>3
  <2>5. [u EXCEPT !.count = c + 1] = [lo |-> a, hi |-> Most(b, hi), count |-> c + 1]
    BY <2>4
  <2>6. [r EXCEPT !.hi = Most(@, hi), !.count = @ + 1] = [u EXCEPT !.count = c + 1]
    BY <2>1, <2>2, <2>3, <2>4
  <2> QED BY <1>3, <2>1, <2>5, <2>6, Zenon
<1>7. PICK f : f = Front(sp) /\ f \in Seq(Recs) /\ Len(f) = m - 1 /\ \A b \in 1 .. m - 1 : f[b] = sp[b]
  <2>1. sp \in Seq(Recs) /\ Len(sp) = m
    BY DEF Swept
  <2>2. \A b \in 1 .. m - 1 : sp[b] \in Recs
    BY <2>1, ElementOfSeq
  <2>3. /\ SubSeq(sp, 1, m - 1) \in Seq(Recs)
        /\ Len(SubSeq(sp, 1, m - 1)) = m - 1
        /\ \A b \in 1 .. m - 1 : SubSeq(sp, 1, m - 1)[b] = sp[b]
    <3>1. PICK k \in Int, one \in Int : k = m - 1 /\ one = 1
      OBVIOUS
    <3>2. /\ SubSeq(sp, one, k) \in Seq(Recs)
          /\ Len(SubSeq(sp, one, k)) = IF one <= k THEN k - one + 1 ELSE 0
          /\ \A i \in 1 .. k - one + 1 : SubSeq(sp, one, k)[i] = sp[one + i - 1]
      BY <2>2, <3>1, SubSeqProperties
    <3> QED BY <3>1, <3>2
  <2> QED BY <2>1, <2>3 DEF Front
<1>8. PICK new : new = Append(f, q)
  OBVIOUS
<1>9. new \in Seq(Recs) /\ Len(new) = m /\ new[m] = q /\ \A b \in 1 .. m - 1 : new[b] = sp[b]
  <2>1. PICK R : R = Recs
    OBVIOUS
  <2>2. f \in Seq(R) /\ q \in R /\ Len(f) = m - 1
    BY <1>5, <1>7, <2>1
  <2>3. Append(f, q) \in Seq(R) /\ Len(Append(f, q)) = Len(f) + 1
        /\ (\A i \in 1 .. Len(f) : Append(f, q)[i] = f[i]) /\ Append(f, q)[Len(f) + 1] = q
    BY <2>2, AppendProperties
  <2> QED BY <1>7, <1>8, <2>1, <2>2, <2>3
<1>10. Widen(sp, w[x]) = new
  <2>1. Last(sp) = r
    BY <1>2 DEF Last, Swept
  <2> QED BY <1>1, <1>2, <1>6, <1>7, <1>8, <2>1 DEF Widen
<1>11. PICK A : A = [B EXCEPT ![m] = B[m] \cup {x}]
  OBVIOUS
<1>12. A \in [1 .. m -> SUBSET (S \cup {x})] /\ A[m] = B[m] \cup {x} /\ \A b \in 1 .. m : b # m => A[b] = B[b]
  BY <1>11 DEF Swept
<1>13. PICK y \in B[m] : w[y][2] = r.hi
  BY <1>2 DEF Spanned
<1>14. Meets(w, x, y) /\ Meets(w, y, x)
  <2>1. w[y][1] \in Nat /\ w[y][2] \in Nat /\ w[y][1] <= w[x][1]
    BY <1>2, <1>13 DEF WindowsOK
  <2> QED BY <1>1, <1>2, <1>13, <2>1 DEF Meets
<1>15. Tight(w, A[m])
  <2> SUFFICES ASSUME NEW c \in SUBSET A[m], c # {}, \A i \in c, j \in A[m] : Meets(w, i, j) => j \in c
               PROVE  c = A[m]
    BY <1>12 DEF Tight
  <2>1. c \cap B[m] # {}
    BY <1>12, <1>13, <1>14
  <2>2. c \cap B[m] = B[m]
    <3>1. PICK d : d = c \cap B[m]
      OBVIOUS
    <3>2. d \in SUBSET B[m] /\ d # {} /\ \A i \in d, j \in B[m] : Meets(w, i, j) => j \in d
      BY <1>12, <2>1, <3>1
    <3> QED BY <1>2, <3>1, <3>2 DEF Tight
  <2>3. y \in c
    BY <1>13, <2>2
  <2>4. x \in c
    BY <1>12, <1>14, <2>3
  <2> QED BY <1>12, <2>2, <2>4
<1>16. Spanned(w, A[m], q)
  <2>1. IsFiniteSet(A[m]) /\ Cardinality(A[m]) = r.count + 1
    <3>1. PICK b : b = B[m] /\ IsFiniteSet(b) /\ Cardinality(b) = r.count /\ x \notin b
      BY <1>2 DEF Spanned
    <3>2. IsFiniteSet(b \cup {x}) /\ Cardinality(b \cup {x}) = Cardinality(b) + 1
      BY <3>1, FS_AddElement
    <3> QED BY <1>12, <3>1, <3>2
  <2>2. q = [lo |-> q.lo, hi |-> q.hi, count |-> q.count] /\ q.lo \in Nat /\ q.count \in Nat
    BY <1>3, <1>4, <1>5
  <2>3. \E i \in A[m] : w[i][1] = q.lo
    BY <1>2, <1>5, <1>12 DEF Spanned
  <2>4. \E i \in A[m] : w[i][2] = q.hi
    BY <1>1, <1>2, <1>5, <1>12 DEF Spanned
  <2>5. ASSUME NEW i \in A[m] PROVE q.lo <= w[i][1] /\ w[i][2] <= q.hi
    <3>1. CASE i = x
      <4>1. PICK z \in B[m] : w[z][1] = r.lo
        BY <1>2 DEF Spanned
      <4>2. w[z][1] <= w[x][1]
        BY <1>2
      <4> QED BY <1>1, <1>5, <3>1, <4>1, <4>2
    <3>2. CASE i \in B[m]
      <4>1. r.lo <= w[i][1] /\ w[i][2] <= r.hi
        BY <1>2, <3>2 DEF Spanned
      <4>2. w[i][2] \in Nat
        BY <1>2, <3>2 DEF WindowsOK
      <4> QED BY <1>4, <1>5, <4>1, <4>2
    <3> QED BY <1>12, <3>1, <3>2
  <2> QED BY <1>5, <2>1, <2>2, <2>3, <2>4, <2>5 DEF Spanned
<1>17. ASSUME NEW i \in S, i \notin B[m] PROVE w[i][2] < r.lo /\ ~Meets(w, i, x) /\ ~Meets(w, x, i)
  <2>1. w[i][2] < r.lo /\ w[i][2] \in Nat
    BY <1>2, <1>17 DEF Swept, WindowsOK
  <2>2. PICK z \in B[m] : w[z][1] = r.lo
    BY <1>2 DEF Spanned
  <2>3. r.lo <= lo
    BY <1>1, <1>2, <2>2
  <2>4. w[i][2] < lo
    BY <1>1, <1>4, <2>1, <2>3
  <2> QED BY <1>1, <2>1, <2>4 DEF Meets
<1>18. ASSUME NEW b \in 1 .. m, NEW c \in 1 .. m, b # c, NEW i \in A[b], NEW j \in A[c]
       PROVE  ~Meets(w, i, j)
  <2>1. \A d \in 1 .. m : d # m => \A k \in B[d] : k \in S /\ k \notin B[m]
    <3> SUFFICES ASSUME NEW d \in 1 .. m, d # m, NEW k \in B[d] PROVE k \in S /\ k \notin B[m]
      OBVIOUS
    <3>1. k \in S
      BY DEF Swept
    <3>2. Meets(w, k, k)
      BY <3>1 DEF Meets, WindowsOK
    <3>3. m \in 1 .. m
      OBVIOUS
    <3> QED BY <3>1, <3>2, <3>3 DEF Swept
  <2>2. CASE i \in B[b] /\ j \in B[c]
    BY <1>18, <2>2 DEF Swept
  <2>3. CASE i = x /\ b = m
    <3>1. c # m /\ j \in B[c]
      BY <1>12, <1>18, <2>3
    <3> QED BY <1>17, <2>1, <2>3, <3>1
  <2>4. CASE j = x /\ c = m
    <3>1. b # m /\ i \in B[b]
      BY <1>12, <1>18, <2>4
    <3> QED BY <1>17, <2>1, <2>4, <3>1
  <2> QED BY <1>12, <2>2, <2>3, <2>4
<1> HIDE DEF Tight, Spanned, Meets, Recs
<1>19. Swept(w, S \cup {x}, new, A, m)
  <2>0. m \in 1 .. m
    OBVIOUS
  <2>1. \A i \in S \cup {x} : \E b \in 1 .. m : i \in A[b]
    <3>1. \A i \in S : \E b \in 1 .. m : i \in B[b]
      BY DEF Swept
    <3> QED BY <1>12, <2>0, <3>1
  <2>2. \A b \in 1 .. m : Tight(w, A[b]) /\ Spanned(w, A[b], new[b])
    <3> SUFFICES ASSUME NEW b \in 1 .. m PROVE Tight(w, A[b]) /\ Spanned(w, A[b], new[b])
      OBVIOUS
    <3>1. CASE b = m
      BY <1>9, <1>15, <1>16, <3>1
    <3>2. CASE b # m
      <4>1. A[b] = B[b] /\ new[b] = sp[b]
        BY <1>9, <1>12, <3>2
      <4> QED BY <4>1 DEF Swept
    <3> QED BY <3>1, <3>2
  <2>3. \A i \in S \cup {x} : w[i][2] <= new[m].hi
    <3>1. \A i \in S : w[i][2] <= r.hi /\ w[i][2] \in Nat
      BY <1>2 DEF Swept, WindowsOK
    <3> QED BY <1>1, <1>4, <1>5, <1>9, <3>1
  <2>4. \A i \in S \cup {x} : i \notin A[m] => w[i][2] < new[m].lo
    BY <1>5, <1>9, <1>12, <1>17
  <2> QED BY <1>9, <1>12, <1>18, <2>1, <2>2, <2>3, <2>4 DEF Swept, Recs
<1> QED BY <1>10, <1>19


(* A window more that begins after the last span has ended *)
LEMMA SweepAppends ==
  ASSUME NEW w, WindowsOK(w), NEW S \in SUBSET DOMAIN w, NEW m \in Nat \ {0}, NEW sp, NEW B,
         Swept(w, S, sp, B, m), NEW x \in DOMAIN w, x \notin S, ~(w[x][1] <= sp[m].hi)
  PROVE  \E A : Swept(w, S \cup {x}, Widen(sp, w[x]), A, m + 1)
<1>1. PICK lo \in Nat, hi \in Nat : lo = w[x][1] /\ hi = w[x][2] /\ lo <= hi
  BY DEF WindowsOK
<1>2. PICK q : q = One(w[x])
  OBVIOUS
<1>3. q = [lo |-> lo, hi |-> hi, count |-> 1] /\ q.lo = lo /\ q.hi = hi /\ q.count = 1
      /\ q \in [lo : Nat, hi : Nat, count : Nat]
  BY <1>1, <1>2 DEF One
<1>4. PICK R : R = {r \in [lo : Nat, hi : Nat, count : Nat] : TRUE}
  OBVIOUS
<1>5. PICK n \in Nat : n = m + 1 /\ n \in 1 .. n /\ n # m /\ (\A b \in 1 .. n : b # n => b \in 1 .. m)
                       /\ (\A b \in 1 .. m : b \in 1 .. n /\ b # n)
  OBVIOUS
<1>6. PICK new : new = Append(sp, q)
  OBVIOUS
<1>7. new \in Seq(R) /\ Len(new) = n /\ new[n] = q /\ \A b \in 1 .. m : new[b] = sp[b]
  <2>1. sp \in Seq(R) /\ q \in R /\ Len(sp) = m
    BY <1>3, <1>4 DEF Swept
  <2>2. Append(sp, q) \in Seq(R) /\ Len(Append(sp, q)) = Len(sp) + 1
        /\ (\A i \in 1 .. Len(sp) : Append(sp, q)[i] = sp[i]) /\ Append(sp, q)[Len(sp) + 1] = q
    BY <2>1, AppendProperties
  <2> QED BY <1>5, <1>6, <2>1, <2>2
<1>8. Widen(sp, w[x]) = new
  <2>1. Last(sp) = sp[m]
    BY DEF Last, Swept
  <2> QED BY <1>1, <1>3, <1>6, <2>1 DEF Widen
<1>9. PICK A : A = [b \in 1 .. n |-> IF b = n THEN {x} ELSE B[b]]
  OBVIOUS
<1>10. A \in [1 .. n -> SUBSET (S \cup {x})] /\ A[n] = {x} /\ \A b \in 1 .. m : A[b] = B[b] /\ B[b] \subseteq S
  <2>1. \A b \in 1 .. m : B[b] \subseteq S
    BY DEF Swept
  <2> QED BY <1>5, <1>9, <2>1
<1>11. ASSUME NEW i \in S PROVE w[i][2] < lo /\ ~Meets(w, i, x) /\ ~Meets(w, x, i)
  <2>1. w[i][2] <= sp[m].hi /\ w[i][2] \in Nat
    BY DEF Swept, WindowsOK
  <2>2. sp[m].hi \in Nat
    BY DEF Swept, Spanned
  <2>3. w[i][2] < lo
    BY <1>1, <2>1, <2>2
  <2> QED BY <1>1, <2>1, <2>3 DEF Meets
<1>12. Tight(w, {x})
  BY DEF Tight
<1>13. Spanned(w, {x}, q)
  <2>1. IsFiniteSet({x}) /\ Cardinality({x}) = 1
    BY FS_Singleton
  <2> QED BY <1>1, <1>3, <2>1 DEF Spanned
<1>14. ASSUME NEW b \in 1 .. n, NEW c \in 1 .. n, b # c, NEW i \in A[b], NEW j \in A[c]
       PROVE  ~Meets(w, i, j)
  <2>1. CASE b = n
    BY <1>5, <1>10, <1>11, <1>14, <2>1
  <2>2. CASE c = n
    BY <1>5, <1>10, <1>11, <1>14, <2>2
  <2>3. CASE b # n /\ c # n
    <3>1. b \in 1 .. m /\ c \in 1 .. m /\ i \in B[b] /\ j \in B[c]
      BY <1>5, <1>10, <1>14, <2>3
    <3> QED BY <1>14, <3>1 DEF Swept
  <2> QED BY <2>1, <2>2, <2>3
<1> HIDE DEF Tight, Spanned, Meets
<1>15. Swept(w, S \cup {x}, new, A, n)
  <2>1. \A i \in S \cup {x} : \E b \in 1 .. n : i \in A[b]
    <3>1. \A i \in S : \E b \in 1 .. m : i \in B[b]
      BY DEF Swept
    <3> QED BY <1>5, <1>10, <3>1
  <2>2. \A b \in 1 .. n : Tight(w, A[b]) /\ Spanned(w, A[b], new[b])
    <3> SUFFICES ASSUME NEW b \in 1 .. n PROVE Tight(w, A[b]) /\ Spanned(w, A[b], new[b])
      OBVIOUS
    <3>1. CASE b = n
      BY <1>7, <1>10, <1>12, <1>13, <3>1
    <3>2. CASE b # n
      <4>1. A[b] = B[b] /\ new[b] = sp[b] /\ b \in 1 .. m
        BY <1>5, <1>7, <1>10, <3>2
      <4> QED BY <4>1 DEF Swept
    <3> QED BY <3>1, <3>2
  <2>3. \A i \in S \cup {x} : w[i][2] <= new[n].hi
    <3>1. \A i \in S : w[i][2] < lo /\ w[i][2] \in Nat
      BY <1>11 DEF WindowsOK
    <3> QED BY <1>1, <1>3, <1>7, <3>1
  <2>4. \A i \in S \cup {x} : i \notin A[n] => w[i][2] < new[n].lo
    BY <1>3, <1>7, <1>10, <1>11
  <2>5. \A b, c \in 1 .. n : b # c => \A i \in A[b], j \in A[c] : ~Meets(w, i, j)
    BY <1>14
  <2> QED BY <1>4, <1>7, <1>10, <2>1, <2>2, <2>3, <2>4, <2>5 DEF Swept
<1> QED BY <1>5, <1>8, <1>15

Taken(s, k) == {s[p] : p \in 1 .. k}
KeptUpTo(w, s, g, k) == \E m \in Nat \ {0} : \E B : Swept(w, Taken(s, k), g[k], B, m)

(* So the sweep keeps it all the way. *)
LEMMA SweepKeeps ==
  ASSUME NEW w, WindowsOK(w), NEW n \in Nat \ {0}, NEW s, s \in [1 .. n -> DOMAIN w],
         \A i, j \in 1 .. n : i # j => s[i] # s[j],
         \A i, j \in 1 .. n : i < j => w[s[i]][1] <= w[s[j]][1],
         NEW g, \A k \in 1 .. n : g[k] = Sweep(g, s, w, k)
  PROVE  KeptUpTo(w, s, g, n)
<1> HIDE DEF Swept
<1> DEFINE Bad == {k \in Nat : k \in 1 .. n /\ ~KeptUpTo(w, s, g, k)}
<1> HIDE DEF KeptUpTo
<1> SUFFICES ASSUME ~KeptUpTo(w, s, g, n) PROVE FALSE
  OBVIOUS
<1>1. PICK C : C = Bad
  OBVIOUS
<1>2. C \subseteq Nat /\ C # {}
  BY <1>1
<1>3. PICK k \in C : \A y \in C : k <= y
  BY <1>2, LeastOf
<1>4. k \in 1 .. n /\ ~KeptUpTo(w, s, g, k)
  BY <1>1
<1>5. CASE k = 1
  <2>0. 1 \in 1 .. n
    BY <1>4, <1>5
  <2>1. g[1] = <<One(w[s[1]])>> /\ s[1] \in DOMAIN w
    BY <2>0 DEF Sweep
  <2>2. Taken(s, 1) = {s[1]}
    BY DEF Taken
  <2>3. PICK x \in DOMAIN w : x = s[1]
    BY <2>1
  <2>4. \E B : Swept(w, {x}, <<One(w[x])>>, B, 1)
    BY SweepBegins
  <2>5. \E B : Swept(w, Taken(s, 1), g[1], B, 1)
    <3>1. Taken(s, 1) = {x} /\ g[1] = <<One(w[x])>>
      BY <2>1, <2>2, <2>3
    <3> HIDE DEF One
    <3> QED BY <2>4, <3>1
  <2>6. KeptUpTo(w, s, g, 1)
    <3>1. 1 \in Nat \ {0}
      OBVIOUS
    <3> QED BY <2>5, <3>1 DEF KeptUpTo
  <2> QED BY <1>4, <1>5, <2>6
<1>6. CASE k # 1
  <2>1. PICK l \in 1 .. n : l = k - 1
    BY <1>4, <1>6
  <2>2. KeptUpTo(w, s, g, l)
    <3>1. l \notin C
      BY <1>3, <1>4, <2>1
    <3> QED BY <1>1, <2>1, <3>1
  <2>3. PICK m \in Nat \ {0} : \E B : Swept(w, Taken(s, l), g[l], B, m)
    BY <2>2 DEF KeptUpTo
  <2>4. PICK B : Swept(w, Taken(s, l), g[l], B, m)
    BY <2>3
  <2>5. PICK S, x, sp : S = Taken(s, l) /\ x = s[k] /\ sp = g[l]
    OBVIOUS
  <2>6. g[k] = Widen(sp, w[x])
    BY <1>4, <1>6, <2>1, <2>5 DEF Sweep
  <2>7. S \in SUBSET DOMAIN w /\ x \in DOMAIN w /\ x \notin S
    BY <1>4, <2>1, <2>5 DEF Taken
  <2>8. \A i \in S : w[i][1] <= w[x][1]
    BY <1>4, <2>1, <2>5 DEF Taken
  <2>9. Taken(s, k) = S \cup {x}
    <3>1. 1 .. k = (1 .. l) \cup {k}
      BY <1>4, <2>1
    <3> QED BY <2>5, <3>1 DEF Taken
  <2>10. Swept(w, S, sp, B, m)
    BY <2>4, <2>5
  <2>11. CASE w[x][1] <= sp[m].hi
    <3>1. \E A : Swept(w, S \cup {x}, Widen(sp, w[x]), A, m)
      BY <2>7, <2>8, <2>10, <2>11, SweepMerges
    <3> QED BY <1>4, <2>6, <2>9, <3>1 DEF KeptUpTo
  <2>12. CASE ~(w[x][1] <= sp[m].hi)
    <3>1. \E A : Swept(w, S \cup {x}, Widen(sp, w[x]), A, m + 1)
      BY <2>7, <2>10, <2>12, SweepAppends
    <3>2. m + 1 \in Nat \ {0}
      OBVIOUS
    <3> QED BY <1>4, <2>6, <2>9, <3>1, <3>2 DEF KeptUpTo
  <2> QED BY <2>11, <2>12
<1> QED BY <1>5, <1>6

(* The spans are those of some groups of windows that no window joins. *)
LEMMA SpansHold ==
  ASSUME NEW w, WindowsOK(w), IsFiniteSet(DOMAIN w), DOMAIN w # {}
  PROVE  \E m \in Nat \ {0} : \E B : Swept(w, DOMAIN w, Spans(w), B, m)
<1> HIDE DEF Swept, Sweep
<1>1. PICK D : D = DOMAIN w
  OBVIOUS
<1>2. PICK n : n = Cardinality(D)
  OBVIOUS
<1>3. n \in Nat \ {0}
  BY <1>1, <1>2, FS_CardinalityType, FS_EmptySet
<1>4. PICK s : s = InOrder(w)
  OBVIOUS
<1>5. /\ s \in [1 .. n -> DOMAIN w]
      /\ \A i, j \in 1 .. n : i # j => s[i] # s[j]
      /\ \A i, j \in 1 .. n : i < j => w[s[i]][1] <= w[s[j]][1]
  BY <1>1, <1>2, <1>4, InOrderIs
<1>6. PICK g : Spans(w) = g[n] /\ \A k \in 1 .. n : g[k] = Sweep(g, s, w, k)
  BY <1>1, <1>2, <1>3, <1>4, SpansAreSwept
<1>7. KeptUpTo(w, s, g, n)
  BY <1>3, <1>5, <1>6, SweepKeeps
<1>8. Taken(s, n) = D
  <2>1. s \in Injection(1 .. n, D)
    BY <1>1, <1>5 DEF Injection, IsInjective
  <2>2. PICK T : T = Range(s)
    OBVIOUS
  <2>3. PICK I : I = 1 .. n
    OBVIOUS
  <2>4. IsFiniteSet(I) /\ Cardinality(I) = n
    <3>1. PICK a \in Int, b \in Int : a = 1 /\ b = n
      BY <1>3
    <3> QED BY <1>3, <2>3, <3>1, FS_Interval
  <2>5. PICK U : U = Taken(s, n)
    OBVIOUS
  <2>6. U \subseteq D
    BY <1>1, <1>3, <1>5, <2>5 DEF Taken
  <2>7. s \in Bijection(I, U)
    <3>1. s \in [I -> U] /\ \A u \in U : \E i \in I : s[i] = u
      BY <1>5, <2>3, <2>5 DEF Taken
    <3> QED BY <1>5, <2>3, <3>1 DEF Bijection, Injection, Surjection, IsInjective
  <2>8. Cardinality(U) = n /\ IsFiniteSet(U)
    BY <2>4, <2>7, FS_Bijection DEF ExistsBijection
  <2>9. IsFiniteSet(D)
    BY <1>1
  <2> QED BY <1>2, <2>5, <2>6, <2>8, <2>9, FS_Subset
<1> QED BY <1>1, <1>6, <1>7, <1>8 DEF KeptUpTo


(* What is in every closed set that has i *)
Closure(w, i) ==
  {j \in DOMAIN w : \A c \in {d \in SUBSET DOMAIN w : \A k \in d, l \in DOMAIN w : Meets(w, k, l) => l \in d} :
                      i \in c => j \in c}

(* A group that nothing outside meets is the cluster of each of its windows. *)
LEMMA GroupIsCluster ==
  ASSUME NEW w, WindowsOK(w), NEW sp, NEW B, NEW m \in Nat \ {0}, Swept(w, DOMAIN w, sp, B, m),
         NEW b \in 1 .. m, NEW i \in B[b]
  PROVE  Closure(w, i) = B[b]
<1>1. PICK D : D = DOMAIN w
  OBVIOUS
<1>2. PICK g : g = B[b] /\ g \in SUBSET D /\ i \in g
  BY <1>1 DEF Swept
<1>3. \A k \in g, l \in D : Meets(w, k, l) => l \in g
  <2> SUFFICES ASSUME NEW k \in g, NEW l \in D, Meets(w, k, l), l \notin g PROVE FALSE
    OBVIOUS
  <2>1. PICK c \in 1 .. m : l \in B[c]
    BY <1>1 DEF Swept
  <2>2. c # b
    BY <1>2, <2>1
  <2> HIDE DEF Meets
  <2> QED BY <1>2, <2>1, <2>2 DEF Swept
<1>4. Closure(w, i) \subseteq g
  <2> HIDE DEF Meets
  <2> QED BY <1>1, <1>2, <1>3 DEF Closure
<1>5. ASSUME NEW c \in SUBSET D, \A k \in c, l \in D : Meets(w, k, l) => l \in c, i \in c
      PROVE  g \subseteq c
  <2>1. PICK d : d = c \cap g
    OBVIOUS
  <2>2. d \in SUBSET g /\ d # {}
    BY <1>2, <1>5, <2>1
  <2>3. \A k \in d, l \in g : Meets(w, k, l) => l \in d
    <3> HIDE DEF Meets
    <3> QED BY <1>2, <1>5, <2>1
  <2>4. Tight(w, g)
    BY <1>2 DEF Swept
  <2> HIDE DEF Meets
  <2>5. d = g
    BY <2>2, <2>3, <2>4 DEF Tight
  <2> QED BY <2>1, <2>5
<1>6. g \subseteq Closure(w, i)
  <2> HIDE DEF Meets
  <2> QED BY <1>1, <1>2, <1>5 DEF Closure
<1> QED BY <1>2, <1>4, <1>6

SpanOf(w, c) == [lo |-> Min({w[i][1] : i \in c}), hi |-> Max({w[i][2] : i \in c}), count |-> Cardinality(c)]

LEMMA SpanIs ==
  ASSUME NEW w, WindowsOK(w), NEW b \in SUBSET DOMAIN w, NEW r, Spanned(w, b, r)
  PROVE  r = SpanOf(w, b)
<1>1. PICK T : T = {w[i][1] : i \in b}
  OBVIOUS
<1>2. PICK U : U = {w[i][2] : i \in b}
  OBVIOUS
<1>3. T \subseteq Nat /\ U \subseteq Nat
  BY <1>1, <1>2 DEF WindowsOK
<1>4. PICK lo \in Nat, hi \in Nat : lo = r.lo /\ hi = r.hi
  BY DEF Spanned
<1>5. lo \in T /\ \A y \in T : lo <= y
  BY <1>1, <1>4 DEF Spanned
<1>6. hi \in U /\ \A y \in U : hi >= y
  <2>1. \A i \in b : w[i][2] <= hi
    BY <1>4 DEF Spanned
  <2>2. \A y \in U : y <= hi
    BY <1>2, <2>1
  <2>3. hi \in U
    BY <1>2, <1>4 DEF Spanned
  <2> QED BY <1>3, <2>2, <2>3
<1>7. Min(T) = lo
  <2>1. Min(T) \in T /\ Min(T) <= lo
    BY <1>3, <1>5, LeastOf
  <2>2. PICK x \in T : x = Min(T)
    BY <2>1
  <2> QED BY <1>3, <1>5, <2>1, <2>2
<1>8. Max(U) = hi
  <2>1. \A x \in U : (\A y \in U : x >= y) => x = hi
    BY <1>3, <1>6
  <2> QED BY <1>6, <2>1 DEF Max
<1>9. r = [lo |-> lo, hi |-> hi, count |-> Cardinality(b)]
  BY <1>4 DEF Spanned
<1> QED BY <1>1, <1>2, <1>7, <1>8, <1>9 DEF SpanOf

(* The spans of the sweep are the clusters. *)
LEMMA SpansAre ==
  ASSUME NEW w, WindowsOK(w), IsFiniteSet(DOMAIN w), DOMAIN w # {}
  PROVE  /\ ToSet(Spans(w)) = {SpanOf(w, c) : c \in {Closure(w, i) : i \in DOMAIN w}}
         /\ \A i \in DOMAIN w : Cardinality(Closure(w, i)) \in Nat
         /\ IsFiniteSet(ToSet(Spans(w)))
<1> HIDE DEF WindowsOK, Swept
<1>1. PICK m \in Nat \ {0} : \E B : Swept(w, DOMAIN w, Spans(w), B, m)
  BY SpansHold
<1>2. PICK sp : sp = Spans(w)
  OBVIOUS
<1>3. PICK B : Swept(w, DOMAIN w, sp, B, m)
  BY <1>1, <1>2
<1>4. ToSet(sp) = {sp[b] : b \in 1 .. m}
  <2>1. DOMAIN sp = 1 .. m
    BY <1>3 DEF Swept
  <2> QED BY <2>1 DEF ToSet
<1>5. \A b \in 1 .. m : sp[b] = SpanOf(w, B[b]) /\ Cardinality(B[b]) \in Nat
  <2> SUFFICES ASSUME NEW b \in 1 .. m PROVE sp[b] = SpanOf(w, B[b]) /\ Cardinality(B[b]) \in Nat
    OBVIOUS
  <2>1. PICK c, r : c = B[b] /\ r = sp[b]
    OBVIOUS
  <2>2. c \in SUBSET DOMAIN w /\ Spanned(w, c, r)
    BY <1>3, <2>1 DEF Swept
  <2>3. r = SpanOf(w, c)
    BY <2>2, SpanIs
  <2>4. Cardinality(c) \in Nat
    BY <2>2 DEF Spanned
  <2> QED BY <2>1, <2>3, <2>4
<1>6. \A b \in 1 .. m : \A i \in B[b] : i \in DOMAIN w /\ Closure(w, i) = B[b]
  <2>1. \A b \in 1 .. m : B[b] \subseteq DOMAIN w
    BY <1>3 DEF Swept
  <2> QED BY <1>3, <2>1, GroupIsCluster
<1>7. {Closure(w, i) : i \in DOMAIN w} = {B[b] : b \in 1 .. m}
  <2>1. \A i \in DOMAIN w : \E b \in 1 .. m : i \in B[b]
    BY <1>3 DEF Swept
  <2>2. ASSUME NEW b \in 1 .. m PROVE \E i \in B[b] : TRUE
    <3>1. Tight(w, B[b])
      BY <1>3 DEF Swept
    <3> QED BY <3>1 DEF Tight
  <2> HIDE DEF Closure
  <2> QED BY <1>6, <2>1, <2>2
<1>8. \A i \in DOMAIN w : Cardinality(Closure(w, i)) \in Nat
  <2>1. \A i \in DOMAIN w : \E b \in 1 .. m : i \in B[b]
    BY <1>3 DEF Swept
  <2> HIDE DEF Closure
  <2> QED BY <1>5, <1>6, <2>1
<1>9. IsFiniteSet(ToSet(sp))
  <2>1. PICK I : I = 1 .. m
    OBVIOUS
  <2>2. IsFiniteSet(I)
    <3>1. PICK a \in Int, c \in Int : a = 1 /\ c = m
      OBVIOUS
    <3> QED BY <2>1, <3>1, FS_Interval
  <2>3. PICK f : f = [b \in I |-> sp[b]]
    OBVIOUS
  <2>4. PICK T : T = {sp[b] : b \in 1 .. m}
    OBVIOUS
  <2>5. f \in Surjection(I, T)
    BY <2>1, <2>3, <2>4 DEF Surjection
  <2>6. IsFiniteSet(T)
    BY <2>2, <2>5, FS_Surjection
  <2> QED BY <1>4, <2>4, <2>6
<1> HIDE DEF Closure, SpanOf
<1>10. ToSet(sp) = {SpanOf(w, c) : c \in {Closure(w, i) : i \in DOMAIN w}}
  <2>1. {SpanOf(w, c) : c \in {B[b] : b \in 1 .. m}} = {SpanOf(w, B[b]) : b \in 1 .. m}
    OBVIOUS
  <2>2. {SpanOf(w, B[b]) : b \in 1 .. m} = {sp[b] : b \in 1 .. m}
    BY <1>5
  <2> QED BY <1>4, <1>7, <2>1, <2>2
<1> QED BY <1>2, <1>8, <1>9, <1>10

-----------------------------------------------------------------------------
(* Promises and reveals *)

Planned(rs) == {s \in DOMAIN rs : rs[s].window # Unset}

BoardOK ==
  /\ DOMAIN reveals = Reveals
  /\ \A s \in Reveals : DOMAIN reveals[s] = {"revealed", "window"} /\ reveals[s].window \in Windows \cup {Unset}
  /\ IsFiniteSet(Planned(reveals))
  /\ DOMAIN promises = Promises /\ IsFiniteSet(OpenPromises(promises))

(* One item more, or one less, or neither *)
LEMMA FewStay ==
  ASSUME NEW S, IsFiniteSet(S), NEW x, NEW T \in SUBSET (S \cup {x})
  PROVE  IsFiniteSet(T)
<1>1. PICK U : U = S \cup {x}
  OBVIOUS
<1>2. IsFiniteSet(U)
  BY <1>1, FS_AddElement
<1> QED BY <1>1, <1>2, FS_Subset

LEMMA RevealsMove ==
  ASSUME BoardOK, BookOK, PlanReveal \/ RevealIt
  PROVE  BoardOK'
<1>0. \A s \in Subjects : s.reveals \subseteq Reveals
  BY PacingAssumption
<1> DEFINE Fine(r) == DOMAIN r = {"revealed", "window"} /\ r.window \in Windows \cup {Unset}
<1>1. \E s \in Reveals : \E r : Fine(r) /\ reveals' = [reveals EXCEPT ![s] = r]
  <2>1. CASE PlanReveal
    <3>1. PICK s \in subject.reveals, w \in Windows \cup {Unset} :
            reveals' = [reveals EXCEPT ![s].window = w]
      BY <2>1 DEF PlanReveal
    <3>2. s \in Reveals
      BY <1>0, <3>1 DEF BookOK
    <3>3. PICK r : r = [reveals[s] EXCEPT !.window = w]
      OBVIOUS
    <3>4. Fine(r)
      BY <3>1, <3>2, <3>3 DEF BoardOK
    <3> QED BY <3>1, <3>2, <3>3, <3>4
  <2>2. CASE RevealIt
    <3>1. PICK s \in subject.reveals : reveals' = [reveals EXCEPT ![s].revealed = TRUE]
      BY <2>2 DEF RevealIt
    <3>2. s \in Reveals
      BY <1>0, <3>1 DEF BookOK
    <3>3. PICK r : r = [reveals[s] EXCEPT !.revealed = TRUE]
      OBVIOUS
    <3>4. Fine(r)
      BY <3>2, <3>3 DEF BoardOK
    <3> QED BY <3>1, <3>2, <3>3, <3>4
  <2> QED BY <2>1, <2>2
<1>2. PICK s \in Reveals : \E r : Fine(r) /\ reveals' = [reveals EXCEPT ![s] = r]
  BY <1>1
<1>3. PICK r : Fine(r) /\ reveals' = [reveals EXCEPT ![s] = r]
  BY <1>2
<1>4. /\ DOMAIN reveals' = Reveals /\ \A u \in Reveals : reveals'[u] = IF u = s THEN r ELSE reveals[u]
  BY <1>3 DEF BoardOK
<1>5. \A u \in Reveals : Fine(reveals'[u])
  BY <1>3, <1>4 DEF BoardOK
<1>6. IsFiniteSet(Planned(reveals)')
  <2>1. PICK S, T : S = Planned(reveals) /\ T = Planned(reveals)'
    OBVIOUS
  <2>2. T \in SUBSET (S \cup {s})
    BY <1>4, <2>1 DEF Planned, BoardOK
  <2>3. IsFiniteSet(T)
    BY <2>1, <2>2, FewStay DEF BoardOK
  <2> QED BY <2>1, <2>3
<1>7. promises' = promises
  BY DEF PlanReveal, RevealIt
<1> QED BY <1>4, <1>5, <1>6, <1>7 DEF BoardOK

LEMMA PromisesMove ==
  ASSUME BoardOK, BookOK, Make \/ Settle
  PROVE  BoardOK'
<1>0. \A s \in Subjects : s.promises \subseteq Promises
  BY PacingAssumption
<1>1. \E p \in Promises : \E r : promises' = [promises EXCEPT ![p] = r]
  <2>1. CASE Make
    <3>1. PICK p \in subject.promises, w \in Windows \cup {Unset} :
            promises' = [promises EXCEPT ![p] = [state |-> "open", window |-> w]]
      BY <2>1 DEF Make
    <3> QED BY <1>0, <3>1 DEF BookOK
  <2>2. CASE Settle
    <3>1. PICK p \in subject.promises, s \in {"paid", "released"} :
            promises' = [promises EXCEPT ![p].state = s]
      BY <2>2 DEF Settle
    <3>2. PICK r : r = [promises[p] EXCEPT !.state = s]
      OBVIOUS
    <3> QED BY <1>0, <3>1, <3>2 DEF BookOK
  <2> QED BY <2>1, <2>2
<1>2. PICK p \in Promises : \E r : promises' = [promises EXCEPT ![p] = r]
  BY <1>1
<1>3. PICK r : promises' = [promises EXCEPT ![p] = r]
  BY <1>2
<1>4. DOMAIN promises' = Promises /\ \A u \in Promises : promises'[u] = IF u = p THEN r ELSE promises[u]
  BY <1>3 DEF BoardOK
<1>5. IsFiniteSet(OpenPromises(promises)')
  <2>1. PICK S, T : S = OpenPromises(promises) /\ T = OpenPromises(promises)'
    OBVIOUS
  <2>2. T \in SUBSET (S \cup {p})
    BY <1>4, <2>1 DEF OpenPromises, BoardOK
  <2>3. IsFiniteSet(T)
    BY <2>1, <2>2, FewStay DEF BoardOK
  <2> QED BY <2>1, <2>3
<1>6. reveals' = reveals
  BY DEF Make, Settle
<1>7. Planned(reveals)' = Planned(reveals)
  BY <1>6 DEF Planned
<1> QED BY <1>4, <1>5, <1>6, <1>7 DEF BoardOK

LEMMA BoardInductive == PacingInv /\ BoardOK /\ [PacingNext]_pacingVars => BoardOK'
<1> SUFFICES ASSUME PacingInv, BoardOK, [PacingNext]_pacingVars PROVE BoardOK'
  OBVIOUS
<1>0. BookOK
  BY DEF PacingInv
<1>1. CASE PlanReveal \/ RevealIt
  BY <1>0, <1>1, RevealsMove
<1>2. CASE Make \/ Settle
  BY <1>0, <1>2, PromisesMove
<1>3. CASE reveals' = reveals /\ promises' = promises
  <2>1. Planned(reveals)' = Planned(reveals) /\ OpenPromises(promises)' = OpenPromises(promises)
    BY <1>3 DEF Planned, OpenPromises
  <2> QED BY <1>3, <2>1 DEF BoardOK
<1>4. \/ PlanReveal \/ RevealIt \/ Make \/ Settle
      \/ reveals' = reveals /\ promises' = promises
  <2>1. CASE UNCHANGED pacingVars
    BY <2>1 DEF pacingVars
  <2>2. CASE AnalystPolls \/ \E done \in SUBSET ToSet(Drafts) : AnalystCommits(done)
    BY <2>2 DEF AnalystPolls, AnalystCommits, story
  <2>3. CASE StoryMoves
    BY <2>3 DEF StoryMoves, DraftNext, story, Plant, Touch, Finish, PlanResolution, Adopt, Retarget, Fulfil,
                DeclareArc, PlanPivot, AdvanceArc, ResolveArc
  <2> QED BY <2>1, <2>2, <2>3 DEF PacingNext
<1> QED BY <1>1, <1>2, <1>3, <1>4

LEMMA BoardInvariant == PacingSpec => []BoardOK
<1>1. PacingInit => BoardOK
  <2> SUFFICES ASSUME PacingInit PROVE BoardOK
    OBVIOUS
  <2>1. Planned(reveals) = {} /\ OpenPromises(promises) = {}
    BY DEF PacingInit, Planned, OpenPromises
  <2> QED BY <2>1, FS_EmptySet DEF PacingInit, BoardOK
<1> QED BY <1>1, BoardInductive, PacingInvariant, PTL DEF PacingSpec

-----------------------------------------------------------------------------
(* The spans that the panel reports *)

LEMMA WindowedIs ==
  ASSUME ThreadsOK, BoardOK, NEW w, w = Windowed(threads, reveals)
  PROVE  WindowsOK(w) /\ IsFiniteSet(DOMAIN w)
<1>1. PICK L, R : /\ L = {t \in DOMAIN threads : Live(threads[t]) /\ threads[t].window[2] > 0}
                  /\ R = {s \in DOMAIN reveals : ~reveals[s].revealed /\ reveals[s].window[2] > 0}
  OBVIOUS
<1>2. w = [i \in L \cup R |-> IF i \in DOMAIN threads THEN threads[i].window ELSE reveals[i].window]
  BY <1>1 DEF Windowed
<1>3. DOMAIN w = L \cup R
  BY <1>2
<1>4. L \subseteq Threads /\ R \subseteq Reveals /\ Threads \cap Reveals = {}
  BY <1>1, PacingAssumption DEF ThreadsOK, BoardOK
<1>5. \A v \in Windows \cup {Unset} : v[2] > 0 => v[1] \in Nat /\ v[2] \in Nat /\ v[1] <= v[2]
  <2>1. \A v \in Windows : v[1] \in Nat /\ v[2] \in Nat /\ v[1] <= v[2]
    BY PacingAssumption
  <2>2. ~(Unset[2] > 0)
    BY DEF Unset
  <2> QED BY <2>1, <2>2
<1>6. \A i \in DOMAIN w : w[i] \in Windows \cup {Unset} /\ w[i][2] > 0
  <2> SUFFICES ASSUME NEW i \in DOMAIN w PROVE w[i] \in Windows \cup {Unset} /\ w[i][2] > 0
    OBVIOUS
  <2>1. CASE i \in L
    <3>1. w[i] = threads[i].window
      BY <1>1, <1>2, <2>1
    <3> QED BY <1>1, <1>4, <2>1, <3>1 DEF ThreadsOK
  <2>2. CASE i \in R
    <3>1. w[i] = reveals[i].window
      BY <1>2, <1>4, <2>2 DEF ThreadsOK
    <3> QED BY <1>1, <1>4, <2>2, <3>1 DEF BoardOK
  <2> QED BY <1>3, <2>1, <2>2
<1>7. WindowsOK(w)
  BY <1>5, <1>6 DEF WindowsOK
<1>8. IsFiniteSet(L \cup R)
  <2>1. PICK M, P : M = LiveOnes(threads) /\ P = Planned(reveals)
    OBVIOUS
  <2>2. L \in SUBSET M /\ R \in SUBSET P
    <3>1. ~(Unset[2] > 0)
      BY DEF Unset
    <3> QED BY <1>1, <2>1, <3>1 DEF LiveOnes, Planned
  <2>3. IsFiniteSet(L) /\ IsFiniteSet(R)
    BY <2>1, <2>2, FS_Subset DEF ThreadsOK, BoardOK
  <2> QED BY <2>3, FS_Union
<1> QED BY <1>3, <1>7, <1>8

LEMMA CongestedAre ==
  ASSUME ThreadsOK, BoardOK, NEW w, w = Windowed(threads, reveals)
  PROVE  /\ CongestedWindows(threads, reveals)
              = {SpanOf(w, c) : c \in {d \in {Closure(w, i) : i \in DOMAIN w} : Cardinality(d) > 2}}
         /\ IsFiniteSet(CongestedWindows(threads, reveals))
<1> HIDE DEF WindowsOK, ThreadsOK, BoardOK
<1>0. WindowsOK(w) /\ IsFiniteSet(DOMAIN w)
  BY WindowedIs
<1>1. PICK C : C = CongestedWindows(threads, reveals)
  OBVIOUS
<1>2. C = IF DOMAIN w = {} THEN {} ELSE {s \in ToSet(Spans(w)) : s.count > 2}
  BY <1>1 DEF CongestedWindows, MaxPerWindow
<1>3. CASE DOMAIN w = {}
  BY <1>1, <1>2, <1>3, FS_EmptySet
<1>4. CASE DOMAIN w # {}
  <2>1. /\ ToSet(Spans(w)) = {SpanOf(w, c) : c \in {Closure(w, i) : i \in DOMAIN w}}
        /\ IsFiniteSet(ToSet(Spans(w)))
    BY <1>0, <1>4, SpansAre
  <2>2. PICK T : T = ToSet(Spans(w))
    OBVIOUS
  <2>3. PICK K : K = {Closure(w, i) : i \in DOMAIN w}
    OBVIOUS
  <2>4. T = {SpanOf(w, c) : c \in K}
    BY <2>1, <2>2, <2>3, Zenon
  <2>5. \A c : SpanOf(w, c).count = Cardinality(c)
    BY DEF SpanOf
  <2>6. C = {s \in T : s.count > 2} /\ IsFiniteSet(T)
    BY <1>2, <1>4, <2>1, <2>2
  <2> HIDE DEF SpanOf
  <2>7. C = {SpanOf(w, c) : c \in {d \in K : Cardinality(d) > 2}}
    BY <2>4, <2>5, <2>6
  <2>8. IsFiniteSet(C)
    <3>1. C \in SUBSET T
      BY <2>6
    <3> QED BY <2>6, <3>1, FS_Subset
  <2> QED BY <1>1, <2>3, <2>7, <2>8, Zenon
<1> QED BY <1>3, <1>4

LEMMA SpansFollow ==
  ASSUME ThreadsOK, BoardOK
  PROVE  SpansAreClusters
<1> HIDE DEF WindowsOK, ThreadsOK, BoardOK
<1>1. PICK w : w = Windowed(threads, reveals)
  OBVIOUS
<1> DEFINE Meet(i, j) == w[i][1] <= w[j][2] /\ w[j][1] <= w[i][2]
           Closed == {c \in SUBSET DOMAIN w : \A i \in c, j \in DOMAIN w : Meet(i, j) => j \in c}
           Cluster(i) == {j \in DOMAIN w : \A c \in Closed : i \in c => j \in c}
<1>2. \A i : Cluster(i) = Closure(w, i)
  BY DEF Closure, Meets
<1>3. CongestedWindows(threads, reveals)
        = {SpanOf(w, c) : c \in {d \in {Closure(w, i) : i \in DOMAIN w} : Cardinality(d) > 2}}
  BY <1>1, CongestedAre
<1> HIDE DEF Cluster
<1>4. {Closure(w, i) : i \in DOMAIN w} = {Cluster(i) : i \in DOMAIN w}
  BY <1>2
<1>5. CongestedWindows(threads, reveals)
        = {SpanOf(w, c) : c \in {d \in {Cluster(i) : i \in DOMAIN w} : Cardinality(d) > 2}}
  BY <1>3, <1>4, Zenon
<1> USE DEF Cluster
<1> QED BY <1>1, <1>5 DEF SpansAreClusters, SpanOf

-----------------------------------------------------------------------------
(* The Threads tab *)

LEMMA NoneIsZero ==
  ASSUME NEW S, IsFiniteSet(S)
  PROVE  Cardinality(S) \in Nat /\ (Cardinality(S) = 0 <=> S = {})
BY FS_CardinalityType, FS_EmptySet

LEMMA TabFollows ==
  ASSUME ThreadsOK, BoardOK
  PROVE  ThreadsTabMissesNothing
<1> DEFINE n == Len(order)
<1>1. PICK A : A = StaleThreads(threads, order, 3)
  OBVIOUS
<1>2. PICK B : B = OverdueResolutions(threads, Len(order))
  OBVIOUS
<1>3. PICK C : C = OverdueReveals(reveals, Len(order))
  OBVIOUS
<1>4. PICK D : D = OverduePromises(promises, Len(order))
  OBVIOUS
<1>5. PICK E : E = CongestedWindows(threads, reveals)
  OBVIOUS
<1>6. IsFiniteSet(A) /\ IsFiniteSet(B) /\ IsFiniteSet(C) /\ IsFiniteSet(D) /\ IsFiniteSet(E)
  <2>1. PICK L : L = LiveOnes(threads) /\ IsFiniteSet(L)
    BY DEF ThreadsOK
  <2>2. A \in SUBSET L /\ B \in SUBSET L
    BY <1>1, <1>2, <2>1 DEF StaleThreads, IsThreadStale, OverdueResolutions, LiveOnes
  <2>3. PICK P : P = Planned(reveals) /\ IsFiniteSet(P)
    BY DEF BoardOK
  <2>4. C \in SUBSET P
    <3>1. ~(Unset[2] > 0)
      BY DEF Unset
    <3> QED BY <1>3, <2>3, <3>1 DEF OverdueReveals, Past, Planned
  <2>5. PICK O : O = OpenPromises(promises) /\ IsFiniteSet(O)
    BY DEF BoardOK
  <2>6. D \in SUBSET O
    BY <1>4, <2>5 DEF OverduePromises
  <2>7. IsFiniteSet(E)
    BY <1>5, CongestedAre
  <2> QED BY <2>1, <2>2, <2>3, <2>4, <2>5, <2>6, <2>7, FS_Subset
<1>7. PICK a \in Nat, b \in Nat, c \in Nat, d \in Nat, e \in Nat :
        /\ a = Cardinality(A) /\ b = Cardinality(B) /\ c = Cardinality(C) /\ d = Cardinality(D)
        /\ e = Cardinality(E)
  BY <1>6, NoneIsZero
<1>8. /\ a = 0 <=> A = {}
      /\ b = 0 <=> B = {}
      /\ c = 0 <=> C = {}
      /\ d = 0 <=> D = {}
      /\ e = 0 <=> E = {}
  BY <1>6, <1>7, NoneIsZero
<1>9. PICK tab : tab = ThreadsTab(threads, promises, reveals, order, 3)
  OBVIOUS
<1> DEFINE Bare == /\ \A t \in DOMAIN threads : threads[t].state = "none"
                   /\ \A p \in DOMAIN promises : promises[p].state = "none"
<1>10. tab = IF Bare /\ E = {} /\ C = {} THEN 0 ELSE a + b + c + d + e
  BY <1>1, <1>2, <1>3, <1>4, <1>5, <1>7, <1>9 DEF ThreadsTab
<1>11. Bare => A = {} /\ B = {} /\ D = {}
  BY <1>1, <1>2, <1>4 DEF StaleThreads, IsThreadStale, OverdueResolutions, Live, OverduePromises, OpenPromises
<1> HIDE DEF Bare
<1>12. (tab = 0) <=> (A = {} /\ B = {} /\ C = {} /\ D = {} /\ E = {})
  <2>1. (a + b + c + d + e = 0) <=> (a = 0 /\ b = 0 /\ c = 0 /\ d = 0 /\ e = 0)
    OBVIOUS
  <2>2. CASE Bare /\ E = {} /\ C = {}
    BY <1>10, <1>11, <2>2
  <2>3. CASE ~(Bare /\ E = {} /\ C = {})
    <3>1. tab = a + b + c + d + e
      BY <1>10, <2>3
    <3> QED BY <1>8, <2>1, <3>1
  <2> QED BY <2>2, <2>3
<1> QED BY <1>1, <1>2, <1>3, <1>4, <1>5, <1>9, <1>12 DEF ThreadsTabMissesNothing

(* What the panel and the prompts read off the book is so: the congested spans are
   the clusters of more than two windows, the end is announced when it is there,
   the alarm of the Threads tab is quiet just when nothing is wrong, and tension is
   held to the plan; whatever is planned, for whatever chapters, in whatever order
   (brain/resolution_pacing.py, brain/finale.py, brain/tension.py and the panel). *)
THEOREM ThePanelIsRight == PacingSpec => []PanelIsRight
<1>1. PacingInv /\ BoardOK => SpansAreClusters /\ ThreadsTabMissesNothing
  BY SpansFollow, TabFollows DEF PacingInv
<1> QED BY <1>1, PacingInvariant, BoardInvariant, TheEndIsAlwaysAnnounced, TensionIsHeld, PTL DEF PanelIsRight
=============================================================================
