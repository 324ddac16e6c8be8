----------------------------- MODULE StoreProofs -----------------------------
(***************************************************************************)
(* The two stores and who follows them.  First CanonStore, for any number  *)
(* of processes, coroutines and events: type correctness, the durability   *)
(* of returned appends, no event skipped, and, for one process, the exact  *)
(* fold and the refinement of ReadModel.  Then Telemetry and EngineRoom,   *)
(* for any scene: the transcript of a run loses nothing and repeats        *)
(* nothing, the recorder keeps nothing of a run that told its end, the     *)
(* stream of all agents only grows, and its window is its end.             *)
(***************************************************************************)
EXTENDS CanonStore, EngineRoom, FiniteSetTheorems, SequenceTheorems, WellFoundedInduction, TLAPS

(* A read shows a sequence of events, and pinning keeps the type of a view. *)
LEMMA VisibleTypes ==
  ASSUME TypeOK, NEW p \in Procs
  PROVE  Visible(p) \in Seq(Events)
<1>1. log \in Seq(Events) /\ stx[p] \in Seq(Events) /\ sview[p].len \in Nat
  BY DEF TypeOK
<1>2. CASE sview[p].kind = "pinned"
  <2>1. SubSeq(log, 1, sview[p].len) \in Seq(Events)
    <3>1. \A i \in 1 .. sview[p].len : log[i] \in Events
      BY <1>1, LenProperties DEF TypeOK
    <3> QED BY <1>1, <3>1, SubSeqProperties
  <2> QED BY <1>2, <2>1 DEF Visible
<1>3. CASE sview[p].kind # "pinned"
  BY <1>1, <1>3, ConcatProperties DEF Visible
<1> QED BY <1>2, <1>3

LEMMA PinTypes ==
  ASSUME TypeOK, NEW p \in Procs, sview' = [sview EXCEPT ![p] = Pin(@)]
  PROVE  /\ sview' \in [Procs -> [kind : {"current", "begun", "pinned"}, len : Nat]]
         /\ \A q \in Procs : sview'[q].len <= Len(log)
<1>1. /\ Len(log) \in Nat /\ sview[p].len \in Nat /\ sview[p].len <= Len(log)
      /\ sview[p] \in [kind : {"current", "begun", "pinned"}, len : Nat]
  BY LenProperties DEF TypeOK
<1>2. /\ Pin(sview[p]) \in [kind : {"current", "begun", "pinned"}, len : Nat]
      /\ Pin(sview[p]).len <= Len(log)
  BY <1>1 DEF Pin
<1> QED BY <1>2 DEF TypeOK

(* Every reachable state of the store is well typed. *)
THEOREM TypeCorrect == Spec => []TypeOK
<1>1. Init => TypeOK
  BY StoreAssumption, EmptySeq DEF Init, TypeOK, NoTxn, Current, InLoop
<1>2. TypeOK /\ [Next]_vars => TypeOK'
  <2> SUFFICES ASSUME TypeOK, [Next]_vars PROVE TypeOK'
    OBVIOUS
  <2> USE StoreAssumption DEF InLoop
  <2>1. ASSUME NEW a \in Appenders, NEW e \in Events, StartAppend(a, e)
        PROVE  TypeOK'
    BY <2>1, SMTT(30) DEF TypeOK, StartAppend, projVars
  <2>2. ASSUME NEW a \in Appenders, EnterAppend(a) PROVE TypeOK'
    BY <2>2, EmptySeq, LenProperties, SMTT(30) DEF TypeOK, EnterAppend, Current, projVars
  <2>3. ASSUME NEW a \in Appenders, Insert(a) PROVE TypeOK'
    BY <2>3, AppendProperties DEF TypeOK, Insert, projVars
  <2>4. ASSUME NEW a \in Appenders, CommitAppend(a) PROVE TypeOK'
    <3>1. log' \in Seq(Events) /\ stx' \in [Procs -> Seq(Events)]
      BY <2>4, EmptySeq, ConcatProperties DEF TypeOK, CommitAppend
    <3>2. acked' \subseteq [seq : Nat, ev : Events]
      BY <2>4, LenProperties DEF TypeOK, CommitAppend
    <3>3. /\ slock' \in [Procs -> Appenders \cup {Free}]
          /\ apc' \in [Appenders -> {"idle", "enter", "insert", "commit"}]
      BY <2>4 DEF TypeOK, CommitAppend
    <3>4. \A p \in Procs : sview'[p].len <= Len(log')
      <4>1. Len(log') = Len(log) + Len(stx[Home[a]])
        BY <2>4, ConcatProperties DEF TypeOK, CommitAppend
      <4>2. Len(log) \in Nat /\ Len(stx[Home[a]]) \in Nat
        BY LenProperties DEF TypeOK
      <4> QED BY <2>4, <4>1, <4>2 DEF TypeOK, CommitAppend
    <3> QED
      BY <2>4, <3>1, <3>2, <3>3, <3>4 DEF TypeOK, CommitAppend, projVars
  <2>5. ASSUME NEW a \in Appenders, RetryAppend(a) PROVE TypeOK'
    <3>1. atry' \in [Appenders -> 1 .. Attempts]
      <4>1. CASE atry[a] < Attempts /\ atry' = [atry EXCEPT ![a] = @ + 1]
        BY <4>1 DEF TypeOK
      <4>2. CASE UNCHANGED atry
        BY <4>2 DEF TypeOK
      <4> QED BY <2>5, <4>1, <4>2 DEF RetryAppend
    <3>2. /\ apc' \in [Appenders -> {"idle", "enter", "insert", "commit"}]
          /\ slock' \in [Procs -> Appenders \cup {Free}]
      BY <2>5 DEF TypeOK, RetryAppend
    <3>3. /\ sview' \in [Procs -> [kind : {"current", "begun", "pinned"}, len : Nat]]
          /\ \A p \in Procs : sview'[p].len <= Len(log)
      <4>1. CASE sview' = [sview EXCEPT ![Home[a]] = Begun]
        BY <4>1, LenProperties DEF TypeOK, Begun
      <4>2. CASE UNCHANGED sview
        BY <4>2 DEF TypeOK
      <4> QED BY <2>5, <4>1, <4>2 DEF RetryAppend
    <3> QED
      BY <2>5, <3>1, <3>2, <3>3 DEF TypeOK, RetryAppend, projVars
  <2>6. ASSUME NEW f \in Folders, StartCatchUp(f) PROVE TypeOK'
    BY <2>6 DEF TypeOK, StartCatchUp, storeVars
  <2>7. ASSUME NEW f \in Folders, ReadCursor(f) PROVE TypeOK'
    BY <2>7 DEF TypeOK, ReadCursor, storeVars
  <2>8. ASSUME NEW f \in Folders, ReadEvents(f) PROVE TypeOK'
    <3> DEFINE seen == Visible(Home[f])
               rows == SubSeq(seen, flast[f] + 1, Len(seen))
    <3>1. seen \in Seq(Events)
      BY VisibleTypes DEF TypeOK
    <3>2. rows \in Seq(Events)
      BY <3>1, SubSeqProperties, LenProperties DEF TypeOK
    <3> HIDE DEF rows
    <3>3. /\ fbatch' = [fbatch EXCEPT ![f] = rows]
          /\ fpc' = [fpc EXCEPT ![f] = IF rows = <<>> THEN "idle" ELSE "enter"]
          /\ plock' = [plock EXCEPT ![Home[f]] = IF rows = <<>> THEN Free ELSE @]
      BY <2>8 DEF ReadEvents, rows
    <3>4. \A g \in Folders : InLoop(g)' => fbatch'[g] # <<>>
      BY <3>2, <3>3 DEF TypeOK
    <3>5. ftry' \in [Folders -> 1 .. Attempts]
      BY <2>8 DEF TypeOK, ReadEvents
    <3>6. fbatch' \in [Folders -> Seq(Events)]
      BY <3>2, <3>3 DEF TypeOK
    <3>7. UNCHANGED <<log, folded, cursor, issued, acked, slock, stx, apc, aev, atry,
                      ptx, flast, faults>>
      BY <2>8 DEF ReadEvents
    <3>8. /\ sview' \in [Procs -> [kind : {"current", "begun", "pinned"}, len : Nat]]
          /\ \A p \in Procs : sview'[p].len <= Len(log')
      BY <2>8, <3>7, PinTypes DEF ReadEvents
    <3> QED
      BY <3>3, <3>4, <3>5, <3>6, <3>7, <3>8 DEF TypeOK
  <2>9. ASSUME NEW f \in Folders, EnterApply(f) PROVE TypeOK'
    BY <2>9, EmptySeq DEF TypeOK, EnterApply, NoTxn, storeVars
  <2>10. ASSUME NEW f \in Folders, BeginApply(f) PROVE TypeOK'
    BY <2>10, EmptySeq DEF TypeOK, BeginApply, storeVars
  <2>11. ASSUME NEW f \in Folders, Project(f) PROVE TypeOK'
    <3>1. Head(fbatch[f]) \in Events
      BY <2>11, HeadTailProperties DEF TypeOK, Project
    <3>2. ptx' \in [Procs -> [open : BOOLEAN, rows : Seq(Events), cur : Nat]]
      BY <2>11, <3>1, SMTT(30) DEF TypeOK, Project
    <3> QED
      BY <2>11, <3>2 DEF TypeOK, Project, storeVars
  <2>12. ASSUME NEW f \in Folders, ProjectRaises(f) PROVE TypeOK'
    BY <2>12 DEF TypeOK, ProjectRaises, storeVars
  <2>13. ASSUME NEW f \in Folders, CommitApply(f) PROVE TypeOK'
    <3>1. folded' \in Seq(Events) /\ cursor' \in Nat
      BY <2>13, ConcatProperties DEF TypeOK, CommitApply
    <3>2. fbatch' \in [Folders -> Seq(Events)]
      BY <2>13, HeadTailProperties DEF TypeOK, CommitApply, InLoop
    <3>3. ptx' \in [Procs -> [open : BOOLEAN, rows : Seq(Events), cur : Nat]]
      BY <2>13, EmptySeq DEF TypeOK, CommitApply, NoTxn
    <3>4. \A g \in Folders : InLoop(g)' => fbatch'[g] # <<>>
      BY <2>13 DEF TypeOK, CommitApply
    <3>5. ftry' \in [Folders -> 1 .. Attempts] /\ flast' \in [Folders -> Nat]
      BY <2>13 DEF TypeOK, CommitApply
    <3>6. /\ fpc' \in [Folders -> {"idle", "cursor", "events", "enter", "begin",
                                   "project", "commit"}]
          /\ plock' \in [Procs -> Folders \cup {Free}]
      BY <2>13 DEF TypeOK, CommitApply
    <3>7. UNCHANGED <<log, storeVars, faults>>
      BY <2>13 DEF CommitApply
    <3> QED
      BY <3>1, <3>2, <3>3, <3>4, <3>5, <3>6, <3>7 DEF TypeOK, storeVars
  <2>14. ASSUME NEW f \in Folders, RetryApply(f) PROVE TypeOK'
    <3>1. ftry' \in [Folders -> 1 .. Attempts]
      <4>1. CASE ftry[f] < Attempts /\ ftry' = [ftry EXCEPT ![f] = @ + 1]
        BY <4>1 DEF TypeOK
      <4>2. CASE UNCHANGED ftry
        BY <4>2 DEF TypeOK
      <4> QED BY <2>14, <4>1, <4>2 DEF RetryApply
    <3>2. /\ fpc' \in [Folders -> {"idle", "cursor", "events", "enter", "begin",
                                   "project", "commit"}]
          /\ plock' \in [Procs -> Folders \cup {Free}]
      BY <2>14 DEF TypeOK, RetryApply
    <3> QED
      BY <2>14, <3>1, <3>2 DEF TypeOK, RetryApply, storeVars
  <2>15. ASSUME NEW p \in Procs, ResetState(p) PROVE TypeOK'
    BY <2>15, EmptySeq, SMTT(30) DEF TypeOK, ResetState, NoTxn, storeVars
  <2>16. ASSUME NEW p \in Procs, Crash(p) PROVE TypeOK'
    BY <2>16, EmptySeq, LenProperties, SMTT(30) DEF TypeOK, Crash, NoTxn, Current
  <2>17. ASSUME NEW p \in Procs, FeedRead(p) PROVE TypeOK'
    BY <2>17, PinTypes DEF TypeOK, FeedRead, projVars
  <2>18. CASE UNCHANGED vars
    BY <2>18 DEF TypeOK, vars, storeVars, projVars
  <2> QED
    BY <2>1, <2>2, <2>3, <2>4, <2>5, <2>6, <2>7, <2>8, <2>9, <2>10, <2>11, <2>12,
       <2>13, <2>14, <2>15, <2>16, <2>17, <2>18 DEF Next, Appending, Folding
<1> QED
  BY <1>1, <1>2, PTL DEF Spec
-----------------------------------------------------------------------------
(* Appends.                                                                *)

(* A folder's step changes nothing of the store, except that its read may pin
   the view; so may any other read. *)
LEMMA FoldingKeepsStore ==
  ASSUME NEW f \in Folders, Folding(f)
  PROVE  /\ UNCHANGED <<issued, acked, slock, stx, apc, aev, atry>>
         /\ sview' = sview \/ sview' = [sview EXCEPT ![Home[f]] = Pin(@)]
<1>1. CASE ReadEvents(f)
  BY <1>1 DEF ReadEvents
<1>2. CASE ~ ReadEvents(f)
  BY <1>2 DEF Folding, StartCatchUp, ReadCursor, EnterApply, BeginApply, Project,
     ProjectRaises, CommitApply, RetryApply, storeVars
<1> QED BY <1>1, <1>2

LEMMA ReadKeepsCurrent ==
  ASSUME TypeOK, NEW p \in Procs,
         sview' = sview \/ sview' = [sview EXCEPT ![p] = Pin(@)]
  PROVE  \A q \in Procs : (sview'[q].kind = "current") <=> (sview[q].kind = "current")
<1>1. CASE sview' = sview
  BY <1>1
<1>2. CASE sview' = [sview EXCEPT ![p] = Pin(@)]
  <2>1. (Pin(sview[p]).kind = "current") <=> (sview[p].kind = "current")
    BY DEF Pin
  <2>2. /\ sview'[p] = Pin(sview[p])
        /\ \A q \in Procs \ {p} : sview'[q] = sview[q]
    BY <1>2 DEF TypeOK
  <2> QED BY <2>1, <2>2
<1> QED BY <1>1, <1>2

(* The lock serialises the appends of a process, so the transaction an
   appender commits is its own row and nothing else. *)
THEOREM StoreInvariant == Spec => []StoreInv
<1>1. Init => StoreInv
  BY StoreAssumption DEF Init, StoreInv, Current
<1>2. TypeOK /\ StoreInv /\ [Next]_vars => StoreInv'
  <2> SUFFICES ASSUME TypeOK, StoreInv, [Next]_vars PROVE StoreInv'
    OBVIOUS
  <2> USE StoreAssumption
  <2>1. ASSUME NEW a \in Appenders, NEW e \in Events, StartAppend(a, e)
        PROVE  StoreInv'
    BY <2>1 DEF TypeOK, StoreInv, StartAppend
  <2>2. ASSUME NEW a \in Appenders, EnterAppend(a) PROVE StoreInv'
    BY <2>2 DEF TypeOK, StoreInv, EnterAppend, Current
  <2>3. ASSUME NEW a \in Appenders, Insert(a) PROVE StoreInv'
    <3>1. stx'[Home[a]] = <<aev[a]>>
      <4>1. stx[Home[a]] = <<>> /\ aev[a] \in Events
        BY <2>3 DEF TypeOK, StoreInv, Insert
      <4>2. Append(<<>>, aev[a]) = <<aev[a]>>
        BY <4>1, EmptySeq
      <4> QED BY <2>3, <4>1, <4>2 DEF TypeOK, Insert
    <3> QED BY <2>3, <3>1, SMTT(30) DEF TypeOK, StoreInv, Insert
  <2>4. ASSUME NEW a \in Appenders, CommitAppend(a) PROVE StoreInv'
    BY <2>4 DEF TypeOK, StoreInv, CommitAppend
  <2>5. ASSUME NEW a \in Appenders, RetryAppend(a) PROVE StoreInv'
    <3>1. slock[Home[a]] = a
      BY <2>5 DEF StoreInv, RetryAppend
    <3>2. /\ \A b \in Appenders \ {a} : apc'[b] = apc[b]
          /\ \A p \in Procs \ {Home[a]} : sview'[p] = sview[p] /\ slock'[p] = slock[p]
          /\ UNCHANGED <<stx, aev>>
      BY <2>5 DEF TypeOK, RetryAppend
    <3>3. \/ apc'[a] = "enter" /\ slock'[Home[a]] = a
          \/ apc'[a] = "idle" /\ slock'[Home[a]] = Free
      BY <2>5, <3>1 DEF TypeOK, RetryAppend
    <3>4. \A b \in Appenders \ {a} : Home[b] = Home[a] => apc[b] = "idle"
      BY <3>1 DEF StoreInv
    <3> QED BY <3>1, <3>2, <3>3, <3>4 DEF StoreInv
  <2>6. ASSUME NEW f \in Folders, Folding(f) PROVE StoreInv'
    BY <2>6, FoldingKeepsStore, ReadKeepsCurrent DEF StoreInv
  <2>7. ASSUME NEW p \in Procs, ResetState(p) PROVE StoreInv'
    BY <2>7 DEF StoreInv, ResetState, storeVars
  <2>8. ASSUME NEW p \in Procs, Crash(p) PROVE StoreInv'
    BY <2>8 DEF TypeOK, StoreInv, Crash
  <2>9. ASSUME NEW p \in Procs, FeedRead(p) PROVE StoreInv'
    BY <2>9, ReadKeepsCurrent DEF StoreInv, FeedRead
  <2>10. CASE UNCHANGED vars
    BY <2>10 DEF StoreInv, vars, storeVars
  <2> QED
    BY <2>1, <2>2, <2>3, <2>4, <2>5, <2>6, <2>7, <2>8, <2>9, <2>10
       DEF Next, Appending
<1> QED
  BY <1>1, <1>2, TypeCorrect, PTL DEF Spec

(* A transaction that a refused INSERT began holds no row. *)
THEOREM ViewInvariant == Spec => []ViewInv
<1>1. Init => ViewInv
  BY DEF Init, ViewInv
<1>2. TypeOK /\ StoreInv /\ ViewInv /\ [Next]_vars => ViewInv'
  <2> SUFFICES ASSUME TypeOK, StoreInv, ViewInv, [Next]_vars PROVE ViewInv'
    OBVIOUS
  <2> USE StoreAssumption
  <2>1. ASSUME NEW a \in Appenders, Insert(a) PROVE ViewInv'
    <3>1. sview[Home[a]].kind = "current" /\ sview' = sview
      BY <2>1 DEF StoreInv, Insert
    <3>2. \A p \in Procs \ {Home[a]} : stx'[p] = stx[p]
      BY <2>1 DEF TypeOK, Insert
    <3> QED BY <3>1, <3>2 DEF ViewInv
  <2>2. ASSUME NEW a \in Appenders, RetryAppend(a) PROVE ViewInv'
    <3>1. CASE apc[a] = "insert" /\ sview' = [sview EXCEPT ![Home[a]] = Begun]
      <4>1. stx[Home[a]] = <<>> /\ stx' = stx
        BY <2>2, <3>1 DEF StoreInv, RetryAppend
      <4>2. \A p \in Procs \ {Home[a]} : sview'[p] = sview[p]
        BY <3>1 DEF TypeOK
      <4> QED BY <4>1, <4>2 DEF ViewInv
    <3>2. CASE UNCHANGED sview
      BY <2>2, <3>2 DEF ViewInv, RetryAppend
    <3> QED BY <2>2, <3>1, <3>2 DEF RetryAppend
  <2>3. ASSUME NEW a \in Appenders, EnterAppend(a) \/ CommitAppend(a) PROVE ViewInv'
    <3>1. \A p \in Procs : /\ stx'[p] = <<>> \/ stx'[p] = stx[p]
                           /\ sview'[p].kind # "current" => sview'[p] = sview[p]
      BY <2>3, SMTT(30) DEF TypeOK, EnterAppend, CommitAppend, Current
    <3> QED BY <3>1 DEF ViewInv
  <2>4. ASSUME NEW f \in Folders, Folding(f) PROVE ViewInv'
    BY <2>4, FoldingKeepsStore, ReadKeepsCurrent DEF ViewInv
  <2>5. ASSUME NEW p \in Procs, FeedRead(p) PROVE ViewInv'
    BY <2>5, ReadKeepsCurrent DEF ViewInv, FeedRead
  <2>6. ASSUME NEW p \in Procs, Crash(p) PROVE ViewInv'
    <3>1. \A q \in Procs : /\ stx'[q] = <<>> \/ stx'[q] = stx[q]
                           /\ sview'[q].kind # "current" => sview'[q] = sview[q]
      BY <2>6 DEF TypeOK, Crash, Current
    <3> QED BY <3>1 DEF ViewInv
  <2>7. ASSUME UNCHANGED <<stx, sview>> PROVE ViewInv'
    BY <2>7 DEF ViewInv
  <2> QED
    BY <2>1, <2>2, <2>3, <2>4, <2>5, <2>6, <2>7 DEF Next, Appending, StartAppend,
       ResetState, vars, storeVars
<1> QED
  BY <1>1, <1>2, TypeCorrect, StoreInvariant, PTL DEF Spec

(* The log only ever grows at its end, by the event of the one append that
   commits: every step of Next keeps it or appends one event. *)
LEMMA LogGrows ==
  ASSUME TypeOK, StoreInv, [Next]_vars
  PROVE  \/ log' = log /\ acked' = acked
         \/ \E a \in Appenders : CommitAppend(a) /\ log' = Append(log, aev[a])
<1>1. ASSUME NEW a \in Appenders, CommitAppend(a)
      PROVE  log' = Append(log, aev[a])
  <2>1. log' = log \o <<aev[a]>>
    BY <1>1 DEF CommitAppend, StoreInv
  <2> QED BY <2>1, AppendIsConcat DEF TypeOK
<1>2. ASSUME NEW f \in Folders, Folding(f) PROVE UNCHANGED <<log, acked>>
  BY <1>2, FoldingKeepsStore DEF Folding, StartCatchUp, ReadCursor, ReadEvents, EnterApply,
     BeginApply, Project, ProjectRaises, CommitApply, RetryApply
<1> QED
  BY <1>1, <1>2 DEF Next, vars, storeVars, Appending, StartAppend, EnterAppend,
     Insert, RetryAppend, FeedRead, ResetState, Crash

(* An append that returned stays in the log at its sequence, for any number of
   processes and coroutines, and whether or not a COMMIT may be refused. *)
THEOREM AppendsDurable == Spec => []AckedIsDurable
<1>1. Init => AckedIsDurable
  BY DEF Init, AckedIsDurable
<1>2. TypeOK /\ StoreInv /\ AckedIsDurable /\ [Next]_vars => AckedIsDurable'
  <2> SUFFICES ASSUME TypeOK, StoreInv, AckedIsDurable, [Next]_vars
               PROVE  AckedIsDurable'
    OBVIOUS
  <2>1. CASE log' = log /\ acked' = acked
    BY <2>1 DEF AckedIsDurable
  <2>2. ASSUME NEW a \in Appenders, CommitAppend(a), log' = Append(log, aev[a])
        PROVE  AckedIsDurable'
    <3>1. /\ DOMAIN log' = 1 .. Len(log) + 1
          /\ \A i \in DOMAIN log : i \in DOMAIN log' /\ log'[i] = log[i]
          /\ log'[Len(log) + 1] = aev[a]
      BY <2>2, AppendProperties, LenProperties DEF TypeOK
    <3>2. acked' = acked \cup {[seq |-> Len(log) + 1, ev |-> aev[a]]}
      BY <2>2 DEF CommitAppend
    <3>3. Len(log) + 1 \in DOMAIN log'
      BY <3>1, LenProperties DEF TypeOK
    <3> QED BY <3>1, <3>2, <3>3 DEF AckedIsDurable
  <2> QED BY <2>1, <2>2, LogGrows
<1> QED
  BY <1>1, <1>2, TypeCorrect, StoreInvariant, PTL DEF Spec

(* A retried append, even one whose COMMIT was refused after its INSERT, puts
   its event into the log once. *)
THEOREM AppendsOnce == Spec => []AppendedOnce
<1>1. Init => OnceInv
  BY DEF Init, OnceInv, AppendedOnce
<1>2. TypeOK /\ StoreInv /\ OnceInv /\ [Next]_vars => OnceInv'
  <2> SUFFICES ASSUME TypeOK, StoreInv, OnceInv, [Next]_vars PROVE OnceInv'
    OBVIOUS
  <2> USE StoreAssumption
  <2>1. ASSUME NEW a \in Appenders, NEW e \in Events, StartAppend(a, e)
        PROVE  OnceInv'
    BY <2>1, SMTT(30) DEF TypeOK, OnceInv, AppendedOnce, StartAppend
  <2>2. ASSUME NEW a \in Appenders, CommitAppend(a), log' = Append(log, aev[a])
        PROVE  OnceInv'
    <3>1. /\ DOMAIN log' = DOMAIN log \cup {Len(log) + 1}
          /\ \A i \in DOMAIN log : log'[i] = log[i]
          /\ log'[Len(log) + 1] = aev[a]
      BY <2>2, AppendProperties, LenProperties, SMTT(30) DEF TypeOK
    <3>2. /\ UNCHANGED <<issued, aev>>
          /\ apc[a] = "commit" /\ apc' = [apc EXCEPT ![a] = "idle"]
      BY <2>2 DEF CommitAppend
    <3>3. AppendedOnce'
      BY <3>1, <3>2 DEF OnceInv, AppendedOnce
    <3> QED BY <3>1, <3>2, <3>3, SMTT(30) DEF TypeOK, OnceInv
  <2>3. ASSUME NEW a \in Appenders,
               EnterAppend(a) \/ Insert(a) \/ RetryAppend(a)
        PROVE  OnceInv'
    <3>1. /\ UNCHANGED <<issued, log, aev>>
          /\ \A b \in Appenders : apc'[b] # "idle" => apc[b] # "idle"
      BY <2>3 DEF TypeOK, EnterAppend, Insert, RetryAppend
    <3> QED BY <3>1 DEF OnceInv, AppendedOnce
  <2>4. ASSUME NEW f \in Folders, Folding(f) PROVE OnceInv'
    <3>1. UNCHANGED <<issued, log, aev, apc>>
      BY <2>4, FoldingKeepsStore DEF Folding, StartCatchUp, ReadCursor, ReadEvents,
         EnterApply, BeginApply, Project, ProjectRaises, CommitApply, RetryApply
    <3> QED BY <3>1 DEF OnceInv, AppendedOnce
  <2>5. ASSUME NEW p \in Procs, ResetState(p) \/ Crash(p) PROVE OnceInv'
    <3>1. /\ UNCHANGED <<issued, log, aev>>
          /\ \A b \in Appenders : apc'[b] # "idle" => apc[b] # "idle"
      BY <2>5 DEF ResetState, Crash, storeVars
    <3> QED BY <3>1 DEF OnceInv, AppendedOnce
  <2>6. ASSUME UNCHANGED <<issued, log, aev, apc>> PROVE OnceInv'
    BY <2>6 DEF OnceInv, AppendedOnce
  <2>7. ASSUME NEW a \in Appenders, CommitAppend(a) PROVE log' = Append(log, aev[a])
    <3>1. log' = log \o <<aev[a]>>
      BY <2>7 DEF CommitAppend, StoreInv
    <3> QED BY <3>1, AppendIsConcat DEF TypeOK
  <2> QED
    BY <2>1, <2>2, <2>3, <2>4, <2>5, <2>6, <2>7 DEF Next, Appending, FeedRead,
       vars, storeVars
<1>3. OnceInv => AppendedOnce
  BY DEF OnceInv
<1> QED
  BY <1>1, <1>2, <1>3, TypeCorrect, StoreInvariant, PTL DEF Spec

-----------------------------------------------------------------------------
(* The two connections, where no COMMIT is refused.                        *)

(* A folder's step leaves the control state and the batch of the others. *)
LEMMA OthersKeep ==
  ASSUME TypeOK, NEW f \in Folders, NEW g \in Folders \ {f}, Folding(f)
  PROVE  fpc'[g] = fpc[g] /\ flast'[g] = flast[g] /\ fbatch'[g] = fbatch[g]
<1>1. CASE ReadEvents(f)
  BY <1>1 DEF TypeOK, ReadEvents
<1>2. CASE CommitApply(f)
  BY <1>2 DEF TypeOK, CommitApply
<1>3. CASE RetryApply(f)
  BY <1>3 DEF TypeOK, RetryApply
<1>4. CASE StartCatchUp(f)
  BY <1>4 DEF TypeOK, StartCatchUp
<1>5. CASE ReadCursor(f)
  BY <1>5 DEF TypeOK, ReadCursor
<1>6. CASE EnterApply(f)
  BY <1>6 DEF TypeOK, EnterApply
<1>7. CASE BeginApply(f)
  BY <1>7 DEF TypeOK, BeginApply
<1>8. CASE Project(f)
  BY <1>8 DEF TypeOK, Project
<1>9. CASE ProjectRaises(f)
  BY <1>9 DEF TypeOK, ProjectRaises
<1> QED BY <1>1, <1>2, <1>3, <1>4, <1>5, <1>6, <1>7, <1>8, <1>9 DEF Folding

(* The projector's lock excludes: while a folder is at work, the others of its
   process are idle. *)
LEMMA AloneAtHome ==
  ASSUME FolderLocks, NEW f \in Folders, NEW g \in Folders \ {f},
         fpc[f] # "idle", Home[g] = Home[f]
  PROVE  fpc[g] = "idle"
BY DEF FolderLocks

(* A folder takes and gives back its process's lock with its control state. *)
LEMMA LocksKept ==
  ASSUME TypeOK, FolderLocks, NEW f \in Folders, Folding(f)
  PROVE  FolderLocks'
<1> USE StoreAssumption
<1>1. CASE StartCatchUp(f)
  BY <1>1, SMTT(30) DEF TypeOK, FolderLocks, StartCatchUp
<1>2. CASE \E done \in BOOLEAN :
             /\ fpc[f] # "idle"
             /\ fpc' = [fpc EXCEPT ![f] = IF done THEN "idle" ELSE "enter"]
             /\ plock' = [plock EXCEPT ![Home[f]] = IF done THEN Free ELSE @]
  <2>1. PICK done \in BOOLEAN :
             /\ fpc[f] # "idle"
             /\ fpc' = [fpc EXCEPT ![f] = IF done THEN "idle" ELSE "enter"]
             /\ plock' = [plock EXCEPT ![Home[f]] = IF done THEN Free ELSE @]
    BY <1>2
  <2>2. plock[Home[f]] = f
    BY <2>1 DEF FolderLocks
  <2>3. CASE done
    BY <2>1, <2>2, <2>3 DEF TypeOK, FolderLocks
  <2>4. CASE ~ done
    BY <2>1, <2>2, <2>4 DEF TypeOK, FolderLocks
  <2> QED BY <2>3, <2>4
<1>3. ASSUME ReadEvents(f) PROVE FolderLocks'
  <2> DEFINE rows == SubSeq(Visible(Home[f]), flast[f] + 1, Len(Visible(Home[f])))
  <2>1. /\ fpc' = [fpc EXCEPT ![f] = IF rows = <<>> THEN "idle" ELSE "enter"]
        /\ plock' = [plock EXCEPT ![Home[f]] = IF rows = <<>> THEN Free ELSE @]
        /\ fpc[f] # "idle"
    BY <1>3 DEF ReadEvents
  <2>2. (rows = <<>>) \in BOOLEAN
    OBVIOUS
  <2> HIDE DEF rows
  <2> QED BY <1>2, <2>1, <2>2
<1>4. ASSUME CommitApply(f) PROVE FolderLocks'
  <2>1. /\ fpc' = [fpc EXCEPT ![f] = IF Tail(fbatch[f]) = <<>> THEN "idle" ELSE "enter"]
        /\ plock' = [plock EXCEPT ![Home[f]] = IF Tail(fbatch[f]) = <<>> THEN Free ELSE @]
        /\ fpc[f] # "idle"
    BY <1>4 DEF CommitApply
  <2>2. (Tail(fbatch[f]) = <<>>) \in BOOLEAN
    OBVIOUS
  <2> QED BY <1>2, <2>1, <2>2
<1>5. CASE RetryApply(f)
  <2>1. CASE fpc' = [fpc EXCEPT ![f] = "enter"] /\ plock' = plock
    BY <1>5, <2>1 DEF TypeOK, FolderLocks, RetryApply
  <2>2. CASE /\ fpc' = [fpc EXCEPT ![f] = "idle"]
             /\ plock' = [plock EXCEPT ![Home[f]] = Free]
    BY <1>5, <2>2 DEF TypeOK, FolderLocks, RetryApply
  <2> QED BY <1>5, <2>1, <2>2 DEF RetryApply
<1>6. CASE ReadCursor(f) \/ EnterApply(f) \/ BeginApply(f) \/ Project(f)
  <2>1. fpc[f] # "idle" /\ plock' = plock
    BY <1>6 DEF ReadCursor, EnterApply, BeginApply, Project
  <2>2. PICK c \in {"events", "begin", "project", "commit"} : fpc' = [fpc EXCEPT ![f] = c]
    BY <1>6 DEF ReadCursor, EnterApply, BeginApply, Project
  <2> QED BY <2>1, <2>2 DEF TypeOK, FolderLocks
<1>7. CASE ProjectRaises(f)
  BY <1>7 DEF TypeOK, FolderLocks, ProjectRaises
<1> QED BY <1>1, <1>3, <1>4, <1>5, <1>6, <1>7 DEF Folding

(* At most one of all the connections of all the processes has a transaction
   open, and what is in it is what its holder put there. *)
THEOREM WritersExclude == ASSUME ~ BusyCommit PROVE Spec => []Exclusion
<1>1. Init => Exclusion
  BY StoreAssumption DEF Init, Exclusion, NoLeftover, OneWriter, FolderLocks, FolderTxn,
     OpenCursor, NoTxn
<1>2. TypeOK /\ StoreInv /\ Exclusion /\ [Next]_vars => Exclusion'
  <2> SUFFICES ASSUME TypeOK, StoreInv, Exclusion, [Next]_vars PROVE Exclusion'
    OBVIOUS
  <2> USE StoreAssumption
  <2>0. NoLeftover /\ OneWriter /\ FolderLocks /\ FolderTxn /\ OpenCursor
    BY DEF Exclusion
  (* the steps of an append *)
  <2>1. ASSUME UNCHANGED <<ptx, fpc, plock, flast, fbatch, cursor>>
        PROVE  FolderLocks' /\ FolderTxn' /\ OpenCursor'
    BY <2>0, <2>1 DEF FolderLocks, FolderTxn, OpenCursor
  <2>2. ASSUME NEW a \in Appenders, Insert(a) PROVE Exclusion'
    <3>1. /\ UNCHANGED <<ptx, fpc, plock, flast, fbatch, cursor>>
          /\ apc' = [apc EXCEPT ![a] = "commit"]
          /\ StoreMayWrite(Home[a])
          /\ \A p \in Procs : p # Home[a] => stx'[p] = stx[p]
      BY <2>2 DEF TypeOK, Insert, projVars
    <3>2. NoLeftover'
      BY <2>0, <3>1 DEF TypeOK, NoLeftover
    <3>3. OneWriter'
      BY <2>0, <3>1 DEF StoreMayWrite, OneWriter
    <3> QED BY <2>1, <3>1, <3>2, <3>3 DEF Exclusion
  <2>3. ASSUME NEW a \in Appenders, CommitAppend(a) PROVE Exclusion'
    <3>1. /\ UNCHANGED <<ptx, fpc, plock, flast, fbatch, cursor>>
          /\ apc' = [apc EXCEPT ![a] = "idle"]
          /\ stx' = [stx EXCEPT ![Home[a]] = <<>>]
      BY <2>3 DEF CommitAppend, projVars
    <3>2. NoLeftover' /\ OneWriter'
      BY <2>0, <3>1, SMTT(30) DEF TypeOK, NoLeftover, OneWriter
    <3> QED BY <2>1, <3>1, <3>2 DEF Exclusion
  <2>4. ASSUME NEW a \in Appenders, NEW e \in Events,
               StartAppend(a, e) \/ EnterAppend(a) \/ RetryAppend(a)
        PROVE  Exclusion'
    <3>1. UNCHANGED <<ptx, fpc, plock, flast, fbatch, cursor>>
      BY <2>4 DEF StartAppend, EnterAppend, RetryAppend, projVars
    <3>2. \A b \in Appenders : apc[b] = "commit" => apc'[b] = "commit"
      BY <2>4 DEF TypeOK, StartAppend, EnterAppend, RetryAppend
    <3>3. \A p \in Procs : stx'[p] # <<>> => stx'[p] = stx[p]
      BY <2>4 DEF TypeOK, StartAppend, EnterAppend, RetryAppend
    <3>4. NoLeftover' /\ OneWriter'
      BY <2>0, <3>1, <3>2, <3>3 DEF NoLeftover, OneWriter
    <3> QED BY <2>1, <3>1, <3>4 DEF Exclusion
  (* the steps of a fold *)
  <2>5. ASSUME UNCHANGED <<stx, apc>>,
               \A p \in Procs : ptx'[p].open => ptx[p].open
        PROVE  NoLeftover' /\ OneWriter'
    BY <2>0, <2>5 DEF NoLeftover, OneWriter
  <2>6. ASSUME NEW f \in Folders, Folding(f)
        PROVE  /\ FolderLocks' /\ UNCHANGED <<stx, apc>>
               /\ \A g \in Folders \ {f} :
                    fpc'[g] = fpc[g] /\ flast'[g] = flast[g] /\ fbatch'[g] = fbatch[g]
    <3> QED BY <2>0, <2>6, FoldingKeepsStore, LocksKept, OthersKeep
  <2>7. ASSUME NEW f \in Folders, Folding(f), UNCHANGED <<ptx, cursor>>,
               fpc[f] # "commit", fpc'[f] \notin {"begin", "project", "commit"}
        PROVE  Exclusion'
    <3>1. FolderTxn'
      BY <2>0, <2>6, <2>7 DEF FolderTxn
    <3>2. OpenCursor'
      <4>1. \A h \in Folders : fpc[h] = "commit" => fpc'[h] = "commit"
        BY <2>6, <2>7
      <4> QED BY <2>0, <2>7, <4>1 DEF OpenCursor
    <3> QED BY <2>5, <2>6, <2>7, <3>1, <3>2 DEF Exclusion
  <2>8. ASSUME NEW f \in Folders,
               \/ StartCatchUp(f) \/ ReadCursor(f) \/ ReadEvents(f)
               \/ ProjectRaises(f) \/ RetryApply(f)
        PROVE  Exclusion'
    <3>1. Folding(f)
      BY <2>8 DEF Folding
    <3>2. UNCHANGED <<ptx, cursor>> /\ fpc[f] # "commit"
      BY <2>8 DEF StartCatchUp, ReadCursor, ReadEvents, ProjectRaises, RetryApply
    <3>3. fpc'[f] \in {"idle", "cursor", "events", "enter"}
      <4>1. CASE ReadEvents(f)
        BY <4>1 DEF TypeOK, ReadEvents
      <4>2. CASE StartCatchUp(f) \/ ReadCursor(f)
        BY <4>2 DEF TypeOK, StartCatchUp, ReadCursor
      <4>3. CASE ProjectRaises(f) \/ RetryApply(f)
        BY <4>3 DEF TypeOK, ProjectRaises, RetryApply
      <4> QED BY <2>8, <4>1, <4>2, <4>3
    <3> QED BY <2>7, <3>1, <3>2, <3>3
  <2>9. ASSUME NEW f \in Folders, Folding(f), fpc[f] # "idle",
               ptx' = [ptx EXCEPT ![Home[f]] = NoTxn],
               fpc'[f] \in {"idle", "enter", "begin"},
               \/ cursor' = cursor
               \/ ptx[Home[f]].open
        PROVE  Exclusion'
    <3>0. ~ NoTxn.open
      BY DEF NoTxn
    <3>1. /\ \A p \in Procs : ptx'[p].open => ptx[p].open /\ ptx'[p] = ptx[p] /\ p # Home[f]
          /\ ~ ptx'[Home[f]].open
      BY <2>9, <3>0 DEF TypeOK
    <3>2. \A g \in Folders \ {f} : Home[g] = Home[f] => fpc'[g] = "idle"
      BY <2>0, <2>6, <2>9, AloneAtHome
    <3>3. FolderTxn'
      <4> SUFFICES ASSUME NEW g \in Folders
                   PROVE  /\ fpc'[g] = "begin" => ~ ptx'[Home[g]].open
                          /\ fpc'[g] \in {"project", "commit"} => ptx'[Home[g]].open
                          /\ fpc'[g] = "commit" =>
                               /\ ptx'[Home[g]].rows = <<Head(fbatch'[g])>>
                               /\ ptx'[Home[g]].cur = flast'[g] + 1
                               /\ Head(fbatch'[g]) \notin Poison
        BY DEF FolderTxn
      <4>1. CASE g = f
        BY <2>9, <3>1, <4>1
      <4>2. CASE g # f /\ Home[g] = Home[f]
        BY <3>2, <4>2
      <4>3. CASE Home[g] # Home[f]
        <5>1. /\ fpc'[g] = fpc[g] /\ flast'[g] = flast[g] /\ fbatch'[g] = fbatch[g]
              /\ ptx'[Home[g]] = ptx[Home[g]]
          BY <2>6, <2>9, <4>3 DEF TypeOK
        <5> QED BY <2>0, <5>1 DEF FolderTxn
      <4> QED BY <4>1, <4>2, <4>3
    <3>4. OpenCursor'
      <4> SUFFICES ASSUME NEW p \in Procs, ptx'[p].open
                   PROVE  \/ ptx'[p].cur = cursor'
                          \/ \E g \in Folders : Home[g] = p /\ fpc'[g] = "commit"
        BY DEF OpenCursor
      <4>1. ptx[p].open /\ ptx'[p] = ptx[p] /\ p # Home[f] /\ Home[f] \in Procs
        BY <3>1
      <4>2. cursor' = cursor
        BY <2>0, <2>9, <4>1 DEF OneWriter
      <4>3. \A g \in Folders : Home[g] = p => fpc'[g] = fpc[g]
        BY <2>6, <2>9, <4>1
      <4> QED BY <2>0, <4>1, <4>2, <4>3 DEF OpenCursor
    <3> QED BY <2>5, <2>6, <2>9, <3>1, <3>3, <3>4 DEF Exclusion
  <2>10. ASSUME NEW f \in Folders, EnterApply(f) \/ CommitApply(f) PROVE Exclusion'
    <3>1. Folding(f) /\ fpc[f] # "idle" /\ ptx' = [ptx EXCEPT ![Home[f]] = NoTxn]
      BY <2>10 DEF Folding, EnterApply, CommitApply
    <3>2. fpc'[f] \in {"idle", "enter", "begin"}
      BY <2>10 DEF TypeOK, EnterApply, CommitApply
    <3>3. cursor' = cursor \/ ptx[Home[f]].open
      BY <2>0, <2>10 DEF EnterApply, CommitApply, FolderTxn
    <3> QED BY <2>9, <3>1, <3>2, <3>3
  <2>11. ASSUME NEW f \in Folders, BeginApply(f) \/ Project(f) PROVE Exclusion'
    <3>1. Folding(f) /\ fpc[f] # "idle" /\ cursor' = cursor
      BY <2>11 DEF Folding, BeginApply, Project
    <3>2. \A g \in Folders \ {f} : Home[g] = Home[f] => fpc'[g] = "idle" /\ fpc[g] = "idle"
      BY <2>0, <2>6, <3>1, AloneAtHome
    <3>3. /\ \A p \in Procs : p # Home[f] => ptx'[p] = ptx[p]
          /\ ptx'[Home[f]].open /\ fpc'[f] \in {"project", "commit"}
      BY <2>11, SMTT(30) DEF TypeOK, BeginApply, Project
    <3>4. /\ fpc'[f] = "project" => ptx'[Home[f]].cur = cursor
          /\ fpc'[f] = "commit" =>
                         /\ ptx'[Home[f]].rows = <<Head(fbatch'[f])>>
                         /\ ptx'[Home[f]].cur = flast'[f] + 1
                         /\ Head(fbatch'[f]) \notin Poison
      <4>1. CASE BeginApply(f)
        BY <4>1 DEF TypeOK, BeginApply
      <4>2. CASE Project(f)
        BY <4>2 DEF TypeOK, Project
      <4> QED BY <2>11, <4>1, <4>2
    <3>5. ProjectorMayWrite(Home[f])
      <4>1. CASE BeginApply(f)
        BY <4>1 DEF BeginApply
      <4>2. CASE Project(f)
        <5>1. ptx[Home[f]].open
          BY <2>0, <4>2 DEF Project, FolderTxn
        <5> QED BY <2>0, <5>1 DEF OneWriter, ProjectorMayWrite
      <4> QED BY <2>11, <4>1, <4>2
    <3>6. NoLeftover' /\ OneWriter'
      <4>1. \A q \in Procs : stx'[q] = <<>> /\ (q # Home[f] => ~ ptx'[q].open)
        BY <2>6, <3>1, <3>3, <3>5 DEF ProjectorMayWrite
      <4> QED BY <4>1 DEF NoLeftover, OneWriter
    <3>7. FolderTxn'
      <4> SUFFICES ASSUME NEW g \in Folders
                   PROVE  /\ fpc'[g] = "begin" => ~ ptx'[Home[g]].open
                          /\ fpc'[g] \in {"project", "commit"} => ptx'[Home[g]].open
                          /\ fpc'[g] = "commit" =>
                               /\ ptx'[Home[g]].rows = <<Head(fbatch'[g])>>
                               /\ ptx'[Home[g]].cur = flast'[g] + 1
                               /\ Head(fbatch'[g]) \notin Poison
        BY DEF FolderTxn
      <4>1. CASE g = f
        BY <3>3, <3>4, <4>1
      <4>2. CASE g # f /\ Home[g] = Home[f]
        BY <3>2, <4>2
      <4>3. CASE Home[g] # Home[f]
        <5>1. /\ fpc'[g] = fpc[g] /\ flast'[g] = flast[g] /\ fbatch'[g] = fbatch[g]
              /\ ptx'[Home[g]] = ptx[Home[g]]
          BY <2>6, <3>1, <3>3, <4>3
        <5> QED BY <2>0, <5>1 DEF FolderTxn
      <4> QED BY <4>1, <4>2, <4>3
    <3>8. OpenCursor'
      <4> SUFFICES ASSUME NEW p \in Procs, ptx'[p].open
                   PROVE  \/ ptx'[p].cur = cursor'
                          \/ \E g \in Folders : Home[g] = p /\ fpc'[g] = "commit"
        BY DEF OpenCursor
      <4>1. p = Home[f]
        BY <3>3, <3>5 DEF ProjectorMayWrite
      <4> QED BY <3>1, <3>3, <3>4, <4>1
    <3> QED BY <2>6, <3>1, <3>6, <3>7, <3>8 DEF Exclusion
  (* a rebuild, a crash, a stutter *)
  <2>12. ASSUME NEW p \in Procs, ResetState(p) PROVE Exclusion'
    <3>1. /\ \A q \in Procs : stx'[q] = <<>> /\ ~ ptx'[q].open
          /\ UNCHANGED <<fpc, plock>> /\ \A f \in Folders : Home[f] = p => fpc[f] = "idle"
      BY <2>0, <2>12 DEF TypeOK, ResetState, ProjectorMayWrite, NoTxn, storeVars, FolderLocks
    <3>2. \A f \in Folders : fpc[f] \notin {"project", "commit"}
      BY <2>0, <2>12, <3>1 DEF ResetState, ProjectorMayWrite, FolderTxn
    <3> QED
      BY <2>0, <3>1, <3>2 DEF Exclusion, NoLeftover, OneWriter, FolderLocks, FolderTxn,
         OpenCursor
  <2>13. ASSUME NEW p \in Procs, Crash(p) PROVE Exclusion'
    <3>1. /\ \A q \in Procs : /\ stx'[q] # <<>> => stx'[q] = stx[q] /\ q # p
                              /\ ptx'[q].open => ptx'[q] = ptx[q] /\ q # p
          /\ \A a \in Appenders : Home[a] # p => apc'[a] = apc[a]
          /\ UNCHANGED <<flast, fbatch, cursor>>
      BY <2>13 DEF TypeOK, Crash, NoTxn
    <3>2. /\ \A f \in Folders : /\ Home[f] = p => fpc'[f] = "idle"
                                /\ Home[f] # p => fpc'[f] = fpc[f]
          /\ \A q \in Procs : q # p => plock'[q] = plock[q] /\ ptx'[q] = ptx[q]
          /\ plock'[p] = Free
      BY <2>13 DEF TypeOK, Crash
    <3>3. NoLeftover' /\ OneWriter'
      BY <2>0, <3>1 DEF NoLeftover, OneWriter
    <3>4. FolderLocks'
      BY <2>0, <3>2 DEF FolderLocks
    <3>5. FolderTxn'
      BY <2>0, <3>1, <3>2 DEF FolderTxn
    <3>6. OpenCursor'
      BY <2>0, <3>1, <3>2 DEF OpenCursor
    <3> QED BY <3>3, <3>4, <3>5, <3>6 DEF Exclusion
  <2>14. ASSUME NEW p \in Procs, FeedRead(p) PROVE Exclusion'
    BY <2>0, <2>1, <2>5, <2>14 DEF FeedRead, projVars, Exclusion
  <2>15. CASE UNCHANGED vars
    BY <2>0, <2>1, <2>5, <2>15 DEF vars, storeVars, projVars, Exclusion
  <2> QED
    BY <2>2, <2>3, <2>4, <2>8, <2>10, <2>11, <2>12, <2>13, <2>14, <2>15
       DEF Next, Appending, Folding
<1> QED
  BY <1>1, <1>2, TypeCorrect, StoreInvariant, PTL DEF Spec

-----------------------------------------------------------------------------
(* What a folder sees of the log.                                          *)

Extends(s, t) == Len(s) <= Len(t) /\ \A i \in 1 .. Len(s) : t[i] = s[i]

LEMMA ConcatExtends ==
  ASSUME NEW s \in Seq(Events), NEW t \in Seq(Events)
  PROVE  Extends(s, s \o t) /\ s \o <<>> = s
BY ConcatProperties, ConcatEmptySeq DEF Extends

LEMMA VisibleTypesNext ==
  ASSUME TypeOK', NEW p \in Procs
  PROVE  Visible(p)' \in Seq(Events)
<1>1. log' \in Seq(Events) /\ stx'[p] \in Seq(Events) /\ sview'[p].len \in Nat
  BY DEF TypeOK
<1>2. CASE sview'[p].kind = "pinned"
  <2>1. \A i \in 1 .. sview'[p].len : log'[i] \in Events
    BY <1>1, LenProperties DEF TypeOK
  <2>2. SubSeq(log', 1, sview'[p].len) \in Seq(Events)
    BY <1>1, <2>1, SubSeqProperties
  <2> QED BY <1>2, <2>2 DEF Visible
<1>3. CASE sview'[p].kind # "pinned"
  BY <1>1, <1>3, ConcatProperties DEF Visible
<1> QED BY <1>2, <1>3

LEMMA PrefixExtends ==
  ASSUME NEW t \in Seq(Events), NEW n \in Nat, n <= Len(t)
  PROVE  Extends(SubSeq(t, 1, n), t) /\ (n = Len(t) => SubSeq(t, 1, n) = t)
<1> DEFINE u == SubSeq(t, 1, n)
<1>1. \A i \in 1 .. n : t[i] \in Events
  BY LenProperties
<1>2. u \in Seq(Events) /\ Len(u) = n /\ \A i \in 1 .. n : u[i] = t[i]
  BY <1>1, SubSeqProperties
<1> HIDE DEF u
<1>3. Extends(u, t)
  BY <1>2 DEF Extends
<1>4. n = Len(t) => u = t
  BY <1>2, SeqEqual
<1> QED BY <1>3, <1>4 DEF u

LEMMA SamePrefix ==
  ASSUME NEW s \in Seq(Events), NEW t \in Seq(Events), Extends(s, t),
         NEW n \in Nat, n <= Len(s)
  PROVE  SubSeq(t, 1, n) = SubSeq(s, 1, n)
<1> DEFINE u == SubSeq(s, 1, n)
           v == SubSeq(t, 1, n)
<1>1. Len(s) \in Nat /\ Len(t) \in Nat /\ n <= Len(t)
  BY LenProperties DEF Extends
<1>2. \A i \in 1 .. n : s[i] \in Events /\ t[i] \in Events /\ t[i] = s[i]
  BY <1>1, LenProperties DEF Extends
<1>3. u \in Seq(Events) /\ Len(u) = n /\ \A i \in 1 .. n : u[i] = s[i]
  BY <1>2, SubSeqProperties
<1>4. v \in Seq(Events) /\ Len(v) = n /\ \A i \in 1 .. n : v[i] = t[i]
  BY <1>2, SubSeqProperties
<1> HIDE DEF u, v
<1>5. v = u
  BY <1>2, <1>3, <1>4, SeqEqual
<1> QED BY <1>5 DEF u, v

(* A read that pins the view shows what it would have shown. *)
LEMMA ReadShows ==
  ASSUME TypeOK, ViewInv, NEW p \in Procs, NEW q \in Procs,
         log' = log, stx' = stx, sview' = [sview EXCEPT ![q] = Pin(@)]
  PROVE  Visible(p)' = Visible(p)
<1>1. CASE sview'[p] = sview[p]
  BY <1>1 DEF Visible
<1>2. CASE sview'[p] # sview[p]
  <2>1. /\ p = q /\ sview[p].kind = "begun"
        /\ sview'[p] = [kind |-> "pinned", len |-> Len(log)]
    BY <1>2 DEF TypeOK, Pin
  <2>2. Visible(p) = log \o <<>> /\ Visible(p)' = SubSeq(log, 1, Len(log))
    <3>1. sview'[p].kind = "pinned" /\ sview'[p].len = Len(log) /\ stx[p] = <<>>
      BY <2>1 DEF ViewInv
    <3>2. Visible(p)' = SubSeq(log', 1, sview'[p].len)
      BY <3>1 DEF Visible
    <3>3. Visible(p) = log \o stx[p]
      BY <2>1 DEF Visible
    <3> QED BY <3>1, <3>2, <3>3
  <2>3. log \in Seq(Events) /\ Len(log) \in Nat
    BY LenProperties DEF TypeOK
  <2> QED BY <2>2, <2>3, PrefixExtends, ConcatExtends
<1> QED BY <1>1, <1>2

(* No step of another process, and no step of its own but a crash, takes a row
   from what a process's store shows. *)
LEMMA VisibleGrows ==
  ASSUME TypeOK, StoreInv, ViewInv, Exclusion, [Next]_vars, NEW p \in Procs, ~ Crash(p)
  PROVE  Extends(Visible(p), Visible(p)')
<1> USE StoreAssumption
<1>0. /\ log \in Seq(Events) /\ stx[p] \in Seq(Events) /\ Visible(p) \in Seq(Events)
      /\ Extends(Visible(p), Visible(p)) /\ Extends(log, log)
      /\ Len(log) \in Nat /\ sview[p].len \in Nat /\ sview[p].len <= Len(log)
  BY VisibleTypes, LenProperties, SMTT(30) DEF TypeOK, Extends
<1>1. ASSUME NEW t \in Seq(Events), NEW n \in Nat, n <= Len(t)
      PROVE  Extends(SubSeq(t, 1, n), t) /\ (n = Len(t) => SubSeq(t, 1, n) = t)
  BY <1>1, PrefixExtends
<1>2. ASSUME NEW a \in Appenders, Insert(a) PROVE Extends(Visible(p), Visible(p)')
  <2>1. CASE p = Home[a]
    <3>1. /\ stx'[p] = Append(stx[p], aev[a]) /\ log' = log /\ aev[a] \in Events
          /\ stx[p] = <<>> /\ sview'[p] = sview[p] /\ sview[p].kind = "current"
      BY <1>2, <2>1 DEF TypeOK, StoreInv, Insert
    <3>2. Visible(p) = log /\ Append(stx[p], aev[a]) \in Seq(Events)
      BY <1>0, <3>1, ConcatExtends, AppendProperties DEF Visible
    <3> QED BY <1>0, <3>1, <3>2, ConcatExtends DEF Visible
  <2>2. CASE p # Home[a]
    BY <1>0, <1>2, <2>2 DEF TypeOK, Insert, Visible
  <2> QED BY <2>1, <2>2
<1>3. ASSUME NEW a \in Appenders, CommitAppend(a)
      PROVE  Extends(Visible(p), Visible(p)')
  <2>1. sview' = sview /\ stx[Home[a]] # <<>> /\ stx[Home[a]] \in Seq(Events)
    <3>1. stx[Home[a]] = <<aev[a]>>
      BY <1>3 DEF CommitAppend, StoreInv
    <3>2. <<aev[a]>> # <<>>
      OBVIOUS
    <3> QED BY <1>3, <3>1, <3>2 DEF TypeOK, CommitAppend
  <2>2. log' = log \o stx[Home[a]] /\ log' \in Seq(Events)
    BY <1>0, <1>3, <2>1, ConcatProperties DEF CommitAppend
  <2>3. Extends(log, log')
    BY <1>0, <2>1, <2>2, ConcatExtends
  <2>4. CASE sview[p].kind = "pinned"
    <3>1. SubSeq(log', 1, sview[p].len) = SubSeq(log, 1, sview[p].len)
      BY <1>0, <2>2, <2>3, SamePrefix
    <3> QED BY <1>0, <2>1, <2>4, <3>1 DEF Visible
  <2>5. CASE sview[p].kind # "pinned" /\ p = Home[a]
    <3>1. stx'[p] = <<>> /\ log' = Visible(p)
      BY <1>3, <2>5 DEF TypeOK, CommitAppend, Visible
    <3>2. Visible(p)' = log' \o <<>>
      BY <2>1, <2>5, <3>1 DEF Visible
    <3> QED BY <1>0, <2>2, <3>1, <3>2, ConcatExtends
  <2>6. CASE sview[p].kind # "pinned" /\ p # Home[a]
    <3>1. stx[p] = <<>> /\ stx'[p] = <<>>
      BY <1>3, <2>1, <2>6 DEF TypeOK, CommitAppend, Exclusion, OneWriter
    <3>2. Visible(p) = log \o <<>> /\ Visible(p)' = log' \o <<>>
      BY <2>1, <2>6, <3>1 DEF Visible
    <3> QED BY <1>0, <2>2, <2>3, <3>2, ConcatExtends
  <2> QED BY <2>4, <2>5, <2>6
<1>4. ASSUME log' = log, stx'[p] = stx[p], sview'[p] = sview[p]
      PROVE  Extends(Visible(p), Visible(p)')
  BY <1>0, <1>4 DEF Visible
(* a view that is no longer pinned shows what it showed, and perhaps more *)
<1>5. ASSUME log' = log, stx'[p] = stx[p], sview'[p].kind # "pinned",
             stx[p] = <<>> \/ sview[p].kind # "pinned"
      PROVE  Extends(Visible(p), Visible(p)')
  <2>1. CASE sview[p].kind = "pinned"
    <3>1. Visible(p) = SubSeq(log, 1, sview[p].len) /\ Visible(p)' = log \o <<>>
      BY <1>5, <2>1 DEF Visible
    <3> QED BY <1>0, <1>1, <3>1, ConcatExtends
  <2>2. CASE sview[p].kind # "pinned"
    BY <1>0, <1>5, <2>2 DEF Visible
  <2> QED BY <2>1, <2>2
<1>6. ASSUME NEW q \in Procs, log' = log, stx' = stx, sview' = [sview EXCEPT ![q] = Pin(@)]
      PROVE  Extends(Visible(p), Visible(p)')
  BY <1>0, <1>6, ReadShows
<1>7. ASSUME NEW a \in Appenders, EnterAppend(a)
      PROVE  Extends(Visible(p), Visible(p)')
  <2>1. apc[a] = "enter" /\ slock[Home[a]] = a
    BY <1>7 DEF EnterAppend, StoreInv
  <2>2. stx[Home[a]] = <<>>
    BY <2>1 DEF StoreInv, Exclusion, NoLeftover
  <2>3. log' = log /\ stx' = stx
    BY <1>7, <2>2 DEF TypeOK, EnterAppend
  <2>4. CASE p = Home[a]
    <3>1. sview'[p].kind # "pinned"
      BY <1>7, <2>4 DEF TypeOK, EnterAppend, Current
    <3> QED BY <1>5, <2>2, <2>3, <2>4, <3>1
  <2>5. CASE p # Home[a]
    BY <1>4, <1>7, <2>3, <2>5 DEF TypeOK, EnterAppend
  <2> QED BY <2>4, <2>5
<1>8. ASSUME NEW a \in Appenders, RetryAppend(a)
      PROVE  Extends(Visible(p), Visible(p)')
  <2>1. log' = log /\ stx' = stx
    BY <1>8 DEF RetryAppend
  <2>2. CASE sview'[p] = sview[p]
    BY <1>4, <2>1, <2>2
  <2>3. CASE sview'[p] # sview[p]
    <3>1. p = Home[a] /\ apc[a] = "insert" /\ sview'[p] = Begun
      BY <1>8, <2>3 DEF TypeOK, RetryAppend
    <3>2. stx[p] = <<>> /\ sview'[p].kind # "pinned"
      BY <3>1 DEF StoreInv, Begun
    <3> QED BY <1>5, <2>1, <3>2
  <2> QED BY <2>2, <2>3
<1>9. ASSUME NEW f \in Folders, Folding(f) PROVE Extends(Visible(p), Visible(p)')
  <2>1. log' = log /\ stx' = stx
    BY <1>9, FoldingKeepsStore DEF Folding, StartCatchUp, ReadCursor, ReadEvents, EnterApply,
       BeginApply, Project, ProjectRaises, CommitApply, RetryApply
  <2> QED BY <1>4, <1>6, <1>9, <2>1, FoldingKeepsStore
<1>10. ASSUME NEW q \in Procs, Crash(q) PROVE Extends(Visible(p), Visible(p)')
  BY <1>4, <1>10 DEF TypeOK, Crash
<1>11. ASSUME NEW q \in Procs, FeedRead(q) PROVE Extends(Visible(p), Visible(p)')
  BY <1>6, <1>11 DEF FeedRead
<1>12. ASSUME UNCHANGED <<log, stx, sview>> PROVE Extends(Visible(p), Visible(p)')
  BY <1>4, <1>12
<1> QED
  BY <1>2, <1>3, <1>7, <1>8, <1>9, <1>10, <1>11, <1>12 DEF Next, vars, storeVars,
     Appending, StartAppend, ResetState

(* The events a folder holds are the ones its store showed it, through
   everything the appenders and the other folders do. *)
THEOREM BatchInvariant == ASSUME ~ BusyCommit PROVE Spec => []BatchInv
<1>1. Init => BatchInv
  BY DEF Init, BatchInv, InLoop
<1>2. /\ TypeOK /\ TypeOK' /\ StoreInv /\ ViewInv /\ Exclusion /\ BatchInv
      /\ [Next]_vars
      => BatchInv'
  <2> SUFFICES ASSUME TypeOK, TypeOK', StoreInv, ViewInv, Exclusion, BatchInv, [Next]_vars,
                      NEW g \in Folders, InLoop(g)', NEW i \in 1 .. Len(fbatch'[g])
               PROVE  /\ flast'[g] + i <= Len(Visible(Home[g])')
                      /\ Visible(Home[g])'[flast'[g] + i] = fbatch'[g][i]
    BY DEF BatchInv
  <2> USE StoreAssumption
  <2>0. /\ Extends(Visible(Home[g]), Visible(Home[g])')
        /\ Visible(Home[g]) \in Seq(Events)
        /\ Len(Visible(Home[g])) \in Nat /\ Len(Visible(Home[g])') \in Nat
        /\ flast[g] \in Nat /\ fbatch[g] \in Seq(Events) /\ i \in Nat \ {0}
    <3>1. ~ Crash(Home[g])
      BY DEF Crash, InLoop
    <3>2. Visible(Home[g])' \in Seq(Events)
      BY VisibleTypesNext
    <3>3. /\ flast[g] \in Nat /\ fbatch[g] \in Seq(Events)
          /\ i \in Nat \ {0}
      BY DEF TypeOK
    <3> QED BY <3>1, <3>2, <3>3, VisibleGrows, VisibleTypes, LenProperties
  <2>1. ASSUME InLoop(g), fbatch'[g] = fbatch[g], flast'[g] = flast[g]
        PROVE  /\ flast'[g] + i <= Len(Visible(Home[g])')
               /\ Visible(Home[g])'[flast'[g] + i] = fbatch'[g][i]
    <3>1. i \in 1 .. Len(fbatch[g])
      BY <2>1
    <3>2. /\ flast[g] + i <= Len(Visible(Home[g]))
          /\ Visible(Home[g])[flast[g] + i] = fbatch[g][i]
      BY <2>1, <3>1 DEF BatchInv
    <3>3. flast[g] + i \in 1 .. Len(Visible(Home[g]))
      BY <2>0, <3>2
    <3> QED BY <2>0, <2>1, <3>2, <3>3 DEF Extends
  <2>2. ASSUME ReadEvents(g)
        PROVE  /\ flast'[g] + i <= Len(Visible(Home[g])')
               /\ Visible(Home[g])'[flast'[g] + i] = fbatch'[g][i]
    <3> DEFINE seen == Visible(Home[g])
    <3>1. fbatch'[g] = SubSeq(seen, flast[g] + 1, Len(seen)) /\ flast'[g] = flast[g]
      <4>1. fbatch \in [Folders -> Seq(Events)] /\ flast \in [Folders -> Nat]
        BY DEF TypeOK
      <4> QED BY <2>2, <4>1 DEF ReadEvents
    <3>2. Visible(Home[g])' = seen
      BY <2>2, ReadShows DEF ReadEvents
    <3>3. CASE flast[g] + 1 <= Len(seen)
      <4>0. /\ flast[g] + 1 \in Int /\ Len(seen) \in Int
            /\ \A k \in flast[g] + 1 .. Len(seen) : seen[k] \in Events
        BY <2>0, LenProperties
      <4>1. /\ Len(fbatch'[g]) = Len(seen) - (flast[g] + 1) + 1
            /\ \A k \in 1 .. Len(seen) - (flast[g] + 1) + 1 :
                  fbatch'[g][k] = seen[flast[g] + 1 + k - 1]
        BY <3>1, <3>3, <4>0, SubSeqProperties
      <4>2. i \in 1 .. Len(seen) - (flast[g] + 1) + 1
        BY <2>0, <4>1
      <4>3. fbatch'[g][i] = seen[flast[g] + 1 + i - 1] /\ flast[g] + 1 + i - 1 = flast[g] + i
        BY <2>0, <4>1, <4>2
      <4> HIDE DEF seen
      <4>4. Len(seen) \in Nat /\ flast[g] \in Nat /\ i \in Nat
        BY <2>0 DEF seen
      <4>5. flast[g] + i <= Len(seen)
        BY <4>2, <4>4
      <4> QED BY <3>1, <3>2, <4>3, <4>5
    <3>4. CASE ~ (flast[g] + 1 <= Len(seen))
      BY <2>0, <3>1, <3>4, SubSeqProperties
    <3> QED BY <3>3, <3>4
  <2>3. ASSUME CommitApply(g)
        PROVE  /\ flast'[g] + i <= Len(Visible(Home[g])')
               /\ Visible(Home[g])'[flast'[g] + i] = fbatch'[g][i]
    <3>1. /\ InLoop(g) /\ fbatch[g] # <<>> /\ fbatch'[g] = Tail(fbatch[g])
          /\ flast'[g] = flast[g] + 1
      BY <2>3 DEF TypeOK, CommitApply, InLoop
    <3>2. /\ Len(fbatch'[g]) = Len(fbatch[g]) - 1
          /\ \A k \in 1 .. Len(fbatch'[g]) : fbatch'[g][k] = fbatch[g][k + 1]
      BY <2>0, <3>1, HeadTailProperties, LenProperties
    <3>3. i + 1 \in 1 .. Len(fbatch[g])
      BY <2>0, <3>2, LenProperties
    <3>4. /\ flast[g] + (i + 1) <= Len(Visible(Home[g]))
          /\ Visible(Home[g])[flast[g] + (i + 1)] = fbatch[g][i + 1]
      BY <3>1, <3>3 DEF BatchInv
    <3>5. flast'[g] + i = flast[g] + (i + 1) /\ flast'[g] + i \in 1 .. Len(Visible(Home[g]))
      <4>1. flast[g] \in Nat /\ i \in Nat /\ Len(Visible(Home[g])) \in Nat
        BY <2>0
      <4>2. flast'[g] = flast[g] + 1
        BY <3>1
      <4> QED BY <3>4, <4>1, <4>2, SMTT(30)
    <3>6. fbatch'[g][i] = fbatch[g][i + 1]
      BY <3>2
    <3> QED BY <2>0, <3>4, <3>5, <3>6 DEF Extends
  <2>4. \/ ReadEvents(g) \/ CommitApply(g)
        \/ InLoop(g) /\ fbatch'[g] = fbatch[g] /\ flast'[g] = flast[g]
    <3>1. ASSUME NEW f \in Folders, Folding(f)
          PROVE  \/ ReadEvents(g) \/ CommitApply(g)
                 \/ InLoop(g) /\ fbatch'[g] = fbatch[g] /\ flast'[g] = flast[g]
      <4>1. CASE f = g
        <5>1. CASE RetryApply(f)
          BY <3>1, <4>1, <5>1, SMTT(30) DEF InLoop, RetryApply
        <5>2. CASE StartCatchUp(f) \/ ReadCursor(f)
          BY <4>1, <5>2 DEF TypeOK, InLoop, StartCatchUp, ReadCursor
        <5>3. CASE EnterApply(f) \/ BeginApply(f)
          BY <4>1, <5>3 DEF InLoop, EnterApply, BeginApply
        <5>4. CASE Project(f)
          BY <4>1, <5>4, SMTT(30) DEF InLoop, Project
        <5>5. CASE ProjectRaises(f)
          BY <4>1, <5>5, SMTT(30) DEF InLoop, ProjectRaises
        <5> QED BY <3>1, <4>1, <5>1, <5>2, <5>3, <5>4, <5>5 DEF Folding
      <4>2. CASE f # g
        <5>1. fpc'[g] = fpc[g] /\ fbatch'[g] = fbatch[g] /\ flast'[g] = flast[g]
          BY <3>1, <4>2, OthersKeep
        <5> QED BY <5>1 DEF InLoop
      <4> QED BY <4>1, <4>2
    <3>2. ASSUME NEW a \in Appenders, NEW e \in Events, StartAppend(a, e) \/ Appending(a)
          PROVE  InLoop(g) /\ fbatch'[g] = fbatch[g] /\ flast'[g] = flast[g]
      BY <3>2 DEF InLoop, projVars, Appending, StartAppend, EnterAppend, Insert,
         CommitAppend, RetryAppend
    <3>3. ASSUME NEW p \in Procs, FeedRead(p) \/ ResetState(p) \/ Crash(p)
          PROVE  InLoop(g) /\ fbatch'[g] = fbatch[g] /\ flast'[g] = flast[g]
      BY <3>3 DEF InLoop, FeedRead, projVars, ResetState, Crash
    <3>4. CASE UNCHANGED vars
      BY <3>4 DEF InLoop, vars, projVars
    <3> QED BY <3>1, <3>2, <3>3, <3>4 DEF Next
  <2> QED BY <2>1, <2>2, <2>3, <2>4
<1> QED
  BY <1>1, <1>2, TypeCorrect, StoreInvariant, ViewInvariant, WritersExclude,
     PTL DEF Spec

(* The event a folder commits is the log's event right after its last. *)
LEMMA CommitFoldsNext ==
  ASSUME TypeOK, Exclusion, BatchInv, NEW f \in Folders, CommitApply(f)
  PROVE  /\ flast[f] \in Nat /\ flast[f] + 1 \in 1 .. Len(log)
         /\ log[flast[f] + 1] \notin Poison /\ log[flast[f] + 1] \in Events
         /\ folded' = Append(folded, log[flast[f] + 1])
         /\ cursor' = flast[f] + 1 /\ log' = log
<1> USE StoreAssumption
<1> DEFINE p == Home[f]
<1>1. /\ p \in Procs /\ flast[f] \in Nat /\ log \in Seq(Events) /\ folded \in Seq(Events)
      /\ fbatch[f] \in Seq(Events) /\ fbatch[f] # <<>> /\ InLoop(f)
  BY DEF TypeOK, InLoop, CommitApply
<1>2. /\ ptx[p].open /\ ptx[p].rows = <<Head(fbatch[f])>> /\ ptx[p].cur = flast[f] + 1
      /\ Head(fbatch[f]) \notin Poison
  BY DEF Exclusion, FolderLocks, FolderTxn, OpenCursor, CommitApply
<1>3. Extends(Visible(p), log) /\ Len(Visible(p)) \in Nat
  <2>1. stx[p] = <<>>
    BY <1>1, <1>2 DEF Exclusion, OneWriter
  <2>2. CASE sview[p].kind = "pinned"
    <3>1. sview[p].len \in Nat /\ sview[p].len <= Len(log)
      BY <1>1 DEF TypeOK
    <3> QED BY <1>1, <2>2, <3>1, PrefixExtends, VisibleTypes, LenProperties DEF Visible
  <2>3. CASE sview[p].kind # "pinned"
    <3>1. Visible(p) = log
      BY <1>1, <2>1, <2>3, ConcatExtends DEF Visible
    <3> QED BY <1>1, <3>1, LenProperties DEF Extends
  <2> QED BY <2>2, <2>3
<1>4. 1 \in 1 .. Len(fbatch[f]) /\ Head(fbatch[f]) = fbatch[f][1] /\ fbatch[f][1] \in Events
  BY <1>1, LenProperties, EmptySeq
<1>5. flast[f] + 1 <= Len(log) /\ log[flast[f] + 1] = Head(fbatch[f])
  <2>1. /\ flast[f] + 1 <= Len(Visible(p))
        /\ Visible(p)[flast[f] + 1] = Head(fbatch[f])
    BY <1>1, <1>4 DEF BatchInv
  <2>2. flast[f] + 1 \in 1 .. Len(Visible(p)) /\ Len(log) \in Nat
    BY <1>1, <1>3, <2>1, LenProperties
  <2>3. Len(Visible(p)) <= Len(log) /\ log[flast[f] + 1] = Visible(p)[flast[f] + 1]
    BY <1>3, <2>2 DEF Extends
  <2> QED BY <1>1, <1>3, <2>1, <2>2, <2>3
<1>6. flast[f] + 1 \in 1 .. Len(log)
  BY <1>1, <1>5, LenProperties
<1>7. folded' = Append(folded, Head(fbatch[f]))
  <2>1. folded' = folded \o <<Head(fbatch[f])>>
    BY <1>2 DEF CommitApply
  <2> QED BY <1>1, <1>4, <2>1, AppendIsConcat
<1> QED BY <1>1, <1>2, <1>4, <1>5, <1>6, <1>7 DEF CommitApply

(* What every step does to the log and the read model. *)
LEMMA FoldSteps ==
  ASSUME TypeOK, StoreInv, [Next]_vars
  PROVE  \/ \E f \in Folders : CommitApply(f)
         \/ \E p \in Procs : ResetState(p)
         \/ /\ UNCHANGED <<folded, cursor>>
            /\ log' = log \/ \E e \in Events : log' = Append(log, e)
<1>1. ASSUME NEW f \in Folders, Folding(f), ~ CommitApply(f)
      PROVE  UNCHANGED <<log, folded, cursor>>
  BY <1>1 DEF Folding, StartCatchUp, ReadCursor, ReadEvents, EnterApply,
     BeginApply, Project, ProjectRaises, RetryApply
<1>2. ASSUME NEW a \in Appenders, Appending(a) PROVE UNCHANGED <<folded, cursor>>
  BY <1>2 DEF Appending, EnterAppend, Insert, CommitAppend, RetryAppend
<1>3. log' = log \/ \E e \in Events : log' = Append(log, e)
  BY LogGrows DEF TypeOK
<1> QED
  BY <1>1, <1>2, <1>3 DEF Next, vars, StartAppend, FeedRead, Crash

LEMMA LogExtends ==
  ASSUME TypeOK, log' = log \/ \E e \in Events : log' = Append(log, e)
  PROVE  Extends(log, log') /\ log' \in Seq(Events)
<1>1. CASE log' = log
  BY <1>1, LenProperties DEF TypeOK, Extends
<1>2. ASSUME NEW e \in Events, log' = Append(log, e)
      PROVE  Extends(log, log') /\ log' \in Seq(Events)
  <2>1. log \in Seq(Events) /\ Len(log) \in Nat
    BY LenProperties DEF TypeOK
  <2>2. /\ log' \in Seq(Events) /\ Len(log') = Len(log) + 1
        /\ \A i \in 1 .. Len(log) : log'[i] = log[i]
    BY <1>2, <2>1, AppendProperties
  <2> QED BY <2>1, <2>2 DEF Extends
<1> QED BY <1>1, <1>2

LEMMA PrefixPlusOne ==
  ASSUME NEW s \in Seq(Events), NEW n \in Nat, n + 1 <= Len(s)
  PROVE  SubSeq(s, 1, n + 1) = Append(SubSeq(s, 1, n), s[n + 1])
<1>1. \A i \in 1 .. n + 1 : s[i] \in Events
  BY LenProperties
<1> DEFINE t == SubSeq(s, 1, n + 1)
           u == SubSeq(s, 1, n)
<1>2. t \in Seq(Events) /\ Len(t) = n + 1 /\ \A i \in 1 .. n + 1 : t[i] = s[i]
  BY <1>1, SubSeqProperties
<1>3. u \in Seq(Events) /\ Len(u) = n /\ \A i \in 1 .. n : u[i] = s[i]
  BY <1>1, SubSeqProperties
<1>4. s[n + 1] \in Events
  BY <1>1
<1> HIDE DEF t, u
<1>5. /\ Append(u, s[n + 1]) \in Seq(Events)
      /\ Len(Append(u, s[n + 1])) = n + 1
      /\ \A i \in 1 .. n : Append(u, s[n + 1])[i] = s[i]
      /\ Append(u, s[n + 1])[n + 1] = s[n + 1]
  BY <1>3, <1>4, AppendProperties
<1>6. \A i \in 1 .. n + 1 : t[i] = Append(u, s[n + 1])[i]
  <2> SUFFICES ASSUME NEW i \in 1 .. n + 1 PROVE t[i] = Append(u, s[n + 1])[i]
    OBVIOUS
  <2>1. i \in 1 .. n \/ i = n + 1
    OBVIOUS
  <2> QED BY <2>1, <1>2, <1>5
<1>7. t = Append(u, s[n + 1])
  BY <1>2, <1>5, <1>6, SeqEqual
<1> QED BY <1>7 DEF t, u

-----------------------------------------------------------------------------
(* One process.                                                            *)

(* The cursor a folder holds stays the cursor: no other folder of the process
   can be at work, and the fold is exact at every step. *)
LEMMA SoleFold ==
  ASSUME ~ BusyCommit, \A p, q \in Procs : p = q
  PROVE  Spec => [](SoleReader /\ ExactFold)
<1> DEFINE Sole == SoleReader /\ ExactFold
<1>1. Init => Sole
  <2> SUFFICES ASSUME Init PROVE Sole
    OBVIOUS
  <2>1. SubSeq(<<>>, 1, 0) = <<>>
    BY SubSeqEmpty
  <2> QED BY <2>1, EmptySeq DEF Init, SoleReader, AtCursor, InLoop, ExactFold
<1>2. /\ TypeOK /\ StoreInv /\ Exclusion /\ BatchInv /\ Sole /\ [Next]_vars
      => Sole'
  <2> SUFFICES ASSUME TypeOK, StoreInv, Exclusion, BatchInv, Sole, [Next]_vars
               PROVE  Sole'
    OBVIOUS
  <2> USE StoreAssumption
  <2>0. /\ log \in Seq(Events) /\ cursor \in Nat /\ Len(log) \in Nat
        /\ \A f, g \in Folders : Home[f] = Home[g]
    BY LenProperties DEF TypeOK
  <2>1. ASSUME NEW f \in Folders, CommitApply(f) PROVE Sole'
    <3>1. AtCursor(f)
      BY <2>1 DEF AtCursor, InLoop, CommitApply
    <3>2. /\ cursor = flast[f] /\ cursor + 1 \in 1 .. Len(log) /\ cursor' = cursor + 1
          /\ log' = log /\ folded' = Append(SubSeq(log, 1, cursor), log[cursor + 1])
      BY <2>1, <3>1, CommitFoldsNext DEF SoleReader, ExactFold
    <3>3. ExactFold'
      <4>1. Append(SubSeq(log, 1, cursor), log[cursor + 1]) = SubSeq(log, 1, cursor + 1)
        BY <2>0, <3>2, PrefixPlusOne
      <4>2. cursor' <= Len(log') /\ folded' = SubSeq(log, 1, cursor + 1)
        <5>1. cursor' <= Len(log')
          BY <2>0, <3>2
        <5>2. folded' = Append(SubSeq(log, 1, cursor), log[cursor + 1])
          BY <3>2
        <5>3. folded' = SubSeq(log, 1, cursor + 1)
          BY <4>1, <5>2, Zenon
        <5> QED BY <5>1, <5>3
      <4>3. SubSeq(log', 1, cursor') = SubSeq(log, 1, cursor + 1)
        BY <3>2
      <4> QED BY <4>2, <4>3 DEF ExactFold
    <3>4. SoleReader'
      <4>1. \A g \in Folders : g # f => fpc'[g] = "idle"
        BY <2>0, <2>1 DEF TypeOK, CommitApply, Exclusion, FolderLocks, FolderTxn, OpenCursor
      <4>2. flast'[f] = flast[f] + 1
        BY <2>1 DEF TypeOK, CommitApply
      <4> QED BY <3>2, <4>1, <4>2 DEF SoleReader, AtCursor, InLoop
    <3> QED BY <3>3, <3>4
  <2>2. ASSUME NEW p \in Procs, ResetState(p) PROVE Sole'
    <3>1. \A g \in Folders : fpc'[g] = "idle"
      BY <2>2 DEF ResetState, Exclusion, FolderLocks, FolderTxn, OpenCursor
    <3>2. SubSeq(log, 1, 0) = <<>>
      BY SubSeqEmpty
    <3>3. cursor' = 0 /\ folded' = <<>> /\ log' = log
      BY <2>2 DEF ResetState
    <3> QED BY <2>0, <3>1, <3>2, <3>3 DEF SoleReader, AtCursor, InLoop, ExactFold
  <2>3. ASSUME UNCHANGED <<folded, cursor>>,
               log' = log \/ \E e \in Events : log' = Append(log, e)
        PROVE  ExactFold'
    <3>1. Extends(log, log') /\ log' \in Seq(Events) /\ Len(log') \in Nat
      BY <2>3, LogExtends, LenProperties
    <3>2. cursor <= Len(log') /\ cursor <= Len(log)
      BY <2>0, <3>1 DEF Extends, ExactFold
    <3>3. SubSeq(log', 1, cursor) = SubSeq(log, 1, cursor)
      <4>1. /\ \A i \in 1 .. cursor : log[i] \in Events /\ log'[i] = log[i]
            /\ \A i \in 1 .. cursor : log'[i] \in Events
        BY <2>0, <3>1, <3>2, LenProperties DEF Extends
      <4>2. /\ Len(SubSeq(log', 1, cursor)) = Len(SubSeq(log, 1, cursor))
            /\ SubSeq(log', 1, cursor) \in Seq(Events)
            /\ SubSeq(log, 1, cursor) \in Seq(Events)
            /\ \A i \in 1 .. cursor : SubSeq(log', 1, cursor)[i] = SubSeq(log, 1, cursor)[i]
            /\ Len(SubSeq(log, 1, cursor)) = cursor
        BY <2>0, <4>1, SubSeqProperties
      <4> QED BY <4>2, SeqEqual
    <3> QED BY <2>3, <3>2, <3>3 DEF ExactFold
  <2>4. ASSUME ~ \E f \in Folders : CommitApply(f), ~ \E p \in Procs : ResetState(p)
        PROVE  SoleReader'
    <3> SUFFICES ASSUME NEW g \in Folders, AtCursor(g)' PROVE flast'[g] = cursor'
      BY DEF SoleReader
    <3>1. cursor' = cursor
      BY <2>4, FoldSteps
    <3>2. ASSUME NEW f \in Folders, Folding(f) PROVE flast'[g] = cursor
      <4>1. CASE f # g
        <5>1. fpc'[g] = fpc[g] /\ flast'[g] = flast[g]
          BY <3>2, <4>1, OthersKeep
        <5> QED BY <5>1 DEF SoleReader, AtCursor, InLoop
      <4>2. CASE f = g /\ ReadCursor(f)
        <5>1. ptx[Home[f]].open => ptx[Home[f]].cur = cursor
          <6>1. fpc[f] = "cursor" /\ \A h \in Folders : h # f => fpc[h] = "idle"
            BY <2>0, <4>2 DEF Exclusion, FolderLocks, FolderTxn, OpenCursor, ReadCursor
          <6>2. \A h \in Folders : fpc[h] # "commit"
            BY <6>1
          <6> QED BY <6>2 DEF Exclusion, FolderLocks, FolderTxn, OpenCursor
        <5> QED BY <4>2, <5>1 DEF TypeOK, ReadCursor
      <4>3. CASE f = g /\ ~ ReadCursor(f)
        <5>1. AtCursor(g) /\ flast'[g] = flast[g]
          <6>1. CASE ReadEvents(f)
            BY <4>3, <6>1 DEF ReadEvents, AtCursor
          <6>2. CASE RetryApply(f)
            BY <4>3, <6>2 DEF RetryApply, AtCursor, InLoop
          <6>3. CASE StartCatchUp(f)
            BY <4>3, <6>3 DEF TypeOK, StartCatchUp, AtCursor, InLoop
          <6>4. CASE EnterApply(f) \/ BeginApply(f) \/ Project(f) \/ ProjectRaises(f)
            BY <4>3, <6>4 DEF EnterApply, BeginApply, Project, ProjectRaises, AtCursor, InLoop
          <6> QED BY <2>4, <3>2, <4>3, <6>1, <6>2, <6>3, <6>4 DEF Folding
        <5> QED BY <5>1 DEF SoleReader
      <4> QED BY <4>1, <4>2, <4>3
    <3>3. ASSUME fpc'[g] = fpc[g] \/ fpc'[g] = "idle", flast'[g] = flast[g]
          PROVE  flast'[g] = cursor
      BY <3>3 DEF SoleReader, AtCursor, InLoop
    <3>4. ASSUME NEW a \in Appenders, NEW e \in Events, StartAppend(a, e) \/ Appending(a)
          PROVE  fpc' = fpc /\ flast' = flast
      BY <3>4 DEF projVars, Appending, StartAppend, EnterAppend, Insert,
         CommitAppend, RetryAppend
    <3>5. ASSUME NEW p \in Procs, Crash(p)
          PROVE  (fpc'[g] = fpc[g] \/ fpc'[g] = "idle") /\ flast'[g] = flast[g]
      BY <3>5 DEF Crash
    <3> QED
      BY <2>4, <3>1, <3>2, <3>3, <3>4, <3>5 DEF Next, FeedRead, vars, projVars
  <2> QED BY <2>1, <2>2, <2>3, <2>4, FoldSteps
<1> QED
  BY <1>1, <1>2, TypeCorrect, StoreInvariant, WritersExclude, BatchInvariant,
     PTL DEF Spec

(* With one process projecting, and no COMMIT refused, the read model holds
   exactly the events up to the cursor, once each and in log order, whatever
   the coroutines of that process, retries, raising handlers, crashes and
   rebuilds do. *)
THEOREM FoldIsExact ==
  ASSUME ~ BusyCommit, \A p, q \in Procs : p = q
  PROVE  Spec => []ExactFold
BY SoleFold, PTL

(* With one process projecting, and no COMMIT refused, the store is an
   implementation of the read model: every step is one of ReadModel's, or
   changes neither the log nor the fold. *)
THEOREM Implements ==
  ASSUME ~ BusyCommit, \A p, q \in Procs : p = q
  PROVE  Spec => ImplementsReadModel
<1>1. Init => RM!RInit
  BY DEF Init, RM!RInit
<1>2. /\ TypeOK /\ StoreInv /\ Exclusion /\ BatchInv /\ ExactFold /\ SoleReader
      /\ [Next]_vars
      => RM!RNext \/ UNCHANGED RM!rvars
  <2> SUFFICES ASSUME TypeOK, StoreInv, Exclusion, BatchInv, ExactFold, SoleReader,
                      [Next]_vars
               PROVE  RM!RNext \/ UNCHANGED RM!rvars
    OBVIOUS
  <2>1. ASSUME NEW f \in Folders, CommitApply(f) PROVE RM!FoldNext
    <3>1. AtCursor(f)
      BY <2>1 DEF AtCursor, InLoop, CommitApply
    <3>2. /\ flast[f] = cursor /\ cursor \in Nat /\ cursor + 1 \in 1 .. Len(log)
          /\ log[cursor + 1] \notin Poison /\ log' = log
          /\ folded' = Append(folded, log[cursor + 1])
      BY <2>1, <3>1, CommitFoldsNext DEF SoleReader
    <3>3. Len(folded) = cursor
      <4>1. \A i \in 1 .. cursor : log[i] \in Events
        BY <3>2, LenProperties DEF TypeOK
      <4> QED BY <3>2, <4>1, SubSeqProperties DEF ExactFold
    <3>4. Len(folded) < Len(log)
      BY <3>2, <3>3, LenProperties DEF TypeOK
    <3> QED BY <3>2, <3>3, <3>4 DEF RM!FoldNext
  <2>2. ASSUME NEW p \in Procs, ResetState(p) PROVE RM!Rebuild
    BY <2>2 DEF ResetState, RM!Rebuild
  <2>3. CASE /\ UNCHANGED <<folded, cursor>>
             /\ log' = log \/ \E e \in Events : log' = Append(log, e)
    BY <2>3 DEF RM!RNext, RM!AppendEvent, RM!rvars
  <2> QED BY <2>1, <2>2, <2>3, FoldSteps DEF RM!RNext
<1> QED
  BY <1>1, <1>2, TypeCorrect, StoreInvariant, WritersExclude, BatchInvariant,
     SoleFold, PTL DEF Spec, ImplementsReadModel, RM!RSpec

-----------------------------------------------------------------------------
(* Any number of processes.                                                *)

LEMMA CoveredStays ==
  ASSUME TypeOK, NEW n \in Nat, Covered(n), Extends(log, log'), log' \in Seq(Events),
         \/ folded' = folded
         \/ \E e \in Events : folded' = Append(folded, e)
  PROVE  Covered(n)'
<1>1. /\ Len(log) \in Nat /\ Len(log') \in Nat /\ Len(folded) \in Nat
      /\ DOMAIN folded = 1 .. Len(folded)
  BY LenProperties DEF TypeOK
<1>2. /\ DOMAIN folded \subseteq DOMAIN folded'
      /\ \A j \in DOMAIN folded : folded'[j] = folded[j]
  <2>1. ASSUME NEW e \in Events, folded' = Append(folded, e)
        PROVE  /\ DOMAIN folded \subseteq DOMAIN folded'
               /\ \A j \in DOMAIN folded : folded'[j] = folded[j]
    <3>1. /\ folded' \in Seq(Events) /\ Len(folded') = Len(folded) + 1
          /\ \A j \in 1 .. Len(folded) : folded'[j] = folded[j]
      BY <2>1, AppendProperties DEF TypeOK
    <3>2. DOMAIN folded' = 1 .. Len(folded) + 1
      BY <3>1, LenProperties
    <3> QED BY <1>1, <3>1, <3>2
  <2> QED BY <2>1
<1>3. n <= Len(log) /\ n <= Len(log')
  BY <1>1 DEF Covered, Extends
<1>4. \A i \in 1 .. n : log'[i] = log[i]
  BY <1>1, <1>3 DEF Extends
<1> QED BY <1>2, <1>3, <1>4 DEF Covered

(* No cursor of any process ever passes an event that is not in the read
   model, with any number of processes projecting into it at once, as long as
   none of them rebuilds and no COMMIT is refused. *)
THEOREM NothingSkipped ==
  ASSUME ~ BusyCommit, ~ MayRebuild
  PROVE  Spec => []NoEventSkipped
<1> DEFINE Cover == Covered(cursor) /\ CoveredReaders
<1>1. Init => Cover
  BY EmptySeq DEF Init, Covered, CoveredReaders, AtCursor, InLoop
<1>2. /\ TypeOK /\ StoreInv /\ Exclusion /\ BatchInv /\ Cover /\ [Next]_vars
      => Cover'
  <2> SUFFICES ASSUME TypeOK, StoreInv, Exclusion, BatchInv, Cover, [Next]_vars
               PROVE  Cover'
    OBVIOUS
  <2> USE StoreAssumption
  <2>0. /\ cursor \in Nat /\ \A f \in Folders : flast[f] \in Nat
        /\ Extends(log, log) /\ log \in Seq(Events) /\ folded \in Seq(Events)
        /\ Len(log) \in Nat
    BY LenProperties DEF TypeOK, Extends
  <2>1. ASSUME NEW f \in Folders, CommitApply(f) PROVE Cover'
    <3> PICK n \in Nat : n = flast[f]
      BY <2>0
    <3>1. /\ n \in Nat /\ n + 1 \in 1 .. Len(log) /\ log[n + 1] \in Events
          /\ folded' = Append(folded, log[n + 1])
          /\ cursor' = n + 1 /\ log' = log
      BY <2>1, CommitFoldsNext
    <3>2. \A m \in Nat : Covered(m) => Covered(m)'
      BY <2>0, <3>1, CoveredStays
    <3>3. Covered(n)
      BY <2>1 DEF CoveredReaders, AtCursor, InLoop, CommitApply
    <3>4. \A m \in Nat : m = n + 1 => Covered(m)'
      <4> SUFFICES ASSUME NEW m \in Nat, m = n + 1 PROVE Covered(m)'
        OBVIOUS
      <4>1. Covered(n)'
        BY <3>1, <3>2, <3>3
      <4>2. Len(folded) + 1 \in DOMAIN folded' /\ folded'[Len(folded) + 1] = log[n + 1]
        <5>1. /\ folded' \in Seq(Events) /\ Len(folded') = Len(folded) + 1
              /\ folded'[Len(folded) + 1] = log[n + 1]
          BY <2>0, <3>1, AppendProperties
        <5> QED BY <2>0, <5>1, LenProperties
      <4>3. \A i \in 1 .. m : i \in 1 .. n \/ i = n + 1
        BY <3>1
      <4>4. m <= Len(log')
        BY <2>0, <3>1
      <4>5. ASSUME NEW i \in 1 .. m
            PROVE  \E j \in DOMAIN folded' : folded'[j] = log'[i]
        <5>1. CASE i \in 1 .. n
          BY <4>1, <5>1 DEF Covered
        <5>2. CASE i = n + 1
          BY <3>1, <4>2, <5>2
        <5> QED BY <4>3, <5>1, <5>2
      <4> QED BY <4>4, <4>5 DEF Covered
    <3>5. flast' = [flast EXCEPT ![f] = n + 1] /\ n + 1 \in Nat
      BY <2>1, <3>1 DEF CommitApply
    <3>6. ASSUME NEW g \in Folders, AtCursor(g)' PROVE Covered(flast[g])'
      <4>1. CASE g = f
        BY <3>4, <3>5, <4>1 DEF TypeOK, Covered
      <4>2. CASE g # f
        <5>1. AtCursor(g) /\ flast'[g] = flast[g]
          BY <2>1, <3>6, <4>2 DEF TypeOK, CommitApply, AtCursor, InLoop
        <5> QED BY <2>0, <3>2, <5>1 DEF CoveredReaders, Covered
      <4> QED BY <4>1, <4>2
    <3>7. Covered(cursor)'
      BY <3>1, <3>4, <3>5 DEF Covered
    <3> QED BY <3>6, <3>7 DEF CoveredReaders
  <2>2. ASSUME ~ \E f \in Folders : CommitApply(f) PROVE Cover'
    <3>1. /\ folded' = folded /\ cursor' = cursor
          /\ log' = log \/ \E e \in Events : log' = Append(log, e)
      BY <2>2, FoldSteps DEF ResetState
    <3>2. Extends(log, log') /\ log' \in Seq(Events)
      BY <3>1, LogExtends
    <3>3. \A m \in Nat : Covered(m) => Covered(m)'
      BY <3>1, <3>2, CoveredStays
    <3>4. Covered(cursor)'
      BY <2>0, <3>1, <3>3 DEF Covered
    <3>5. ASSUME NEW g \in Folders, AtCursor(g)' PROVE Covered(flast[g])'
      <4>1. \/ AtCursor(g) /\ flast'[g] = flast[g]
            \/ ReadCursor(g)
        <5>1. ASSUME NEW f \in Folders, Folding(f)
              PROVE  (AtCursor(g) /\ flast'[g] = flast[g]) \/ ReadCursor(g)
          <6>1. CASE ReadEvents(f)
            BY <3>5, <6>1 DEF TypeOK, ReadEvents, AtCursor, InLoop
          <6>2. CASE RetryApply(f)
            BY <3>5, <6>2 DEF TypeOK, RetryApply, AtCursor, InLoop
          <6>3. CASE StartCatchUp(f)
            BY <3>5, <6>3 DEF TypeOK, StartCatchUp, AtCursor, InLoop
          <6>4. CASE ReadCursor(f)
            BY <3>5, <6>4 DEF TypeOK, ReadCursor, AtCursor, InLoop
          <6>5. CASE EnterApply(f) \/ BeginApply(f)
            BY <3>5, <6>5 DEF TypeOK, EnterApply, BeginApply, AtCursor, InLoop
          <6>6. CASE Project(f)
            BY <3>5, <6>6 DEF TypeOK, Project, AtCursor, InLoop
          <6>7. CASE ProjectRaises(f)
            BY <3>5, <6>7 DEF TypeOK, ProjectRaises, AtCursor, InLoop
          <6> QED
            BY <2>2, <5>1, <6>1, <6>2, <6>3, <6>4, <6>5, <6>6, <6>7 DEF Folding
        <5>2. ASSUME NEW a \in Appenders, NEW e \in Events,
                     StartAppend(a, e) \/ Appending(a)
              PROVE  fpc' = fpc /\ flast' = flast
          BY <5>2 DEF projVars, Appending, StartAppend, EnterAppend, Insert,
             CommitAppend, RetryAppend
        <5>3. ASSUME NEW p \in Procs, Crash(p)
              PROVE  (fpc'[g] = fpc[g] \/ fpc'[g] = "idle") /\ flast' = flast
          BY <5>3 DEF Crash
        <5>4. ASSUME fpc'[g] = fpc[g] \/ fpc'[g] = "idle", flast' = flast
              PROVE  AtCursor(g) /\ flast'[g] = flast[g]
          BY <3>5, <5>4 DEF AtCursor, InLoop
        <5> QED
          BY <5>1, <5>2, <5>3, <5>4 DEF Next, vars, projVars, FeedRead, ResetState
      <4>2. CASE AtCursor(g) /\ flast'[g] = flast[g]
        BY <2>0, <3>3, <4>2 DEF CoveredReaders, Covered
      <4>3. CASE ReadCursor(g)
        <5>1. ptx[Home[g]].open => ptx[Home[g]].cur = cursor
          <6>1. \A h \in Folders : Home[h] = Home[g] => fpc[h] # "commit"
            BY <4>3 DEF Exclusion, FolderLocks, FolderTxn, OpenCursor, ReadCursor
          <6> QED BY <6>1 DEF Exclusion, FolderLocks, FolderTxn, OpenCursor
        <5>2. flast'[g] = cursor
          BY <4>3, <5>1 DEF TypeOK, ReadCursor
        <5> QED BY <3>1, <3>4, <5>2 DEF Covered
      <4> QED BY <4>1, <4>2, <4>3
    <3> QED BY <3>4, <3>5 DEF CoveredReaders
  <2> QED BY <2>1, <2>2
<1>3. Cover => NoEventSkipped
  BY DEF Covered, NoEventSkipped
<1> QED
  BY <1>1, <1>2, <1>3, TypeCorrect, StoreInvariant, WritersExclude, BatchInvariant,
     PTL DEF Spec

-----------------------------------------------------------------------------
(* A set of numbers that is not empty has a least one. *)
LEMMA LeastNumber ==
  ASSUME NEW T, T \subseteq Nat, T # {}
  PROVE  \E m \in T : \A n \in T : m <= n
<1> DEFINE R == {ss \in Nat \X Nat : ss[1] < ss[2]}
<1>1. IsWellFoundedOn(R, Nat)
  BY NatLessThanWellFounded DEF OpToRel
<1>2. PICK m \in T : \A y \in T : <<y, m>> \notin R
  BY <1>1, WFMin
<1>3. \A y \in T : ~(y < m)
  BY <1>2
<1>4. \A y \in T : m <= y
  BY <1>3
<1> QED BY <1>4

(* The emits without those of a run are told emit by emit. *)
LEMMA WithoutSteps ==
  ASSUME NEW S, NEW r, NEW s \in Seq(S)
  PROVE  \E kept : /\ Without(r, s) = kept[Len(s)] /\ kept[0] = <<>>
                   /\ \A n \in 1 .. Len(s) :
                        kept[n] = IF s[n].ev.run = r THEN kept[n - 1] ELSE Append(kept[n - 1], s[n])
<1> DEFINE N == Len(s)
           Step(g, n) == IF n = 0 THEN <<>>
                         ELSE IF s[n].ev.run = r THEN g[n - 1] ELSE Append(g[n - 1], s[n])
           Upto(g, n) == g = [m \in 0 .. n |-> Step(g, m)]
           kept == CHOOSE g : Upto(g, N)
<1>0. N \in Nat /\ \A n \in 1 .. N : s[n] \in S
  BY ElementOfSeq, LenProperties
<1>1. Without(r, s) = kept[N]
  BY DEF Without
<1> HIDE DEF N
<1>2. \A n \in 0 .. N : \E g : Upto(g, n)
  <2> DEFINE Begins(n) == \E g : Upto(g, n)
             bad == {n \in 0 .. N : ~Begins(n)}
  <2> SUFFICES ASSUME bad # {} PROVE FALSE
    OBVIOUS
  <2> HIDE DEF Begins
  <2>1. bad \subseteq Nat
    BY <1>0
  <2>2. PICK n \in bad : \A m \in bad : n <= m
    BY <2>1, LeastNumber
  <2>5. n \in 0 .. N /\ ~Begins(n)
    BY <2>2
  <2>3. CASE n = 0
    <3>1. Upto([m \in 0 .. 0 |-> <<>>], 0)
      OBVIOUS
    <3> QED BY <2>5, <2>3, <3>1 DEF Begins
  <2>4. CASE n # 0
    <3>1. n - 1 \in 0 .. N /\ Begins(n - 1) /\ n \in 1 .. N
      <4>1. n - 1 \in 0 .. N /\ n \in 1 .. N /\ ~(n <= n - 1)
        BY <2>5, <2>4, <1>0
      <4> QED BY <2>2, <4>1
    <3>2. PICK g : Upto(g, n - 1)
      BY <3>1 DEF Begins
    <3> DEFINE h == [m \in 0 .. n |-> IF m = n THEN Step(g, n) ELSE g[m]]
    <3>3. ASSUME NEW m \in 0 .. n PROVE h[m] = Step(h, m)
      <4>1. CASE m = 0
        <5>1. h[m] = g[0] /\ 0 \in 0 .. n - 1
          BY <4>1, <3>1, <1>0, <2>4
        <5>2. g[0] = Step(g, 0)
          BY <5>1, <3>2
        <5> QED BY <4>1, <5>1, <5>2
      <4>2. CASE m # 0
        <5>1. m - 1 \in 0 .. n /\ m - 1 # n /\ h[m - 1] = g[m - 1]
          BY <4>2, <3>1, <1>0
        <5>2. Step(h, m) = Step(g, m)
          BY <5>1
        <5>3. h[m] = Step(g, m)
          <6>1. CASE m = n
            BY <6>1
          <6>2. CASE m # n
            <7>1. m \in 0 .. n - 1 /\ h[m] = g[m]
              BY <6>2, <3>1, <1>0
            <7> HIDE DEF h, Step
            <7>2. g[m] = Step(g, m)
              BY <7>1, <3>2
            <7> QED BY <7>1, <7>2
          <6> QED BY <6>1, <6>2
        <5> QED BY <5>2, <5>3
      <4> QED BY <4>1, <4>2
    <3>4. Upto(h, n)
      <4> HIDE DEF Step
      <4> QED BY <3>3
    <3> QED BY <3>4, <2>5 DEF Begins
  <2> QED BY <2>3, <2>4
<1>3. Upto(kept, N)
  <2> HIDE DEF Upto
  <2> QED BY <1>2, <1>0
<1>4. \A n \in 0 .. N : kept[n] = Step(kept, n)
  <2> HIDE DEF Step, kept
  <2> QED BY <1>3
<1> HIDE DEF kept
<1>5. kept[0] = <<>>
  BY <1>0, <1>4
<1>6. ASSUME NEW n \in 1 .. N PROVE kept[n] = IF s[n].ev.run = r THEN kept[n - 1] ELSE Append(kept[n - 1], s[n])
  <2>1. n \in 0 .. N /\ n # 0
    BY <1>0
  <2> QED BY <1>4, <2>1
<1> QED BY <1>1, <1>5, <1>6 DEF N

(* What is left of a list of emits without those of a run is a part of it, in its
   order. *)
LEMMA WithoutIs ==
  ASSUME NEW S, NEW r, NEW s \in Seq(S)
  PROVE  /\ Without(r, s) \in Seq(S)
         /\ \E at \in [1 .. Len(Without(r, s)) -> 1 .. Len(s)] :
              /\ \A i, k \in 1 .. Len(Without(r, s)) : i < k => at[i] < at[k]
              /\ \A k \in 1 .. Len(Without(r, s)) :
                   Without(r, s)[k] = s[at[k]] /\ s[at[k]].ev.run # r
<1>0. PICK N \in Nat : N = Len(s) /\ \A n \in 1 .. N : s[n] \in S
  BY ElementOfSeq, LenProperties
<1>1. PICK kept : /\ Without(r, s) = kept[N] /\ kept[0] = <<>>
                  /\ \A n \in 1 .. N : kept[n] = IF s[n].ev.run = r THEN kept[n - 1] ELSE Append(kept[n - 1], s[n])
  BY <1>0, WithoutSteps
<1> DEFINE Part(w, at, n) ==
             /\ w \in Seq(S) /\ at \in [1 .. Len(w) -> 1 .. n]
             /\ \A i, k \in 1 .. Len(w) : i < k => at[i] < at[k]
             /\ \A k \in 1 .. Len(w) : w[k] = s[at[k]] /\ s[at[k]].ev.run # r
<1>5. \A n \in 0 .. N : \E at : Part(kept[n], at, n)
  <2> DEFINE Parted(n) == \E at : Part(kept[n], at, n)
             bad == {n \in 0 .. N : ~Parted(n)}
  <2> SUFFICES ASSUME bad # {} PROVE FALSE
    OBVIOUS
  <2> HIDE DEF Parted
  <2>1. bad \subseteq Nat
    BY <1>0
  <2>2. PICK n \in bad : \A m \in bad : n <= m
    BY <2>1, LeastNumber
  <2>5. n \in 0 .. N /\ ~Parted(n)
    BY <2>2
  <2>3. CASE n = 0
    <3>1. kept[0] = <<>>
      BY <1>1
    <3>2. Part(<<>>, [k \in 1 .. 0 |-> 0], 0)
      OBVIOUS
    <3>3. Part(kept[n], [k \in 1 .. 0 |-> 0], n)
      BY <3>1, <3>2, <2>3
    <3> QED BY <3>3, <2>5 DEF Parted
  <2>4. CASE n # 0
    <3>1. n - 1 \in 0 .. N /\ Parted(n - 1) /\ n \in 1 .. N
      <4>1. n - 1 \in 0 .. N /\ n \in 1 .. N /\ ~(n <= n - 1)
        BY <2>5, <2>4, <1>0
      <4> QED BY <2>2, <4>1
    <3>2. PICK at : Part(kept[n - 1], at, n - 1)
      BY <3>1 DEF Parted
    <3>3. PICK w \in Seq(S) : w = kept[n - 1]
      BY <3>2
    <3>4. Len(w) \in Nat /\ at \in [1 .. Len(w) -> 1 .. n - 1]
      BY <3>2, <3>3, LenProperties
    <3>5. kept[n] = IF s[n].ev.run = r THEN w ELSE Append(w, s[n])
      BY <1>1, <3>1, <3>3
    <3>6. CASE s[n].ev.run = r
      <4>1. at \in [1 .. Len(w) -> 1 .. n]
        BY <3>4, <3>1, <1>0
      <4>2. Part(w, at, n)
        BY <3>2, <3>3, <4>1
      <4>3. Part(kept[n], at, n)
        BY <4>2, <3>5, <3>6
      <4> QED BY <4>3, <2>5 DEF Parted
    <3>7. CASE s[n].ev.run # r
      <4> DEFINE v == Append(w, s[n])
                 to == [k \in 1 .. Len(w) + 1 |-> IF k = Len(w) + 1 THEN n ELSE at[k]]
      <4>1. /\ v \in Seq(S) /\ Len(v) = Len(w) + 1 /\ v[Len(w) + 1] = s[n]
            /\ \A k \in 1 .. Len(w) : v[k] = w[k]
        BY <1>0, <3>1, AppendProperties
      <4>2. to \in [1 .. Len(v) -> 1 .. n]
        BY <3>4, <4>1, <3>1, <1>0
      <4> HIDE DEF v
      <4>3. ASSUME NEW i \in 1 .. Len(v), NEW k \in 1 .. Len(v), i < k PROVE to[i] < to[k]
        <5>1. i \in 1 .. Len(w) /\ to[i] = at[i] /\ at[i] \in 1 .. n - 1
          BY <3>4, <4>1, <4>3
        <5>2. CASE k = Len(w) + 1
          BY <5>1, <5>2, <4>1, <3>1, <1>0
        <5>3. CASE k # Len(w) + 1
          BY <5>1, <5>3, <4>1, <4>3, <3>2, <3>3, <3>4
        <5> QED BY <5>2, <5>3
      <4>4. \A k \in 1 .. Len(v) : v[k] = s[to[k]] /\ s[to[k]].ev.run # r
        <5> TAKE k \in 1 .. Len(v)
        <5>1. CASE k = Len(w) + 1
          BY <5>1, <4>1, <3>7
        <5>2. CASE k # Len(w) + 1
          <6>1. k \in 1 .. Len(w) /\ to[k] = at[k] /\ v[k] = w[k]
            BY <5>2, <4>1, <3>4
          <6> QED BY <6>1, <3>2, <3>3
        <5> QED BY <5>1, <5>2
      <4> HIDE DEF to
      <4>5. Part(v, to, n)
        BY <4>1, <4>2, <4>3, <4>4
      <4>6. kept[n] = v
        BY <3>5, <3>7 DEF v
      <4>7. Part(kept[n], to, n)
        BY <4>5, <4>6
      <4> QED BY <4>7, <2>5 DEF Parted
    <3> QED BY <3>6, <3>7
  <2> QED BY <2>3, <2>4
<1>6. PICK at : Part(kept[N], at, N)
  <2> HIDE DEF Part
  <2> QED BY <1>5, <1>0
<1>7. PICK w : w = Without(r, s)
  OBVIOUS
<1>8. /\ w \in Seq(S) /\ at \in [1 .. Len(w) -> 1 .. N]
      /\ \A i, k \in 1 .. Len(w) : i < k => at[i] < at[k]
      /\ \A k \in 1 .. Len(w) : w[k] = s[at[k]] /\ s[at[k]].ev.run # r
  <2>1. Part(w, at, N)
    <3> HIDE DEF Part
    <3> QED BY <1>1, <1>6, <1>7
  <2> QED BY <2>1, Zenon
<1> QED BY <1>0, <1>7, <1>8, ZenonT(40)

-----------------------------------------------------------------------------
(* Runs as they are shown *)

Statuses == {"idle", "running", "finished", "failed"}

LEMMA RunViewOf ==
  ASSUME NEW status \in Statuses, NEW r \in Nat, NEW bs \in Seq(Blocks), NEW attached \in BOOLEAN
  PROVE  [status |-> status, run |-> r, blocks |-> bs, attached |-> attached] \in RunViews
BY DEF RunViews, Statuses

LEMMA RunViewParts ==
  ASSUME NEW state \in RunViews
  PROVE  /\ state.status \in Statuses /\ state.run \in Nat
         /\ state.blocks \in Seq(Blocks) /\ state.attached \in BOOLEAN
         /\ state = [status |-> state.status, run |-> state.run, blocks |-> state.blocks,
                     attached |-> state.attached]
BY DEF RunViews, Statuses

(* A changed block is a block, and the list of blocks with it is as long as before. *)
LEMMA BlockReplaced ==
  ASSUME NEW state \in RunViews, NEW n \in 1 .. Len(state.blocks), NEW b \in Blocks,
         b.kind = state.blocks[n].kind,
         NEW t, t = [state EXCEPT !.blocks = [state.blocks EXCEPT ![n] = b]]
  PROVE  /\ t \in RunViews /\ t.run = state.run /\ Len(t.blocks) = Len(state.blocks)
         /\ \A i \in 1 .. Len(state.blocks) : t.blocks[i].kind = state.blocks[i].kind
<1>1. state.blocks \in Seq(Blocks)
  BY DEF RunViews
<1>2. PICK bs \in Seq(Blocks) : bs = state.blocks
  BY <1>1
<1>3. PICK cs : cs = [bs EXCEPT ![n] = b]
  OBVIOUS
<1>4. /\ cs \in Seq(Blocks) /\ Len(cs) = Len(bs)
      /\ \A i \in 1 .. Len(bs) : cs[i] = IF i = n THEN b ELSE bs[i]
  BY <1>2, <1>3, ExceptSeq
<1>5. t = [state EXCEPT !.blocks = cs]
  BY <1>2, <1>3
<1>6. t = [status |-> state.status, run |-> state.run, blocks |-> cs, attached |-> state.attached]
  BY <1>5 DEF RunViews
<1>7. t \in RunViews
  <2>1. state.status \in Statuses /\ state.run \in Nat /\ state.attached \in BOOLEAN
    BY RunViewParts
  <2>2. cs \in Seq(Blocks)
    BY <1>4
  <2>3. [status |-> state.status, run |-> state.run, blocks |-> cs, attached |-> state.attached] \in RunViews
    BY <2>1, <2>2, RunViewOf
  <2> QED BY <1>6, <2>3, Zenon
<1> QED BY <1>2, <1>4, <1>6, <1>7

LEMMA BlockAppended ==
  ASSUME NEW state \in RunViews, NEW b \in Blocks,
         NEW t, t = [state EXCEPT !.blocks = Append(state.blocks, b)]
  PROVE  /\ t \in RunViews /\ t.run = state.run /\ Len(t.blocks) = Len(state.blocks) + 1
         /\ \A i \in 1 .. Len(state.blocks) : t.blocks[i].kind = state.blocks[i].kind
<1>1. state.blocks \in Seq(Blocks)
  BY DEF RunViews
<1>2. PICK bs \in Seq(Blocks) : bs = state.blocks
  BY <1>1
<1>3. PICK cs : cs = Append(bs, b)
  OBVIOUS
<1>4. /\ cs \in Seq(Blocks) /\ Len(cs) = Len(bs) + 1 /\ \A i \in 1 .. Len(bs) : cs[i] = bs[i]
  BY <1>2, <1>3, AppendProperties
<1>5. t = [state EXCEPT !.blocks = cs]
  BY <1>2, <1>3
<1>6. t = [status |-> state.status, run |-> state.run, blocks |-> cs, attached |-> state.attached]
  BY <1>5 DEF RunViews
<1>7. t \in RunViews
  <2>1. state.status \in Statuses /\ state.run \in Nat /\ state.attached \in BOOLEAN
    BY RunViewParts
  <2>2. cs \in Seq(Blocks)
    BY <1>4
  <2>3. [status |-> state.status, run |-> state.run, blocks |-> cs, attached |-> state.attached] \in RunViews
    BY <2>1, <2>2, RunViewOf
  <2> QED BY <1>6, <2>3, Zenon
<1>8. t.blocks = cs /\ t.run = state.run
  BY <1>6
<1> QED BY <1>2, <1>4, <1>8, <1>7

(* What an item makes of a run's view: its blocks keep their places and kinds, and more
   may come after them; or it is the start of a run, which has none. *)
Grown(state, t) ==
  /\ t.run = state.run /\ Len(state.blocks) <= Len(t.blocks)
  /\ \A i \in 1 .. Len(state.blocks) : t.blocks[i].kind = state.blocks[i].kind

LEMMA TextShown ==
  ASSUME NEW state \in RunViews, NEW item \in Items, IsText(item)
  PROVE  WithText(state, item) \in RunViews /\ Grown(state, WithText(state, item))
<1> DEFINE kind == IF item.kind = "thinking" THEN "thinking" ELSE "prose"
           n == Len(state.blocks)
<1>1. state.blocks \in Seq(Blocks) /\ item.text \in Seq(Nat)
  BY DEF RunViews, Items
<1>2. n \in Nat /\ \A i \in 1 .. n : state.blocks[i] \in Blocks
  BY <1>1, ElementOfSeq, LenProperties
<1>3. CASE n > 0 /\ state.blocks[n].kind = kind
  <2>1. PICK b : b = [state.blocks[n] EXCEPT !.text = state.blocks[n].text \o item.text]
    OBVIOUS
  <2>2. state.blocks[n] \in Blocks /\ n \in 1 .. n
    BY <1>2, <1>3
  <2>3. state.blocks[n].text \o item.text \in Seq(Nat)
    <3>1. PICK old \in Seq(Nat), more \in Seq(Nat) : old = state.blocks[n].text /\ more = item.text
      BY <2>2, <1>1 DEF Blocks
    <3> QED BY <3>1, ConcatProperties
  <2>4. b \in Blocks /\ b.kind = state.blocks[n].kind
    BY <2>1, <2>2, <2>3 DEF Blocks
  <2>5. WithText(state, item) = [state EXCEPT !.blocks = [state.blocks EXCEPT ![n] = b]]
    BY <1>3, <2>1 DEF WithText
  <2> QED BY <2>2, <2>4, <2>5, <1>2, BlockReplaced DEF Grown
<1>4. CASE ~(n > 0 /\ state.blocks[n].kind = kind)
  <2>1. PICK b : b = Block(kind, item.text, None, "done")
    OBVIOUS
  <2>2. b \in Blocks
    <3>1. None \in Calls
      BY DEF Calls
    <3> QED BY <2>1, <1>1, <3>1 DEF Block, Blocks
  <2>3. WithText(state, item) = [state EXCEPT !.blocks = Append(state.blocks, b)]
    BY <1>4, <2>1 DEF WithText
  <2> QED BY <2>2, <2>3, <1>2, BlockAppended DEF Grown
<1> QED BY <1>3, <1>4

LEMMA ToolShown ==
  ASSUME NEW state \in RunViews, NEW item \in Items
  PROVE  WithTool(state, item) \in RunViews /\ Grown(state, WithTool(state, item))
<1> DEFINE n == Len(state.blocks)
           again == n > 0 /\ state.blocks[n].kind = "tool" /\ state.blocks[n].call = item.call
                          /\ state.blocks[n].status # "running"
<1>1. state.blocks \in Seq(Blocks) /\ item.call \in Calls
  BY DEF RunViews, Items
<1>2. n \in Nat /\ \A i \in 1 .. n : state.blocks[i] \in Blocks
  BY <1>1, ElementOfSeq, LenProperties
<1>3. CASE again
  <2>1. PICK b : b = Restated(state.blocks[n], "running", state.blocks[n].repeat + 1, state.blocks[n].seq)
    OBVIOUS
  <2>2. state.blocks[n] \in Blocks /\ n \in 1 .. n
    BY <1>2, <1>3
  <2>4. b \in Blocks /\ b.kind = state.blocks[n].kind
    BY <2>1, <2>2 DEF Blocks, Restated
  <2>5. WithTool(state, item) = [state EXCEPT !.blocks = [state.blocks EXCEPT ![n] = b]]
    BY <1>3, <2>1 DEF WithTool
  <2> QED BY <2>2, <2>4, <2>5, <1>2, BlockReplaced DEF Grown
<1>4. CASE ~again
  <2>1. PICK b : b = Block("tool", <<>>, item.call, "running")
    OBVIOUS
  <2>2. b \in Blocks
    BY <2>1, <1>1 DEF Block, Blocks
  <2>3. WithTool(state, item) = [state EXCEPT !.blocks = Append(state.blocks, b)]
    BY <1>4, <2>1 DEF WithTool
  <2> QED BY <2>2, <2>3, <1>2, BlockAppended DEF Grown
<1> QED BY <1>3, <1>4

LEMMA ResultShown ==
  ASSUME NEW state \in RunViews, NEW item \in Items
  PROVE  WithResult(state, item) \in RunViews /\ Grown(state, WithResult(state, item))
<1> DEFINE n == Len(state.blocks)
           found == Matched(state, item)
           i == CHOOSE k \in found : \A j \in found : j <= k
           status == IF item.type = "tool_failed" THEN "failed" ELSE "done"
<1>1. state.blocks \in Seq(Blocks) /\ item.seq \in Int
  BY RunViewParts DEF Items
<1>2. n \in Nat /\ DOMAIN state.blocks = 1 .. n /\ \A k \in 1 .. n : state.blocks[k] \in Blocks
  BY <1>1, ElementOfSeq, LenProperties
<1>3. CASE found = {}
  <2>1. WithResult(state, item) = state
    BY <1>3 DEF WithResult
  <2> QED BY <2>1, <1>2 DEF Grown
<1>4. CASE found # {}
  <2>1. found \subseteq 1 .. n
    BY <1>2 DEF Matched, RunningTools
  <2>2. \E k \in found : \A j \in found : j <= k
    <3> DEFINE T == {n - k : k \in found}
    <3>1. T \subseteq Nat /\ T # {}
      BY <2>1, <1>2, <1>4
    <3>2. PICK m \in T : \A j \in T : m <= j
      BY <3>1, LeastNumber
    <3>3. PICK k \in found : m = n - k
      BY <3>2
    <3>4. ASSUME NEW j \in found PROVE j <= k
      <4>1. j \in 1 .. n /\ k \in 1 .. n
        BY <2>1
      <4>2. n - j \in T
        OBVIOUS
      <4>3. n - k <= n - j
        BY <4>2, <3>2, <3>3
      <4> HIDE DEF n, T, found
      <4> QED BY <4>1, <4>3, <1>2
    <3> QED BY <3>4
  <2>3. i \in 1 .. n
    BY <2>1, <2>2
  <2> HIDE DEF i
  <2>4. PICK b : b = Restated(state.blocks[i], status, state.blocks[i].repeat, item.seq)
    OBVIOUS
  <2>5. b \in Blocks /\ b.kind = state.blocks[i].kind
    BY <2>4, <2>3, <1>1, <1>2 DEF Blocks, Restated
  <2>6. WithResult(state, item) = [state EXCEPT !.blocks = [state.blocks EXCEPT ![i] = b]]
    BY <1>4, <2>4 DEF WithResult, i
  <2> QED BY <2>3, <2>5, <2>6, <1>2, BlockReplaced DEF Grown
<1> QED BY <1>3, <1>4

LEMMA CallShown ==
  ASSUME NEW state \in RunViews
  PROVE  WithCallDone(state) \in RunViews /\ Grown(state, WithCallDone(state))
<1> DEFINE n == Len(state.blocks)
<1>1. state.blocks \in Seq(Blocks)
  BY RunViewParts
<1>2. n \in Nat /\ \A k \in 1 .. n : state.blocks[k] \in Blocks
  BY <1>1, ElementOfSeq, LenProperties
<1>3. CASE n > 0 /\ state.blocks[n].kind = "call"
  <2>1. PICK b : b = [state.blocks[n] EXCEPT !.status = "done"]
    OBVIOUS
  <2>2. state.blocks[n] \in Blocks /\ n \in 1 .. n
    BY <1>2, <1>3
  <2>3. b \in Blocks /\ b.kind = state.blocks[n].kind
    BY <2>1, <2>2 DEF Blocks
  <2>4. WithCallDone(state) = [state EXCEPT !.blocks = [state.blocks EXCEPT ![n] = b]]
    BY <1>3, <2>1 DEF WithCallDone
  <2> QED BY <2>2, <2>3, <2>4, <1>2, BlockReplaced DEF Grown
<1>4. CASE ~(n > 0 /\ state.blocks[n].kind = "call")
  BY <1>4, <1>2 DEF WithCallDone, Grown
<1> QED BY <1>3, <1>4

(* An item changes a run's view in place, or is the start of another run. *)
LEMMA ItemShown ==
  ASSUME NEW state \in RunViews, NEW item \in Items, Runs \subseteq Nat
  PROVE  /\ ApplyBusItem(state, item) \in RunViews
         /\ \/ Grown(state, ApplyBusItem(state, item))
            \/ item.type = "run_started" /\ ApplyBusItem(state, item) = NewState("running", item.run)
<1> DEFINE t == ApplyBusItem(state, item)
<1>0. Grown(state, state)
  BY RunViewParts, LenProperties DEF Grown
<1>1. CASE IsText(item)
  BY <1>0, <1>1, TextShown DEF ApplyBusItem
<1>2. CASE item.type = "run_started"
  <2>1. t = NewState("running", item.run)
    BY <1>2 DEF ApplyBusItem, IsText
  <2>2. item.run \in Nat /\ <<>> \in Seq(Blocks)
    <3>1. item.run \in Runs
      BY DEF Items
    <3>2. <<>> \in Seq(Blocks)
      BY EmptySeq
    <3> QED BY <3>1, <3>2
  <2>3. t \in RunViews
    BY <2>1, <2>2, RunViewOf DEF NewState, Statuses
  <2> QED BY <1>2, <2>1, <2>3
<1>3. CASE ~IsText(item) /\ item.type # "run_started" /\ item.run # state.run
  BY <1>0, <1>3 DEF ApplyBusItem
<1>4. CASE ~IsText(item) /\ item.type # "run_started" /\ item.run = state.run
  <2>1. CASE item.type = "call_started"
    <3>1. PICK b : b = Block("call", <<>>, None, "running")
      OBVIOUS
    <3>2. b \in Blocks
      <4>1. None \in Calls
        BY DEF Calls
      <4> QED BY <3>1, <4>1 DEF Block, Blocks
    <3>3. t = [state EXCEPT !.blocks = Append(state.blocks, b)]
      BY <1>4, <2>1, <3>1 DEF ApplyBusItem
    <3>4. Len(state.blocks) \in Nat
      BY RunViewParts, LenProperties
    <3> QED BY <3>2, <3>3, <3>4, BlockAppended DEF Grown
  <2>2. CASE item.type = "call_finished"
    BY <1>4, <2>2, CallShown DEF ApplyBusItem
  <2>3. CASE item.type = "tool_started"
    BY <1>4, <2>3, ToolShown DEF ApplyBusItem
  <2>4. CASE item.type \in {"tool_finished", "tool_failed"}
    BY <1>4, <2>4, ResultShown DEF ApplyBusItem
  <2>5. CASE item.type \in RunEnds
    <3>1. t = [state EXCEPT !.status = EndStatus(item)]
      BY <1>4, <2>5 DEF ApplyBusItem, RunEnds
    <3>2. t = [status |-> EndStatus(item), run |-> state.run, blocks |-> state.blocks, attached |-> state.attached]
      BY <3>1, RunViewParts
    <3>3. EndStatus(item) \in Statuses
      BY DEF EndStatus, Statuses
    <3>4. t \in RunViews
      BY <3>2, <3>3, RunViewParts, RunViewOf
    <3>5. Len(state.blocks) \in Nat
      BY RunViewParts, LenProperties
    <3> QED BY <3>2, <3>4, <3>5 DEF Grown
  <2>6. CASE item.type \notin {"call_started", "call_finished", "tool_started", "tool_finished", "tool_failed"} \cup RunEnds
    BY <1>0, <1>4, <2>6 DEF ApplyBusItem
  <2> QED BY <2>1, <2>2, <2>3, <2>4, <2>5, <2>6
<1> QED BY <1>1, <1>2, <1>3, <1>4

-----------------------------------------------------------------------------
(* The fleet *)

LEMMA FunctionIsSeq ==
  ASSUME NEW S, NEW n \in Nat, NEW g \in [1 .. n -> S]
  PROVE  g \in Seq(S) /\ Len(g) = n /\ DOMAIN g = 1 .. n
OBVIOUS

(* The place of an entry among those of its run grows by one at each of these. *)
LEMMA PlaceIs ==
  ASSUME NEW es, NEW x, NEW r, NEW j \in Nat
  PROVE  /\ Place(es, x, r, j) \in Nat /\ Place(es, x, r, 0) = 0
         /\ Place(es, x, r, j + 1) = Place(es, x, r, j) + (IF OwnPlace(es[j + 1], x, r) THEN 1 ELSE 0)
<1> DEFINE Own(k) == {i \in 1 .. k : OwnPlace(es[i], x, r)}
<1>1. \A k \in Nat : IsFiniteSet(Own(k)) /\ Cardinality(Own(k)) \in Nat
  <2> TAKE k \in Nat
  <2>1. IsFiniteSet(1 .. k)
    BY FS_Interval
  <2>2. Own(k) \subseteq 1 .. k
    OBVIOUS
  <2> QED BY <2>1, <2>2, FS_Subset, FS_CardinalityType
<1>2. Own(0) = {}
  OBVIOUS
<1>3. Cardinality(Own(0)) = 0
  BY <1>2, FS_EmptySet
<1>4. CASE OwnPlace(es[j + 1], x, r)
  <2>1. Own(j + 1) = Own(j) \cup {j + 1} /\ j + 1 \notin Own(j)
    BY <1>4
  <2>2. Cardinality(Own(j) \cup {j + 1}) = Cardinality(Own(j)) + 1
    <3> HIDE DEF Own
    <3> QED BY <1>1, <2>1, FS_AddElement
  <2> QED BY <1>1, <1>3, <1>4, <2>1, <2>2 DEF Place
<1>5. CASE ~OwnPlace(es[j + 1], x, r)
  <2>1. Own(j + 1) = Own(j)
    BY <1>5
  <2> QED BY <1>1, <1>3, <1>5, <2>1 DEF Place
<1> QED BY <1>4, <1>5

LEMMA PlaceSame ==
  ASSUME NEW es, NEW ds, NEW x, NEW r, NEW j \in Nat,
         \A i \in 1 .. j : ds[i].agent = es[i].agent /\ ds[i].run = es[i].run
  PROVE  Place(ds, x, r, j) = Place(es, x, r, j)
<1>1. {i \in 1 .. j : OwnPlace(ds[i], x, r)} = {i \in 1 .. j : OwnPlace(es[i], x, r)}
  BY DEF OwnPlace
<1> QED BY <1>1 DEF Place

(* A run's own entry has a place, which is not beyond the number of them. *)
LEMMA PlaceBounds ==
  ASSUME NEW es, NEW x, NEW r, NEW n \in Nat, NEW j \in 1 .. n, OwnPlace(es[j], x, r)
  PROVE  Place(es, x, r, j) \in 1 .. Place(es, x, r, n)
<1>1. Place(es, x, r, j) = Place(es, x, r, j - 1) + 1 /\ Place(es, x, r, j - 1) \in Nat
  <2>1. j - 1 \in Nat /\ j = (j - 1) + 1
    OBVIOUS
  <2> QED BY <2>1, PlaceIs
<1>2. Place(es, x, r, j) <= Place(es, x, r, n)
  <2> DEFINE Own(k) == {i \in 1 .. k : OwnPlace(es[i], x, r)}
  <2>1. IsFiniteSet(1 .. n) /\ Own(n) \subseteq 1 .. n /\ Own(j) \subseteq Own(n)
    BY FS_Interval
  <2>2. IsFiniteSet(Own(n))
    BY <2>1, FS_Subset
  <2>3. Cardinality(Own(j)) <= Cardinality(Own(n))
    <3> HIDE DEF Own
    <3> QED BY <2>1, <2>2, FS_Subset
  <2> QED BY <2>3 DEF Place
<1>3. Place(es, x, r, n) \in Nat
  BY PlaceIs
<1> QED BY <1>1, <1>2, <1>3

(* With a run's view set, the entries that were there are there still, each of the same
   run and of the same kind as its own block, and those after them are of this run. *)
LEMMA EntriesStand ==
  ASSUME NEW es \in Seq(Entries), NEW x \in Agents, NEW state \in RunViews
  PROVE  /\ Kept(es, x, state) \in Seq(Entries) /\ Len(Kept(es, x, state)) = Len(es)
         /\ \A j \in 1 .. Len(es) :
              LET k == Kept(es, x, state)[j] IN
              /\ k.agent = es[j].agent /\ k.run = es[j].run
              /\ OwnPlace(es[j], x, state.run) /\ Place(es, x, state.run, j) <= Len(state.blocks)
                   => k.block = state.blocks[Place(es, x, state.run, j)]
              /\ ~(OwnPlace(es[j], x, state.run) /\ Place(es, x, state.run, j) <= Len(state.blocks))
                   => k = es[j]
<1> DEFINE n == Len(es)
           at(j) == Place(es, x, state.run, j)
           own(j) == OwnPlace(es[j], x, state.run) /\ at(j) <= Len(state.blocks)
           ks == Kept(es, x, state)
<1>1. n \in Nat /\ DOMAIN es = 1 .. n /\ \A j \in 1 .. n : es[j] \in Entries
  BY ElementOfSeq, LenProperties
<1>2. /\ state.blocks \in Seq(Blocks) /\ Len(state.blocks) \in Nat
      /\ \A i \in 1 .. Len(state.blocks) : state.blocks[i] \in Blocks
  BY RunViewParts, ElementOfSeq, LenProperties
<1>3. ks = [j \in 1 .. n |-> IF own(j) THEN [es[j] EXCEPT !.block = state.blocks[at(j)]] ELSE es[j]]
  BY <1>1 DEF Kept
<1>4. ASSUME NEW j \in 1 .. n
      PROVE  /\ ks[j] \in Entries /\ ks[j].agent = es[j].agent /\ ks[j].run = es[j].run
             /\ own(j) => ks[j].block = state.blocks[at(j)]
             /\ ~own(j) => ks[j] = es[j]
  <2>1. es[j] \in Entries
    BY <1>1
  <2>2. CASE own(j)
    <3>1. at(j) \in 1 .. Len(state.blocks)
      <4>1. at(j) \in 1 .. Place(es, x, state.run, n) /\ Place(es, x, state.run, n) \in Nat
        BY <1>1, <2>2, PlaceBounds, PlaceIs
      <4> QED BY <4>1, <1>2, <2>2
    <3>2. PICK b \in Blocks : b = state.blocks[at(j)]
      BY <3>1, <1>2
    <3>3. ks[j] = [es[j] EXCEPT !.block = b]
      BY <1>3, <2>2, <3>2
    <3> QED BY <2>1, <2>2, <3>2, <3>3 DEF Entries
  <2>3. CASE ~own(j)
    BY <1>3, <2>1, <2>3
  <2> QED BY <2>2, <2>3
<1>5. ks \in Seq(Entries) /\ Len(ks) = n
  <2>1. ks \in [1 .. n -> Entries]
    <3>1. ks = [j \in 1 .. n |-> ks[j]]
      BY <1>3
    <3> HIDE DEF ks
    <3> QED BY <1>4, <3>1
  <2> QED BY <2>1, <1>1, FunctionIsSeq
<1> QED BY <1>4, <1>5

LEMMA EntriesAdded ==
  ASSUME NEW es \in Seq(Entries), NEW x \in Agents, NEW state \in RunViews
  PROVE  LET new == Added(es, x, state)
             had == Place(es, x, state.run, Len(es))
         IN /\ new \in Seq(Entries)
            /\ Len(new) = IF Len(state.blocks) > had THEN Len(state.blocks) - had ELSE 0
            /\ \A i \in 1 .. Len(new) :
                 new[i].agent = x /\ new[i].run = state.run /\ new[i].block = state.blocks[had + i]
<1> DEFINE had == Place(es, x, state.run, Len(es))
           total == Len(state.blocks)
           new == Added(es, x, state)
<1>1. had \in Nat /\ total \in Nat /\ \A i \in 1 .. total : state.blocks[i] \in Blocks
  BY PlaceIs, LenProperties, RunViewParts, ElementOfSeq
<1>2. new = [i \in 1 .. total - had |-> [agent |-> x, run |-> state.run, block |-> state.blocks[had + i]]]
  BY DEF Added
<1>3. state.run \in Nat
  BY RunViewParts
<1> HIDE DEF had, total, new
<1>4. PICK m \in Nat : m = IF total > had THEN total - had ELSE 0
  BY <1>1
<1>5. 1 .. total - had = 1 .. m
  BY <1>1, <1>4
<1>6. ASSUME NEW i \in 1 .. m
      PROVE  /\ new[i].agent = x /\ new[i].run = state.run /\ new[i].block = state.blocks[had + i]
             /\ new[i] \in Entries
  <2>1. had + i \in 1 .. total
    BY <1>1, <1>4
  <2>2. new[i] = [agent |-> x, run |-> state.run, block |-> state.blocks[had + i]]
    BY <1>2, <1>5
  <2> QED BY <2>1, <2>2, <1>1, <1>3 DEF Entries
<1>7. new \in Seq(Entries) /\ Len(new) = m
  <2>1. new = [i \in 1 .. m |-> new[i]]
    BY <1>2, <1>5
  <2>2. new \in [1 .. m -> Entries]
    BY <2>1, <1>6
  <2> QED BY <2>2, FunctionIsSeq
<1>8. /\ new \in Seq(Entries) /\ Len(new) = IF total > had THEN total - had ELSE 0
      /\ \A i \in 1 .. Len(new) :
           new[i].agent = x /\ new[i].run = state.run /\ new[i].block = state.blocks[had + i]
  BY <1>4, <1>6, <1>7
<1> QED BY <1>8 DEF had, total, new

(* Both together: what setting a run's view makes of the list *)
LEMMA ListedAfter ==
  ASSUME NEW f \in Fleets, NEW x \in Agents, NEW state \in RunViews
  PROVE  LET g == SetRunState(f, x, state)
             es == f.entries
             had == Place(es, x, state.run, Len(es))
         IN /\ g \in Fleets /\ g.states[x] = state
            /\ \A y \in Agents \ {x} : g.states[y] = f.states[y]
            /\ Len(g.entries) = Len(es) + (IF Len(state.blocks) > had THEN Len(state.blocks) - had ELSE 0)
            /\ \A j \in 1 .. Len(es) :
                 /\ g.entries[j].agent = es[j].agent /\ g.entries[j].run = es[j].run
                 /\ OwnPlace(es[j], x, state.run) /\ Place(es, x, state.run, j) <= Len(state.blocks)
                      => g.entries[j].block = state.blocks[Place(es, x, state.run, j)]
                 /\ ~(OwnPlace(es[j], x, state.run) /\ Place(es, x, state.run, j) <= Len(state.blocks))
                      => g.entries[j] = es[j]
            /\ \A j \in Len(es) + 1 .. Len(g.entries) :
                 /\ g.entries[j].agent = x /\ g.entries[j].run = state.run
                 /\ g.entries[j].block = state.blocks[had + (j - Len(es))]
<1> DEFINE g == SetRunState(f, x, state)
           es == f.entries
           n == Len(es)
           had == Place(es, x, state.run, Len(es))
           ks == Kept(es, x, state)
           new == Added(es, x, state)
           Same(j) == ks[j].agent = es[j].agent /\ ks[j].run = es[j].run
           Own(j) == OwnPlace(es[j], x, state.run) /\ Place(es, x, state.run, j) <= Len(state.blocks)
           Stood(j) == /\ Own(j) => ks[j].block = state.blocks[Place(es, x, state.run, j)]
                       /\ ~Own(j) => ks[j] = es[j]
           Right(i) == new[i].agent = x /\ new[i].run = state.run /\ new[i].block = state.blocks[had + i]
<1>1. f.states \in [Agents -> RunViews] /\ es \in Seq(Entries) /\ n \in Nat
  BY LenProperties DEF Fleets
<1>2. ks \in Seq(Entries) /\ Len(ks) = n /\ \A j \in 1 .. n : Same(j) /\ Stood(j)
  <2> HIDE DEF es
  <2> QED BY <1>1, EntriesStand
<1>3. /\ new \in Seq(Entries) /\ Len(new) = IF Len(state.blocks) > had THEN Len(state.blocks) - had ELSE 0
      /\ \A i \in 1 .. Len(new) : Right(i)
  <2> HIDE DEF es
  <2> QED BY <1>1, EntriesAdded
<1>4. g.entries = ks \o new /\ g.states = [f.states EXCEPT ![x] = state]
  BY DEF SetRunState
<1>5. g = [states |-> g.states, entries |-> g.entries]
  BY DEF SetRunState
<1> HIDE DEF g, es, n, had, ks, new, Stood, Own, Same
<1>6. /\ g.entries \in Seq(Entries) /\ Len(g.entries) = n + Len(new) /\ Len(new) \in Nat
      /\ \A j \in 1 .. n + Len(new) : g.entries[j] = IF j <= n THEN ks[j] ELSE new[j - n]
  <2>1. Len(new) \in Nat
    BY <1>3, LenProperties
  <2> HIDE DEF Right
  <2>2. new \in Seq(Entries)
    BY <1>3
  <2>3. ks \in Seq(Entries) /\ Len(ks) = n
    BY <1>2
  <2>4. /\ ks \o new \in Seq(Entries) /\ Len(ks \o new) = Len(ks) + Len(new)
        /\ \A i \in 1 .. Len(ks) + Len(new) : (ks \o new)[i] = IF i <= Len(ks) THEN ks[i] ELSE new[i - Len(ks)]
    BY <2>2, <2>3, ConcatProperties
  <2> QED BY <2>1, <2>3, <2>4, <1>4
<1>7. g \in Fleets /\ g.states[x] = state /\ \A y \in Agents \ {x} : g.states[y] = f.states[y]
  <2>1. g.states \in [Agents -> RunViews]
    BY <1>1, <1>4
  <2>2. g \in Fleets
    BY <2>1, <1>5, <1>6 DEF Fleets
  <2> QED BY <2>2, <1>1, <1>4
<1>8. \A j \in 1 .. n : g.entries[j] = ks[j]
  BY <1>1, <1>6
<1>9. ASSUME NEW j \in n + 1 .. Len(g.entries)
      PROVE  /\ g.entries[j].agent = x /\ g.entries[j].run = state.run
             /\ g.entries[j].block = state.blocks[had + (j - n)]
  <2>1. j - n \in 1 .. Len(new) /\ g.entries[j] = new[j - n]
    BY <1>1, <1>6, SMTT(30)
  <2> HIDE DEF Right
  <2>2. Right(j - n)
    BY <2>1, <1>3
  <2> QED BY <2>1, <2>2 DEF Right
<1>10. \A j \in 1 .. n : /\ g.entries[j].agent = es[j].agent /\ g.entries[j].run = es[j].run
                         /\ Own(j) => g.entries[j].block = state.blocks[Place(es, x, state.run, j)]
                         /\ ~Own(j) => g.entries[j] = es[j]
  BY <1>2, <1>8 DEF Same, Stood
<1> QED BY <1>3, <1>6, <1>7, <1>9, <1>10 DEF g, es, n, had, Own

LEMMA PlaceNoMore ==
  ASSUME NEW es, NEW x, NEW r, NEW n \in Nat, NEW m \in Nat,
         \A j \in n + 1 .. n + m : ~OwnPlace(es[j], x, r)
  PROVE  Place(es, x, r, n + m) = Place(es, x, r, n)
<1>1. {i \in 1 .. n + m : OwnPlace(es[i], x, r)} = {i \in 1 .. n : OwnPlace(es[i], x, r)}
  OBVIOUS
<1> QED BY <1>1 DEF Place

LEMMA PlaceMore ==
  ASSUME NEW es, NEW x, NEW r, NEW n \in Nat, NEW m \in Nat,
         \A j \in n + 1 .. n + m : OwnPlace(es[j], x, r)
  PROVE  Place(es, x, r, n + m) = Place(es, x, r, n) + m
<1> DEFINE Own(k) == {i \in 1 .. k : OwnPlace(es[i], x, r)}
<1>1. IsFiniteSet(Own(n)) /\ Cardinality(Own(n)) \in Nat
  <2>1. IsFiniteSet(1 .. n) /\ Own(n) \subseteq 1 .. n
    BY FS_Interval
  <2> QED BY <2>1, FS_Subset, FS_CardinalityType
<1>2. IsFiniteSet(n + 1 .. n + m) /\ Cardinality(n + 1 .. n + m) = m
  <2>1. IsFiniteSet(n + 1 .. n + m) /\ Cardinality(n + 1 .. n + m) = IF n + 1 > n + m THEN 0 ELSE (n + m) - (n + 1) + 1
    BY FS_Interval
  <2> QED BY <2>1
<1>3. Place(es, x, r, n + m) = Place(es, x, r, n) + m
  <2>1. Own(n + m) = Own(n) \cup (n + 1 .. n + m) /\ Own(n) \cap (n + 1 .. n + m) = {}
    OBVIOUS
  <2>2. Cardinality(Own(n) \cup (n + 1 .. n + m)) = Cardinality(Own(n)) + Cardinality(n + 1 .. n + m)
    <3> HIDE DEF Own
    <3>1. PICK T : T = n + 1 .. n + m
      OBVIOUS
    <3>2. Cardinality(Own(n) \cup T) = Cardinality(Own(n)) + Cardinality(T) - Cardinality(Own(n) \cap T)
      BY <1>1, <1>2, <3>1, FS_Union
    <3>3. Own(n) \cap T = {} /\ Cardinality(T) = m
      BY <1>2, <2>1, <3>1
    <3>4. Cardinality(Own(n) \cap T) = 0
      BY <3>3, FS_EmptySet
    <3>5. Cardinality(Own(n) \cup T) = Cardinality(Own(n)) + Cardinality(T)
      BY <1>1, <3>2, <3>3, <3>4
    <3> QED BY <3>1, <3>5
  <2> QED BY <1>2, <2>1, <2>2 DEF Place
<1> QED BY <1>3

(* The list of entries and the views of the runs agree: of an agent's newest run the
   list has all the blocks, in their order. *)
ViewListed(f, x) ==
  /\ Place(f.entries, x, f.states[x].run, Len(f.entries)) = Len(f.states[x].blocks)
  /\ \A j \in 1 .. Len(f.entries) :
       OwnPlace(f.entries[j], x, f.states[x].run) =>
         f.entries[j].block = f.states[x].blocks[Place(f.entries, x, f.states[x].run, j)]

(* Entries stay where they are *)
Stands(es, ds) ==
  /\ Len(es) <= Len(ds)
  /\ \A j \in 1 .. Len(es) : ds[j].run = es[j].run /\ ds[j].block.kind = es[j].block.kind

LEMMA ListStands ==
  ASSUME NEW f \in Fleets, NEW x \in Agents, NEW state \in RunViews,
         \A y \in Agents : ViewListed(f, y),
         \/ Grown(f.states[x], state)
         \/ state.blocks = <<>> /\ \A j \in 1 .. Len(f.entries) : f.entries[j].run # state.run
  PROVE  /\ SetRunState(f, x, state) \in Fleets
         /\ \A y \in Agents : ViewListed(SetRunState(f, x, state), y)
         /\ Stands(f.entries, SetRunState(f, x, state).entries)
         /\ \A j \in Len(f.entries) + 1 .. Len(SetRunState(f, x, state).entries) :
              SetRunState(f, x, state).entries[j].run = state.run
<1> DEFINE g == SetRunState(f, x, state)
           es == f.entries
           n == Len(es)
           r == state.run
           bs == state.blocks
           had == Place(es, x, r, n)
<1>1. es \in Seq(Entries) /\ n \in Nat /\ bs \in Seq(Blocks) /\ Len(bs) \in Nat /\ had \in Nat
  <2>1. es \in Seq(Entries) /\ bs \in Seq(Blocks)
    BY RunViewParts DEF Fleets
  <2> QED BY <2>1, LenProperties, PlaceIs
<1>2. had <= Len(bs) /\ \A j \in 1 .. n : OwnPlace(es[j], x, r) => /\ Place(es, x, r, j) \in 1 .. had
                                                                   /\ es[j].block.kind = bs[Place(es, x, r, j)].kind
  <2>1. CASE Grown(f.states[x], state)
    <3>1. r = f.states[x].run /\ had = Len(f.states[x].blocks)
      BY <2>1 DEF Grown, ViewListed
    <3>2. ASSUME NEW j \in 1 .. n, OwnPlace(es[j], x, r)
          PROVE  Place(es, x, r, j) \in 1 .. had /\ es[j].block.kind = bs[Place(es, x, r, j)].kind
      <4>1. Place(es, x, r, j) \in 1 .. had
        <5> HIDE DEF es, n, r
        <5> QED BY <1>1, <3>2, PlaceBounds
      <4>2. es[j].block = f.states[x].blocks[Place(es, x, r, j)]
        BY <3>1, <3>2 DEF ViewListed
      <4> QED BY <2>1, <3>1, <4>1, <4>2 DEF Grown
    <3> QED BY <2>1, <3>1, <3>2 DEF Grown
  <2>2. CASE bs = <<>> /\ \A j \in 1 .. n : es[j].run # r
    <3>1. \A j \in 0 + 1 .. 0 + n : ~OwnPlace(es[j], x, r)
      BY <2>2, <1>1 DEF OwnPlace
    <3>2. had = 0
      <4> HIDE DEF es, r, n
      <4>0. n \in Nat /\ 0 \in Nat
        BY <1>1
      <4>1. PICK z \in Nat : z = 0
        OBVIOUS
      <4>2. \A j \in z + 1 .. z + n : ~OwnPlace(es[j], x, r)
        BY <3>1, <4>1
      <4>3. Place(es, x, r, z + n) = Place(es, x, r, z)
        BY <4>0, <4>2, PlaceNoMore, ZenonT(40)
      <4>4. Place(es, x, r, z) = 0
        BY <4>1, PlaceIs
      <4>5. z + n = n
        BY <4>0, <4>1
      <4> QED BY <4>3, <4>4, <4>5 DEF had
    <3> QED BY <1>1, <2>2, <3>1, <3>2 DEF OwnPlace
  <2> QED BY <2>1, <2>2
<1>3. /\ g \in Fleets /\ g.states[x] = state /\ \A y \in Agents \ {x} : g.states[y] = f.states[y]
      /\ Len(g.entries) = n + (IF Len(bs) > had THEN Len(bs) - had ELSE 0)
      /\ \A j \in 1 .. n :
           /\ g.entries[j].agent = es[j].agent /\ g.entries[j].run = es[j].run
           /\ OwnPlace(es[j], x, r) /\ Place(es, x, r, j) <= Len(bs)
                => g.entries[j].block = bs[Place(es, x, r, j)]
           /\ ~(OwnPlace(es[j], x, r) /\ Place(es, x, r, j) <= Len(bs)) => g.entries[j] = es[j]
      /\ \A j \in n + 1 .. Len(g.entries) :
           g.entries[j].agent = x /\ g.entries[j].run = r /\ g.entries[j].block = bs[had + (j - n)]
  BY ListedAfter
<1> HIDE DEF g, es, r, bs, had, n
<1>4. PICK m \in Nat : m = Len(bs) - had
  BY <1>1, <1>2
<1>13. n \in Nat
  BY <1>1
<1>5. Len(g.entries) = n + m /\ n + m \in Nat
  <2>1. Len(g.entries) = n + (IF Len(bs) > had THEN Len(bs) - had ELSE 0)
    BY <1>3
  <2>2. had \in Nat /\ Len(bs) \in Nat /\ had <= Len(bs)
    BY <1>1, <1>2
  <2> HIDE DEF g
  <2> QED BY <2>1, <2>2, <1>4, <1>13
<1>12. \A y, q : \A j \in 0 .. n : Place(g.entries, y, q, j) = Place(es, y, q, j)
  <2> TAKE y, q
  <2> TAKE j \in 0 .. n
  <2>1. j \in Nat /\ \A i \in 1 .. j : i \in 1 .. n
    BY <1>1
  <2>2. \A i \in 1 .. j : g.entries[i].agent = es[i].agent /\ g.entries[i].run = es[i].run
    BY <2>1, <1>3
  <2> QED BY <2>1, <2>2, PlaceSame
<1>6. \A y, q : \A j \in 1 .. n : Place(g.entries, y, q, j) = Place(es, y, q, j)
  BY <1>12, <1>1
<1>7. \A y, q : Place(g.entries, y, q, n) = Place(es, y, q, n)
  BY <1>12, <1>1
<1>8. ViewListed(g, x)
  <2>1. \A j \in n + 1 .. n + m : OwnPlace(g.entries[j], x, r)
    BY <1>3, <1>5 DEF OwnPlace
  <2>2. Place(g.entries, x, r, n + m) = Len(bs)
    <3>1. Place(g.entries, x, r, n + m) = Place(g.entries, x, r, n) + m
      BY <2>1, <1>13, PlaceMore
    <3>2. Place(g.entries, x, r, n) = had
      BY <1>7 DEF had
    <3> QED BY <3>1, <3>2, <1>1, <1>4
  <2>3. ASSUME NEW j \in 1 .. n + m, OwnPlace(g.entries[j], x, r)
        PROVE  g.entries[j].block = bs[Place(g.entries, x, r, j)]
    <3>1. CASE j \in 1 .. n
      <4>1. OwnPlace(es[j], x, r)
        BY <1>3, <2>3, <3>1 DEF OwnPlace
      <4>2. Place(es, x, r, j) <= Len(bs)
        BY <1>1, <1>2, <3>1, <4>1
      <4> QED BY <1>3, <1>6, <3>1, <4>1, <4>2
    <3>2. CASE j \notin 1 .. n
      <4>1. PICK i \in Nat : j = n + i /\ i \in 1 .. m
        <5>1. j - n \in Nat /\ j = n + (j - n) /\ j - n \in 1 .. m
          BY <3>2, <1>1, <1>4
        <5> QED BY <5>1
      <4>2. \A k \in n + 1 .. n + i : OwnPlace(g.entries[k], x, r)
        BY <2>1, <4>1, <1>1, <1>4
      <4>3. Place(g.entries, x, r, n + i) = had + i
        <5>1. Place(g.entries, x, r, n + i) = Place(g.entries, x, r, n) + i
          BY <4>2, <1>13, PlaceMore
        <5>2. Place(g.entries, x, r, n) = had
          BY <1>7 DEF had
        <5> QED BY <5>1, <5>2
      <4>4. j \in n + 1 .. Len(g.entries) /\ j - n = i
        BY <4>1, <1>1, <1>5
      <4> QED BY <4>1, <4>3, <4>4, <1>3
    <3> QED BY <3>1, <3>2
  <2> QED BY <1>3, <1>5, <2>2, <2>3 DEF ViewListed, r, bs
<1>9. ASSUME NEW y \in Agents, y # x PROVE ViewListed(g, y)
  <2> DEFINE q == f.states[y].run
  <2>1. g.states[y] = f.states[y]
    BY <1>3, <1>9
  <2>2. \A j \in n + 1 .. n + m : ~OwnPlace(g.entries[j], y, q)
    BY <1>3, <1>5, <1>9 DEF OwnPlace
  <2>3. Place(g.entries, y, q, n + m) = Len(f.states[y].blocks)
    <3>1. Place(g.entries, y, q, n + m) = Place(es, y, q, n)
      <4> HIDE DEF q
      <4>1. Place(g.entries, y, q, n + m) = Place(g.entries, y, q, n)
        BY <2>2, <1>13, PlaceNoMore, ZenonT(40)
      <4> QED BY <4>1, <1>7
    <3>2. Place(es, y, q, n) = Len(f.states[y].blocks)
      BY DEF ViewListed, es, n
    <3> QED BY <3>1, <3>2
  <2>4. ASSUME NEW j \in 1 .. n + m, OwnPlace(g.entries[j], y, q)
        PROVE  g.entries[j].block = f.states[y].blocks[Place(g.entries, y, q, j)]
    <3>1. j \in 1 .. n
      BY <2>2, <2>4, <1>1, <1>4
    <3>2. OwnPlace(es[j], y, q) /\ ~OwnPlace(es[j], x, r)
      BY <1>3, <2>4, <3>1, <1>9 DEF OwnPlace
    <3>3. g.entries[j] = es[j]
      BY <1>3, <3>1, <3>2
    <3>4. es[j].block = f.states[y].blocks[Place(es, y, q, j)]
      BY <3>1, <3>2 DEF ViewListed, es, n
    <3> QED BY <3>1, <3>3, <3>4, <1>6
  <2> QED BY <1>5, <2>1, <2>3, <2>4 DEF ViewListed
<1>10. Stands(es, g.entries)
  <2>1. ASSUME NEW j \in 1 .. n PROVE g.entries[j].block.kind = es[j].block.kind
    <3>1. CASE OwnPlace(es[j], x, r)
      <4>1. Place(es, x, r, j) <= Len(bs)
        BY <1>1, <1>2, <3>1
      <4> QED BY <1>2, <1>3, <3>1, <4>1
    <3>2. CASE ~OwnPlace(es[j], x, r)
      BY <1>3, <3>2
    <3> QED BY <3>1, <3>2
  <2> QED BY <2>1, <1>1, <1>3, <1>4, <1>5 DEF Stands, n
<1>11. \A j \in n + 1 .. Len(g.entries) : g.entries[j].run = r
  BY <1>3
<1> QED BY <1>3, <1>8, <1>9, <1>10, <1>11 DEF g, es, n, r

(* A fleet whose list and views agree, and the runs it knows of *)
FleetOK(f) == f \in Fleets /\ \A y \in Agents : ViewListed(f, y)
Known(f) == {f.states[y].run : y \in Agents} \cup {f.entries[j].run : j \in 1 .. Len(f.entries)}
Begins(item) == IF item.type = "run_started" THEN {item.run} ELSE {}

(* The scene is one of those there are; that is all of the types that items need. *)
SceneOK == scene.cast \in Seq(Agents)

LEMMA RunsAre ==
  ASSUME SceneOK
  PROVE  Runs = 1 .. Len(scene.cast) /\ Len(scene.cast) \in Nat /\ \A r \in Runs : scene.cast[r] \in Agents
BY ElementOfSeq, LenProperties DEF SceneOK, Runs

(* An item taken leaves the list of entries standing, as long as no run begins twice. *)
LEMMA ItemTaken ==
  ASSUME SceneOK, NEW f, FleetOK(f), NEW item \in Items, Begins(item) \cap Known(f) = {}
  PROVE  /\ FleetOK(ApplyFleet(f, item)) /\ Stands(f.entries, ApplyFleet(f, item).entries)
         /\ Known(ApplyFleet(f, item)) \subseteq Known(f) \cup Begins(item)
<1>1. item.run \in Runs /\ Runs \subseteq Nat
  BY RunsAre DEF Items
<1>2. PICK x \in Agents : x = scene.cast[item.run]
  BY <1>1, RunsAre
<1>3. f \in Fleets /\ f.states[x] \in RunViews /\ f.entries \in Seq(Entries) /\ Len(f.entries) \in Nat
  <2>1. f \in Fleets /\ f.states[x] \in RunViews /\ f.entries \in Seq(Entries)
    BY DEF FleetOK, Fleets
  <2> QED BY <2>1, LenProperties
<1>4. CASE ~Shown(item)
  <2>1. ApplyFleet(f, item) = f
    BY <1>4 DEF ApplyFleet
  <2> QED BY <2>1, <1>3 DEF Stands
<1>5. CASE Shown(item)
  <2>1. PICK state : state = ApplyBusItem(f.states[x], item)
    OBVIOUS
  <2>2. ApplyFleet(f, item) = SetRunState(f, x, state)
    BY <1>2, <1>5, <2>1 DEF ApplyFleet
  <2>3. /\ state \in RunViews
        /\ \/ Grown(f.states[x], state)
           \/ item.type = "run_started" /\ state = NewState("running", item.run)
    BY <1>1, <1>3, <2>1, ItemShown
  <2>4. \/ Grown(f.states[x], state)
        \/ state.blocks = <<>> /\ \A j \in 1 .. Len(f.entries) : f.entries[j].run # state.run
    <3>1. CASE item.type = "run_started" /\ state = NewState("running", item.run)
      <4>1. state.blocks = <<>> /\ state.run = item.run
        BY <3>1 DEF NewState
      <4>2. item.run \notin Known(f)
        BY <3>1 DEF Begins
      <4> QED BY <4>1, <4>2 DEF Known
    <3> QED BY <2>3, <3>1
  <2>5. state.run \in Known(f) \cup Begins(item)
    <3>1. f.states[x].run \in Known(f)
      BY DEF Known
    <3> QED BY <2>3, <3>1 DEF Grown, NewState, Begins
  <2> DEFINE g == SetRunState(f, x, state)
  <2>6. /\ g \in Fleets /\ \A y \in Agents : ViewListed(g, y)
        /\ Stands(f.entries, g.entries)
        /\ \A j \in Len(f.entries) + 1 .. Len(g.entries) : g.entries[j].run = state.run
    BY <1>3, <2>3, <2>4, ListStands DEF FleetOK
  <2>7. g.states = [f.states EXCEPT ![x] = state] /\ Len(g.entries) \in Nat
    <3>1. g.entries \in Seq(Entries)
      BY <2>6 DEF Fleets
    <3> QED BY <3>1, LenProperties DEF SetRunState
  <2> HIDE DEF g
  <2>8. Known(g) \subseteq Known(f) \cup Begins(item)
    <3>1. ASSUME NEW y \in Agents PROVE g.states[y].run \in Known(f) \cup Begins(item)
      <4>1. g.states[y] = IF y = x THEN state ELSE f.states[y]
        BY <2>7, <1>3 DEF Fleets
      <4> QED BY <4>1, <2>5 DEF Known
    <3>2. ASSUME NEW j \in 1 .. Len(g.entries) PROVE g.entries[j].run \in Known(f) \cup Begins(item)
      <4>1. CASE j \in 1 .. Len(f.entries)
        <5>1. g.entries[j].run = f.entries[j].run
          BY <4>1, <2>6 DEF Stands
        <5> QED BY <4>1, <5>1 DEF Known
      <4>2. CASE j \notin 1 .. Len(f.entries)
        <5>1. j \in Len(f.entries) + 1 .. Len(g.entries)
          BY <4>2, <1>3, <2>7
        <5> QED BY <5>1, <2>5, <2>6
      <4> QED BY <4>1, <4>2
    <3> QED BY <3>1, <3>2 DEF Known
  <2> QED BY <2>2, <2>6, <2>8 DEF FleetOK, g
<1> QED BY <1>4, <1>5

LEMMA NothingShown == FleetOK(EmptyFleet) /\ Known(EmptyFleet) \subseteq {0} /\ EmptyFleet.entries = <<>>
<1>1. IdleState \in RunViews /\ IdleState.run = 0 /\ IdleState.blocks = <<>>
  <2>1. <<>> \in Seq(Blocks)
    BY EmptySeq
  <2>2. [status |-> "idle", run |-> 0, blocks |-> <<>>, attached |-> TRUE] \in RunViews
    BY <2>1, RunViewOf DEF Statuses
  <2> QED BY <2>2 DEF IdleState, NewState
<1>2. EmptyFleet = [states |-> EmptyFleet.states, entries |-> EmptyFleet.entries]
      /\ EmptyFleet.states = [y \in Agents |-> IdleState] /\ EmptyFleet.entries = <<>>
  BY DEF EmptyFleet
<1>3. EmptyFleet \in Fleets
  <2>1. <<>> \in Seq(Entries)
    BY EmptySeq
  <2> QED BY <1>1, <1>2, <2>1 DEF Fleets
<1>4. ASSUME NEW y \in Agents PROVE ViewListed(EmptyFleet, y)
  <2>1. Place(<<>>, y, 0, 0) = 0
    BY PlaceIs
  <2>2. EmptyFleet.states[y] = IdleState /\ Len(EmptyFleet.entries) = 0
    BY <1>2
  <2> QED BY <2>1, <2>2, <1>1, <1>2 DEF ViewListed
<1> QED BY <1>1, <1>2, <1>3, <1>4 DEF FleetOK, Known

(* No run begins twice in a list of items. *)
BeginOnce(items) ==
  \A i, k \in 1 .. Len(items) : i # k => Begins(items[i]) \cap Begins(items[k]) = {}

(* The fleet that is made of a list of items, one after another, is as good as one that
   took them as they came. *)
LEMMA ReplayIs ==
  ASSUME SceneOK, NEW recent \in Seq(Items), BeginOnce(recent)
  PROVE  /\ FleetOK(Replay(recent)[Len(recent)])
         /\ Known(Replay(recent)[Len(recent)])
              \subseteq {0} \cup UNION {Begins(recent[i]) : i \in 1 .. Len(recent)}
<1> DEFINE N == Len(recent)
           Step(g, n) == IF n = 0 THEN EmptyFleet ELSE ApplyFleet(g[n - 1], recent[n])
           Upto(g, n) == g = [m \in 0 .. n |-> Step(g, m)]
           seen == CHOOSE g : Upto(g, N)
<1>0. N \in Nat /\ \A n \in 1 .. N : recent[n] \in Items
  BY ElementOfSeq, LenProperties
<1>1. Replay(recent) = seen
  BY DEF Replay
<1> HIDE DEF N
<1>2. \A n \in 0 .. N : \E g : Upto(g, n)
  <2> DEFINE Reached(n) == \E g : Upto(g, n)
             bad == {n \in 0 .. N : ~Reached(n)}
  <2> SUFFICES ASSUME bad # {} PROVE FALSE
    OBVIOUS
  <2> HIDE DEF Reached
  <2>1. bad \subseteq Nat
    BY <1>0
  <2>2. PICK n \in bad : \A m \in bad : n <= m
    BY <2>1, LeastNumber
  <2>5. n \in 0 .. N /\ ~Reached(n)
    BY <2>2
  <2>3. CASE n = 0
    <3>1. Upto([m \in 0 .. 0 |-> EmptyFleet], 0)
      OBVIOUS
    <3> QED BY <2>5, <2>3, <3>1 DEF Reached
  <2>4. CASE n # 0
    <3>1. n - 1 \in 0 .. N /\ Reached(n - 1) /\ n \in 1 .. N
      <4>1. n - 1 \in 0 .. N /\ n \in 1 .. N /\ ~(n <= n - 1)
        BY <2>5, <2>4, <1>0
      <4> QED BY <2>2, <4>1
    <3>2. PICK g : Upto(g, n - 1)
      BY <3>1 DEF Reached
    <3> DEFINE h == [m \in 0 .. n |-> IF m = n THEN Step(g, n) ELSE g[m]]
    <3>3. ASSUME NEW m \in 0 .. n PROVE h[m] = Step(h, m)
      <4>1. CASE m = 0
        <5>1. h[m] = g[0] /\ 0 \in 0 .. n - 1
          BY <4>1, <3>1, <1>0, <2>4
        <5>2. g[0] = Step(g, 0)
          BY <5>1, <3>2
        <5> QED BY <4>1, <5>1, <5>2
      <4>2. CASE m # 0
        <5>1. m - 1 \in 0 .. n /\ m - 1 # n /\ h[m - 1] = g[m - 1]
          BY <4>2, <3>1, <1>0
        <5>2. Step(h, m) = Step(g, m)
          BY <5>1
        <5>3. h[m] = Step(g, m)
          <6>1. CASE m = n
            BY <6>1
          <6>2. CASE m # n
            <7>1. m \in 0 .. n - 1 /\ h[m] = g[m]
              BY <6>2, <3>1, <1>0
            <7> HIDE DEF h, Step
            <7>2. g[m] = Step(g, m)
              BY <7>1, <3>2
            <7> QED BY <7>1, <7>2
          <6> QED BY <6>1, <6>2
        <5> QED BY <5>2, <5>3
      <4> QED BY <4>1, <4>2
    <3>4. Upto(h, n)
      <4> HIDE DEF Step
      <4> QED BY <3>3
    <3> QED BY <3>4, <2>5 DEF Reached
  <2> QED BY <2>3, <2>4
<1>3. Upto(seen, N)
  <2> HIDE DEF Upto
  <2> QED BY <1>2, <1>0
<1>4. \A n \in 0 .. N : seen[n] = Step(seen, n)
  <2> HIDE DEF Step, seen
  <2> QED BY <1>3
<1> HIDE DEF seen
<1> DEFINE Told(n) == {0} \cup UNION {Begins(recent[i]) : i \in 1 .. n}
           Right(n) == FleetOK(seen[n]) /\ Known(seen[n]) \subseteq Told(n)
<1>5. \A n \in 0 .. N : Right(n)
  <2> DEFINE bad == {n \in 0 .. N : ~Right(n)}
  <2> SUFFICES ASSUME bad # {} PROVE FALSE
    OBVIOUS
  <2> HIDE DEF Right
  <2>1. bad \subseteq Nat
    BY <1>0
  <2>2. PICK n \in bad : \A m \in bad : n <= m
    BY <2>1, LeastNumber
  <2>5. n \in 0 .. N /\ ~Right(n)
    BY <2>2
  <2>3. CASE n = 0
    <3>1. seen[0] = EmptyFleet
      BY <1>4, <1>0
    <3>2. Right(0)
      BY <3>1, NothingShown DEF Right
    <3> QED BY <2>5, <2>3, <3>2
  <2>4. CASE n # 0
    <3>1. n - 1 \in 0 .. N /\ Right(n - 1) /\ n \in 1 .. N
      <4>1. n - 1 \in 0 .. N /\ n \in 1 .. N /\ ~(n <= n - 1)
        BY <2>5, <2>4, <1>0
      <4> QED BY <2>2, <4>1
    <3>2. PICK f : f = seen[n - 1]
      OBVIOUS
    <3>3. PICK item \in Items : item = recent[n]
      BY <1>0, <3>1
    <3>4. seen[n] = ApplyFleet(f, item)
      BY <1>4, <2>4, <2>5, <3>2, <3>3
    <3>5. FleetOK(f) /\ Known(f) \subseteq Told(n - 1)
      BY <3>1, <3>2 DEF Right
    <3>6. Begins(item) \cap Told(n - 1) = {}
      <4>1. 0 \notin Begins(item)
        <5>1. item.run \in Runs
          BY DEF Items
        <5> QED BY <5>1, RunsAre DEF Begins
      <4>2. ASSUME NEW i \in 1 .. n - 1 PROVE Begins(item) \cap Begins(recent[i]) = {}
        <5>1. i \in 1 .. N /\ i # n
          BY <3>1, <1>0
        <5> QED BY <5>1, <3>1, <3>3 DEF BeginOnce, N
      <4> QED BY <4>1, <4>2
    <3>7. Told(n - 1) \cup Begins(item) \subseteq Told(n)
      <4>1. \A i \in 1 .. n - 1 : i \in 1 .. n
        BY <3>1, <1>0
      <4>2. n \in 1 .. n
        BY <3>1, <1>0
      <4> QED BY <3>3, <4>1, <4>2
    <3>8. FleetOK(ApplyFleet(f, item)) /\ Known(ApplyFleet(f, item)) \subseteq Known(f) \cup Begins(item)
      <4> HIDE DEF Told
      <4>1. Begins(item) \cap Known(f) = {}
        BY <3>5, <3>6
      <4> QED BY <4>1, <3>5, ItemTaken
    <3>9. Right(n)
      <4> HIDE DEF Told
      <4> QED BY <3>4, <3>5, <3>7, <3>8 DEF Right
    <3> QED BY <3>9, <2>5
  <2> QED BY <2>3, <2>4
<1>6. Right(N)
  <2> HIDE DEF Right
  <2> QED BY <1>5, <1>0
<1> QED BY <1>1, <1>6 DEF N

LEMMA SeededIs ==
  ASSUME SceneOK, NEW recent \in Seq(Items), BeginOnce(recent)
  PROVE  /\ FleetOK(SeedFleet(recent))
         /\ Known(SeedFleet(recent)) \subseteq {0} \cup UNION {Begins(recent[i]) : i \in 1 .. Len(recent)}
<1>1. PICK f : f = Replay(recent)[Len(recent)]
  OBVIOUS
<1>2. /\ FleetOK(f)
      /\ Known(f) \subseteq {0} \cup UNION {Begins(recent[i]) : i \in 1 .. Len(recent)}
  BY <1>1, ReplayIs
<1> DEFINE detached(state) ==
             IF state.status = "running" THEN [state EXCEPT !.attached = FALSE] ELSE state
           g == SeedFleet(recent)
<1>3. g = [states |-> [y \in Agents |-> detached(f.states[y])], entries |-> f.entries]
  BY <1>1 DEF SeedFleet
<1>4. ASSUME NEW state \in RunViews
      PROVE  detached(state) \in RunViews /\ detached(state).run = state.run
             /\ detached(state).blocks = state.blocks
  <2>1. CASE state.status = "running"
    <3>1. detached(state)
          = [status |-> state.status, run |-> state.run, blocks |-> state.blocks, attached |-> FALSE]
      <4>1. detached(state) = [state EXCEPT !.attached = FALSE]
        BY <2>1
      <4> QED BY <4>1 DEF RunViews
    <3>2. [status |-> state.status, run |-> state.run, blocks |-> state.blocks, attached |-> FALSE] \in RunViews
      BY RunViewParts, RunViewOf
    <3> QED BY <3>1, <3>2
  <2>2. CASE state.status # "running"
    BY <2>2
  <2> QED BY <2>1, <2>2
<1>5. g.entries = f.entries /\ g.states = [y \in Agents |-> detached(f.states[y])]
  BY <1>3
<1>6. f.states \in [Agents -> RunViews] /\ f.entries \in Seq(Entries)
  BY <1>2 DEF FleetOK, Fleets
<1>7. \A y \in Agents : /\ g.states[y] \in RunViews /\ g.states[y].run = f.states[y].run
                        /\ g.states[y].blocks = f.states[y].blocks
  <2> HIDE DEF detached, g
  <2> QED BY <1>4, <1>5, <1>6
<1>8. g \in Fleets
  <2>1. g.states \in [Agents -> RunViews]
    <3>1. g.states = [y \in Agents |-> g.states[y]]
      BY <1>5
    <3> HIDE DEF g, detached
    <3> QED BY <1>7, <3>1
  <2>2. g = [states |-> g.states, entries |-> g.entries]
    BY <1>3
  <2> HIDE DEF g, detached
  <2> QED BY <2>1, <2>2, <1>5, <1>6 DEF Fleets
<1> HIDE DEF g, detached
<1>9. ASSUME NEW y \in Agents PROVE ViewListed(g, y)
  <2>1. ViewListed(f, y)
    BY <1>2 DEF FleetOK
  <2> QED BY <2>1, <1>5, <1>7 DEF ViewListed
<1>10. Known(g) = Known(f)
  <2>1. {g.states[y].run : y \in Agents} = {f.states[y].run : y \in Agents}
    BY <1>7
  <2>2. {g.entries[j].run : j \in 1 .. Len(g.entries)} = {f.entries[j].run : j \in 1 .. Len(f.entries)}
    BY <1>5
  <2> QED BY <2>1, <2>2 DEF Known
<1> QED BY <1>2, <1>8, <1>9, <1>10 DEF FleetOK, g

-----------------------------------------------------------------------------
(* Types *)

LEMMA SceneTyped ==
  ASSUME scene \in Scenes
  PROVE  /\ SceneOK /\ None \notin scene.inputs /\ scene.flow \subseteq {"text", "thinking"}
         /\ {scene.upto, scene.said, scene.ills, scene.looks} \subseteq Nat /\ scene.up \in BOOLEAN
         /\ Runs = 1 .. Len(scene.cast) /\ Runs \subseteq Nat
         /\ None \in Calls /\ scene.inputs \subseteq Calls
<1>1. /\ SceneOK /\ None \notin scene.inputs /\ scene.flow \subseteq {"text", "thinking"}
      /\ {scene.upto, scene.said, scene.ills, scene.looks} \subseteq Nat /\ scene.up \in BOOLEAN
  BY TelemetryAssumption DEF SceneOK
<1>2. None \in Calls /\ scene.inputs \subseteq Calls
  BY DEF Calls
<1> QED BY <1>1, <1>2, RunsAre

LEMMA TypesSame ==
  ASSUME scene' = scene
  PROVE  /\ Runs' = Runs /\ AgentEvents' = AgentEvents /\ Items' = Items /\ Segments' = Segments
         /\ ActRecords' = ActRecords /\ Emits' = Emits
BY DEF Runs, AgentEvents, Items, Segments, ActRecords, Emits

LEMMA EvTyped ==
  ASSUME NEW type \in Types, NEW r \in Runs, NEW who \in Nat, NEW call \in Calls
  PROVE  Ev(type, r, who, call) \in AgentEvents
<1>1. <<>> \in Seq(Nat)
  BY EmptySeq
<1> QED BY <1>1 DEF Ev, AgentEvents

LEMMA SegmentTyped ==
  ASSUME NEW s \in Segments, scene \in Scenes
  PROVE  Segment(s) \in AgentEvents
<1>1. None \in Calls
  BY SceneTyped
<1>2. "output_segment" \in Types
  BY DEF Types
<1> QED BY <1>1, <1>2 DEF Segment, AgentEvents, Segments

LEMMA ItemTyped ==
  ASSUME NEW e \in AgentEvents, NEW n \in Int
  PROVE  Item(e, n) \in Items
BY DEF Item, Items, AgentEvents

LEMMA DeltaTyped ==
  ASSUME NEW r \in Runs, NEW n \in Nat, NEW kind \in {"text", "thinking"}, scene \in Scenes
  PROVE  Delta(r, n, kind) \in Items
<1>1. None \in Calls
  BY SceneTyped
<1>2. <<n>> \in Seq(Nat)
  OBVIOUS
<1> QED BY <1>1, <1>2 DEF Delta, Items

(* What is published goes to the queue, whoever is there to take it. *)
LEMMA Pushed ==
  ASSUME NEW item \in Items, NEW q \in Seq(Items), q # None
  PROVE  /\ Push(q, item) \in Seq(Items)
         /\ \E n \in {0, 1} :
              /\ Len(Push(q, item)) = Len(q) - n + 1 /\ n <= Len(q)
              /\ \A i \in 1 .. Len(q) - n : Push(q, item)[i] = q[i + n]
              /\ Push(q, item)[Len(q) - n + 1] = item
<1>1. Len(q) \in Nat /\ MAX_SIZE \in Nat \ {0}
  BY LenProperties, TelemetryAssumption
<1>2. CASE Len(q) = MAX_SIZE
  <2>1. q # <<>>
    BY <1>1, <1>2
  <2>2. /\ Tail(q) \in Seq(Items) /\ Len(Tail(q)) = Len(q) - 1
        /\ \A i \in 1 .. Len(q) - 1 : Tail(q)[i] = q[i + 1]
    BY <2>1, HeadTailProperties
  <2>3. PICK p \in Seq(Items) : p = Tail(q)
    BY <2>2
  <2>4. /\ Append(p, item) \in Seq(Items) /\ Len(Append(p, item)) = Len(p) + 1
        /\ \A i \in 1 .. Len(p) : Append(p, item)[i] = p[i]
        /\ Append(p, item)[Len(p) + 1] = item
    BY AppendProperties
  <2>5. Push(q, item) = Append(p, item)
    BY <1>2, <2>3 DEF Push
  <2> QED BY <1>1, <1>2, <2>2, <2>3, <2>4, <2>5
<1>3. CASE Len(q) # MAX_SIZE
  <2>1. Push(q, item) = Append(q, item)
    BY <1>3 DEF Push
  <2>2. /\ Append(q, item) \in Seq(Items) /\ Len(Append(q, item)) = Len(q) + 1
        /\ \A i \in 1 .. Len(q) : Append(q, item)[i] = q[i]
        /\ Append(q, item)[Len(q) + 1] = item
    BY AppendProperties
  <2> QED BY <1>1, <2>1, <2>2
<1> QED BY <1>2, <1>3

LEMMA PublishTyped ==
  ASSUME TelemetryTypeOK, NEW item \in Items, Publish(item)
  PROVE  /\ queue' = None \/ queue' \in Seq(Items)
         /\ app = "on" /\ queue \in Seq(Items) => queue' \in Seq(Items)
         /\ heard' \subseteq Runs
<1>1. queue = None \/ queue \in Seq(Items)
  BY DEF TelemetryTypeOK
<1>2. queue' = Push(queue, item)
  BY DEF Publish
<1>3. item.run \in Runs
  BY DEF Items
<1>4. heard' \subseteq Runs
  BY <1>3 DEF TelemetryTypeOK, Publish
<1>5. CASE queue = None
  <2>1. queue' = None
    BY <1>2, <1>5 DEF Push
  <2> QED BY <1>4, <1>5, <2>1
<1>6. CASE queue # None
  <2>1. queue' \in Seq(Items)
    BY <1>1, <1>2, <1>6, Pushed
  <2> QED BY <1>4, <2>1
<1> QED BY <1>5, <1>6

LEMMA TakenTyped ==
  ASSUME TelemetryTypeOK, NEW r \in Runs
  PROVE  Taken(r) \in Seq(Segments)
<1>1. flushes[r] \in Seq(Segments) /\ (segments[r] = None \/ segments[r] \in Segments)
  BY DEF TelemetryTypeOK
<1>2. PICK a \in Seq(Segments) : a = flushes[r]
  BY <1>1
<1>3. PICK b \in Seq(Segments) : b = IF segments[r] = None THEN <<>> ELSE <<segments[r]>>
  <2>1. <<>> \in Seq(Segments)
    BY EmptySeq
  <2>2. CASE segments[r] = None
    BY <2>1, <2>2
  <2>3. CASE segments[r] # None
    <3>1. PICK s \in Segments : s = segments[r]
      BY <1>1, <2>3
    <3>2. <<s>> \in Seq(Segments)
      OBVIOUS
    <3> QED BY <2>3, <3>1, <3>2
  <2> QED BY <2>2, <2>3
<1>4. a \o b \in Seq(Segments)
  BY ConcatProperties
<1> QED BY <1>2, <1>3, <1>4 DEF Taken

(* An event that is emitted takes along what is buffered of its run if it ends a
   segment. *)
LEMMA EmitTyped ==
  ASSUME TelemetryTypeOK, NEW e \in AgentEvents, NEW others \in Seq(Emits), NEW newCounts \in [Runs -> Nat],
         EmitWith(e, others, newCounts)
  PROVE  /\ writing' \in Seq(Emits) /\ open' \subseteq Runs
         /\ flushes' \in [Runs -> Seq(Segments)] /\ segments' \in [Runs -> Segments \cup {None}]
         /\ counts' \in [Runs -> Nat]
<1>1. e.run \in Runs
  BY DEF AgentEvents
<1>2. PICK segs \in Seq(Segments) : segs = IF e.type \in Boundaries THEN Taken(e.run) ELSE <<>>
  <2>1. <<>> \in Seq(Segments)
    BY EmptySeq
  <2>2. Taken(e.run) \in Seq(Segments)
    BY <1>1, TakenTyped
  <2> QED BY <2>1, <2>2
<1>3. PICK j \in Emits : j = [ev |-> e, segs |-> segs]
  BY DEF Emits
<1>4. writing' = Append(others, j)
  BY <1>2, <1>3 DEF EmitWith
<1>5. writing' \in Seq(Emits)
  BY <1>4, AppendProperties
<1>6. flushes' \in [Runs -> Seq(Segments)]
  <2>1. flushes' = [flushes EXCEPT ![e.run] = <<>>] \/ flushes' = flushes
    BY DEF EmitWith
  <2>2. <<>> \in Seq(Segments)
    BY EmptySeq
  <2> QED BY <2>1, <2>2 DEF TelemetryTypeOK
<1>7. segments' \in [Runs -> Segments \cup {None}]
  <2>1. segments' = [segments EXCEPT ![e.run] = None] \/ segments' = segments
    BY DEF EmitWith
  <2> QED BY <2>1 DEF TelemetryTypeOK
<1>8. open' \subseteq Runs
  <2>1. open' = TrackOpen(e) \/ open' = open
    BY DEF EmitWith
  <2> QED BY <2>1, <1>1 DEF TelemetryTypeOK, TrackOpen
<1>9. counts' \in [Runs -> Nat]
  <2>1. counts' = [newCounts EXCEPT ![e.run] = 0] \/ counts' = newCounts
    BY DEF EmitWith
  <2> QED BY <2>1
<1> QED BY <1>5, <1>6, <1>7, <1>8, <1>9

(* The types hold after a step that leaves the scene alone and types the rest. *)
LEMMA TypedAgain ==
  ASSUME TelemetryTypeOK, scene' = scene,
         store' \in Seq(AgentEvents), queue' = None \/ queue' \in Seq(Items),
         runs' \in Seq(RunRecords), Len(runs') <= Len(scene.cast), acts' \in Seq(ActRecords),
         segments' \in [Runs -> Segments \cup {None}], flushes' \in [Runs -> Seq(Segments)],
         writing' \in Seq(Emits), open' \subseteq Runs, counts' \in [Runs -> Nat],
         tokens' \in [Runs -> Nat], harmed' \subseteq Runs, heard' \subseteq Runs, troubles' \in Nat
  PROVE  TelemetryTypeOK'
<1>1. /\ Runs' = Runs /\ AgentEvents' = AgentEvents /\ Items' = Items /\ Segments' = Segments
      /\ ActRecords' = ActRecords /\ Emits' = Emits
  BY TypesSame
<1> QED BY <1>1, Zenon DEF TelemetryTypeOK

LEMMA RunChanged ==
  ASSUME TelemetryTypeOK, NEW r \in DOMAIN runs,
         NEW st \in {"starting", "live", "ending", "over", "gone"}, NEW how \in RunEnds \cup {None}
  PROVE  LET rs == [runs EXCEPT ![r] = [agent |-> runs[r].agent, st |-> st, how |-> how]]
         IN rs \in Seq(RunRecords) /\ Len(rs) = Len(runs)
<1>1. PICK rs \in Seq(RunRecords) : rs = runs
  BY DEF TelemetryTypeOK
<1>2. r \in 1 .. Len(rs) /\ rs[r] \in RunRecords
  BY <1>1, ElementOfSeq, LenProperties
<1>3. PICK b \in RunRecords : b = [agent |-> rs[r].agent, st |-> st, how |-> how]
  BY <1>2 DEF RunRecords
<1>4. [rs EXCEPT ![r] = b] \in Seq(RunRecords) /\ Len([rs EXCEPT ![r] = b]) = Len(rs)
  BY <1>2, ExceptSeq
<1> QED BY <1>1, <1>3, <1>4

LEMMA RunParts ==
  ASSUME TelemetryTypeOK, NEW r \in DOMAIN runs
  PROVE  /\ runs[r] \in RunRecords /\ r \in 1 .. Len(runs) /\ Len(runs) \in Nat /\ r \in Runs
         /\ runs[r] = [agent |-> runs[r].agent, st |-> runs[r].st, how |-> runs[r].how]
         /\ runs[r].st \in {"starting", "live", "ending", "over", "gone"}
         /\ runs[r].how \in RunEnds \cup {None}
<1>1. runs \in Seq(RunRecords) /\ Len(runs) <= Len(scene.cast) /\ scene \in Scenes
  BY DEF TelemetryTypeOK
<1>2. r \in 1 .. Len(runs) /\ Len(runs) \in Nat /\ runs[r] \in RunRecords
  BY <1>1, ElementOfSeq, LenProperties
<1>3. r \in Runs
  BY <1>1, <1>2, SceneTyped, RunsAre
<1> QED BY <1>2, <1>3 DEF RunRecords

LEMMA ActParts ==
  ASSUME TelemetryTypeOK, NEW a \in DOMAIN acts
  PROVE  /\ acts[a] \in ActRecords /\ a \in 1 .. Len(acts) /\ Len(acts) \in Nat
         /\ acts[a].run \in Runs /\ acts[a].kind \in {"call", "tool"} /\ acts[a].call \in Calls
<1>1. acts \in Seq(ActRecords)
  BY DEF TelemetryTypeOK
<1>2. a \in 1 .. Len(acts) /\ Len(acts) \in Nat /\ acts[a] \in ActRecords
  BY <1>1, ElementOfSeq, LenProperties
<1> QED BY <1>2 DEF ActRecords

LEMMA ActChanged ==
  ASSUME TelemetryTypeOK, NEW a \in DOMAIN acts, NEW st \in {"starting", "open", "ending", "over", "cut"}
  PROVE  LET cs == [acts EXCEPT ![a].st = st] IN cs \in Seq(ActRecords) /\ Len(cs) = Len(acts)
<1>1. PICK cs \in Seq(ActRecords) : cs = acts
  BY DEF TelemetryTypeOK
<1>2. a \in 1 .. Len(cs) /\ cs[a] \in ActRecords
  BY <1>1, ActParts
<1>3. PICK b \in ActRecords : b = [cs[a] EXCEPT !.st = st]
  BY <1>2 DEF ActRecords
<1>4. [cs EXCEPT ![a] = b] \in Seq(ActRecords) /\ Len([cs EXCEPT ![a] = b]) = Len(cs)
  <2>1. PICK n \in 1 .. Len(cs) : n = a
    BY <1>2
  <2>2. [cs EXCEPT ![n] = b] \in Seq(ActRecords) /\ Len([cs EXCEPT ![n] = b]) = Len(cs)
    BY ExceptSeq
  <2> QED BY <2>1, <2>2
<1> QED BY <1>1, <1>3, <1>4

LEMMA ReturnedTyped ==
  ASSUME TelemetryTypeOK, NEW j, Returned(j)
  PROVE  /\ runs' \in Seq(RunRecords) /\ Len(runs') = Len(runs)
         /\ acts' \in Seq(ActRecords) /\ Len(acts') = Len(acts)
<1>1. CASE j.ev.who = 0
  <2> DEFINE r == j.ev.run
             st == IF runs[r].st = "starting" THEN "live" ELSE "over"
  <2>1. acts' = acts /\ runs' = [runs EXCEPT ![r].st = st]
    BY <1>1 DEF Returned
  <2>2. CASE r \in DOMAIN runs
    <3>1. [runs[r] EXCEPT !.st = st] = [agent |-> runs[r].agent, st |-> st, how |-> runs[r].how]
      BY <2>2, RunParts DEF RunRecords
    <3>2. runs' = [runs EXCEPT ![r] = [agent |-> runs[r].agent, st |-> st, how |-> runs[r].how]]
      BY <2>1, <3>1
    <3>3. runs[r].how \in RunEnds \cup {None}
      BY <2>2, RunParts
    <3> QED BY <2>1, <2>2, <3>2, <3>3, RunChanged DEF TelemetryTypeOK
  <2>3. CASE r \notin DOMAIN runs
    <3>1. runs' = runs
      BY <2>1, <2>3 DEF TelemetryTypeOK
    <3> QED BY <2>1, <3>1 DEF TelemetryTypeOK
  <2> QED BY <2>2, <2>3
<1>2. CASE j.ev.who # 0
  <2> DEFINE a == j.ev.who
             st == IF acts[a].st = "starting" THEN "open" ELSE "over"
  <2>1. runs' = runs /\ acts' = [acts EXCEPT ![a].st = st]
    BY <1>2 DEF Returned
  <2>2. CASE a \in DOMAIN acts
    BY <2>1, <2>2, ActChanged DEF TelemetryTypeOK
  <2>3. CASE a \notin DOMAIN acts
    <3>1. acts' = acts
      BY <2>1, <2>3 DEF TelemetryTypeOK
    <3> QED BY <2>1, <3>1 DEF TelemetryTypeOK
  <2> QED BY <2>2, <2>3
<1> QED BY <1>1, <1>2

(* The machinery's steps keep the types, and the queue of an app that listens. *)
TypedStep == TelemetryTypeOK' /\ scene' = scene /\ (app = "on" /\ queue \in Seq(Items) => queue' \in Seq(Items))

LEMMA WriteTyped ==
  ASSUME TelemetryTypeOK, NEW stored \in BOOLEAN, Write(stored), troubles' \in Nat
  PROVE  TypedStep
<1>1. PICK w \in Seq(Emits) : w = writing /\ w # <<>>
  BY DEF TelemetryTypeOK, Write
<1>2. PICK j \in Emits : j = Head(w)
  BY <1>1, HeadTailProperties
<1>3. j.ev \in AgentEvents /\ j.segs \in Seq(Segments) /\ scene \in Scenes /\ Tail(w) \in Seq(Emits)
  BY <1>1, HeadTailProperties DEF Emits, TelemetryTypeOK
<1>4. PICK e \in AgentEvents : e = IF j.segs = <<>> THEN j.ev ELSE Segment(Head(j.segs))
  <2>1. CASE j.segs = <<>>
    BY <2>1, <1>3
  <2>2. CASE j.segs # <<>>
    <3>1. PICK segs \in Seq(Segments) : segs = j.segs /\ segs # <<>>
      BY <1>3, <2>2
    <3>2. Head(segs) \in Segments
      BY <3>1, HeadTailProperties
    <3>3. Segment(Head(segs)) \in AgentEvents
      BY <3>2, <1>3, SegmentTyped
    <3> QED BY <2>2, <3>1, <3>3
  <2> QED BY <2>1, <2>2
<1>5. /\ store' = IF stored THEN Append(store, e) ELSE store
      /\ Publish(Item(e, IF stored THEN Len(store) + 1 ELSE -1))
      /\ IF j.segs = <<>>
         THEN writing' = Tail(w) /\ Returned(j) /\ UNCHANGED <<open, counts>>
         ELSE /\ writing' = Append(Tail(w), [j EXCEPT !.segs = Tail(@)])
              /\ IF Len(j.segs) = 1 THEN open' = TrackOpen(j.ev) /\ counts' = TrackCounts(j.ev)
                 ELSE UNCHANGED <<open, counts>>
              /\ UNCHANGED <<runs, acts>>
      /\ harmed' = IF stored THEN harmed ELSE harmed \cup {e.run}
      /\ UNCHANGED <<scene, segments, flushes, tokens>>
  BY <1>1, <1>2, <1>4 DEF Write
<1>6. store' \in Seq(AgentEvents) /\ Len(store) \in Nat
  <2>1. PICK old \in Seq(AgentEvents) : old = store
    BY DEF TelemetryTypeOK
  <2>2. Append(old, e) \in Seq(AgentEvents) /\ Len(old) \in Nat
    BY AppendProperties, LenProperties
  <2> QED BY <2>1, <2>2, <1>5
<1>7. PICK n \in Int : n = IF stored THEN Len(store) + 1 ELSE -1
  BY <1>6
<1>8. /\ queue' = None \/ queue' \in Seq(Items)
      /\ app = "on" /\ queue \in Seq(Items) => queue' \in Seq(Items)
      /\ heard' \subseteq Runs
  BY <1>5, <1>7, ItemTyped, PublishTyped
<1>9. harmed' \subseteq Runs
  BY <1>5 DEF TelemetryTypeOK, AgentEvents
<1>10. writing' \in Seq(Emits) /\ open' \subseteq Runs /\ counts' \in [Runs -> Nat]
       /\ runs' \in Seq(RunRecords) /\ Len(runs') <= Len(scene.cast) /\ acts' \in Seq(ActRecords)
  <2>1. CASE j.segs = <<>>
    <3>1. /\ runs' \in Seq(RunRecords) /\ Len(runs') = Len(runs)
          /\ acts' \in Seq(ActRecords) /\ Len(acts') = Len(acts)
      BY <1>5, <2>1, ReturnedTyped
    <3>2. writing' = Tail(w) /\ open' = open /\ counts' = counts
      BY <1>5, <2>1
    <3> QED BY <3>1, <3>2, <1>3 DEF TelemetryTypeOK
  <2>2. CASE j.segs # <<>>
    <3>1. PICK segs \in Seq(Segments) : segs = j.segs /\ segs # <<>>
      BY <1>3, <2>2
    <3>2. Tail(segs) \in Seq(Segments)
      BY <3>1, HeadTailProperties
    <3>3. PICK k \in Emits : k = [j EXCEPT !.segs = Tail(segs)]
      BY <3>2 DEF Emits
    <3>4. PICK rest \in Seq(Emits) : rest = Tail(w)
      BY <1>3
    <3>5. Append(rest, k) \in Seq(Emits)
      BY AppendProperties
    <3>6. writing' = Append(rest, k)
      BY <1>5, <2>2, <3>1, <3>3, <3>4
    <3>7. \/ open' = TrackOpen(j.ev) /\ counts' = TrackCounts(j.ev)
          \/ open' = open /\ counts' = counts
      BY <1>5, <2>2
    <3>8. open' \subseteq Runs /\ counts' \in [Runs -> Nat]
      <4>1. j.ev.run \in Runs
        BY <1>3 DEF AgentEvents
      <4>2. TrackOpen(j.ev) \subseteq Runs
        BY <4>1 DEF TelemetryTypeOK, TrackOpen
      <4>3. TrackCounts(j.ev) \in [Runs -> Nat]
        BY <4>1 DEF TelemetryTypeOK, TrackCounts
      <4> QED BY <4>2, <4>3, <3>7 DEF TelemetryTypeOK
    <3> QED BY <1>5, <2>2, <3>5, <3>6, <3>8 DEF TelemetryTypeOK
  <2> QED BY <2>1, <2>2
<1>11. segments' = segments /\ flushes' = flushes /\ tokens' = tokens /\ scene' = scene
  BY <1>5
<1>12. TelemetryTypeOK'
  <2>1. segments' \in [Runs -> Segments \cup {None}] /\ flushes' \in [Runs -> Seq(Segments)] /\ tokens' \in [Runs -> Nat]
    BY <1>11 DEF TelemetryTypeOK
  <2> QED BY <2>1, <1>6, <1>8, <1>9, <1>10, <1>11, TypedAgain
<1> QED BY <1>8, <1>11, <1>12 DEF TypedStep

(* An emit, and what starts or ends with it *)
LEMMA EmittedTyped ==
  ASSUME TelemetryTypeOK, NEW e \in AgentEvents, NEW others \in Seq(Emits), NEW newCounts \in [Runs -> Nat],
         EmitWith(e, others, newCounts), UNCHANGED <<scene, queue, tokens, heard>>,
         store' \in Seq(AgentEvents), runs' \in Seq(RunRecords), Len(runs') <= Len(scene.cast),
         acts' \in Seq(ActRecords), harmed' \subseteq Runs, troubles' \in Nat
  PROVE  TypedStep
<1>1. /\ writing' \in Seq(Emits) /\ open' \subseteq Runs
      /\ flushes' \in [Runs -> Seq(Segments)] /\ segments' \in [Runs -> Segments \cup {None}]
      /\ counts' \in [Runs -> Nat]
  BY EmitTyped
<1>2. /\ queue' = None \/ queue' \in Seq(Items)
      /\ tokens' \in [Runs -> Nat] /\ heard' \subseteq Runs /\ scene' = scene /\ queue' = queue
  BY DEF TelemetryTypeOK
<1>3. TelemetryTypeOK'
  BY <1>1, <1>2, TypedAgain
<1> QED BY <1>2, <1>3 DEF TypedStep

LEMMA StartRunTyped ==
  ASSUME TelemetryTypeOK, NEW x \in Agents, StartRun(x)
  PROVE  TypedStep
<1>1. PICK rs \in Seq(RunRecords) : rs = runs
  BY DEF TelemetryTypeOK
<1>2. Len(rs) \in Nat /\ Len(scene.cast) \in Nat /\ Len(rs) < Len(scene.cast) /\ scene \in Scenes
  <2>1. scene \in Scenes
    BY DEF TelemetryTypeOK
  <2> QED BY <2>1, <1>1, LenProperties, SceneTyped, RunsAre DEF StartRun
<1>3. PICK b \in RunRecords : b = [agent |-> x, st |-> "starting", how |-> None]
  BY DEF RunRecords
<1>4. runs' \in Seq(RunRecords) /\ Len(runs') = Len(rs) + 1
  <2>1. runs' = Append(rs, b)
    BY <1>1, <1>3 DEF StartRun
  <2> QED BY <2>1, AppendProperties
<1>5. Len(runs) + 1 \in Runs /\ None \in Calls
  BY <1>1, <1>2, SceneTyped
<1>6. PICK e \in AgentEvents : e = Ev("run_started", Len(runs) + 1, 0, None)
  BY <1>5, EvTyped DEF Types, RunEvents
<1>7. /\ EmitWith(e, writing, counts) /\ UNCHANGED <<scene, queue, tokens, heard>>
      /\ store' = store /\ acts' = acts /\ harmed' = harmed /\ troubles' = troubles
  BY <1>6 DEF StartRun, Emit
<1>8. /\ writing \in Seq(Emits) /\ counts \in [Runs -> Nat] /\ Len(runs') <= Len(scene.cast)
      /\ store' \in Seq(AgentEvents) /\ acts' \in Seq(ActRecords) /\ harmed' \subseteq Runs /\ troubles' \in Nat
  BY <1>2, <1>4, <1>7 DEF TelemetryTypeOK
<1> QED BY <1>4, <1>7, <1>8, EmittedTyped

LEMMA StartActTyped ==
  ASSUME TelemetryTypeOK, NEW r \in DOMAIN runs, NEW kind \in {"call", "tool"}, NEW call \in Calls,
         StartAct(r, kind, call)
  PROVE  TypedStep
<1>1. PICK cs \in Seq(ActRecords) : cs = acts
  BY DEF TelemetryTypeOK
<1>2. Len(cs) \in Nat /\ r \in Runs
  BY LenProperties, RunParts
<1>3. PICK b \in ActRecords : b = [run |-> r, kind |-> kind, call |-> call, st |-> "starting"]
  BY <1>2 DEF ActRecords
<1>4. acts' \in Seq(ActRecords)
  <2>1. acts' = Append(cs, b)
    BY <1>1, <1>3 DEF StartAct
  <2> QED BY <2>1, AppendProperties
<1>5. PICK e \in AgentEvents : e = Ev(IF kind = "call" THEN "call_started" ELSE "tool_started", r, Len(acts) + 1, call)
  <2>1. PICK type \in Types : type = IF kind = "call" THEN "call_started" ELSE "tool_started"
    BY DEF Types
  <2>2. Len(acts) + 1 \in Nat
    BY <1>1, <1>2
  <2>3. Ev(type, r, Len(acts) + 1, call) \in AgentEvents
    BY <2>2, <1>2, EvTyped
  <2> QED BY <2>1, <2>3
<1>6. PICK newCounts \in [Runs -> Nat] : newCounts = IF kind = "call" THEN [counts EXCEPT ![r] = @ + 1] ELSE counts
  <2>1. counts \in [Runs -> Nat]
    BY DEF TelemetryTypeOK
  <2>2. [counts EXCEPT ![r] = @ + 1] \in [Runs -> Nat]
    BY <2>1, <1>2
  <2> QED BY <2>1, <2>2
<1>7. /\ EmitWith(e, writing, newCounts) /\ UNCHANGED <<scene, queue, tokens, heard>>
      /\ store' = store /\ runs' = runs /\ harmed' = harmed /\ troubles' = troubles
  BY <1>5, <1>6 DEF StartAct, Emit
<1> QED BY <1>4, <1>7, EmittedTyped DEF TelemetryTypeOK

LEMMA EndActTyped ==
  ASSUME TelemetryTypeOK, NEW a \in DOMAIN acts, NEW type, EndAct(a, type)
  PROVE  TypedStep
<1>1. acts[a].run \in Runs /\ acts[a].kind \in {"call", "tool"} /\ acts[a].call \in Calls /\ a \in Nat
  BY ActParts
<1>2. type \in Types
  BY <1>1 DEF EndAct, ActEnds, Types
<1>3. PICK e \in AgentEvents : e = Ev(type, acts[a].run, a, acts[a].call)
  BY <1>1, <1>2, EvTyped
<1>4. acts' \in Seq(ActRecords)
  <2>1. acts' = [acts EXCEPT ![a].st = "ending"]
    BY DEF EndAct
  <2> QED BY <2>1, ActChanged
<1>5. /\ EmitWith(e, writing, counts) /\ UNCHANGED <<scene, queue, tokens, heard>>
      /\ store' = store /\ runs' = runs /\ harmed' = harmed /\ troubles' = troubles
  BY <1>3 DEF EndAct, Emit
<1> QED BY <1>4, <1>5, EmittedTyped DEF TelemetryTypeOK

LEMMA EndRunTyped ==
  ASSUME TelemetryTypeOK, NEW r \in DOMAIN runs, NEW how \in RunEnds, EndRun(r, how)
  PROVE  TypedStep
<1>1. r \in Runs /\ scene \in Scenes
  BY RunParts DEF TelemetryTypeOK
<1>2. PICK e \in AgentEvents : e = Ev(how, r, 0, None)
  <2>1. None \in Calls /\ how \in Types
    BY <1>1, SceneTyped DEF Types, RunEvents
  <2> QED BY <1>1, <2>1, EvTyped
<1>3. runs' \in Seq(RunRecords) /\ Len(runs') = Len(runs)
  <2>1. runs' = [runs EXCEPT ![r] = [agent |-> runs[r].agent, st |-> "ending", how |-> how]]
    BY DEF EndRun
  <2> QED BY <2>1, RunChanged
<1>4. /\ EmitWith(e, writing, counts) /\ UNCHANGED <<scene, queue, tokens, heard>>
      /\ store' = store /\ acts' = acts /\ harmed' = harmed /\ troubles' = troubles
  BY <1>2 DEF EndRun, Emit
<1> QED BY <1>3, <1>4, EmittedTyped DEF TelemetryTypeOK

LEMMA CancelRunTyped ==
  ASSUME TelemetryTypeOK, NEW r \in DOMAIN runs, CancelRun(r)
  PROVE  TypedStep
<1>1. r \in Runs /\ scene \in Scenes /\ troubles' \in Nat /\ harmed' \subseteq Runs
      /\ UNCHANGED <<scene, queue, tokens, heard>> /\ runs[r].how \in RunEnds \cup {None}
  <2>1. r \in Runs /\ runs[r].how \in RunEnds \cup {None}
    BY RunParts
  <2>2. troubles' = troubles + 1 /\ harmed' = harmed \cup {r} /\ UNCHANGED <<scene, queue, tokens, heard>>
    BY DEF CancelRun, Trouble
  <2> QED BY <2>1, <2>2 DEF TelemetryTypeOK
<1>2. PICK w \in Seq(Emits) : w = writing
  BY DEF TelemetryTypeOK
<1>3. PICK others \in Seq(Emits) : others = Without(r, writing)
  BY <1>2, WithoutIs
<1>4. store' \in Seq(AgentEvents)
  <2>1. CASE store' = store
    BY <2>1 DEF TelemetryTypeOK
  <2>2. CASE store' # store
    <3>1. PICK e : e = IF Head(w).segs = <<>> THEN Head(w).ev ELSE Segment(Head(Head(w).segs))
      OBVIOUS
    <3>2. w # <<>> /\ store' = Append(store, e)
      BY <1>2, <2>2, <3>1 DEF CancelRun
    <3>3. PICK j \in Emits : j = Head(w)
      BY <3>2, HeadTailProperties
    <3>4. j.ev \in AgentEvents /\ j.segs \in Seq(Segments)
      BY DEF Emits
    <3>5. e \in AgentEvents
      <4>1. CASE j.segs = <<>>
        BY <4>1, <3>1, <3>3, <3>4
      <4>2. CASE j.segs # <<>>
        <5>1. PICK segs \in Seq(Segments) : segs = j.segs /\ segs # <<>>
          BY <3>4, <4>2
        <5>2. Head(segs) \in Segments
          BY <5>1, HeadTailProperties
        <5>3. Segment(Head(segs)) \in AgentEvents
          BY <5>2, <1>1, SegmentTyped
        <5> QED BY <4>2, <3>1, <3>3, <5>1, <5>3
      <4> QED BY <4>1, <4>2
    <3>6. PICK old \in Seq(AgentEvents) : old = store
      BY DEF TelemetryTypeOK
    <3>7. Append(old, e) \in Seq(AgentEvents)
      BY <3>5, AppendProperties
    <3> QED BY <3>2, <3>6, <3>7
  <2> QED BY <2>1, <2>2
<1>5. acts' \in Seq(ActRecords)
  <2>1. acts' = [a \in DOMAIN acts |-> IF a \in Active(r) THEN [acts[a] EXCEPT !.st = "cut"] ELSE acts[a]]
    BY DEF CancelRun
  <2>2. DOMAIN acts = 1 .. Len(acts) /\ Len(acts) \in Nat
    <3>1. acts \in Seq(ActRecords)
      BY DEF TelemetryTypeOK
    <3> QED BY <3>1, LenProperties
  <2>3. ASSUME NEW a \in DOMAIN acts
        PROVE  acts[a] \in ActRecords /\ [acts[a] EXCEPT !.st = "cut"] \in ActRecords
    BY ActParts DEF ActRecords
  <2>4. acts' \in [1 .. Len(acts) -> ActRecords]
    BY <2>1, <2>2, <2>3
  <2> QED BY <2>2, <2>4, FunctionIsSeq
<1>6. CASE runs[r].st = "live"
  <2>1. PICK e \in AgentEvents : e = Ev("run_cancelled", r, 0, None)
    <3>1. None \in Calls /\ "run_cancelled" \in Types
      BY <1>1, SceneTyped DEF Types, RunEvents, RunEnds
    <3> QED BY <1>1, <3>1, EvTyped
  <2>2. EmitWith(e, others, counts)
        /\ runs' = [runs EXCEPT ![r] = [agent |-> @.agent, st |-> "ending", how |-> "run_cancelled"]]
    BY <1>3, <1>6, <2>1 DEF CancelRun
  <2>3. runs' \in Seq(RunRecords) /\ Len(runs') = Len(runs)
    BY <2>2, RunChanged DEF RunEnds
  <2>4. counts \in [Runs -> Nat] /\ Len(runs') <= Len(scene.cast)
    BY <2>3 DEF TelemetryTypeOK
  <2> QED BY <1>1, <1>4, <1>5, <2>2, <2>3, <2>4, EmittedTyped
<1>7. CASE runs[r].st # "live"
  <2>1. writing' = others /\ runs' = [runs EXCEPT ![r].st = "gone"] /\ UNCHANGED <<segments, flushes, open, counts>>
    BY <1>3, <1>7 DEF CancelRun, recorder
  <2>2. runs' = [runs EXCEPT ![r] = [agent |-> runs[r].agent, st |-> "gone", how |-> runs[r].how]]
    <3>1. [runs[r] EXCEPT !.st = "gone"] = [agent |-> runs[r].agent, st |-> "gone", how |-> runs[r].how]
      BY RunParts DEF RunRecords
    <3> QED BY <2>1, <3>1
  <2>3. runs' \in Seq(RunRecords) /\ Len(runs') = Len(runs)
    BY <1>1, <2>2, RunChanged
  <2>4. /\ segments' \in [Runs -> Segments \cup {None}] /\ flushes' \in [Runs -> Seq(Segments)]
        /\ open' \subseteq Runs /\ counts' \in [Runs -> Nat] /\ tokens' \in [Runs -> Nat] /\ heard' \subseteq Runs
        /\ queue' = None \/ queue' \in Seq(Items)
        /\ writing' \in Seq(Emits) /\ Len(runs') <= Len(scene.cast) /\ scene' = scene
    BY <1>1, <2>1, <2>3 DEF TelemetryTypeOK
  <2>5. TelemetryTypeOK'
    BY <1>1, <1>4, <1>5, <2>3, <2>4, TypedAgain
  <2> QED BY <1>1, <2>5 DEF TypedStep
<1> QED BY <1>6, <1>7

LEMMA TokenTyped ==
  ASSUME TelemetryTypeOK, NEW a \in DOMAIN acts, NEW kind \in Kinds, Token(a, kind)
  PROVE  TypedStep
<1>1. scene \in Scenes
  BY DEF TelemetryTypeOK
<1>2. PICK r \in Runs : r = acts[a].run
  BY ActParts
<1>3. tokens[r] \in Nat /\ flushes[r] \in Seq(Segments) /\ (segments[r] = None \/ segments[r] \in Segments)
  BY DEF TelemetryTypeOK
<1>4. PICK n \in Nat : n = tokens[r] + 1
  BY <1>3
<1>5. kind \in {"text", "thinking"}
  BY <1>1, SceneTyped DEF Kinds
<1>6. PICK item \in Items : item = Delta(r, n, kind)
  BY <1>1, <1>5, DeltaTyped
<1>7. /\ Publish(item) /\ tokens' = [tokens EXCEPT ![r] = n]
      /\ flushes' = [flushes EXCEPT ![r] = Buffered(r, kind, n).flushes]
      /\ segments' = [segments EXCEPT ![r] = Buffered(r, kind, n).segment]
      /\ UNCHANGED <<scene, store, runs, acts, open, counts, writing, harmed, troubles>>
  BY <1>2, <1>4, <1>6 DEF Token
<1> DEFINE cur == segments[r]
           same == cur # None /\ cur.kind = kind
<1>8. PICK text \in Seq(Nat) : text = IF same THEN Append(cur.text, n) ELSE <<n>>
  <2>1. CASE same
    <3>1. PICK old \in Seq(Nat) : old = cur.text
      BY <2>1, <1>3 DEF Segments
    <3>2. Append(old, n) \in Seq(Nat)
      BY AppendProperties
    <3> QED BY <2>1, <3>1, <3>2
  <2>2. CASE ~same
    <3>1. <<n>> \in Seq(Nat)
      OBVIOUS
    <3> QED BY <2>2, <3>1
  <2> QED BY <2>1, <2>2
<1>9. PICK seg \in Segments : seg = [run |-> r, kind |-> kind, text |-> text]
  BY <1>5 DEF Segments
<1> DEFINE full == Len(seg.text) >= FLUSH_CHARS
<1>10. PICK last \in Seq(Segments) : last = IF full THEN <<seg>> ELSE <<>>
  <2>1. <<>> \in Seq(Segments) /\ <<seg>> \in Seq(Segments)
    OBVIOUS
  <2> QED BY <2>1
<1>11. PICK mid \in Seq(Segments) : mid = IF cur # None /\ ~same THEN <<cur>> ELSE <<>>
  <2>1. CASE cur # None /\ ~same
    <3>1. PICK s \in Segments : s = cur
      BY <1>3, <2>1
    <3>2. <<s>> \in Seq(Segments)
      OBVIOUS
    <3> QED BY <2>1, <3>1, <3>2
  <2>2. CASE ~(cur # None /\ ~same)
    <3>1. <<>> \in Seq(Segments)
      OBVIOUS
    <3> QED BY <2>2, <3>1
  <2> QED BY <2>1, <2>2
<1>12. PICK first \in Seq(Segments) : first = flushes[r]
  BY <1>3
<1>13. PICK b : b = Buffered(r, kind, n)
  OBVIOUS
<1>18. b = [flushes |-> flushes[r] \o (IF cur # None /\ ~same THEN <<cur>> ELSE <<>>)
                                   \o (IF full THEN <<seg>> ELSE <<>>),
            segment |-> IF full THEN None ELSE seg]
  BY <1>8, <1>9, <1>13 DEF Buffered
<1>19. b = [flushes |-> first \o mid \o last, segment |-> IF full THEN None ELSE seg]
  BY <1>10, <1>11, <1>12, <1>18
<1>20. b.segment \in Segments \cup {None} /\ b.flushes \in Seq(Segments)
  <2>1. PICK two \in Seq(Segments) : two = first \o mid
    BY ConcatProperties
  <2>2. two \o last \in Seq(Segments)
    BY ConcatProperties
  <2> QED BY <1>19, <2>1, <2>2
<1>14. /\ queue' = None \/ queue' \in Seq(Items)
       /\ app = "on" /\ queue \in Seq(Items) => queue' \in Seq(Items)
       /\ heard' \subseteq Runs
  BY <1>7, PublishTyped
<1>15. /\ tokens' \in [Runs -> Nat] /\ flushes' \in [Runs -> Seq(Segments)]
       /\ segments' \in [Runs -> Segments \cup {None}]
  BY <1>7, <1>13, <1>20 DEF TelemetryTypeOK
<1>16. /\ scene' = scene /\ store' \in Seq(AgentEvents)
       /\ runs' \in Seq(RunRecords) /\ Len(runs') <= Len(scene.cast) /\ acts' \in Seq(ActRecords)
       /\ writing' \in Seq(Emits) /\ open' \subseteq Runs /\ counts' \in [Runs -> Nat]
       /\ harmed' \subseteq Runs /\ troubles' \in Nat
  BY <1>7 DEF TelemetryTypeOK
<1>17. TelemetryTypeOK'
  BY <1>14, <1>15, <1>16, TypedAgain
<1> QED BY <1>14, <1>16, <1>17 DEF TypedStep

LEMMA MachineryTyped ==
  ASSUME TelemetryTypeOK, Machinery
  PROVE  TypedStep
<1>1. scene.inputs \subseteq Calls /\ None \in Calls
  BY SceneTyped DEF TelemetryTypeOK
<1>2. ASSUME NEW x \in Agents, StartRun(x) PROVE TypedStep
  BY <1>2, StartRunTyped
<1>3. ASSUME NEW r \in DOMAIN runs, NEW call \in Calls, NEW kind \in {"call", "tool"}, StartAct(r, kind, call)
      PROVE  TypedStep
  BY <1>3, StartActTyped
<1>4. ASSUME NEW r \in DOMAIN runs, NEW how \in RunEnds, EndRun(r, how) PROVE TypedStep
  BY <1>4, EndRunTyped
<1>5. ASSUME NEW r \in DOMAIN runs, CancelRun(r) PROVE TypedStep
  BY <1>5, CancelRunTyped
<1>6. ASSUME NEW a \in DOMAIN acts, NEW type, EndAct(a, type) PROVE TypedStep
  BY <1>6, EndActTyped
<1>7. ASSUME NEW a \in DOMAIN acts, NEW kind \in Kinds, Token(a, kind) PROVE TypedStep
  BY <1>7, TokenTyped
<1>8. ASSUME Store PROVE TypedStep
  BY <1>8, WriteTyped DEF Store, TelemetryTypeOK
<1>9. ASSUME StoreRefuses PROVE TypedStep
  <2>1. Write(FALSE)
    BY <1>9, Zenon DEF StoreRefuses
  <2>2. troubles' \in Nat
    BY <1>9 DEF StoreRefuses, Trouble, TelemetryTypeOK
  <2> QED BY <2>1, <2>2, WriteTyped, Zenon
<1>10. "run_finished" \in RunEnds /\ "run_failed" \in RunEnds
  BY DEF RunEnds
<1> QED BY <1>1, <1>2, <1>3, <1>4, <1>5, <1>6, <1>7, <1>8, <1>9, <1>10 DEF Machinery

LEMMA DieTyped ==
  ASSUME TelemetryTypeOK, Die
  PROVE  TelemetryTypeOK' /\ scene' = scene
<1>1. runs' \in Seq(RunRecords) /\ Len(runs') = Len(runs)
  <2>1. runs' = [r \in DOMAIN runs |-> IF runs[r].st = "over" THEN runs[r] ELSE [runs[r] EXCEPT !.st = "gone"]]
    BY DEF Die
  <2>2. DOMAIN runs = 1 .. Len(runs) /\ Len(runs) \in Nat
    <3>1. runs \in Seq(RunRecords)
      BY DEF TelemetryTypeOK
    <3> QED BY <3>1, LenProperties
  <2>3. ASSUME NEW r \in DOMAIN runs
        PROVE  runs[r] \in RunRecords /\ [runs[r] EXCEPT !.st = "gone"] \in RunRecords
    BY RunParts DEF RunRecords
  <2>4. runs' \in [1 .. Len(runs) -> RunRecords]
    BY <2>1, <2>2, <2>3
  <2> QED BY <2>2, <2>4, FunctionIsSeq
<1>2. acts' \in Seq(ActRecords)
  <2>1. acts' = [a \in DOMAIN acts |-> IF acts[a].st = "over" THEN acts[a] ELSE [acts[a] EXCEPT !.st = "cut"]]
    BY DEF Die
  <2>2. DOMAIN acts = 1 .. Len(acts) /\ Len(acts) \in Nat
    <3>1. acts \in Seq(ActRecords)
      BY DEF TelemetryTypeOK
    <3> QED BY <3>1, LenProperties
  <2>3. ASSUME NEW a \in DOMAIN acts
        PROVE  acts[a] \in ActRecords /\ [acts[a] EXCEPT !.st = "cut"] \in ActRecords
    BY ActParts DEF ActRecords
  <2>4. acts' \in [1 .. Len(acts) -> ActRecords]
    BY <2>1, <2>2, <2>3
  <2> QED BY <2>2, <2>4, FunctionIsSeq
<1>3. <<>> \in Seq(Segments) /\ <<>> \in Seq(Emits)
  BY EmptySeq
<1>4. /\ segments' \in [Runs -> Segments \cup {None}] /\ flushes' \in [Runs -> Seq(Segments)]
      /\ open' \subseteq Runs /\ counts' \in [Runs -> Nat] /\ writing' \in Seq(Emits)
  BY <1>3 DEF Die
<1>5. harmed' \subseteq Runs /\ troubles' \in Nat /\ heard' \subseteq Runs /\ queue' = None
  BY RunParts DEF Die, Trouble, TelemetryTypeOK
<1>6. /\ scene' = scene /\ store' \in Seq(AgentEvents) /\ tokens' \in [Runs -> Nat] /\ Len(runs') <= Len(scene.cast)
  BY <1>1 DEF Die, TelemetryTypeOK
<1> QED BY <1>1, <1>2, <1>4, <1>5, <1>6, TypedAgain

-----------------------------------------------------------------------------
(* The window *)

Merged(es) == [i \in DOMAIN es |-> es[i].block]

(* The window v is the end of what es lists, and counts what came since "away". *)
WindowOK(v, es, away) ==
  /\ v \in Windows /\ v.forwarded = Len(es) /\ Total(v) = Len(es)
  /\ \A i \in 1 .. Len(v.blocks) : v.blocks[i] = es[v.base + i].block
  /\ v.follow => v.unseen = 0
  /\ ~v.follow => away <= Total(v) /\ v.unseen = Total(v) - away

LEMMA WindowOf ==
  ASSUME NEW base \in Nat, NEW bs \in Seq(Blocks), NEW follow \in BOOLEAN, NEW unseen \in Nat, NEW forwarded \in Nat
  PROVE  [base |-> base, blocks |-> bs, follow |-> follow, unseen |-> unseen, forwarded |-> forwarded] \in Windows
BY DEF Windows

LEMMA WindowParts ==
  ASSUME NEW v \in Windows
  PROVE  /\ v.base \in Nat /\ v.blocks \in Seq(Blocks) /\ v.follow \in BOOLEAN /\ v.unseen \in Nat /\ v.forwarded \in Nat
         /\ v = [base |-> v.base, blocks |-> v.blocks, follow |-> v.follow, unseen |-> v.unseen,
                 forwarded |-> v.forwarded]
         /\ Len(v.blocks) \in Nat
<1>1. /\ v.base \in Nat /\ v.blocks \in Seq(Blocks) /\ v.follow \in BOOLEAN /\ v.unseen \in Nat /\ v.forwarded \in Nat
      /\ v = [base |-> v.base, blocks |-> v.blocks, follow |-> v.follow, unseen |-> v.unseen,
              forwarded |-> v.forwarded]
  BY DEF Windows
<1> QED BY <1>1, LenProperties

LEMMA RestOf ==
  ASSUME NEW S, NEW s \in Seq(S), NEW b \in Nat, b <= Len(s)
  PROVE  /\ SubSeq(s, b + 1, Len(s)) \in Seq(S) /\ Len(SubSeq(s, b + 1, Len(s))) = Len(s) - b
         /\ \A i \in 1 .. Len(s) - b : SubSeq(s, b + 1, Len(s))[i] = s[b + i]
<1>1. Len(s) \in Nat
  BY LenProperties
<1>2. \A i \in b + 1 .. Len(s) : s[i] \in S
  BY <1>1, ElementOfSeq
<1>3. PICK t : t = SubSeq(s, b + 1, Len(s))
  OBVIOUS
<1>4. t \in Seq(S)
  BY <1>1, <1>2, <1>3, SubSeqProperties
<1>5. Len(t) = Len(s) - b /\ \A i \in 1 .. Len(s) - b : t[i] = s[b + i]
  BY <1>1, <1>3, SubSeqProperties
<1> QED BY <1>3, <1>4, <1>5

LEMMA Forwarded ==
  ASSUME NEW base, NEW bs, NEW follow, NEW unseen, NEW old, NEW n, NEW t,
         t = [base |-> base, blocks |-> bs, follow |-> follow, unseen |-> unseen, forwarded |-> old]
  PROVE  [t EXCEPT !.forwarded = n]
         = [base |-> base, blocks |-> bs, follow |-> follow, unseen |-> unseen, forwarded |-> n]
OBVIOUS

LEMMA Rendered ==
  ASSUME NEW v, NEW es \in Seq(Entries), NEW ds \in Seq(Entries), NEW away \in Nat,
         WindowOK(v, es, away), Len(es) <= Len(ds)
  PROVE  WindowOK([SyncTail(v, Merged(ds), v.forwarded) EXCEPT !.forwarded = Len(Merged(ds))], ds, away)
<1>1. PICK n \in Nat, m \in Nat : n = Len(ds) /\ m = Len(es) /\ m <= n /\ DOMAIN ds = 1 .. n
  BY LenProperties
<1>2. PICK b \in Nat, bs \in Seq(Blocks), unseen \in Nat :
        b = v.base /\ bs = v.blocks /\ unseen = v.unseen
  BY WindowParts DEF WindowOK
<1>3. v.follow \in BOOLEAN /\ v.forwarded = m /\ Len(bs) \in Nat /\ b + Len(bs) = m
      /\ v = [base |-> b, blocks |-> bs, follow |-> v.follow, unseen |-> unseen, forwarded |-> m]
  BY <1>1, <1>2, WindowParts DEF WindowOK, Total
<1>4. PICK merged \in Seq(Blocks) : merged = Merged(ds)
  <2>1. \A i \in 1 .. n : ds[i].block \in Blocks
    <3>1. \A i \in 1 .. n : ds[i] \in Entries
      BY <1>1, ElementOfSeq
    <3> QED BY <3>1 DEF Entries
  <2>2. Merged(ds) \in [1 .. n -> Blocks]
    BY <1>1, <2>1 DEF Merged
  <2> QED BY <1>1, <2>2, FunctionIsSeq
<1>5. Len(merged) = n /\ \A i \in 1 .. n : merged[i] = ds[i].block
  <2>1. DOMAIN merged = 1 .. n
    BY <1>1, <1>4 DEF Merged
  <2> QED BY <1>1, <1>4, <2>1, LenProperties DEF Merged
<1>6. SyncTail(v, merged, m) = SyncFrom(v, merged, 0)
  BY <1>2, <1>3 DEF SyncTail, Total
<1>7. PICK now \in Seq(Blocks) :
        /\ now = SubSeq(bs, 1, (IF 0 < b THEN b ELSE 0) - b) \o Beyond(v, merged, 0)
        /\ Len(now) = n - b /\ \A i \in 1 .. n - b : now[i] = ds[b + i].block
  <2>1. (IF 0 < b THEN b ELSE 0) - b = 0
    OBVIOUS
  <2>2. PICK front \in Seq(Blocks) : front = SubSeq(bs, 1, (IF 0 < b THEN b ELSE 0) - b) /\ front = <<>>
    <3>1. PICK z \in Int : z = (IF 0 < b THEN b ELSE 0) - b /\ z < 1
      BY <2>1
    <3>2. SubSeq(bs, 1, z) = <<>>
      BY <3>1, SubSeqEmpty
    <3>3. <<>> \in Seq(Blocks)
      BY EmptySeq
    <3> QED BY <3>1, <3>2, <3>3
  <2>3. PICK back \in Seq(Blocks) : /\ back = Beyond(v, merged, 0) /\ Len(back) = n - b
                                    /\ \A i \in 1 .. n - b : back[i] = ds[b + i].block
    <3>1. CASE b = 0
      <4>1. Beyond(v, merged, 0) = merged
        BY <3>1, <1>2 DEF Beyond
      <4> QED BY <3>1, <4>1, <1>5
    <3>2. CASE b # 0
      <4>1. PICK z \in Nat : z = b - 0
        OBVIOUS
      <4>2. z = b /\ 0 < b /\ b <= Len(merged)
        BY <3>2, <4>1, <1>1, <1>3, <1>5
      <4>3. Beyond(v, merged, 0) = SubSeq(merged, z + 1, Len(merged))
        BY <4>1, <4>2, <1>2 DEF Beyond
      <4>4. /\ SubSeq(merged, b + 1, Len(merged)) \in Seq(Blocks) /\ Len(SubSeq(merged, b + 1, Len(merged))) = Len(merged) - b
            /\ \A i \in 1 .. Len(merged) - b : SubSeq(merged, b + 1, Len(merged))[i] = merged[b + i]
        BY <4>2, RestOf
      <4>5. PICK back : back = SubSeq(merged, b + 1, Len(merged))
        OBVIOUS
      <4>6. \A i \in 1 .. n - b : b + i \in 1 .. n
        BY <1>1, <1>3, SMTT(30)
      <4> QED BY <4>2, <4>3, <4>4, <4>5, <4>6, <1>5, ZenonT(40)
    <3> QED BY <3>1, <3>2
  <2>4. front \o back = back
    BY <2>2
  <2> QED BY <2>2, <2>3, <2>4
<1>8. PICK added \in Nat : added = b + Len(now) - m /\ added = n - m
  BY <1>1, <1>3, <1>7, SMTT(30)
<1>9. PICK more \in Nat : more = IF ~v.follow /\ added > 0 THEN unseen + added ELSE unseen
  OBVIOUS
<1>10. PICK u : u = [v EXCEPT !.blocks = now, !.unseen = more]
  OBVIOUS
<1>11. SyncFrom(v, merged, 0) = Trim(u)
  BY <1>2, <1>3, <1>7, <1>8, <1>9, <1>10, ZenonT(40) DEF SyncFrom, Total
<1>12. u = [base |-> b, blocks |-> now, follow |-> v.follow, unseen |-> more, forwarded |-> m]
  <2>1. PICK follow : follow = v.follow
    OBVIOUS
  <2>2. v = [base |-> b, blocks |-> bs, follow |-> follow, unseen |-> unseen, forwarded |-> m]
    BY <1>3, <2>1
  <2>3. u = [base |-> b, blocks |-> now, follow |-> follow, unseen |-> more, forwarded |-> m]
    BY <2>2, <1>10
  <2> QED BY <2>1, <2>3
<1> DEFINE over == Len(u.blocks) - WINDOW_CAP
<1>13. WINDOW_CAP \in Nat \ {0} /\ u.blocks = now /\ u.base = b
  BY <1>12, EngineRoomAssumption
<1>14. PICK cut \in Nat, rest \in Seq(Blocks) :
         /\ cut <= n - b /\ Len(rest) = n - b - cut /\ \A i \in 1 .. n - b - cut : rest[i] = ds[b + cut + i].block
         /\ Trim(u) = [base |-> b + cut, blocks |-> rest, follow |-> v.follow, unseen |-> more, forwarded |-> m]
  <2>1. CASE over <= 0
    <3>1. Trim(u) = u
      BY <2>1 DEF Trim
    <3>2. Trim(u) = [base |-> b + 0, blocks |-> now, follow |-> v.follow, unseen |-> more, forwarded |-> m]
      BY <3>1, <1>12
    <3>3. 0 <= n - b /\ Len(now) = n - b - 0 /\ \A i \in 1 .. n - b - 0 : now[i] = ds[b + 0 + i].block
      <4>1. n - b - 0 = n - b /\ b + 0 = b
        OBVIOUS
      <4>2. Len(now) = n - b /\ \A i \in 1 .. n - b : now[i] = ds[b + i].block
        BY <1>7
      <4>3. 0 <= n - b
        BY <4>2, LenProperties
      <4> QED BY <4>1, <4>2, <4>3
    <3> QED BY <3>2, <3>3
  <2>2. CASE ~(over <= 0)
    <3>1. PICK cut \in Nat : cut = over /\ cut <= n - b
      <4>1. Len(u.blocks) = n - b /\ n - b \in Int
        BY <1>1, <1>3, <1>7, <1>13, SMTT(30)
      <4>2. over \in Nat /\ over <= n - b
        BY <2>2, <1>13, <4>1
      <4> QED BY <4>2
    <3>2. PICK rest : rest = SubSeq(now, cut + 1, Len(now))
      OBVIOUS
    <3>3. /\ rest \in Seq(Blocks) /\ Len(rest) = Len(now) - cut
          /\ \A i \in 1 .. Len(now) - cut : rest[i] = now[cut + i]
      <4>1. cut <= Len(now)
        BY <3>1, <1>7
      <4> QED BY <4>1, <3>2, RestOf
    <3>4. Trim(u) = [u EXCEPT !.base = b + cut, !.blocks = rest]
      BY <2>2, <3>1, <3>2, <1>13 DEF Trim
    <3>5. Trim(u) = [base |-> b + cut, blocks |-> rest, follow |-> v.follow, unseen |-> more, forwarded |-> m]
      <4>1. PICK follow : follow = v.follow
        OBVIOUS
      <4>2. u = [base |-> b, blocks |-> now, follow |-> follow, unseen |-> more, forwarded |-> m]
        BY <1>12, <4>1
      <4>3. Trim(u) = [base |-> b + cut, blocks |-> rest, follow |-> follow, unseen |-> more, forwarded |-> m]
        BY <3>4, <4>2
      <4> QED BY <4>1, <4>3
    <3>6. ASSUME NEW i \in 1 .. n - b - cut PROVE rest[i] = ds[b + cut + i].block
      <4>1. cut + i \in 1 .. n - b /\ i \in 1 .. Len(now) - cut /\ b + (cut + i) = b + cut + i
        <5>1. Len(now) = n - b
          BY <1>7
        <5> QED BY <5>1
      <4>2. rest[i] = now[cut + i] /\ now[cut + i] = ds[b + (cut + i)].block
        BY <4>1, <3>3, <1>7
      <4> QED BY <4>1, <4>2
    <3> QED BY <3>1, <3>3, <3>5, <3>6, <1>7, ZenonT(40)
  <2> QED BY <2>1, <2>2
<1>15. PICK w : w = [base |-> b + cut, blocks |-> rest, follow |-> v.follow, unseen |-> more, forwarded |-> n]
  OBVIOUS
<1>16. [SyncTail(v, merged, m) EXCEPT !.forwarded = Len(merged)] = w
  <2>1. SyncTail(v, merged, m)
        = [base |-> b + cut, blocks |-> rest, follow |-> v.follow, unseen |-> more, forwarded |-> m]
    BY <1>6, <1>11, <1>14
  <2>2. PICK follow : follow = v.follow
    OBVIOUS
  <2>3. [SyncTail(v, merged, m) EXCEPT !.forwarded = Len(merged)]
        = [base |-> b + cut, blocks |-> rest, follow |-> follow, unseen |-> more, forwarded |-> n]
    <3>1. PICK t : t = SyncTail(v, merged, m)
      OBVIOUS
    <3>2. t = [base |-> b + cut, blocks |-> rest, follow |-> follow, unseen |-> more, forwarded |-> m]
      BY <2>1, <2>2, <3>1
    <3>3. [t EXCEPT !.forwarded = n]
          = [base |-> b + cut, blocks |-> rest, follow |-> follow, unseen |-> more, forwarded |-> n]
      <4>1. PICK c : c = b + cut
        OBVIOUS
      <4>2. t = [base |-> c, blocks |-> rest, follow |-> follow, unseen |-> more, forwarded |-> m]
        BY <3>2, <4>1
      <4>3. [t EXCEPT !.forwarded = n]
            = [base |-> c, blocks |-> rest, follow |-> follow, unseen |-> more, forwarded |-> n]
        BY <4>2, Forwarded, SMTT(30)
      <4> QED BY <4>1, <4>3
    <3> QED BY <3>1, <3>3, <1>5
  <2> QED BY <2>2, <2>3, <1>15
<1>17. WindowOK(w, ds, away)
  <2>1. w \in Windows
    <3>1. b + cut \in Nat
      OBVIOUS
    <3>2. [base |-> b + cut, blocks |-> rest, follow |-> v.follow, unseen |-> more, forwarded |-> n] \in Windows
      BY <3>1, <1>3, WindowOf
    <3> QED BY <1>15, <3>2, Zenon
  <2>2. w.forwarded = n /\ Total(w) = n /\ w.base = b + cut /\ w.blocks = rest /\ w.unseen = more
    <3>1. w.forwarded = n /\ w.base = b + cut /\ w.blocks = rest /\ w.unseen = more
      BY <1>15
    <3>2. Total(w) = (b + cut) + Len(rest)
      BY <3>1 DEF Total
    <3>3. Len(rest) = n - b - cut
      BY <1>14
    <3>4. (b + cut) + (n - b - cut) = n
      OBVIOUS
    <3> QED BY <3>1, <3>2, <3>3, <3>4
  <2>3. w.follow = v.follow
    BY <1>15
  <2>4. v.follow => more = 0
    BY <1>2, <1>9 DEF WindowOK
  <2>5. ~v.follow => away <= n /\ more = n - away
    <3>1. ~v.follow => away <= m /\ unseen = m - away
      BY <1>2, <1>3 DEF WindowOK, Total
    <3>2. ASSUME ~v.follow PROVE more = unseen + added
      <4>1. CASE added > 0
        BY <1>9, <3>2, <4>1, Zenon
      <4>2. CASE ~(added > 0)
        <5>1. more = unseen
          BY <1>9, <4>2, Zenon
        <5>2. added = 0
          BY <4>2
        <5> QED BY <5>1, <5>2
      <4> QED BY <4>1, <4>2
    <3>3. ASSUME ~v.follow PROVE away <= n /\ more = n - away
      <4>1. away <= m /\ unseen = m - away /\ more = unseen + added
        BY <3>1, <3>2, <3>3
      <4> QED BY <4>1, <1>1, <1>8
    <3> QED BY <3>3
  <2>6. \A i \in 1 .. Len(w.blocks) : w.blocks[i] = ds[w.base + i].block
    BY <1>14, <2>2
  <2> QED BY <2>1, <2>2, <2>3, <2>4, <2>5, <2>6, <1>1 DEF WindowOK
<1> QED BY <1>1, <1>3, <1>4, <1>16, <1>17

-----------------------------------------------------------------------------
(* The recorder's books.  An emit under way is one of a run that starts or ends, or of a
   call or tool of a run that is live; no two of them wait for the same. *)
EmitRight(j) ==
  /\ j.ev.run \in 1 .. Len(runs)
  /\ j.ev.who = 0 =>
       /\ j.ev.type \in RunEvents
       /\ runs[j.ev.run].st = (IF j.ev.type = "run_started" THEN "starting" ELSE "ending")
  /\ j.ev.who # 0 =>
       /\ j.ev.type \notin RunEvents /\ j.ev.who \in Active(j.ev.run)
       /\ acts[j.ev.who].st \in {"starting", "ending"}
  /\ j.ev.type \in RunEnds /\ j.segs = <<>> => j.ev.run \notin open /\ counts[j.ev.run] = 0

Members(w) == {w[i] : i \in 1 .. Len(w)}
Differ(j, k) == j.ev.run # k.ev.run \/ j.ev.who # k.ev.who
EmitsApart(w) == \A i, k \in 1 .. Len(w) : i # k => Differ(w[i], w[k])

RunRight(r) ==
  /\ runs[r].st # "live" => Active(r) = {}
  /\ runs[r].st \in {"ending", "over"} => segments[r] = None /\ flushes[r] = <<>>
  /\ runs[r].st = "over" => r \notin open /\ counts[r] = 0

BooksRight ==
  /\ \A j \in Members(writing) : EmitRight(j)
  /\ EmitsApart(writing)
  /\ \A r \in 1 .. Len(runs) : RunRight(r)
  /\ \A a \in 1 .. Len(acts) : acts[a].run \in 1 .. Len(runs)

LEMMA OneMore ==
  ASSUME NEW w \in Seq(Emits), NEW j \in Emits, EmitsApart(w), \A k \in Members(w) : Differ(k, j)
  PROVE  EmitsApart(Append(w, j)) /\ Members(Append(w, j)) \subseteq Members(w) \cup {j}
<1>1. PICK v : v = Append(w, j)
  OBVIOUS
<1>2. /\ Len(v) = Len(w) + 1 /\ v[Len(w) + 1] = j /\ Len(w) \in Nat
      /\ \A i \in 1 .. Len(w) : v[i] = w[i]
  BY <1>1, AppendProperties, LenProperties
<1>3. \A i \in 1 .. Len(v) : i \in 1 .. Len(w) \/ i = Len(w) + 1
  BY <1>2
<1>4. ASSUME NEW i \in 1 .. Len(v), NEW k \in 1 .. Len(v), i # k PROVE Differ(v[i], v[k])
  <2>1. CASE i \in 1 .. Len(w) /\ k \in 1 .. Len(w)
    BY <2>1, <1>2, <1>4 DEF EmitsApart
  <2>2. CASE i \in 1 .. Len(w) /\ k = Len(w) + 1
    <3>1. v[i] \in Members(w) /\ v[k] = j
      BY <2>2, <1>2 DEF Members
    <3> QED BY <3>1
  <2>3. CASE k \in 1 .. Len(w) /\ i = Len(w) + 1
    <3>1. v[k] \in Members(w) /\ v[i] = j
      BY <2>3, <1>2 DEF Members
    <3>2. Differ(v[k], v[i])
      BY <3>1
    <3> QED BY <3>2 DEF Differ
  <2> QED BY <2>1, <2>2, <2>3, <1>3, <1>4
<1>5. Members(v) \subseteq Members(w) \cup {j}
  <2>1. ASSUME NEW i \in 1 .. Len(v) PROVE v[i] \in Members(w) \cup {j}
    BY <1>2, <1>3 DEF Members
  <2> QED BY <2>1 DEF Members
<1>6. EmitsApart(v)
  BY <1>4 DEF EmitsApart
<1> QED BY <1>1, <1>5, <1>6

LEMMA OneLess ==
  ASSUME NEW w \in Seq(Emits), w # <<>>, EmitsApart(w)
  PROVE  /\ EmitsApart(Tail(w)) /\ Members(Tail(w)) \subseteq Members(w) /\ Head(w) \in Members(w)
         /\ \A k \in Members(Tail(w)) : Differ(k, Head(w))
<1>1. PICK v \in Seq(Emits) : v = Tail(w)
  BY HeadTailProperties
<1>2. /\ Len(v) = Len(w) - 1 /\ Len(w) \in Nat \ {0} /\ Head(w) = w[1]
      /\ \A i \in 1 .. Len(v) : v[i] = w[i + 1]
  BY <1>1, HeadTailProperties, LenProperties
<1>3. \A i \in 1 .. Len(v) : i + 1 \in 1 .. Len(w) /\ i + 1 # 1 /\ 1 \in 1 .. Len(w)
  BY <1>2
<1>4. EmitsApart(v)
  BY <1>2, <1>3 DEF EmitsApart
<1>5. \A i \in 1 .. Len(v) : v[i] \in Members(w) /\ Differ(v[i], Head(w))
  BY <1>2, <1>3 DEF EmitsApart, Members
<1>6. Head(w) \in Members(w)
  BY <1>2 DEF Members
<1> QED BY <1>1, <1>4, <1>5, <1>6 DEF Members

LEMMA NoneOf ==
  ASSUME NEW w \in Seq(Emits), NEW r, EmitsApart(w)
  PROVE  /\ EmitsApart(Without(r, w)) /\ Without(r, w) \in Seq(Emits)
         /\ Members(Without(r, w)) \subseteq {k \in Members(w) : k.ev.run # r}
<1>1. PICK v \in Seq(Emits) : v = Without(r, w)
  BY WithoutIs
<1>2. PICK at \in [1 .. Len(v) -> 1 .. Len(w)] :
        /\ \A i, k \in 1 .. Len(v) : i < k => at[i] < at[k]
        /\ \A k \in 1 .. Len(v) : v[k] = w[at[k]] /\ w[at[k]].ev.run # r
  BY <1>1, WithoutIs
<1>3. Len(v) \in Nat /\ Len(w) \in Nat
  BY LenProperties
<1>4. \A i, k \in 1 .. Len(v) : i # k => at[i] # at[k]
  <2> SUFFICES ASSUME NEW i \in 1 .. Len(v), NEW k \in 1 .. Len(v), i # k PROVE at[i] # at[k]
    OBVIOUS
  <2>1. at[i] \in Int /\ at[k] \in Int
    BY <1>2, <1>3, SMTT(30)
  <2>2. i < k \/ k < i
    BY <1>3
  <2> QED BY <1>2, <2>1, <2>2
<1>5. EmitsApart(v)
  <2> SUFFICES ASSUME NEW i \in 1 .. Len(v), NEW k \in 1 .. Len(v), i # k PROVE Differ(v[i], v[k])
    BY DEF EmitsApart
  <2>1. at[i] \in 1 .. Len(w) /\ at[k] \in 1 .. Len(w) /\ at[i] # at[k]
    BY <1>2, <1>4
  <2> QED BY <2>1, <1>2 DEF EmitsApart
<1>6. \A k \in 1 .. Len(v) : v[k] \in Members(w) /\ v[k].ev.run # r
  BY <1>2 DEF Members
<1> QED BY <1>1, <1>5, <1>6 DEF Members

LEMMA MembersTyped ==
  ASSUME TelemetryTypeOK
  PROVE  \A j \in Members(writing) : j \in Emits /\ j.ev \in AgentEvents /\ j.segs \in Seq(Segments) /\ j.ev.run \in Runs
<1>1. writing \in Seq(Emits)
  BY DEF TelemetryTypeOK
<1>2. \A i \in 1 .. Len(writing) : writing[i] \in Emits
  BY <1>1, ElementOfSeq
<1> QED BY <1>2 DEF Members, Emits, AgentEvents

-----------------------------------------------------------------------------
(* What an emit under way is right about stays as long as its run and its call do. *)
LEMMA EmitStays ==
  ASSUME NEW k, EmitRight(k), k.ev.run \in 1 .. Len(runs'), runs'[k.ev.run].st = runs[k.ev.run].st,
         k.ev.who # 0 => k.ev.who \in DOMAIN acts' /\ acts'[k.ev.who] = acts[k.ev.who],
         k.ev.type \in RunEnds /\ k.segs = <<>> => k.ev.run \notin open' /\ counts'[k.ev.run] = 0
  PROVE  EmitRight(k)'
BY DEF EmitRight, Active

LEMMA ActiveIs ==
  ASSUME TelemetryTypeOK, BooksRight, NEW k \in Members(writing), k.ev.who # 0
  PROVE  /\ k.ev.who \in 1 .. Len(acts) /\ acts[k.ev.who].run = k.ev.run
         /\ k.ev.run \in 1 .. Len(runs) /\ runs[k.ev.run].st = "live"
<1>1. EmitRight(k)
  BY DEF BooksRight
<1>2. k.ev.who \in Active(k.ev.run) /\ k.ev.run \in 1 .. Len(runs)
  BY <1>1 DEF EmitRight
<1>3. k.ev.who \in DOMAIN acts /\ acts[k.ev.who].run = k.ev.run
  BY <1>2 DEF Active
<1>4. RunRight(k.ev.run)
  BY <1>2 DEF BooksRight
<1>5. runs[k.ev.run].st = "live"
  BY <1>2, <1>4 DEF RunRight
<1> QED BY <1>2, <1>3, <1>5, ActParts

(* An emit of a run itself is the only one of the run. *)
LEMMA Alone ==
  ASSUME TelemetryTypeOK, BooksRight, NEW j \in Members(writing), j.ev.who = 0,
         NEW k \in Members(writing), Differ(k, j)
  PROVE  k.ev.run # j.ev.run
<1> SUFFICES ASSUME k.ev.run = j.ev.run PROVE FALSE
  OBVIOUS
<1>1. k.ev.who # 0
  BY DEF Differ
<1>2. runs[k.ev.run].st = "live"
  BY <1>1, ActiveIs
<1>3. EmitRight(j)
  BY DEF BooksRight
<1> QED BY <1>2, <1>3 DEF EmitRight

LEMMA SegsTyped ==
  ASSUME TelemetryTypeOK, NEW e \in AgentEvents
  PROVE  (IF e.type \in Boundaries THEN Taken(e.run) ELSE <<>>) \in Seq(Segments)
<1>1. <<>> \in Seq(Segments) /\ e.run \in Runs
  BY EmptySeq DEF AgentEvents
<1>2. Taken(e.run) \in Seq(Segments)
  BY <1>1, TakenTyped
<1> QED BY <1>1, <1>2

(* What an emit adds to those under way, and what it does to the buffers and the books *)
EmitDone(e, others, nc, segs) ==
  /\ EmitsApart(writing')
  /\ \A k \in Members(writing') : k \in Members(others) \/ (k.ev = e /\ k.segs = segs)
  /\ e.type \in Boundaries => /\ flushes' = [flushes EXCEPT ![e.run] = <<>>]
                              /\ segments' = [segments EXCEPT ![e.run] = None]
  /\ e.type \notin Boundaries => segs = <<>> /\ flushes' = flushes /\ segments' = segments
  /\ segs = <<>> => open' = TrackOpen(e) /\ counts' = (IF e.type \in RunEnds THEN [nc EXCEPT ![e.run] = 0] ELSE nc)
  /\ segs # <<>> => open' = open /\ counts' = nc

LEMMA EmitAdds ==
  ASSUME TelemetryTypeOK, NEW e \in AgentEvents, NEW others \in Seq(Emits), NEW nc, EmitWith(e, others, nc),
         EmitsApart(others), \A k \in Members(others) : k.ev.run # e.run \/ k.ev.who # e.who
  PROVE  \E segs \in Seq(Segments) : EmitDone(e, others, nc, segs)
<1>1. PICK segs \in Seq(Segments) : segs = IF e.type \in Boundaries THEN Taken(e.run) ELSE <<>>
  BY SegsTyped
<1>2. PICK j \in Emits : j = [ev |-> e, segs |-> segs]
  BY DEF Emits
<1>3. writing' = Append(others, j)
  BY <1>1, <1>2 DEF EmitWith
<1>4. \A k \in Members(others) : Differ(k, j)
  BY <1>2 DEF Differ
<1>5. EmitsApart(Append(others, j)) /\ Members(Append(others, j)) \subseteq Members(others) \cup {j}
  BY <1>4, OneMore
<1>6. EmitsApart(writing') /\ \A k \in Members(writing') : k \in Members(others) \/ (k.ev = e /\ k.segs = segs)
  BY <1>2, <1>3, <1>5
<1>7. /\ e.type \in Boundaries => /\ flushes' = [flushes EXCEPT ![e.run] = <<>>]
                                  /\ segments' = [segments EXCEPT ![e.run] = None]
      /\ e.type \notin Boundaries => segs = <<>> /\ flushes' = flushes /\ segments' = segments
  BY <1>1 DEF EmitWith
<1>8. /\ segs = <<>> => open' = TrackOpen(e) /\ counts' = (IF e.type \in RunEnds THEN [nc EXCEPT ![e.run] = 0] ELSE nc)
      /\ segs # <<>> => open' = open /\ counts' = nc
  BY <1>1 DEF EmitWith
<1> QED BY <1>6, <1>7, <1>8 DEF EmitDone

LEMMA StartRunBooks ==
  ASSUME TelemetryTypeOK, BooksRight, NEW x \in Agents, StartRun(x)
  PROVE  BooksRight'
<1> DEFINE r == Len(runs) + 1
<1>1. /\ runs \in Seq(RunRecords) /\ acts \in Seq(ActRecords) /\ writing \in Seq(Emits) /\ Len(runs) \in Nat
      /\ scene \in Scenes /\ Len(scene.cast) \in Nat /\ Len(runs) < Len(scene.cast) /\ r \in Runs /\ r \in Nat
  <2>1. runs \in Seq(RunRecords) /\ acts \in Seq(ActRecords) /\ writing \in Seq(Emits) /\ scene \in Scenes
    BY DEF TelemetryTypeOK
  <2>2. Len(runs) \in Nat /\ Len(scene.cast) \in Nat /\ Len(runs) < Len(scene.cast)
    BY <2>1, LenProperties, SceneTyped, RunsAre DEF StartRun
  <2>3. Runs = 1 .. Len(scene.cast)
    BY <2>1, SceneTyped
  <2> QED BY <2>1, <2>2, <2>3
<1>2. PICK b \in RunRecords : b = [agent |-> x, st |-> "starting", how |-> None]
  BY DEF RunRecords
<1>3. /\ Len(runs') = Len(runs) + 1 /\ runs'[r].st = "starting"
      /\ \A q \in 1 .. Len(runs) : runs'[q] = runs[q]
      /\ acts' = acts
  <2>1. runs' = Append(runs, b)
    BY <1>2 DEF StartRun
  <2> QED BY <2>1, <1>1, <1>2, AppendProperties DEF StartRun
<1>4. PICK e \in AgentEvents : e = Ev("run_started", r, 0, None)
  <2>1. None \in Calls
    BY <1>1, SceneTyped
  <2> QED BY <1>1, <2>1, EvTyped DEF Types, RunEvents
<1>5. e.run = r /\ e.who = 0 /\ e.type = "run_started" /\ e.type \notin Boundaries /\ e.type \notin RunEnds
      /\ e.type \in RunEvents
  BY <1>4 DEF Ev, Boundaries, RunEnds, RunEvents
<1>7. \A k \in Members(writing) : k.ev.run \in 1 .. Len(runs) /\ k.ev.run # e.run
  <2>1. r \notin 1 .. Len(runs)
    BY <1>1
  <2> QED BY <2>1, <1>5 DEF BooksRight, EmitRight
<1>8. /\ EmitsApart(writing') /\ \A k \in Members(writing') : k \in Members(writing) \/ k.ev = e
      /\ flushes' = flushes /\ segments' = segments /\ open' = open /\ counts' = counts
  <2>1. EmitWith(e, writing, counts)
    BY <1>4 DEF StartRun, Emit
  <2>2. EmitsApart(writing)
    BY DEF BooksRight
  <2>3. TrackOpen(e) = open
    BY <1>5 DEF TrackOpen
  <2>4. PICK segs \in Seq(Segments) : EmitDone(e, writing, counts, segs)
    BY <2>1, <2>2, <1>1, <1>7, EmitAdds
  <2> QED BY <2>3, <2>4, <1>5 DEF EmitDone
<1>9. \A q \in 1 .. Len(runs) : q \in 1 .. Len(runs')
  BY <1>1, <1>3
<1>10. ASSUME NEW k \in Members(writing') PROVE EmitRight(k)'
  <2>1. CASE k.ev = e
    <3>1. r \in 1 .. Len(runs')
      BY <1>1, <1>3
    <3> QED BY <2>1, <3>1, <1>3, <1>5 DEF EmitRight
  <2>2. CASE k \in Members(writing)
    <3>1. EmitRight(k) /\ k.ev.run \in 1 .. Len(runs)
      BY <2>2, <1>7 DEF BooksRight
    <3>2. k.ev.who # 0 => k.ev.who \in DOMAIN acts
      BY <3>1 DEF EmitRight, Active
    <3>3. k.ev.type \in RunEnds /\ k.segs = <<>> => k.ev.run \notin open' /\ counts'[k.ev.run] = 0
      BY <3>1, <1>8 DEF EmitRight
    <3> QED BY <3>1, <3>2, <3>3, <1>3, <1>9, EmitStays
  <2> QED BY <2>1, <2>2, <1>8
<1>11. ASSUME NEW q \in 1 .. Len(runs') PROVE RunRight(q)'
  <2>1. CASE q = r
    <3>1. Active(q)' = {}
      <4>1. \A a \in DOMAIN acts : acts[a].run # r
        <5>1. \A a \in 1 .. Len(acts) : acts[a].run \in 1 .. Len(runs)
          BY DEF BooksRight
        <5>2. DOMAIN acts = 1 .. Len(acts) /\ r \notin 1 .. Len(runs)
          BY <1>1, LenProperties
        <5> QED BY <5>1, <5>2
      <4> QED BY <2>1, <4>1, <1>3 DEF Active
    <3> QED BY <2>1, <3>1, <1>3 DEF RunRight
  <2>2. CASE q # r
    <3>1. q \in 1 .. Len(runs)
      BY <2>2, <1>1, <1>3
    <3> QED BY <3>1, <1>3, <1>8 DEF BooksRight, RunRight, Active
  <2> QED BY <2>1, <2>2
<1>12. \A a \in 1 .. Len(acts') : acts'[a].run \in 1 .. Len(runs')
  BY <1>3, <1>9 DEF BooksRight
<1> QED BY <1>8, <1>10, <1>11, <1>12 DEF BooksRight

LEMMA StartActBooks ==
  ASSUME TelemetryTypeOK, BooksRight, NEW r \in DOMAIN runs, NEW kind \in {"call", "tool"}, NEW call \in Calls,
         StartAct(r, kind, call)
  PROVE  BooksRight'
<1> DEFINE a == Len(acts) + 1
<1>1. /\ acts \in Seq(ActRecords) /\ writing \in Seq(Emits) /\ Len(acts) \in Nat /\ a \in Nat \ {0}
      /\ DOMAIN acts = 1 .. Len(acts) /\ r \in 1 .. Len(runs) /\ r \in Runs /\ runs[r].st = "live"
  <2>1. acts \in Seq(ActRecords) /\ writing \in Seq(Emits)
    BY DEF TelemetryTypeOK
  <2>2. r \in 1 .. Len(runs) /\ r \in Runs
    BY RunParts
  <2> QED BY <2>1, <2>2, LenProperties DEF StartAct
<1>2. PICK b \in ActRecords : b = [run |-> r, kind |-> kind, call |-> call, st |-> "starting"]
  BY <1>1 DEF ActRecords
<1>3. /\ Len(acts') = a /\ acts'[a] = b /\ DOMAIN acts' = 1 .. a
      /\ \A c \in 1 .. Len(acts) : acts'[c] = acts[c]
      /\ runs' = runs
  <2>1. acts' = Append(acts, b)
    BY <1>2 DEF StartAct
  <2>2. acts' \in Seq(ActRecords) /\ Len(acts') = a /\ acts'[a] = b /\ \A c \in 1 .. Len(acts) : acts'[c] = acts[c]
    BY <2>1, <1>1, AppendProperties
  <2> QED BY <2>2, LenProperties DEF StartAct
<1>4. PICK e \in AgentEvents : e = Ev(IF kind = "call" THEN "call_started" ELSE "tool_started", r, a, call)
  <2>1. PICK type \in Types : type = IF kind = "call" THEN "call_started" ELSE "tool_started"
    BY DEF Types
  <2>2. Ev(type, r, a, call) \in AgentEvents
    BY <1>1, EvTyped
  <2> QED BY <2>1, <2>2
<1>5. e.run = r /\ e.who = a /\ e.type \in {"call_started", "tool_started"} /\ e.type \notin RunEnds
      /\ e.type \notin RunEvents
  BY <1>4 DEF Ev, RunEnds, RunEvents
<1>6. PICK nc \in [Runs -> Nat] : nc = IF kind = "call" THEN [counts EXCEPT ![r] = @ + 1] ELSE counts
  <2>1. counts \in [Runs -> Nat]
    BY DEF TelemetryTypeOK
  <2>2. [counts EXCEPT ![r] = @ + 1] \in [Runs -> Nat]
    BY <2>1, <1>1
  <2> QED BY <2>1, <2>2
<1>7. EmitWith(e, writing, nc)
  BY <1>4, <1>6 DEF StartAct, Emit
<1>8. \A k \in Members(writing) : k.ev.run \in 1 .. Len(runs) /\ k.ev.who # e.who
  <2>1. ASSUME NEW k \in Members(writing) PROVE k.ev.run \in 1 .. Len(runs) /\ k.ev.who # e.who
    <3>1. k.ev.run \in 1 .. Len(runs)
      BY DEF BooksRight, EmitRight
    <3>2. CASE k.ev.who = 0
      BY <3>1, <3>2, <1>1, <1>5
    <3>3. CASE k.ev.who # 0
      <4>1. k.ev.who \in 1 .. Len(acts)
        BY <3>3, ActiveIs
      <4> QED BY <4>1, <3>1, <1>1, <1>5
    <3> QED BY <3>2, <3>3
  <2> QED BY <2>1
<1>9. PICK segs \in Seq(Segments) : EmitDone(e, writing, nc, segs)
  <2>1. EmitsApart(writing)
    BY DEF BooksRight
  <2> QED BY <2>1, <1>1, <1>7, <1>8, EmitAdds
<1>10. \A q \in Runs : q # r =>
         /\ segments'[q] = segments[q] /\ flushes'[q] = flushes[q]
         /\ counts'[q] = counts[q] /\ (q \in open' => q \in open)
  <2> SUFFICES ASSUME NEW q \in Runs, q # r
               PROVE  /\ segments'[q] = segments[q] /\ flushes'[q] = flushes[q]
                      /\ counts'[q] = counts[q] /\ (q \in open' => q \in open)
    OBVIOUS
  <2>1. segments \in [Runs -> Segments \cup {None}] /\ flushes \in [Runs -> Seq(Segments)] /\ counts \in [Runs -> Nat]
    BY DEF TelemetryTypeOK
  <2>2. segments'[q] = segments[q] /\ flushes'[q] = flushes[q]
    BY <1>5, <1>9, <2>1 DEF EmitDone
  <2>3. counts' = nc /\ open' \subseteq open \cup {r}
    BY <1>5, <1>9 DEF TrackOpen, EmitDone
  <2>4. nc[q] = counts[q]
    BY <1>6, <2>1
  <2> QED BY <2>2, <2>3, <2>4
<1>11. ASSUME NEW k \in Members(writing') PROVE EmitRight(k)'
  <2>1. CASE k.ev = e
    <3>1. a \in DOMAIN acts' /\ acts'[a].run = r /\ acts'[a].st = "starting"
      BY <1>1, <1>2, <1>3
    <3> QED BY <2>1, <3>1, <1>1, <1>3, <1>5 DEF EmitRight, Active
  <2>2. CASE k \in Members(writing)
    <3>1. EmitRight(k) /\ k.ev.run \in 1 .. Len(runs) /\ k.ev.run \in Runs
      BY <2>2, <1>8, MembersTyped DEF BooksRight
    <3>2. k.ev.who # 0 => k.ev.who \in 1 .. Len(acts)
      BY <2>2, ActiveIs
    <3>3. k.ev.type \in RunEnds /\ k.segs = <<>> => k.ev.run \notin open' /\ counts'[k.ev.run] = 0
      <4> SUFFICES ASSUME k.ev.type \in RunEnds, k.segs = <<>> PROVE k.ev.run \notin open' /\ counts'[k.ev.run] = 0
        OBVIOUS
      <4>1. k.ev.run \notin open /\ counts[k.ev.run] = 0
        BY <3>1 DEF EmitRight
      <4>2. runs[k.ev.run].st = "ending"
        <5>1. k.ev.who = 0 /\ k.ev.type # "run_started"
          BY <3>1 DEF EmitRight, RunEnds, RunEvents
        <5> QED BY <3>1, <5>1 DEF EmitRight
      <4> QED BY <4>1, <4>2, <3>1, <1>1, <1>10
    <3> QED BY <3>1, <3>2, <3>3, <1>3, EmitStays
  <2> QED BY <2>1, <2>2, <1>9 DEF EmitDone
<1>12. ASSUME NEW q \in 1 .. Len(runs') PROVE RunRight(q)'
  <2>0. q \in 1 .. Len(runs) /\ RunRight(q)
    BY <1>3 DEF BooksRight
  <2>1. CASE q = r
    BY <2>1, <1>1, <1>3 DEF RunRight
  <2>2. CASE q # r
    <3>1. Active(q)' = Active(q)
      <4>1. ASSUME NEW c \in DOMAIN acts', acts'[c].run = q PROVE c \in DOMAIN acts /\ acts'[c] = acts[c]
        <5>1. c # a
          BY <2>2, <4>1, <1>2, <1>3
        <5> QED BY <5>1, <1>1, <1>3
      <4>2. \A c \in DOMAIN acts : c \in DOMAIN acts' /\ acts'[c] = acts[c]
        BY <1>1, <1>3
      <4> QED BY <4>1, <4>2 DEF Active
    <3>2. q \in Runs
      <4>1. q \in DOMAIN runs
        BY <2>0, LenProperties DEF TelemetryTypeOK
      <4> QED BY <4>1, RunParts
    <3> QED BY <2>0, <2>2, <3>1, <3>2, <1>3, <1>10 DEF RunRight
  <2> QED BY <2>1, <2>2
<1>13. \A c \in 1 .. Len(acts') : acts'[c].run \in 1 .. Len(runs')
  <2> SUFFICES ASSUME NEW c \in 1 .. Len(acts') PROVE acts'[c].run \in 1 .. Len(runs')
    OBVIOUS
  <2>1. CASE c = a
    BY <2>1, <1>1, <1>2, <1>3
  <2>2. CASE c # a
    <3>1. c \in 1 .. Len(acts)
      BY <2>2, <1>1, <1>3
    <3> QED BY <3>1, <1>3 DEF BooksRight
  <2> QED BY <2>1, <2>2
<1> QED BY <1>9, <1>11, <1>12, <1>13 DEF BooksRight, EmitDone

(* Facts of the books and the types that the steps below need *)
LEMMA Basics ==
  ASSUME TelemetryTypeOK
  PROVE  /\ DOMAIN runs = 1 .. Len(runs) /\ Len(runs) \in Nat /\ DOMAIN acts = 1 .. Len(acts) /\ Len(acts) \in Nat
         /\ writing \in Seq(Emits) /\ 1 .. Len(runs) \subseteq Runs
         /\ segments \in [Runs -> Segments \cup {None}] /\ flushes \in [Runs -> Seq(Segments)]
         /\ counts \in [Runs -> Nat] /\ open \subseteq Runs
<1>1. runs \in Seq(RunRecords) /\ acts \in Seq(ActRecords) /\ writing \in Seq(Emits)
      /\ segments \in [Runs -> Segments \cup {None}] /\ flushes \in [Runs -> Seq(Segments)]
      /\ counts \in [Runs -> Nat] /\ open \subseteq Runs
  BY DEF TelemetryTypeOK
<1>2. DOMAIN runs = 1 .. Len(runs) /\ Len(runs) \in Nat /\ DOMAIN acts = 1 .. Len(acts) /\ Len(acts) \in Nat
  BY <1>1, LenProperties
<1>3. 1 .. Len(runs) \subseteq Runs
  BY <1>2, RunParts
<1> QED BY <1>1, <1>2, <1>3

(* What an emit does to the books of another run: nothing. *)
LEMMA OthersAlone ==
  ASSUME TelemetryTypeOK, NEW e \in AgentEvents, NEW others, NEW nc, NEW segs, EmitDone(e, others, nc, segs),
         nc \in [Runs -> Nat], \A q \in Runs : q # e.run => nc[q] = counts[q],
         NEW q \in Runs, q # e.run
  PROVE  /\ segments'[q] = segments[q] /\ flushes'[q] = flushes[q]
         /\ counts'[q] = counts[q] /\ (q \in open' => q \in open)
<1>1. segments'[q] = segments[q] /\ flushes'[q] = flushes[q]
  BY Basics DEF EmitDone
<1>2. counts'[q] = nc[q]
  BY DEF EmitDone
<1>3. open' = open \/ open' = TrackOpen(e)
  BY DEF EmitDone
<1>4. q \in open' => q \in open
  BY <1>3 DEF TrackOpen
<1> QED BY <1>1, <1>2, <1>4

LEMMA EndActBooks ==
  ASSUME TelemetryTypeOK, BooksRight, NEW a \in DOMAIN acts, NEW type, EndAct(a, type)
  PROVE  BooksRight'
<1>1. PICK r : r = acts[a].run
  OBVIOUS
<1>2. /\ r \in 1 .. Len(runs) /\ r \in Runs /\ runs[r].st = "live" /\ a \in 1 .. Len(acts) /\ a # 0 /\ acts[a].st = "open"
  <2>1. a \in 1 .. Len(acts) /\ a # 0 /\ acts[a].st = "open"
    BY Basics DEF EndAct
  <2>2. r \in 1 .. Len(runs) /\ a \in Active(r)
    BY <1>1, <2>1 DEF BooksRight, Active
  <2>3. runs[r].st = "live"
    BY <2>2 DEF BooksRight, RunRight
  <2> QED BY <2>1, <2>2, <2>3, Basics
<1>3. /\ Len(acts') = Len(acts) /\ DOMAIN acts' = DOMAIN acts /\ runs' = runs
      /\ \A c \in DOMAIN acts : c # a => acts'[c] = acts[c]
      /\ acts'[a].st = "ending" /\ acts'[a].run = r
  <2>1. acts' = [acts EXCEPT ![a].st = "ending"] /\ runs' = runs
    BY DEF EndAct
  <2>2. Len(acts') = Len(acts)
    BY <2>1, ActChanged
  <2>3. acts[a] \in ActRecords
    BY ActParts
  <2> QED BY <2>1, <2>2, <2>3, <1>1 DEF ActRecords
<1>4. acts[a].kind \in {"call", "tool"} /\ acts[a].call \in Calls /\ type \in ActEnds[acts[a].kind]
  BY ActParts DEF EndAct
<1>5. type \in Types /\ type \notin RunEvents /\ type \notin RunEnds /\ type # "call_started"
  BY <1>4 DEF ActEnds, Types, RunEvents, RunEnds
<1>6. PICK e \in AgentEvents : e = Ev(type, r, a, acts[a].call)
  BY <1>1, <1>2, <1>4, <1>5, Basics, EvTyped
<1>7. e.run = r /\ e.who = a /\ e.type = type
  BY <1>6 DEF Ev
<1>8. \A k \in Members(writing) : k.ev.who # a
  <2> SUFFICES ASSUME NEW k \in Members(writing), k.ev.who = a PROVE FALSE
    OBVIOUS
  <2>1. EmitRight(k)
    BY DEF BooksRight
  <2> QED BY <2>1, <1>2 DEF EmitRight
<1>9. PICK segs \in Seq(Segments) : EmitDone(e, writing, counts, segs)
  <2>1. EmitsApart(writing) /\ EmitWith(e, writing, counts)
    BY <1>1, <1>6 DEF BooksRight, EndAct, Emit
  <2> QED BY <2>1, <1>7, <1>8, Basics, EmitAdds
<1>10. \A q \in Runs : q # r =>
         /\ segments'[q] = segments[q] /\ flushes'[q] = flushes[q]
         /\ counts'[q] = counts[q] /\ (q \in open' => q \in open)
  BY <1>7, <1>9, Basics, OthersAlone
<1>11. ASSUME NEW k \in Members(writing') PROVE EmitRight(k)'
  <2>1. CASE k.ev = e
    <3>1. a \in DOMAIN acts'
      BY <1>3
    <3> QED BY <2>1, <3>1, <1>2, <1>3, <1>5, <1>7 DEF EmitRight, Active
  <2>2. CASE k \in Members(writing)
    <3>1. EmitRight(k) /\ k.ev.run \in 1 .. Len(runs) /\ k.ev.run \in Runs
      BY <2>2, MembersTyped DEF BooksRight, EmitRight
    <3>2. k.ev.who # 0 => k.ev.who \in DOMAIN acts' /\ acts'[k.ev.who] = acts[k.ev.who]
      BY <2>2, <1>3, <1>8, ActiveIs, Basics
    <3>3. k.ev.type \in RunEnds /\ k.segs = <<>> => k.ev.run \notin open' /\ counts'[k.ev.run] = 0
      <4> SUFFICES ASSUME k.ev.type \in RunEnds, k.segs = <<>> PROVE k.ev.run \notin open' /\ counts'[k.ev.run] = 0
        OBVIOUS
      <4>1. k.ev.run \notin open /\ counts[k.ev.run] = 0
        BY <3>1 DEF EmitRight
      <4>2. runs[k.ev.run].st = "ending"
        <5>1. k.ev.who = 0 /\ k.ev.type # "run_started"
          BY <3>1 DEF EmitRight, RunEnds, RunEvents
        <5> QED BY <3>1, <5>1 DEF EmitRight
      <4> QED BY <4>1, <4>2, <3>1, <1>2, <1>10
    <3> QED BY <3>1, <3>2, <3>3, <1>3, EmitStays
  <2> QED BY <2>1, <2>2, <1>9 DEF EmitDone
<1>12. ASSUME NEW q \in 1 .. Len(runs') PROVE RunRight(q)'
  <2>0. q \in 1 .. Len(runs) /\ RunRight(q) /\ q \in Runs
    BY <1>3, Basics DEF BooksRight
  <2>1. CASE q = r
    BY <2>1, <1>2, <1>3 DEF RunRight
  <2>2. CASE q # r
    <3>1. Active(q)' = Active(q)
      BY <2>2, <1>1, <1>3 DEF Active
    <3> QED BY <2>0, <2>2, <3>1, <1>3, <1>10 DEF RunRight
  <2> QED BY <2>1, <2>2
<1>13. \A c \in 1 .. Len(acts') : acts'[c].run \in 1 .. Len(runs')
  BY <1>1, <1>2, <1>3, Basics DEF BooksRight
<1> QED BY <1>9, <1>11, <1>12, <1>13 DEF BooksRight, EmitDone

(* The end of a run: whoever tells it, nothing of the run is under way, and the books
   have nothing of it when the event is written. *)
LEMMA EndingBooks ==
  ASSUME TelemetryTypeOK, BooksRight, NEW r \in 1 .. Len(runs), NEW how \in RunEnds, NEW others \in Seq(Emits),
         EmitWith(Ev(how, r, 0, None), others, counts), EmitsApart(others), runs[r].st = "live",
         Members(others) \subseteq {k \in Members(writing) : k.ev.run # r},
         runs' = [runs EXCEPT ![r] = [agent |-> runs[r].agent, st |-> "ending", how |-> how]],
         DOMAIN acts' = DOMAIN acts, Len(acts') = Len(acts),
         \A a \in DOMAIN acts : acts'[a].run = acts[a].run,
         \A a \in DOMAIN acts : acts[a].run # r => acts'[a] = acts[a],
         Active(r)' = {}
  PROVE  BooksRight'
<1>1. r \in Runs /\ r \in DOMAIN runs /\ scene \in Scenes
  BY Basics DEF TelemetryTypeOK
<1>2. PICK e \in AgentEvents : e = Ev(how, r, 0, None)
  <2>1. None \in Calls /\ how \in Types
    BY <1>1, SceneTyped DEF Types, RunEvents
  <2> QED BY <1>1, <2>1, EvTyped
<1>3. e.run = r /\ e.who = 0 /\ e.type = how /\ how \in Boundaries /\ how \in RunEvents /\ how # "run_started"
      /\ how # "call_started"
  BY <1>2 DEF Ev, Boundaries, RunEvents, RunEnds
<1>4. /\ Len(runs') = Len(runs) /\ runs'[r].st = "ending"
      /\ \A q \in 1 .. Len(runs) : q # r => runs'[q] = runs[q]
  <2>1. Len(runs') = Len(runs)
    BY <1>1, RunChanged
  <2> QED BY <2>1, <1>1, Basics
<1>5. PICK segs \in Seq(Segments) : EmitDone(e, others, counts, segs)
  <2>1. \A k \in Members(others) : k.ev.run # e.run \/ k.ev.who # e.who
    BY <1>3
  <2> QED BY <2>1, <1>2, EmitAdds
<1>6. \A q \in Runs : q # r =>
         /\ segments'[q] = segments[q] /\ flushes'[q] = flushes[q]
         /\ counts'[q] = counts[q] /\ (q \in open' => q \in open)
  BY <1>3, <1>5, Basics, OthersAlone
<1>7. segments'[r] = None /\ flushes'[r] = <<>> /\ (segs = <<>> => r \notin open' /\ counts'[r] = 0)
  <2>1. segments'[r] = None /\ flushes'[r] = <<>>
    BY <1>1, <1>3, <1>5, Basics DEF EmitDone
  <2>2. segs = <<>> => open' = open \ {r} /\ counts' = [counts EXCEPT ![r] = 0]
    BY <1>3, <1>5 DEF EmitDone, TrackOpen
  <2> QED BY <2>1, <2>2, <1>1, Basics
<1>8. ASSUME NEW k \in Members(writing') PROVE EmitRight(k)'
  <2>1. CASE k.ev = e /\ k.segs = segs
    BY <2>1, <1>3, <1>4, <1>7 DEF EmitRight
  <2>2. CASE k \in Members(others)
    <3>1. k \in Members(writing) /\ k.ev.run # r
      BY <2>2
    <3>2. EmitRight(k) /\ k.ev.run \in 1 .. Len(runs) /\ k.ev.run \in Runs
      BY <3>1, MembersTyped DEF BooksRight, EmitRight
    <3>3. k.ev.who # 0 => k.ev.who \in DOMAIN acts' /\ acts'[k.ev.who] = acts[k.ev.who]
      BY <3>1, ActiveIs, Basics
    <3>4. k.ev.type \in RunEnds /\ k.segs = <<>> => k.ev.run \notin open' /\ counts'[k.ev.run] = 0
      BY <3>1, <3>2, <1>6 DEF EmitRight
    <3> QED BY <3>1, <3>2, <3>3, <3>4, <1>4, EmitStays
  <2> QED BY <2>1, <2>2, <1>5 DEF EmitDone
<1>9. ASSUME NEW q \in 1 .. Len(runs') PROVE RunRight(q)'
  <2>0. q \in 1 .. Len(runs) /\ RunRight(q) /\ q \in Runs
    BY <1>4, Basics DEF BooksRight
  <2>1. CASE q = r
    BY <2>1, <1>4, <1>7 DEF RunRight
  <2>2. CASE q # r
    <3>1. Active(q)' = Active(q)
      BY <2>2 DEF Active
    <3> QED BY <2>0, <2>2, <3>1, <1>4, <1>6 DEF RunRight
  <2> QED BY <2>1, <2>2
<1>10. \A c \in 1 .. Len(acts') : acts'[c].run \in 1 .. Len(runs')
  BY <1>4, Basics DEF BooksRight
<1> QED BY <1>5, <1>8, <1>9, <1>10 DEF BooksRight, EmitDone

LEMMA EndRunBooks ==
  ASSUME TelemetryTypeOK, BooksRight, NEW r \in DOMAIN runs, NEW how \in RunEnds, EndRun(r, how)
  PROVE  BooksRight'
<1>1. r \in 1 .. Len(runs) /\ writing \in Seq(Emits) /\ EmitsApart(writing)
  BY Basics DEF BooksRight
<1>2. /\ runs[r].st = "live" /\ Active(r) = {} /\ acts' = acts /\ EmitWith(Ev(how, r, 0, None), writing, counts)
      /\ runs' = [runs EXCEPT ![r] = [agent |-> runs[r].agent, st |-> "ending", how |-> how]]
  BY DEF EndRun, Emit
<1>3. ASSUME NEW k \in Members(writing) PROVE k.ev.run # r
  <2>1. EmitRight(k)
    BY DEF BooksRight
  <2> QED BY <2>1, <1>2 DEF EmitRight
<1>4. Active(r)' = {}
  BY <1>2 DEF Active
<1> QED BY <1>1, <1>2, <1>3, <1>4, EndingBooks

LEMMA CancelRunBooks ==
  ASSUME TelemetryTypeOK, BooksRight, NEW r \in DOMAIN runs, CancelRun(r)
  PROVE  BooksRight'
<1>1. r \in 1 .. Len(runs) /\ writing \in Seq(Emits) /\ EmitsApart(writing) /\ r \in Runs
  BY Basics DEF BooksRight
<1>2. PICK others \in Seq(Emits) : others = Without(r, writing)
  BY <1>1, NoneOf
<1>3. EmitsApart(others) /\ Members(others) \subseteq {k \in Members(writing) : k.ev.run # r}
  BY <1>1, <1>2, NoneOf
<1>4. acts' = [a \in DOMAIN acts |-> IF a \in Active(r) THEN [acts[a] EXCEPT !.st = "cut"] ELSE acts[a]]
  BY DEF CancelRun
<1>5. /\ DOMAIN acts' = DOMAIN acts /\ Len(acts') = Len(acts)
      /\ \A a \in DOMAIN acts : acts'[a].run = acts[a].run
      /\ \A a \in DOMAIN acts : acts[a].run # r => acts'[a] = acts[a]
      /\ Active(r)' = {}
  <2>1. DOMAIN acts' = DOMAIN acts
    BY <1>4
  <2>2. Len(acts') = Len(acts)
    <3>1. acts' \in [1 .. Len(acts) -> ActRecords]
      <4>1. ASSUME NEW a \in DOMAIN acts PROVE acts[a] \in ActRecords /\ [acts[a] EXCEPT !.st = "cut"] \in ActRecords
        BY ActParts DEF ActRecords
      <4> QED BY <4>1, <1>4, Basics
    <3> QED BY <3>1, Basics, FunctionIsSeq
  <2>3. ASSUME NEW a \in DOMAIN acts
        PROVE  acts'[a].run = acts[a].run /\ (acts[a].run # r => acts'[a] = acts[a])
               /\ (a \in Active(r) => acts'[a].st = "cut") /\ (a \notin Active(r) => acts'[a] = acts[a])
    <3>1. acts[a] \in ActRecords
      BY ActParts
    <3>2. a \in Active(r) => acts[a].run = r
      BY DEF Active
    <3> QED BY <3>1, <3>2, <1>4 DEF ActRecords
  <2>4. Active(r)' = {}
    BY <2>1, <2>3 DEF Active
  <2> QED BY <2>1, <2>2, <2>3, <2>4
<1>6. CASE runs[r].st = "live"
  <2>1. EmitWith(Ev("run_cancelled", r, 0, None), others, counts)
        /\ runs' = [runs EXCEPT ![r] = [agent |-> runs[r].agent, st |-> "ending", how |-> "run_cancelled"]]
    BY <1>2, <1>6 DEF CancelRun
  <2>2. "run_cancelled" \in RunEnds
    BY DEF RunEnds
  <2> QED BY <2>1, <2>2, <1>1, <1>3, <1>5, <1>6, EndingBooks
<1>7. CASE runs[r].st # "live"
  <2>1. writing' = others /\ runs' = [runs EXCEPT ![r].st = "gone"] /\ UNCHANGED <<segments, flushes, open, counts>>
    BY <1>2, <1>7 DEF CancelRun, recorder
  <2>2. /\ Len(runs') = Len(runs) /\ runs'[r].st = "gone"
        /\ \A q \in 1 .. Len(runs) : q # r => runs'[q] = runs[q]
    <3>1. runs[r] \in RunRecords /\ runs[r].how \in RunEnds \cup {None}
      BY RunParts
    <3>2. runs' = [runs EXCEPT ![r] = [agent |-> runs[r].agent, st |-> "gone", how |-> runs[r].how]]
      <4>1. [runs[r] EXCEPT !.st = "gone"] = [agent |-> runs[r].agent, st |-> "gone", how |-> runs[r].how]
        BY <3>1 DEF RunRecords
      <4> QED BY <2>1, <4>1
    <3>3. Len(runs') = Len(runs)
      BY <3>1, <3>2, RunChanged
    <3> QED BY <3>2, <3>3, <1>1, Basics
  <2>3. ASSUME NEW k \in Members(writing') PROVE EmitRight(k)'
    <3>1. k \in Members(writing) /\ k.ev.run # r
      BY <2>1, <1>3
    <3>2. EmitRight(k) /\ k.ev.run \in 1 .. Len(runs)
      BY <3>1 DEF BooksRight, EmitRight
    <3>3. k.ev.who # 0 => k.ev.who \in DOMAIN acts' /\ acts'[k.ev.who] = acts[k.ev.who]
      BY <3>1, <1>5, ActiveIs, Basics
    <3>4. k.ev.type \in RunEnds /\ k.segs = <<>> => k.ev.run \notin open' /\ counts'[k.ev.run] = 0
      BY <3>2, <2>1 DEF EmitRight
    <3> QED BY <3>1, <3>2, <3>3, <3>4, <2>2, EmitStays
  <2>4. ASSUME NEW q \in 1 .. Len(runs') PROVE RunRight(q)'
    <3>0. q \in 1 .. Len(runs) /\ RunRight(q)
      BY <2>2 DEF BooksRight
    <3>1. CASE q = r
      BY <3>1, <2>2, <1>5 DEF RunRight
    <3>2. CASE q # r
      <4>1. Active(q)' = Active(q)
        BY <3>2, <1>5 DEF Active
      <4> QED BY <3>0, <3>2, <4>1, <2>1, <2>2 DEF RunRight
    <3> QED BY <3>1, <3>2
  <2>5. \A c \in 1 .. Len(acts') : acts'[c].run \in 1 .. Len(runs')
    BY <1>5, <2>2, Basics DEF BooksRight
  <2>6. EmitsApart(writing')
    BY <2>1, <1>3
  <2> QED BY <2>3, <2>4, <2>5, <2>6 DEF BooksRight
<1> QED BY <1>6, <1>7

LEMMA TokenBooks ==
  ASSUME TelemetryTypeOK, BooksRight, NEW a \in DOMAIN acts, NEW kind, Token(a, kind)
  PROVE  BooksRight'
<1>1. PICK r : r = acts[a].run
  OBVIOUS
<1>2. r \in 1 .. Len(runs) /\ runs[r].st = "live"
  <2>1. r \in 1 .. Len(runs) /\ a \in Active(r)
    BY <1>1, Basics DEF BooksRight, Active, Token
  <2> QED BY <2>1 DEF BooksRight, RunRight
<1>3. /\ runs' = runs /\ acts' = acts /\ writing' = writing /\ open' = open /\ counts' = counts
      /\ \A q \in 1 .. Len(runs) : q # r => segments'[q] = segments[q] /\ flushes'[q] = flushes[q]
  BY <1>1, Basics DEF Token
<1>4. ASSUME NEW k \in Members(writing') PROVE EmitRight(k)'
  <2>1. EmitRight(k)
    BY <1>3 DEF BooksRight
  <2> QED BY <2>1, <1>3 DEF EmitRight, Active
<1>5. ASSUME NEW q \in 1 .. Len(runs') PROVE RunRight(q)'
  <2>1. RunRight(q) /\ q \in 1 .. Len(runs) /\ Active(q)' = Active(q)
    BY <1>3 DEF BooksRight, Active
  <2>2. CASE q = r
    BY <2>1, <2>2, <1>2, <1>3 DEF RunRight
  <2>3. CASE q # r
    BY <2>1, <2>3, <1>3 DEF RunRight
  <2> QED BY <2>2, <2>3
<1>6. EmitsApart(writing') /\ \A c \in 1 .. Len(acts') : acts'[c].run \in 1 .. Len(runs')
  BY <1>3 DEF BooksRight
<1> QED BY <1>4, <1>5, <1>6 DEF BooksRight

(* A write that is not the last of its emit leaves the emit behind the others. *)
LEMMA SegmentBooks ==
  ASSUME TelemetryTypeOK, BooksRight, NEW stored, Write(stored), Head(writing).segs # <<>>
  PROVE  BooksRight'
<1>1. PICK w \in Seq(Emits) : w = writing /\ w # <<>>
  BY Basics DEF Write
<1>2. PICK j \in Emits : j = Head(w)
  BY <1>1, HeadTailProperties
<1>3. PICK segs \in Seq(Segments) : segs = j.segs /\ segs # <<>>
  BY <1>1, <1>2 DEF Emits
<1>4. Tail(segs) \in Seq(Segments) /\ Len(segs) \in Nat \ {0} /\ Len(Tail(segs)) = Len(segs) - 1
  BY <1>3, HeadTailProperties, LenProperties
<1>5. PICK m \in Emits : m = [j EXCEPT !.segs = Tail(segs)] /\ m.ev = j.ev /\ m.segs = Tail(segs)
  <2>1. PICK less \in Seq(Segments) : less = Tail(segs)
    BY <1>4
  <2>2. PICK m : m = [j EXCEPT !.segs = less]
    OBVIOUS
  <2>3. m \in Emits /\ m.ev = j.ev /\ m.segs = less
    BY <2>2 DEF Emits
  <2> QED BY <2>1, <2>2, <2>3
<1>6. PICK rest \in Seq(Emits) : rest = Tail(w)
  BY <1>1, HeadTailProperties
<1>7. /\ EmitsApart(rest) /\ Members(rest) \subseteq Members(writing) /\ j \in Members(writing)
      /\ \A k \in Members(rest) : Differ(k, j)
  BY <1>1, <1>2, <1>6, OneLess DEF BooksRight
<1>8. /\ writing' = Append(rest, m) /\ UNCHANGED <<runs, acts, segments, flushes>>
      /\ IF Len(segs) = 1 THEN open' = TrackOpen(j.ev) /\ counts' = TrackCounts(j.ev)
         ELSE UNCHANGED <<open, counts>>
  BY <1>1, <1>2, <1>3, <1>5, <1>6 DEF Write
<1>9. EmitsApart(writing') /\ Members(writing') \subseteq Members(rest) \cup {m}
  <2>1. \A k \in Members(rest) : Differ(k, m)
    BY <1>5, <1>7 DEF Differ
  <2> QED BY <2>1, <1>7, <1>8, OneMore
<1>10. EmitRight(j) /\ j.ev.run \in 1 .. Len(runs) /\ j.ev.run \in Runs
  BY <1>7, MembersTyped DEF BooksRight, EmitRight
(* the books of a run that ends or is over have nothing more in them than before *)
<1>11. ASSUME NEW q \in 1 .. Len(runs), runs[q].st \in {"ending", "over"}, q \notin open, counts[q] = 0
       PROVE  q \notin open' /\ counts'[q] = 0
  <2>1. counts'[q] = 0
    <3>1. counts' = counts \/ counts' = [counts EXCEPT ![j.ev.run] = 0]
      BY <1>8 DEF TrackCounts
    <3> QED BY <3>1, <1>11, Basics
  <2>2. q \notin open'
    <3>1. CASE open' = open \/ open' = open \ {j.ev.run}
      BY <3>1, <1>11
    <3>2. CASE ~(open' = open \/ open' = open \ {j.ev.run})
      <4>1. j.ev.type = "call_started" /\ open' = open \cup {j.ev.run}
        BY <3>2, <1>8 DEF TrackOpen
      <4>2. j.ev.who # 0
        BY <4>1, <1>10 DEF EmitRight, RunEvents, RunEnds
      <4>3. runs[j.ev.run].st = "live"
        BY <4>2, <1>7, ActiveIs
      <4> QED BY <4>1, <4>3, <1>11
    <3> QED BY <3>1, <3>2
  <2> QED BY <2>1, <2>2
<1>12. ASSUME NEW k \in Members(writing') PROVE EmitRight(k)'
  <2>1. CASE k = m
    <3>1. ASSUME m.ev.type \in RunEnds, m.segs = <<>> PROVE m.ev.run \notin open' /\ counts'[m.ev.run] = 0
      <4>1. Len(segs) = 1
        <5>1. Tail(segs) = <<>>
          BY <3>1, <1>5
        <5>2. Len(Tail(segs)) = 0
          BY <5>1, EmptySeq
        <5> QED BY <5>2, <1>4
      <4>2. open' = TrackOpen(j.ev) /\ counts' = TrackCounts(j.ev) /\ j.ev.type \in RunEnds /\ j.ev.type # "call_started"
        BY <4>1, <3>1, <1>5, <1>8 DEF RunEnds
      <4>3. open' = open \ {j.ev.run} /\ counts' = [counts EXCEPT ![j.ev.run] = 0]
        BY <4>2 DEF TrackOpen, TrackCounts
      <4> QED BY <4>3, <1>5, <1>10, Basics
    <3> QED BY <2>1, <3>1, <1>5, <1>8, <1>10 DEF EmitRight, Active
  <2>2. CASE k \in Members(rest)
    <3>1. EmitRight(k) /\ k \in Members(writing)
      BY <2>2, <1>7 DEF BooksRight
    <3>2. ASSUME k.ev.type \in RunEnds, k.segs = <<>> PROVE k.ev.run \notin open' /\ counts'[k.ev.run] = 0
      <4>1. k.ev.who = 0 /\ k.ev.type # "run_started" /\ k.ev.run \in 1 .. Len(runs)
        BY <3>1, <3>2 DEF EmitRight, RunEnds, RunEvents
      <4>2. runs[k.ev.run].st = "ending" /\ k.ev.run \notin open /\ counts[k.ev.run] = 0
        BY <3>1, <3>2, <4>1 DEF EmitRight
      <4> QED BY <4>1, <4>2, <1>11
    <3> QED BY <3>1, <3>2, <1>8 DEF EmitRight, Active
  <2> QED BY <2>1, <2>2, <1>9
<1>13. ASSUME NEW q \in 1 .. Len(runs') PROVE RunRight(q)'
  <2>1. RunRight(q) /\ q \in 1 .. Len(runs) /\ Active(q)' = Active(q)
    BY <1>8 DEF BooksRight, Active
  <2> QED BY <2>1, <1>8, <1>11 DEF RunRight
<1>14. \A c \in 1 .. Len(acts') : acts'[c].run \in 1 .. Len(runs')
  BY <1>8 DEF BooksRight
<1> QED BY <1>9, <1>12, <1>13, <1>14 DEF BooksRight

(* The write of an emit's own event: the run or the call it waited for goes on. *)
LEMMA ReturnBooks ==
  ASSUME TelemetryTypeOK, BooksRight, NEW stored, Write(stored), Head(writing).segs = <<>>
  PROVE  BooksRight'
<1>1. PICK w \in Seq(Emits) : w = writing /\ w # <<>>
  BY Basics DEF Write
<1>2. PICK j \in Emits : j = Head(w)
  BY <1>1, HeadTailProperties
<1>3. PICK rest \in Seq(Emits) : rest = Tail(w)
  BY <1>1, HeadTailProperties
<1>4. /\ EmitsApart(rest) /\ Members(rest) \subseteq Members(writing) /\ j \in Members(writing)
      /\ \A k \in Members(rest) : Differ(k, j)
  BY <1>1, <1>2, <1>3, OneLess DEF BooksRight
<1>5. writing' = rest /\ Returned(j) /\ UNCHANGED <<open, counts, segments, flushes>> /\ j.segs = <<>>
  BY <1>1, <1>2, <1>3 DEF Write
<1>6. EmitRight(j) /\ j.ev.run \in 1 .. Len(runs)
  BY <1>4 DEF BooksRight, EmitRight
<1>7. Len(runs') = Len(runs) /\ Len(acts') = Len(acts)
  BY <1>5, ReturnedTyped
<1>8. EmitsApart(writing')
  BY <1>4, <1>5
<1>9. CASE j.ev.who = 0
  <2> DEFINE r == j.ev.run
  <2>1. /\ acts' = acts
        /\ runs' = [runs EXCEPT ![r].st = IF @ = "starting" THEN "live" ELSE "over"]
    BY <1>5, <1>9 DEF Returned
  <2>2. /\ \A q \in 1 .. Len(runs) : q # r => runs'[q] = runs[q]
        /\ runs'[r].st = IF runs[r].st = "starting" THEN "live" ELSE "over"
    <3>1. runs[r] \in RunRecords
      BY <1>6, Basics, RunParts
    <3> QED BY <2>1, <3>1, <1>6, Basics DEF RunRecords
  <2>3. ASSUME NEW k \in Members(writing') PROVE EmitRight(k)'
    <3>1. k \in Members(writing) /\ k.ev.run # r
      BY <1>4, <1>5, <1>9, Alone
    <3>2. EmitRight(k) /\ k.ev.run \in 1 .. Len(runs)
      BY <3>1 DEF BooksRight, EmitRight
    <3>3. k.ev.who # 0 => k.ev.who \in DOMAIN acts'
      BY <3>1, <2>1, ActiveIs, Basics
    <3>4. k.ev.type \in RunEnds /\ k.segs = <<>> => k.ev.run \notin open' /\ counts'[k.ev.run] = 0
      BY <3>2, <1>5 DEF EmitRight
    <3> QED BY <3>1, <3>2, <3>3, <3>4, <2>1, <2>2, <1>7, EmitStays
  <2>4. ASSUME NEW q \in 1 .. Len(runs') PROVE RunRight(q)'
    <3>1. RunRight(q) /\ q \in 1 .. Len(runs) /\ Active(q)' = Active(q)
      BY <1>7, <2>1 DEF BooksRight, Active
    <3>2. CASE q # r
      BY <3>1, <3>2, <2>2, <1>5 DEF RunRight
    <3>3. CASE q = r /\ j.ev.type = "run_started"
      <4>1. runs[r].st = "starting"
        BY <3>3, <1>6, <1>9 DEF EmitRight
      <4> QED BY <3>3, <4>1, <2>2 DEF RunRight
    <3>4. CASE q = r /\ j.ev.type # "run_started"
      <4>1. runs[r].st = "ending" /\ j.ev.type \in RunEnds
        BY <3>4, <1>6, <1>9 DEF EmitRight, RunEvents
      <4>2. r \notin open /\ counts[r] = 0
        BY <4>1, <1>5, <1>6 DEF EmitRight
      <4> QED BY <3>1, <3>4, <4>1, <4>2, <2>2, <1>5 DEF RunRight
    <3> QED BY <3>2, <3>3, <3>4
  <2>5. \A c \in 1 .. Len(acts') : acts'[c].run \in 1 .. Len(runs')
    BY <2>1, <1>7 DEF BooksRight
  <2> QED BY <1>8, <2>3, <2>4, <2>5 DEF BooksRight
<1>10. CASE j.ev.who # 0
  <2> DEFINE a == j.ev.who
  <2>1. /\ runs' = runs
        /\ acts' = [acts EXCEPT ![a].st = IF @ = "starting" THEN "open" ELSE "over"]
    BY <1>5, <1>10 DEF Returned
  <2>2. a \in DOMAIN acts /\ acts[a].run = j.ev.run /\ runs[j.ev.run].st = "live"
    BY <1>4, <1>10, ActiveIs, Basics
  <2>3. /\ DOMAIN acts' = DOMAIN acts /\ \A c \in DOMAIN acts : c # a => acts'[c] = acts[c]
        /\ acts'[a].run = acts[a].run
    <3>1. acts[a] \in ActRecords
      BY <2>2, ActParts
    <3> QED BY <2>1, <2>2, <3>1 DEF ActRecords
  <2>4. ASSUME NEW k \in Members(writing') PROVE EmitRight(k)'
    <3>1. k \in Members(writing) /\ Differ(k, j)
      BY <1>4, <1>5
    <3>2. EmitRight(k) /\ k.ev.run \in 1 .. Len(runs)
      BY <3>1 DEF BooksRight, EmitRight
    <3>3. k.ev.who # 0 => k.ev.who \in DOMAIN acts' /\ acts'[k.ev.who] = acts[k.ev.who]
      <4> SUFFICES ASSUME k.ev.who # 0 PROVE k.ev.who \in DOMAIN acts' /\ acts'[k.ev.who] = acts[k.ev.who]
        OBVIOUS
      <4>1. k.ev.who \in DOMAIN acts /\ acts[k.ev.who].run = k.ev.run
        BY <3>1, ActiveIs, Basics
      <4>2. k.ev.who # a
        BY <4>1, <3>1, <2>2 DEF Differ
      <4> QED BY <4>1, <4>2, <2>3
    <3>4. k.ev.type \in RunEnds /\ k.segs = <<>> => k.ev.run \notin open' /\ counts'[k.ev.run] = 0
      BY <3>2, <1>5 DEF EmitRight
    <3> QED BY <3>2, <3>3, <3>4, <2>1, EmitStays
  <2>5. ASSUME NEW q \in 1 .. Len(runs') PROVE RunRight(q)'
    <3>1. RunRight(q) /\ q \in 1 .. Len(runs)
      BY <2>1 DEF BooksRight
    <3>2. CASE q # j.ev.run
      <4>1. Active(q)' = Active(q)
        BY <3>2, <2>2, <2>3 DEF Active
      <4> QED BY <3>1, <4>1, <2>1, <1>5 DEF RunRight
    <3>3. CASE q = j.ev.run
      BY <3>3, <2>1, <2>2 DEF RunRight
    <3> QED BY <3>2, <3>3
  <2>6. \A c \in 1 .. Len(acts') : acts'[c].run \in 1 .. Len(runs')
    <3>1. \A c \in DOMAIN acts : acts[c].run \in 1 .. Len(runs)
      BY Basics DEF BooksRight
    <3> QED BY <3>1, <2>1, <2>2, <2>3, <1>7, Basics
  <2> QED BY <1>8, <2>4, <2>5, <2>6 DEF BooksRight
<1> QED BY <1>9, <1>10

LEMMA DieBooks ==
  ASSUME TelemetryTypeOK, BooksRight, Die
  PROVE  BooksRight'
<1>1. /\ runs' = [r \in DOMAIN runs |-> IF runs[r].st = "over" THEN runs[r] ELSE [runs[r] EXCEPT !.st = "gone"]]
      /\ acts' = [a \in DOMAIN acts |-> IF acts[a].st = "over" THEN acts[a] ELSE [acts[a] EXCEPT !.st = "cut"]]
      /\ segments' = [r \in Runs |-> None] /\ flushes' = [r \in Runs |-> <<>>] /\ open' = {} /\ counts' = [r \in Runs |-> 0]
      /\ writing' = <<>>
  BY DEF Die
<1>2. Len(runs') = Len(runs) /\ Len(acts') = Len(acts)
  <2>1. ASSUME NEW r \in DOMAIN runs PROVE runs'[r] \in RunRecords
    BY <1>1, RunParts DEF RunRecords
  <2>2. ASSUME NEW a \in DOMAIN acts PROVE acts'[a] \in ActRecords
    BY <1>1, ActParts DEF ActRecords
  <2>3. runs' \in [1 .. Len(runs) -> RunRecords] /\ acts' \in [1 .. Len(acts) -> ActRecords]
    BY <1>1, <2>1, <2>2, Basics
  <2> QED BY <2>3, Basics, FunctionIsSeq
<1>3. ASSUME NEW a \in DOMAIN acts PROVE acts'[a].run = acts[a].run /\ acts'[a].st \in {"over", "cut"}
  BY <1>1, ActParts DEF ActRecords
<1>4. \A r : Active(r)' = {}
  BY <1>1, <1>3 DEF Active
<1>5. ASSUME NEW q \in 1 .. Len(runs') PROVE RunRight(q)'
  <2>1. q \in Runs
    BY <1>2, Basics
  <2> QED BY <2>1, <1>1, <1>4 DEF RunRight
<1>6. \A c \in 1 .. Len(acts') : acts'[c].run \in 1 .. Len(runs')
  BY <1>2, <1>3, Basics DEF BooksRight
<1>7. Members(writing') = {} /\ EmitsApart(writing')
  BY <1>1 DEF Members, EmitsApart
<1> QED BY <1>5, <1>6, <1>7 DEF BooksRight

LEMMA MachineryBooks ==
  ASSUME TelemetryTypeOK, BooksRight, Machinery
  PROVE  BooksRight'
<1>1. scene.inputs \subseteq Calls /\ None \in Calls
  BY SceneTyped DEF TelemetryTypeOK
<1>2. ASSUME NEW x \in Agents, StartRun(x) PROVE BooksRight'
  BY <1>2, StartRunBooks
<1>3. ASSUME NEW r \in DOMAIN runs, NEW call \in Calls, NEW kind \in {"call", "tool"}, StartAct(r, kind, call)
      PROVE  BooksRight'
  BY <1>3, StartActBooks
<1>4. ASSUME NEW r \in DOMAIN runs, NEW how \in RunEnds, EndRun(r, how) PROVE BooksRight'
  BY <1>4, EndRunBooks
<1>5. ASSUME NEW r \in DOMAIN runs, CancelRun(r) PROVE BooksRight'
  BY <1>5, CancelRunBooks
<1>6. ASSUME NEW a \in DOMAIN acts, NEW type, EndAct(a, type) PROVE BooksRight'
  BY <1>6, EndActBooks
<1>7. ASSUME NEW a \in DOMAIN acts, NEW kind, Token(a, kind) PROVE BooksRight'
  BY <1>7, TokenBooks
<1>8. ASSUME NEW stored, Write(stored) PROVE BooksRight'
  BY <1>8, SegmentBooks, ReturnBooks
<1>9. ASSUME Store \/ StoreRefuses PROVE BooksRight'
  <2>1. CASE Store
    <3>1. Write(TRUE)
      BY <2>1, Zenon DEF Store
    <3> QED BY <3>1, <1>8
  <2>2. CASE StoreRefuses
    <3>1. Write(FALSE)
      BY <2>2, Zenon DEF StoreRefuses
    <3> QED BY <3>1, <1>8
  <2> QED BY <1>9, <2>1, <2>2
<1>10. "run_finished" \in RunEnds /\ "run_failed" \in RunEnds
  BY DEF RunEnds
<1> QED BY <1>1, <1>2, <1>3, <1>4, <1>5, <1>6, <1>7, <1>9, <1>10 DEF Machinery

-----------------------------------------------------------------------------
(* Starts.  A run that is not live yet has not been told of, in the store or to the app. *)
Starts(items) == UNION {Begins(items[i]) : i \in 1 .. Len(items)}
Fresh == {r \in Runs : r \in 1 .. Len(runs) => runs[r].st = "starting"}

StartsOnce ==
  /\ BeginOnce(store) /\ Starts(store) \cap Fresh = {}
  /\ BeginOnce(seed) /\ Starts(seed) \cap Fresh = {}
  /\ Known(fleet) \cap Fresh = {}
  /\ app = "on" => BeginOnce(queue) /\ Starts(queue) \cap (Fresh \cup Known(fleet)) = {}

LEMMA StartAdded ==
  ASSUME NEW S, NEW s \in Seq(S), NEW e \in S, BeginOnce(s), Begins(e) \cap Starts(s) = {}
  PROVE  BeginOnce(Append(s, e)) /\ Starts(Append(s, e)) \subseteq Starts(s) \cup Begins(e)
<1>1. PICK t : t = Append(s, e)
  OBVIOUS
<1>2. /\ Len(t) = Len(s) + 1 /\ t[Len(s) + 1] = e /\ Len(s) \in Nat
      /\ \A i \in 1 .. Len(s) : t[i] = s[i]
  BY <1>1, AppendProperties, LenProperties
<1>3. \A i \in 1 .. Len(t) : i \in 1 .. Len(s) \/ i = Len(s) + 1
  BY <1>2
<1>4. \A i \in 1 .. Len(s) : Begins(s[i]) \subseteq Starts(s)
  BY DEF Starts
<1>5. ASSUME NEW i \in 1 .. Len(t), NEW k \in 1 .. Len(t), i # k PROVE Begins(t[i]) \cap Begins(t[k]) = {}
  <2>1. CASE i \in 1 .. Len(s) /\ k \in 1 .. Len(s)
    BY <2>1, <1>2, <1>5 DEF BeginOnce
  <2>2. CASE i \in 1 .. Len(s) /\ k = Len(s) + 1
    BY <2>2, <1>2, <1>4
  <2>3. CASE k \in 1 .. Len(s) /\ i = Len(s) + 1
    BY <2>3, <1>2, <1>4
  <2> QED BY <2>1, <2>2, <2>3, <1>3, <1>5
<1>6. Starts(t) \subseteq Starts(s) \cup Begins(e)
  <2>1. \A i \in 1 .. Len(t) : Begins(t[i]) \subseteq Starts(s) \cup Begins(e)
    BY <1>2, <1>3, <1>4
  <2> QED BY <2>1 DEF Starts
<1> QED BY <1>1, <1>5, <1>6 DEF BeginOnce

(* A part of a list, each item at its own place *)
LEMMA StartsOfPart ==
  ASSUME NEW s, NEW t, NEW k \in Nat, Len(s) \in Nat, Len(t) \in Nat,
         \A i \in 1 .. Len(t) : i + k \in 1 .. Len(s) /\ Begins(t[i]) = Begins(s[i + k]),
         BeginOnce(s)
  PROVE  BeginOnce(t) /\ Starts(t) \subseteq Starts(s)
<1>1. ASSUME NEW i \in 1 .. Len(t), NEW j \in 1 .. Len(t), i # j PROVE Begins(t[i]) \cap Begins(t[j]) = {}
  <2>1. i + k # j + k /\ i + k \in 1 .. Len(s) /\ j + k \in 1 .. Len(s)
    BY <1>1
  <2>2. Begins(t[i]) = Begins(s[i + k]) /\ Begins(t[j]) = Begins(s[j + k])
    OBVIOUS
  <2> QED BY <2>1, <2>2 DEF BeginOnce
<1>2. Starts(t) \subseteq Starts(s)
  BY DEF Starts
<1> QED BY <1>1, <1>2 DEF BeginOnce

LEMMA StartPushed ==
  ASSUME NEW q \in Seq(Items), NEW item \in Items, BeginOnce(q), Begins(item) \cap Starts(q) = {}
  PROVE  BeginOnce(Push(q, item)) /\ Starts(Push(q, item)) \subseteq Starts(q) \cup Begins(item)
<1>1. CASE q = None
  BY <1>1 DEF Push
<1>2. CASE q # None
  <2>1. CASE Len(q) = MAX_SIZE
    <3>1. q # <<>> /\ Len(q) \in Nat
      BY <2>1, TelemetryAssumption, LenProperties
    <3>2. PICK t \in Seq(Items) : t = Tail(q)
      BY <3>1, HeadTailProperties
    <3>3. Len(t) \in Nat /\ Len(t) = Len(q) - 1 /\ \A i \in 1 .. Len(t) : t[i] = q[i + 1]
      BY <3>1, <3>2, HeadTailProperties
    <3>4. \A i \in 1 .. Len(t) : i + 1 \in 1 .. Len(q) /\ Begins(t[i]) = Begins(q[i + 1])
      BY <3>1, <3>3
    <3>5. BeginOnce(t) /\ Starts(t) \subseteq Starts(q)
      BY <3>1, <3>3, <3>4, StartsOfPart
    <3>6. Push(q, item) = Append(t, item)
      BY <1>2, <2>1, <3>2 DEF Push
    <3>7. Begins(item) \cap Starts(t) = {}
      BY <3>5
    <3>8. BeginOnce(Append(t, item)) /\ Starts(Append(t, item)) \subseteq Starts(t) \cup Begins(item)
      BY <3>5, <3>7, StartAdded
    <3> QED BY <3>5, <3>6, <3>8
  <2>2. CASE Len(q) # MAX_SIZE
    <3>1. Push(q, item) = Append(q, item)
      BY <1>2, <2>2 DEF Push
    <3>2. BeginOnce(Append(q, item)) /\ Starts(Append(q, item)) \subseteq Starts(q) \cup Begins(item)
      BY StartAdded
    <3> QED BY <3>1, <3>2
  <2> QED BY <2>1, <2>2
<1> QED BY <1>1, <1>2

(* A step of the machinery tells of a run's start at most when the run goes on from it. *)
Tells ==
  /\ Fresh' \subseteq Fresh
  /\ \/ store' = store
     \/ \E e \in AgentEvents : store' = Append(store, e) /\ Begins(e) \subseteq Fresh \ Fresh'
  /\ \/ queue' = queue
     \/ \E item \in Items : queue' = Push(queue, item) /\ Begins(item) \subseteq Fresh \ Fresh'

LEMMA FreshShrinks ==
  ASSUME scene' = scene, 1 .. Len(runs) \subseteq 1 .. Len(runs'),
         \A r \in 1 .. Len(runs) : runs'[r].st = "starting" => runs[r].st = "starting"
  PROVE  Fresh' \subseteq Fresh
BY DEF Fresh, Runs

LEMMA WriteTells ==
  ASSUME TelemetryTypeOK, BooksRight, NEW stored \in BOOLEAN, Write(stored)
  PROVE  Tells
<1>1. PICK w \in Seq(Emits) : w = writing /\ w # <<>>
  BY Basics DEF Write
<1>2. PICK j \in Emits : j = Head(w)
  BY <1>1, HeadTailProperties
<1>3. j.ev \in AgentEvents /\ j.segs \in Seq(Segments) /\ scene \in Scenes /\ scene' = scene
  BY DEF Emits, TelemetryTypeOK, Write
<1>4. PICK e : e = IF j.segs = <<>> THEN j.ev ELSE Segment(Head(j.segs))
  OBVIOUS
<1>5. e \in AgentEvents /\ (j.segs # <<>> => Begins(e) = {})
  <2>1. CASE j.segs = <<>>
    BY <2>1, <1>3, <1>4
  <2>2. CASE j.segs # <<>>
    <3>1. PICK segs \in Seq(Segments) : segs = j.segs /\ segs # <<>>
      BY <1>3, <2>2
    <3>2. Head(segs) \in Segments
      BY <3>1, HeadTailProperties
    <3>3. PICK s \in Segments : s = Head(j.segs)
      BY <3>1, <3>2
    <3>4. e = Segment(s)
      BY <1>4, <2>2, <3>3
    <3>5. e \in AgentEvents /\ e.type = "output_segment"
      BY <3>4, <1>3, SegmentTyped DEF Segment
    <3> QED BY <3>5 DEF Begins
  <2> QED BY <2>1, <2>2
<1>6. PICK n : n = IF stored THEN Len(store) + 1 ELSE -1
  OBVIOUS
<1>7. /\ store' = IF stored THEN Append(store, e) ELSE store
      /\ queue' = Push(queue, Item(e, n))
  BY <1>1, <1>2, <1>4, <1>6 DEF Write, Publish
<1>8. n \in Int
  <2>1. Len(store) \in Nat
    BY LenProperties DEF TelemetryTypeOK
  <2> QED BY <2>1, <1>6
<1>9. PICK item \in Items : item = Item(e, n)
  BY <1>5, <1>8, ItemTyped
<1>10. Begins(item) = Begins(e)
  BY <1>9 DEF Begins, Item
<1>11. j \in Members(writing) /\ EmitRight(j)
  BY <1>1, <1>2, OneLess DEF BooksRight
<1>12. Fresh' \subseteq Fresh /\ Begins(e) \subseteq Fresh \ Fresh'
  <2>1. CASE j.segs # <<>>
    <3>1. runs' = runs
      BY <2>1, <1>1, <1>2 DEF Write
    <3> QED BY <3>1, <2>1, <1>3, <1>5, FreshShrinks
  <2>2. CASE j.segs = <<>>
    <3>1. Returned(j) /\ e = j.ev
      BY <2>2, <1>1, <1>2, <1>4 DEF Write
    <3>2. Len(runs') = Len(runs)
      BY <3>1, ReturnedTyped
    <3>3. CASE j.ev.who # 0
      <4>1. runs' = runs /\ e.type # "run_started"
        BY <3>1, <3>3, <1>11 DEF Returned, EmitRight, RunEvents
      <4> QED BY <4>1, <1>3, FreshShrinks DEF Begins
    <3>4. CASE j.ev.who = 0
      <4> DEFINE r == j.ev.run
      <4>1. runs' = [runs EXCEPT ![r].st = IF @ = "starting" THEN "live" ELSE "over"]
        BY <3>1, <3>4 DEF Returned
      <4>2. r \in 1 .. Len(runs) /\ r \in DOMAIN runs /\ r \in Runs /\ runs[r] \in RunRecords
        BY <1>11, Basics, RunParts DEF EmitRight
      <4>3. /\ \A q \in 1 .. Len(runs) : q # r => runs'[q] = runs[q]
            /\ runs'[r].st \in {"live", "over"}
        BY <4>1, <4>2, Basics DEF RunRecords
      <4>4. Fresh' \subseteq Fresh
        BY <4>3, <3>2, <1>3, FreshShrinks
      <4>5. Begins(e) \subseteq {r}
        BY <3>1 DEF Begins
      <4>6. r \notin Fresh'
        BY <4>2, <4>3, <3>2 DEF Fresh
      <4>7. Begins(e) \subseteq Fresh
        <5>1. ASSUME e.type = "run_started" PROVE r \in Fresh
          BY <5>1, <3>1, <3>4, <4>2, <1>11 DEF EmitRight, Fresh
        <5> QED BY <5>1, <3>1 DEF Begins
      <4> QED BY <4>4, <4>5, <4>6, <4>7
    <3> QED BY <3>3, <3>4
  <2> QED BY <2>1, <2>2
<1>13. store' = store \/ store' = Append(store, e)
  BY <1>7
<1> QED BY <1>5, <1>7, <1>9, <1>10, <1>12, <1>13 DEF Tells

LEMMA CancelRunTells ==
  ASSUME TelemetryTypeOK, BooksRight, NEW r \in DOMAIN runs, CancelRun(r)
  PROVE  Tells
<1>1. r \in 1 .. Len(runs) /\ r \in Runs /\ runs[r] \in RunRecords /\ scene' = scene /\ queue' = queue
  BY Basics, RunParts DEF CancelRun
<1>2. \E st \in {"ending", "gone"}, how \in RunEnds \cup {None} :
        runs' = [runs EXCEPT ![r] = [agent |-> runs[r].agent, st |-> st, how |-> how]]
  <2>1. CASE runs[r].st = "live"
    BY <2>1 DEF CancelRun, RunEnds
  <2>2. CASE runs[r].st # "live"
    <3>1. runs' = [runs EXCEPT ![r].st = "gone"]
      BY <2>2 DEF CancelRun
    <3>2. [runs[r] EXCEPT !.st = "gone"] = [agent |-> runs[r].agent, st |-> "gone", how |-> runs[r].how]
          /\ runs[r].how \in RunEnds \cup {None}
      BY <1>1 DEF RunRecords
    <3>3. runs' = [runs EXCEPT ![r] = [agent |-> runs[r].agent, st |-> "gone", how |-> runs[r].how]]
      BY <3>1, <3>2
    <3> QED BY <3>2, <3>3
  <2> QED BY <2>1, <2>2
<1>3. /\ Len(runs') = Len(runs) /\ runs'[r].st \in {"ending", "gone"}
      /\ \A q \in 1 .. Len(runs) : q # r => runs'[q] = runs[q]
  <2>1. PICK st \in {"ending", "gone"}, how \in RunEnds \cup {None} :
          runs' = [runs EXCEPT ![r] = [agent |-> runs[r].agent, st |-> st, how |-> how]]
    BY <1>2
  <2>2. Len(runs') = Len(runs)
    BY <2>1, RunChanged
  <2> QED BY <2>1, <2>2, <1>1, Basics
<1>4. Fresh' \subseteq Fresh /\ r \notin Fresh'
  <2>1. Fresh' \subseteq Fresh
    BY <1>1, <1>3, FreshShrinks
  <2>2. r \notin Fresh'
    BY <1>1, <1>3 DEF Fresh
  <2> QED BY <2>1, <2>2
<1>5. CASE store' = store
  BY <1>1, <1>4, <1>5 DEF Tells
<1>6. CASE store' # store
  <2>1. PICK w \in Seq(Emits) : w = writing
    BY Basics
  <2>2. PICK e : e = IF Head(w).segs = <<>> THEN Head(w).ev ELSE Segment(Head(Head(w).segs))
    OBVIOUS
  <2>3. w # <<>> /\ Head(w).ev.run = r /\ store' = Append(store, e)
    BY <2>1, <1>6, <2>2 DEF CancelRun
  <2>4. PICK j \in Emits : j = Head(w)
    BY <2>3, HeadTailProperties
  <2>5. j.ev \in AgentEvents /\ j.segs \in Seq(Segments) /\ scene \in Scenes /\ j.ev.run = r
    BY <2>3, <2>4 DEF Emits, TelemetryTypeOK
  <2>6. j \in Members(writing) /\ EmitRight(j)
    BY <2>1, <2>3, <2>4, OneLess DEF BooksRight
  <2>7. e \in AgentEvents /\ Begins(e) \subseteq Fresh \cap {r}
    <3>1. CASE j.segs = <<>>
      <4>1. e = j.ev
        BY <3>1, <2>2, <2>4
      <4>2. ASSUME e.type = "run_started" PROVE r \in Fresh
        BY <4>1, <4>2, <2>5, <2>6, <1>1 DEF EmitRight, Fresh, RunEvents
      <4> QED BY <4>1, <4>2, <2>5 DEF Begins
    <3>2. CASE j.segs # <<>>
      <4>1. PICK segs \in Seq(Segments) : segs = j.segs /\ segs # <<>>
        BY <2>5, <3>2
      <4>2. PICK s \in Segments : s = Head(segs)
        BY <4>1, HeadTailProperties
      <4>3. e = Segment(s)
        BY <2>2, <2>4, <3>2, <4>1, <4>2
      <4>4. e \in AgentEvents /\ e.type = "output_segment"
        BY <4>3, <2>5, SegmentTyped DEF Segment
      <4> QED BY <4>4 DEF Begins
    <3> QED BY <3>1, <3>2
  <2> QED BY <2>3, <2>7, <1>1, <1>4 DEF Tells
<1> QED BY <1>5, <1>6

LEMMA MachineryTells ==
  ASSUME TelemetryTypeOK, BooksRight, Machinery
  PROVE  Tells
<1>1. ASSUME NEW x \in Agents, StartRun(x) PROVE Tells
  <2>1. scene' = scene /\ store' = store /\ queue' = queue
    BY <1>1 DEF StartRun
  <2>2. PICK b : b = [agent |-> x, st |-> "starting", how |-> None]
    OBVIOUS
  <2>3. PICK rs \in Seq(RunRecords) : rs = runs
    BY DEF TelemetryTypeOK
  <2>4. b \in RunRecords /\ runs' = Append(rs, b)
    BY <1>1, <2>2, <2>3 DEF StartRun, RunRecords
  <2>5. Len(runs') = Len(rs) + 1 /\ Len(rs) \in Nat /\ \A q \in 1 .. Len(rs) : runs'[q] = rs[q]
    BY <2>4, AppendProperties, LenProperties
  <2>6. Fresh' \subseteq Fresh
    BY <2>1, <2>3, <2>5, FreshShrinks
  <2> QED BY <2>1, <2>6 DEF Tells
<1>2. ASSUME runs' = runs, scene' = scene, store' = store, queue' = queue PROVE Tells
  <2>1. Fresh' \subseteq Fresh
    BY <1>2, FreshShrinks
  <2> QED BY <1>2, <2>1 DEF Tells
<1>3. ASSUME NEW r, NEW call, NEW kind, StartAct(r, kind, call) PROVE Tells
  BY <1>2, <1>3 DEF StartAct
<1>4. ASSUME NEW a, NEW type, EndAct(a, type) PROVE Tells
  BY <1>2, <1>4 DEF EndAct
<1>5. ASSUME NEW r \in DOMAIN runs, NEW how, EndRun(r, how) PROVE Tells
  <2>1. scene' = scene /\ store' = store /\ queue' = queue
        /\ runs' = [runs EXCEPT ![r] = [agent |-> runs[r].agent, st |-> "ending", how |-> how]]
    BY <1>5 DEF EndRun
  <2>2. PICK b : b = [agent |-> runs[r].agent, st |-> "ending", how |-> how]
    OBVIOUS
  <2>3. b.st = "ending" /\ runs' = [runs EXCEPT ![r] = b]
    BY <2>1, <2>2
  <2>4. DOMAIN runs' = DOMAIN runs /\ \A q \in DOMAIN runs : q # r => runs'[q] = runs[q]
    BY <2>3
  <2>5. Len(runs') = Len(runs)
    <3>1. runs' \in [1 .. Len(runs) -> RunRecords \cup {b}]
      <4>1. \A q \in DOMAIN runs : runs[q] \in RunRecords
        BY RunParts
      <4> QED BY <4>1, <2>3, Basics
    <3> QED BY <3>1, Basics, FunctionIsSeq
  <2>6. Fresh' \subseteq Fresh
    BY <2>1, <2>3, <2>4, <2>5, Basics, FreshShrinks
  <2> QED BY <2>1, <2>6 DEF Tells
<1>6. ASSUME NEW r \in DOMAIN runs, CancelRun(r) PROVE Tells
  BY <1>6, CancelRunTells
<1>7. ASSUME NEW a \in DOMAIN acts, NEW kind \in Kinds, Token(a, kind) PROVE Tells
  <2>1. PICK r \in Runs, n \in Nat : r = acts[a].run /\ n = tokens[r] + 1
    <3>1. acts[a].run \in Runs
      BY ActParts
    <3> QED BY <3>1 DEF TelemetryTypeOK
  <2>2. kind \in {"text", "thinking"} /\ scene \in Scenes
    BY SceneTyped DEF Kinds, TelemetryTypeOK
  <2>3. PICK item \in Items : item = Delta(r, n, kind)
    BY <2>1, <2>2, DeltaTyped
  <2>4. scene' = scene /\ store' = store /\ runs' = runs /\ queue' = Push(queue, item)
    BY <1>7, <2>1, <2>3 DEF Token, Publish
  <2>5. Begins(item) = {}
    BY <2>3 DEF Begins, Delta
  <2>6. Fresh' \subseteq Fresh
    BY <2>4, FreshShrinks
  <2> QED BY <2>4, <2>5, <2>6 DEF Tells
<1>8. ASSUME Store \/ StoreRefuses PROVE Tells
  <2>1. CASE Store
    <3>1. Write(TRUE)
      BY <2>1, Zenon DEF Store
    <3> QED BY <3>1, WriteTells
  <2>2. CASE StoreRefuses
    <3>1. Write(FALSE)
      BY <2>2, Zenon DEF StoreRefuses
    <3> QED BY <3>1, WriteTells
  <2> QED BY <1>8, <2>1, <2>2
<1> QED BY <1>1, <1>3, <1>4, <1>5, <1>6, <1>7, <1>8 DEF Machinery

-----------------------------------------------------------------------------
(* The app: without it there is no fleet and no window; with it the fleet lists what each
   view has, and the window is the end of that. *)
ViewRight ==
  /\ app \in {"off", "read", "on"} /\ (app = "on" => queue \in Seq(Items))
  /\ app # "on" => fleet = EmptyFleet /\ stream = EmptyStream
  /\ seed \in Seq(Items) /\ FleetOK(fleet) /\ left \in Nat /\ scrolls \in Nat
  /\ WindowOK(stream, fleet.entries, left)

(* The inductive invariant of the machinery and the app together *)
LiveInvariant == TelemetryTypeOK /\ BooksRight /\ ViewRight /\ StartsOnce

(* All of the telemetry but its queue *)
restVars == <<scene, store, runs, acts, segments, flushes, open, counts, writing, tokens, harmed, heard, troubles>>

(* A step of the app alone touches the queue and nothing else of the telemetry. *)
LEMMA OnlyTheQueue ==
  ASSUME TelemetryTypeOK, BooksRight, UNCHANGED restVars, queue' = None \/ queue' \in Seq(Items)
  PROVE  TelemetryTypeOK' /\ BooksRight' /\ Fresh' = Fresh /\ Items' = Items
<1>1. scene' = scene /\ store' = store /\ runs' = runs /\ acts' = acts /\ segments' = segments /\ flushes' = flushes
      /\ open' = open /\ counts' = counts /\ writing' = writing /\ tokens' = tokens /\ harmed' = harmed
      /\ heard' = heard /\ troubles' = troubles
  BY DEF restVars
<1>2. TelemetryTypeOK'
  <2>1. /\ store \in Seq(AgentEvents) /\ runs \in Seq(RunRecords) /\ Len(runs) <= Len(scene.cast) /\ acts \in Seq(ActRecords)
        /\ segments \in [Runs -> Segments \cup {None}] /\ flushes \in [Runs -> Seq(Segments)]
        /\ writing \in Seq(Emits) /\ open \subseteq Runs /\ counts \in [Runs -> Nat] /\ tokens \in [Runs -> Nat]
        /\ harmed \subseteq Runs /\ heard \subseteq Runs /\ troubles \in Nat
    BY DEF TelemetryTypeOK
  <2> QED BY <1>1, <2>1, TypedAgain
<1>3. BooksRight'
  <2>0. \A r : Active(r)' = Active(r)
    BY <1>1 DEF Active
  <2>1. ASSUME NEW j, EmitRight(j) PROVE EmitRight(j)'
    BY <1>1, <2>0, <2>1 DEF EmitRight
  <2>2. \A r \in 1 .. Len(runs) : RunRight(r)'
    BY <1>1 DEF BooksRight, RunRight, Active
  <2> QED BY <1>1, <2>1, <2>2 DEF BooksRight
<1>4. Fresh' = Fresh
  BY <1>1 DEF Fresh, Runs
<1>5. Items' = Items
  BY <1>1, TypesSame
<1> QED BY <1>2, <1>3, <1>4, <1>5

(* Nothing is told of in an empty list. *)
LEMMA NoStarts == Starts(<<>>) = {} /\ BeginOnce(<<>>)
<1>1. Len(<<>>) = 0
  BY EmptySeq
<1> QED BY <1>1 DEF Starts, BeginOnce

(* The empty window, before there is a block *)
LEMMA NothingInView ==
  ASSUME NEW away
  PROVE  WindowOK(EmptyStream, <<>>, away)
<1>1. <<>> \in Seq(Blocks) /\ Len(<<>>) = 0
  BY EmptySeq
<1>2. EmptyStream \in Windows
  BY <1>1, WindowOf DEF EmptyStream
<1>3. /\ EmptyStream.base = 0 /\ EmptyStream.blocks = <<>> /\ EmptyStream.follow = TRUE /\ EmptyStream.unseen = 0
      /\ EmptyStream.forwarded = 0
  BY DEF EmptyStream
<1> QED BY <1>1, <1>2, <1>3 DEF WindowOK, Total

(* The invariant holds when the process begins. *)
LEMMA LiveInitially ==
  ASSUME LiveInit
  PROVE  LiveInvariant
<1>1. /\ scene \in Scenes /\ store = <<>> /\ queue = (IF scene.up THEN <<>> ELSE None) /\ runs = <<>> /\ acts = <<>>
      /\ writing = <<>> /\ segments = [r \in Runs |-> None] /\ flushes = [r \in Runs |-> <<>>] /\ open = {}
      /\ counts = [r \in Runs |-> 0] /\ tokens = [r \in Runs |-> 0] /\ harmed = {} /\ heard = {} /\ troubles = 0
      /\ app = (IF scene.up THEN "on" ELSE "off") /\ seed = <<>> /\ fleet = EmptyFleet /\ stream = EmptyStream
      /\ left = 0 /\ scrolls = 0
  BY DEF LiveInit, TelemetryInit
<1>2. \A S : <<>> \in Seq(S)
  BY EmptySeq
<1>3. Len(<<>>) = 0 /\ 1 .. 0 = {}
  BY EmptySeq
<1>4. SceneOK /\ Runs = 1 .. Len(scene.cast) /\ scene.up \in BOOLEAN /\ Runs \subseteq Nat
  BY <1>1, SceneTyped
<1>5. Len(scene.cast) \in Nat
  BY <1>4, RunsAre
<1>6. TelemetryTypeOK
  <2>1. <<>> \in Seq(AgentEvents) /\ <<>> \in Seq(Items) /\ <<>> \in Seq(RunRecords) /\ <<>> \in Seq(ActRecords)
        /\ <<>> \in Seq(Emits) /\ <<>> \in Seq(Segments)
    BY <1>2
  <2>2. segments \in [Runs -> Segments \cup {None}] /\ counts \in [Runs -> Nat] /\ tokens \in [Runs -> Nat]
    BY <1>1
  <2>3. flushes \in [Runs -> Seq(Segments)]
    BY <1>1, <2>1
  <2>4. queue = None \/ queue \in Seq(Items)
    BY <1>1, <2>1
  <2> QED BY <1>1, <1>3, <1>5, <2>1, <2>2, <2>3, <2>4 DEF TelemetryTypeOK
<1>7. BooksRight
  BY <1>1, <1>3 DEF BooksRight, Members, EmitsApart
<1>8. ViewRight
  <2>1. <<>> \in Seq(Items)
    BY <1>2
  <2>2. app \in {"off", "on"} /\ (app = "on" => queue = <<>>)
    BY <1>1, <1>4
  <2>3. FleetOK(fleet) /\ fleet.entries = <<>>
    BY <1>1, NothingShown
  <2>4. WindowOK(stream, fleet.entries, left)
    BY <1>1, <2>3, NothingInView
  <2> QED BY <1>1, <2>1, <2>2, <2>3, <2>4 DEF ViewRight
<1>9. StartsOnce
  <2>1. BeginOnce(<<>>) /\ Starts(<<>>) = {}
    BY NoStarts
  <2>2. Known(fleet) \subseteq {0}
    BY <1>1, NothingShown
  <2>3. 0 \notin Fresh
    BY <1>4 DEF Fresh
  <2>4. app = "on" => queue = <<>>
    BY <1>1, <1>4
  <2> QED BY <1>1, <2>1, <2>2, <2>3, <2>4 DEF StartsOnce
<1> QED BY <1>6, <1>7, <1>8, <1>9 DEF LiveInvariant

(* The agents' machinery keeps it: an event told is new to the store, the queue and the fleet. *)
LEMMA MachineryLive ==
  ASSUME LiveInvariant, Machinery, UNCHANGED viewVars
  PROVE  LiveInvariant'
<1>1. TelemetryTypeOK /\ BooksRight /\ ViewRight /\ StartsOnce
  BY DEF LiveInvariant
<1>2. TypedStep /\ BooksRight' /\ Tells
  BY <1>1, MachineryTyped, MachineryBooks, MachineryTells
<1>3. app' = app /\ seed' = seed /\ fleet' = fleet /\ stream' = stream /\ left' = left /\ scrolls' = scrolls
  BY DEF viewVars
<1>4. Items' = Items
  BY <1>2, TypesSame DEF TypedStep
<1>5. ViewRight'
  BY <1>1, <1>2, <1>3, <1>4 DEF ViewRight, TypedStep
<1>6. StartsOnce'
  <2>1. Fresh' \subseteq Fresh
    BY <1>2 DEF Tells
  <2>2. BeginOnce(store') /\ Starts(store') \cap Fresh' = {}
    <3>1. CASE store' = store
      BY <3>1, <2>1, <1>1 DEF StartsOnce
    <3>2. CASE store' # store
      <4>1. PICK e \in AgentEvents : store' = Append(store, e) /\ Begins(e) \subseteq Fresh \ Fresh'
        BY <3>2, <1>2 DEF Tells
      <4>2. PICK s \in Seq(AgentEvents) : s = store
        BY <1>1 DEF TelemetryTypeOK
      <4>3. BeginOnce(s) /\ Starts(s) \cap Fresh = {}
        BY <4>2, <1>1 DEF StartsOnce
      <4>4. BeginOnce(Append(s, e)) /\ Starts(Append(s, e)) \subseteq Starts(s) \cup Begins(e)
        BY <4>1, <4>3, StartAdded
      <4> QED BY <4>1, <4>2, <4>3, <4>4, <2>1
    <3> QED BY <3>1, <3>2
  <2>3. ASSUME app = "on" PROVE BeginOnce(queue') /\ Starts(queue') \cap (Fresh' \cup Known(fleet)) = {}
    <3>1. CASE queue' = queue
      BY <3>1, <2>3, <2>1, <1>1 DEF StartsOnce
    <3>2. CASE queue' # queue
      <4>1. PICK item \in Items : queue' = Push(queue, item) /\ Begins(item) \subseteq Fresh \ Fresh'
        BY <3>2, <1>2 DEF Tells
      <4>2. PICK q \in Seq(Items) : q = queue
        BY <2>3, <1>1 DEF ViewRight
      <4>3. BeginOnce(q) /\ Starts(q) \cap (Fresh \cup Known(fleet)) = {} /\ Known(fleet) \cap Fresh = {}
        BY <2>3, <4>2, <1>1 DEF StartsOnce
      <4>4. BeginOnce(Push(q, item)) /\ Starts(Push(q, item)) \subseteq Starts(q) \cup Begins(item)
        BY <4>1, <4>3, StartPushed
      <4> QED BY <4>1, <4>2, <4>3, <4>4, <2>1
    <3> QED BY <3>1, <3>2
  <2>4. BeginOnce(seed) /\ Starts(seed) \cap Fresh = {} /\ Known(fleet) \cap Fresh = {}
    BY <1>1 DEF StartsOnce
  <2> QED BY <1>3, <2>1, <2>2, <2>3, <2>4 DEF StartsOnce
<1> QED BY <1>2, <1>5, <1>6 DEF LiveInvariant, TypedStep

(* The process dies: the app and its view are gone, and so is every run that was not over. *)
LEMMA RestartLive ==
  ASSUME LiveInvariant, Restart
  PROVE  LiveInvariant'
<1>1. TelemetryTypeOK /\ BooksRight /\ ViewRight /\ StartsOnce /\ Die
  BY DEF LiveInvariant, Restart
<1>2. TelemetryTypeOK' /\ scene' = scene /\ BooksRight'
  BY <1>1, DieTyped, DieBooks
<1>3. app' = "off" /\ seed' = <<>> /\ fleet' = EmptyFleet /\ stream' = EmptyStream /\ left' = 0 /\ scrolls' = scrolls
      /\ store' = store
  BY DEF Restart, Die
<1>4. ViewRight'
  <2>1. <<>> \in Seq(Items)'
    BY EmptySeq
  <2>2. FleetOK(fleet') /\ fleet'.entries = <<>>
    BY <1>3, NothingShown
  <2>3. WindowOK(stream', fleet'.entries, left')
    BY <1>3, <2>2, NothingInView
  <2>4. scrolls \in Nat
    BY <1>1 DEF ViewRight
  <2> QED BY <1>3, <2>1, <2>2, <2>3, <2>4 DEF ViewRight
<1>5. Fresh' \subseteq Fresh
  <2>1. runs' = [r \in DOMAIN runs |-> IF runs[r].st = "over" THEN runs[r] ELSE [runs[r] EXCEPT !.st = "gone"]]
    BY <1>1 DEF Die
  <2>2. DOMAIN runs = 1 .. Len(runs) /\ Len(runs) \in Nat
    BY <1>1, Basics
  <2>3. DOMAIN runs' = 1 .. Len(runs) /\ DOMAIN runs' = 1 .. Len(runs') /\ Len(runs') \in Nat
    <3>1. runs' \in Seq(RunRecords)
      BY <1>2, Basics DEF TelemetryTypeOK, RunRecords
    <3> QED BY <3>1, <2>1, <2>2, LenProperties
  <2>4. \A r \in 1 .. Len(runs) : runs'[r].st = "starting" => runs[r].st = "starting"
    <3>1. ASSUME NEW r \in 1 .. Len(runs), runs'[r].st = "starting" PROVE runs[r].st = "starting"
      <4>1. runs[r].st # "over" => runs'[r] = [agent |-> runs[r].agent, st |-> "gone", how |-> runs[r].how]
        <5>1. runs[r] = [agent |-> runs[r].agent, st |-> runs[r].st, how |-> runs[r].how]
          BY <1>1, <2>2, RunParts
        <5>2. [runs[r] EXCEPT !.st = "gone"] = [agent |-> runs[r].agent, st |-> "gone", how |-> runs[r].how]
          BY <5>1
        <5> QED BY <5>2, <2>1, <2>2
      <4>2. runs[r].st = "over" => runs'[r] = runs[r]
        BY <2>1, <2>2
      <4> QED BY <4>1, <4>2, <3>1
    <3> QED BY <3>1
  <2>5. 1 .. Len(runs) \subseteq 1 .. Len(runs')
    BY <2>3
  <2> QED BY <1>2, <2>4, <2>5, FreshShrinks
<1>6. StartsOnce'
  <2>1. BeginOnce(store) /\ Starts(store) \cap Fresh = {}
    BY <1>1 DEF StartsOnce
  <2>2. Known(EmptyFleet) \subseteq {0}
    BY NothingShown
  <2>3. 0 \notin Fresh
    <3>1. Runs = 1 .. Len(scene.cast) /\ Runs \subseteq Nat /\ SceneOK
      BY <1>1, SceneTyped DEF TelemetryTypeOK
    <3>2. Len(scene.cast) \in Nat
      BY <3>1, RunsAre
    <3> QED BY <3>1, <3>2 DEF Fresh
  <2> QED BY <1>3, <1>5, <2>1, <2>2, <2>3, NoStarts DEF StartsOnce
<1> QED BY <1>2, <1>4, <1>6 DEF LiveInvariant

(* The app reads the end of the store: a part of it begins no run twice either. *)
LEMMA ReadTailLive ==
  ASSUME LiveInvariant, ReadTail
  PROVE  LiveInvariant'
<1>1. TelemetryTypeOK /\ BooksRight /\ ViewRight /\ StartsOnce
  BY DEF LiveInvariant
<1>2. app = "off" /\ app' = "read" /\ fleet' = fleet /\ stream' = stream /\ left' = left /\ scrolls' = scrolls
      /\ queue' = queue /\ UNCHANGED restVars
  BY DEF ReadTail, telemetryVars, restVars
<1>3. TelemetryTypeOK' /\ BooksRight' /\ Fresh' = Fresh /\ Items' = Items
  <2>1. queue' = None \/ queue' \in Seq(Items)
    BY <1>1, <1>2 DEF TelemetryTypeOK
  <2> QED BY <1>1, <1>2, <2>1, OnlyTheQueue
<1>4. PICK s \in Seq(AgentEvents), n \in Nat : s = store /\ n = Len(s) /\ DOMAIN s = 1 .. n
  <2>1. store \in Seq(AgentEvents)
    BY <1>1 DEF TelemetryTypeOK
  <2>2. Len(store) \in Nat /\ DOMAIN store = 1 .. Len(store)
    BY <2>1, LenProperties
  <2> QED BY <2>1, <2>2
<1>5. PICK t : t = [i \in 1 .. n |-> Item(s[i], i)]
  OBVIOUS
<1>6. t \in Seq(Items) /\ Len(t) = n /\ Numbered = t
  <2>1. \A i \in 1 .. n : Item(s[i], i) \in Items
    <3>1. \A i \in 1 .. n : s[i] \in AgentEvents
      BY <1>4, ElementOfSeq
    <3> QED BY <3>1, ItemTyped
  <2>2. t \in [1 .. n -> Items]
    BY <1>5, <2>1
  <2> QED BY <2>2, <1>4, <1>5, FunctionIsSeq DEF Numbered
<1>7. PICK k \in Nat : k <= n /\ seed' = SubSeq(t, k + 1, Len(t))
  <2>1. seed' = SubSeq(t, IF n > SEED_TAIL THEN n - SEED_TAIL + 1 ELSE 1, n)
    BY <1>4, <1>6 DEF ReadTail
  <2>2. CASE n > SEED_TAIL
    <3>1. n - SEED_TAIL \in Nat /\ n - SEED_TAIL <= n
      BY <2>2, EngineRoomAssumption
    <3>2. seed' = SubSeq(t, n - SEED_TAIL + 1, n)
      BY <2>1, <2>2
    <3>3. PICK k : k = n - SEED_TAIL
      OBVIOUS
    <3> QED BY <3>1, <3>2, <3>3, <1>6
  <2>3. CASE ~(n > SEED_TAIL)
    <3>1. seed' = SubSeq(t, 1, n)
      BY <2>1, <2>3
    <3>2. PICK k \in Nat : k = 0
      OBVIOUS
    <3>3. k + 1 = 1 /\ k <= n
      BY <3>2
    <3> QED BY <3>1, <3>2, <3>3, <1>6
  <2> QED BY <2>2, <2>3
<1>8. /\ seed' \in Seq(Items) /\ Len(seed') = n - k
      /\ \A i \in 1 .. n - k : seed'[i] = t[k + i]
  BY <1>6, <1>7, RestOf
<1>9. BeginOnce(seed') /\ Starts(seed') \subseteq Starts(store)
  <2>1. ASSUME NEW i \in 1 .. Len(seed') PROVE i + k \in 1 .. Len(s) /\ Begins(seed'[i]) = Begins(s[i + k])
    <3>1. i + k \in 1 .. n /\ k + i = i + k
      BY <1>4, <1>7, <1>8, <2>1, SMTT(30)
    <3>2. seed'[i] = t[i + k]
      BY <1>8, <2>1, <3>1
    <3>3. PICK m \in 1 .. n : m = i + k
      BY <3>1
    <3>4. t[m] = Item(s[m], m)
      BY <1>5
    <3>5. Begins(t[m]) = Begins(s[m])
      BY <3>4 DEF Begins, Item
    <3> QED BY <1>4, <3>1, <3>2, <3>3, <3>5
  <2>2. Len(seed') \in Nat /\ Len(s) \in Nat
    BY <1>4, <1>7, <1>8
  <2>3. BeginOnce(s)
    BY <1>1, <1>4 DEF StartsOnce
  <2>4. PICK u : u = seed'
    OBVIOUS
  <2>5. BeginOnce(u) /\ Starts(u) \subseteq Starts(s)
    BY <2>1, <2>2, <2>3, <2>4, StartsOfPart
  <2> QED BY <2>4, <2>5, <1>4
<1>10. ViewRight'
  BY <1>1, <1>2, <1>3, <1>8 DEF ViewRight
<1>11. StartsOnce'
  <2>1. store' = store
    BY <1>2 DEF restVars
  <2> QED BY <1>1, <1>2, <1>3, <1>9, <2>1 DEF StartsOnce
<1> QED BY <1>3, <1>10, <1>11 DEF LiveInvariant

(* The fleet is seeded and the window filled for the first time. *)
LEMMA SubscribeLive ==
  ASSUME LiveInvariant, Subscribe
  PROVE  LiveInvariant'
<1>1. TelemetryTypeOK /\ BooksRight /\ ViewRight /\ StartsOnce
  BY DEF LiveInvariant
<1>2. app = "read" /\ app' = "on" /\ fleet' = SeedFleet(seed) /\ seed' = <<>> /\ queue' = <<>>
      /\ left' = left /\ scrolls' = scrolls /\ UNCHANGED restVars
  BY DEF Subscribe, restVars
<1>3. <<>> \in Seq(Items)
  BY EmptySeq
<1>4. TelemetryTypeOK' /\ BooksRight' /\ Fresh' = Fresh /\ Items' = Items
  BY <1>1, <1>2, <1>3, OnlyTheQueue
<1>5. seed \in Seq(Items) /\ BeginOnce(seed) /\ Starts(seed) \cap Fresh = {} /\ SceneOK /\ left \in Nat /\ scrolls \in Nat
  BY <1>1, SceneTyped DEF ViewRight, StartsOnce, TelemetryTypeOK
<1>6. PICK recent \in Seq(Items) : recent = seed
  BY <1>5
<1>7. FleetOK(SeedFleet(recent)) /\ Known(SeedFleet(recent)) \subseteq {0} \cup Starts(recent)
  BY <1>5, <1>6, SeededIs DEF Starts
<1>8. FleetOK(fleet') /\ Known(fleet') \cap Fresh = {}
  <2>1. 0 \notin Fresh
    <3>1. Runs = 1 .. Len(scene.cast) /\ Len(scene.cast) \in Nat
      BY <1>5, RunsAre
    <3> QED BY <3>1 DEF Fresh
  <2> QED BY <1>2, <1>5, <1>6, <1>7, <2>1
<1>9. WindowOK(stream', fleet'.entries, left)
  <2>1. stream = EmptyStream
    BY <1>1, <1>2 DEF ViewRight
  <2>2. PICK ds : ds = fleet'.entries
    OBVIOUS
  <2>3. ds \in Seq(Entries) /\ <<>> \in Seq(Entries) /\ Len(<<>>) <= Len(ds)
    <3>1. ds \in Seq(Entries)
      BY <1>8, <2>2 DEF FleetOK, Fleets
    <3> QED BY <3>1, LenProperties, EmptySeq
  <2>4. WindowOK(stream, <<>>, left)
    BY <2>1, NothingInView
  <2>5. WindowOK([SyncTail(stream, Merged(ds), stream.forwarded) EXCEPT !.forwarded = Len(Merged(ds))], ds, left)
    BY <1>5, <2>3, <2>4, Rendered
  <2>6. RenderLive(SeedFleet(seed)) /\ SeedFleet(seed).entries = ds
    BY <1>2, <2>2 DEF Subscribe
  <2>7. stream' = [SyncTail(stream, Merged(ds), stream.forwarded) EXCEPT !.forwarded = Len(Merged(ds))]
    BY <2>6 DEF RenderLive, Merged
  <2> QED BY <2>2, <2>5, <2>7
<1>10. ViewRight'
  BY <1>2, <1>3, <1>4, <1>5, <1>8, <1>9 DEF ViewRight
<1>11. StartsOnce'
  <2>1. store' = store
    BY <1>2 DEF restVars
  <2> QED BY <1>1, <1>2, <1>4, <1>8, <2>1, NoStarts DEF StartsOnce
<1> QED BY <1>4, <1>10, <1>11 DEF LiveInvariant

(* What an item does to the fleet when it is taken from the queue. *)
LEMMA TakenStands ==
  ASSUME LiveInvariant, TakeItem
  PROVE  /\ FleetOK(fleet') /\ Stands(fleet.entries, fleet'.entries)
         /\ Known(fleet') \cap Fresh = {} /\ queue' \in Seq(Items)
         /\ BeginOnce(queue') /\ Starts(queue') \cap (Fresh \cup Known(fleet')) = {}
<1>1. TelemetryTypeOK /\ ViewRight /\ StartsOnce
  BY DEF LiveInvariant
<1>2. app = "on" /\ queue # <<>> /\ fleet' = ApplyFleet(fleet, Head(queue)) /\ queue' = Tail(queue)
  BY DEF TakeItem
<1>3. PICK q \in Seq(Items) : q = queue /\ q # <<>>
  BY <1>1, <1>2 DEF ViewRight
<1>4. PICK item \in Items : item = Head(q)
  BY <1>3, HeadTailProperties
<1>5. PICK t \in Seq(Items) : t = Tail(q)
  BY <1>3, HeadTailProperties
<1>6. Len(q) \in Nat /\ Len(t) \in Nat /\ Len(t) = Len(q) - 1 /\ 1 \in 1 .. Len(q) /\ item = q[1]
      /\ \A i \in 1 .. Len(t) : t[i] = q[i + 1] /\ i + 1 \in 1 .. Len(q) /\ i + 1 # 1
  <2>1. Len(q) \in Nat /\ Len(q) # 0
    BY <1>3, LenProperties, EmptySeq
  <2>2. Len(t) = Len(q) - 1 /\ \A i \in 1 .. Len(t) : t[i] = q[i + 1]
    BY <1>3, <1>5, HeadTailProperties
  <2>3. item = q[1]
    BY <1>3, <1>4
  <2> QED BY <2>1, <2>2, <2>3
<1>7. BeginOnce(q) /\ Starts(q) \cap (Fresh \cup Known(fleet)) = {} /\ Known(fleet) \cap Fresh = {}
  BY <1>1, <1>2, <1>3 DEF StartsOnce
<1>8. Begins(item) \subseteq Starts(q)
  BY <1>6 DEF Starts
<1>9. /\ FleetOK(fleet') /\ Stands(fleet.entries, fleet'.entries) /\ Known(fleet') \subseteq Known(fleet) \cup Begins(item)
  <2>1. SceneOK /\ FleetOK(fleet) /\ Begins(item) \cap Known(fleet) = {}
    BY <1>1, <1>7, <1>8, SceneTyped DEF TelemetryTypeOK, ViewRight
  <2>2. fleet' = ApplyFleet(fleet, item)
    BY <1>2, <1>3, <1>4
  <2> QED BY <2>1, <2>2, ItemTaken
<1>10. BeginOnce(t) /\ Starts(t) \subseteq Starts(q)
  BY <1>6, <1>7, StartsOfPart
<1>11. Begins(item) \cap Starts(t) = {}
  <2>1. \A i \in 1 .. Len(t) : Begins(t[i]) \cap Begins(item) = {}
    BY <1>6, <1>7 DEF BeginOnce
  <2> QED BY <2>1 DEF Starts
<1> QED BY <1>2, <1>3, <1>5, <1>7, <1>8, <1>9, <1>10, <1>11

(* An item is folded into the fleet and the window follows. *)
LEMMA TakeItemLive ==
  ASSUME LiveInvariant, TakeItem
  PROVE  LiveInvariant'
<1>1. TelemetryTypeOK /\ BooksRight /\ ViewRight /\ StartsOnce
  BY DEF LiveInvariant
<1>2. app = "on" /\ app' = "on" /\ fleet' = ApplyFleet(fleet, Head(queue)) /\ seed' = seed
      /\ left' = left /\ scrolls' = scrolls /\ UNCHANGED restVars
  BY DEF TakeItem, restVars
<1>3. /\ FleetOK(fleet') /\ Stands(fleet.entries, fleet'.entries)
      /\ Known(fleet') \cap Fresh = {} /\ queue' \in Seq(Items)
      /\ BeginOnce(queue') /\ Starts(queue') \cap (Fresh \cup Known(fleet')) = {}
  BY TakenStands
<1>4. TelemetryTypeOK' /\ BooksRight' /\ Fresh' = Fresh /\ Items' = Items
  BY <1>1, <1>2, <1>3, OnlyTheQueue
<1>5. WindowOK(stream', fleet'.entries, left)
  <2>1. PICK es \in Seq(Entries), ds \in Seq(Entries) : es = fleet.entries /\ ds = fleet'.entries
    BY <1>1, <1>3 DEF ViewRight, FleetOK, Fleets
  <2>2. WindowOK(stream, es, left) /\ left \in Nat /\ Len(es) <= Len(ds)
    BY <1>1, <1>3, <2>1 DEF ViewRight, Stands
  <2>3. WindowOK([SyncTail(stream, Merged(ds), stream.forwarded) EXCEPT !.forwarded = Len(Merged(ds))], ds, left)
    BY <2>2, Rendered
  <2>4. RenderLive(ApplyFleet(fleet, Head(queue))) /\ ApplyFleet(fleet, Head(queue)).entries = ds
    BY <1>2, <2>1 DEF TakeItem
  <2>5. stream' = [SyncTail(stream, Merged(ds), stream.forwarded) EXCEPT !.forwarded = Len(Merged(ds))]
    BY <2>4 DEF RenderLive, Merged
  <2> QED BY <2>1, <2>3, <2>5
<1>6. ViewRight'
  BY <1>1, <1>2, <1>3, <1>4, <1>5 DEF ViewRight
<1>7. StartsOnce'
  <2>1. store' = store
    BY <1>2 DEF restVars
  <2> QED BY <1>1, <1>2, <1>3, <1>4, <2>1 DEF StartsOnce
<1> QED BY <1>4, <1>6, <1>7 DEF LiveInvariant

(* The reader comes to the end of the stream or leaves it. *)
LEMMA ScrollLive ==
  ASSUME LiveInvariant, NEW atBottom \in BOOLEAN, Scroll(atBottom)
  PROVE  LiveInvariant'
<1>1. TelemetryTypeOK /\ BooksRight /\ ViewRight /\ StartsOnce
  BY DEF LiveInvariant
<1>2. /\ app = "on" /\ app' = app /\ fleet' = fleet /\ seed' = seed /\ queue' = queue /\ UNCHANGED restVars
      /\ scrolls' = scrolls + 1
  BY DEF Scroll, telemetryVars, restVars
<1>3. TelemetryTypeOK' /\ BooksRight' /\ Fresh' = Fresh /\ Items' = Items
  <2>1. queue' = None \/ queue' \in Seq(Items)
    BY <1>1, <1>2 DEF TelemetryTypeOK
  <2> QED BY <1>1, <1>2, <2>1, OnlyTheQueue
<1>4. PICK v \in Windows : v = stream /\ WindowOK(v, fleet.entries, left)
  BY <1>1 DEF ViewRight, WindowOK
<1>5. PICK base \in Nat, bs \in Seq(Blocks), follow \in BOOLEAN, unseen \in Nat, forwarded \in Nat :
        /\ v.base = base /\ v.blocks = bs /\ v.follow = follow /\ v.unseen = unseen /\ v.forwarded = forwarded
        /\ v = [base |-> base, blocks |-> bs, follow |-> follow, unseen |-> unseen, forwarded |-> forwarded]
  BY WindowParts
<1>6. left \in Nat /\ scrolls \in Nat /\ Total(v) = base + Len(bs) /\ Len(bs) \in Nat
  <2>1. Len(bs) \in Nat
    BY LenProperties
  <2> QED BY <2>1, <1>1, <1>5 DEF ViewRight, Total
<1>7. left' = (IF follow /\ ~atBottom THEN base + Len(bs) ELSE left)
  BY <1>4, <1>5, <1>6 DEF Scroll
<1>8. WindowOK(stream', fleet.entries, left') /\ left' \in Nat
  <2>1. CASE atBottom
    <3>1. PICK t : t = [base |-> base, blocks |-> bs, follow |-> TRUE, unseen |-> 0, forwarded |-> forwarded]
      OBVIOUS
    <3>2. stream' = t /\ left' = left
      <4>1. PICK b \in BOOLEAN, n \in Nat : b = TRUE /\ n = 0
        BY Zenon
      <4>2. PICK u : u = [v EXCEPT !.follow = b]
        OBVIOUS
      <4>3. u = [base |-> base, blocks |-> bs, follow |-> b, unseen |-> unseen, forwarded |-> forwarded]
        BY <1>5, <4>2
      <4>4. [u EXCEPT !.unseen = n]
            = [base |-> base, blocks |-> bs, follow |-> b, unseen |-> n, forwarded |-> forwarded]
        BY <4>3
      <4>5. [v EXCEPT !.follow = b, !.unseen = n] = [u EXCEPT !.unseen = n]
        BY <4>2
      <4>6. stream' = [v EXCEPT !.follow = TRUE, !.unseen = 0]
        BY <2>1, <1>4, Zenon DEF Scroll
      <4>7. stream' = [v EXCEPT !.follow = b, !.unseen = n]
        BY <4>1, <4>6, Zenon
      <4>8. stream' = [base |-> base, blocks |-> bs, follow |-> b, unseen |-> n, forwarded |-> forwarded]
        BY <4>4, <4>5, <4>7, Zenon
      <4>9. stream' = t
        BY <4>1, <4>8, <3>1, Zenon
      <4> QED BY <4>9, <2>1, <1>7
    <3>3. t \in Windows
      BY <3>1, WindowOf
    <3>4. t.base = base /\ t.blocks = bs /\ t.follow = TRUE /\ t.unseen = 0 /\ t.forwarded = forwarded
      BY <3>1
    <3> QED BY <1>4, <1>5, <1>6, <3>2, <3>3, <3>4 DEF WindowOK, Total
  <2>2. CASE ~atBottom
    <3>1. PICK t : t = [base |-> base, blocks |-> bs, follow |-> FALSE, unseen |-> unseen, forwarded |-> forwarded]
      OBVIOUS
    <3>2. stream' = t
      <4>1. PICK b : b = FALSE
        OBVIOUS
      <4>2. [v EXCEPT !.follow = b]
            = [base |-> base, blocks |-> bs, follow |-> b, unseen |-> unseen, forwarded |-> forwarded]
        BY <1>5
      <4>3. stream' = [v EXCEPT !.follow = FALSE]
        BY <2>2, <1>4, Zenon DEF Scroll
      <4>4. stream' = [v EXCEPT !.follow = b]
        BY <4>1, <4>3, Zenon
      <4> QED BY <4>1, <4>2, <4>4, <3>1, Zenon
    <3>3. t \in Windows
      BY <3>1, WindowOf
    <3>4. t.base = base /\ t.blocks = bs /\ t.follow = FALSE /\ t.unseen = unseen /\ t.forwarded = forwarded
      BY <3>1
    <3>5. (follow => unseen = 0) /\ (~follow => left <= base + Len(bs) /\ unseen = base + Len(bs) - left)
      BY <1>4, <1>5, <1>6 DEF WindowOK
    <3>6. left' <= base + Len(bs) /\ unseen = base + Len(bs) - left' /\ left' \in Nat
      BY <1>6, <1>7, <2>2, <3>5
    <3> QED BY <1>4, <1>5, <1>6, <3>2, <3>3, <3>4, <3>6 DEF WindowOK, Total
  <2> QED BY <2>1, <2>2
<1>9. ViewRight'
  BY <1>1, <1>2, <1>3, <1>6, <1>8 DEF ViewRight
<1>10. StartsOnce'
  <2>1. store' = store
    BY <1>2 DEF restVars
  <2> QED BY <1>1, <1>2, <1>3, <2>1 DEF StartsOnce
<1> QED BY <1>3, <1>9, <1>10 DEF LiveInvariant

(* Nothing happens. *)
LEMMA LiveStutters ==
  ASSUME LiveInvariant, UNCHANGED liveVars
  PROVE  LiveInvariant'
<1>1. TelemetryTypeOK /\ BooksRight /\ ViewRight /\ StartsOnce
  BY DEF LiveInvariant
<1>2. /\ queue' = queue /\ UNCHANGED restVars
      /\ app' = app /\ seed' = seed /\ fleet' = fleet /\ stream' = stream /\ left' = left /\ scrolls' = scrolls
      /\ store' = store
  BY DEF liveVars, telemetryVars, viewVars, restVars
<1>3. TelemetryTypeOK' /\ BooksRight' /\ Fresh' = Fresh /\ Items' = Items
  <2>1. queue' = None \/ queue' \in Seq(Items)
    BY <1>1, <1>2 DEF TelemetryTypeOK
  <2> QED BY <1>1, <1>2, <2>1, OnlyTheQueue
<1>4. ViewRight'
  BY <1>1, <1>2, <1>3 DEF ViewRight
<1>5. StartsOnce'
  BY <1>1, <1>2, <1>3 DEF StartsOnce
<1> QED BY <1>3, <1>4, <1>5 DEF LiveInvariant

(* Every step keeps it. *)
LEMMA LiveStep ==
  ASSUME LiveInvariant, [LiveNext]_liveVars
  PROVE  LiveInvariant'
<1>1. CASE Machinery /\ UNCHANGED viewVars
  BY <1>1, MachineryLive
<1>2. CASE Restart
  BY <1>2, RestartLive
<1>3. CASE ReadTail
  BY <1>3, ReadTailLive
<1>4. CASE Subscribe
  BY <1>4, SubscribeLive
<1>5. CASE TakeItem
  BY <1>5, TakeItemLive
<1>6. CASE Scroll(TRUE)
  <2>1. TRUE \in BOOLEAN
    OBVIOUS
  <2> QED BY <1>6, <2>1, ScrollLive, Zenon
<1>7. CASE Scroll(FALSE)
  <2>1. FALSE \in BOOLEAN
    OBVIOUS
  <2> QED BY <1>7, <2>1, ScrollLive, Zenon
<1>8. CASE UNCHANGED liveVars
  BY <1>8, LiveStutters
<1> QED BY <1>1, <1>2, <1>3, <1>4, <1>5, <1>6, <1>7, <1>8, Zenon DEF LiveNext

(* In every state of the machinery and the app, the books of the runs are right, each
   run's start has been told of once, and the window is the end of the stream. *)
THEOREM LiveCorrect == LiveSpec => []LiveInvariant
<1>1. LiveInit => LiveInvariant
  BY LiveInitially
<1>2. LiveInvariant /\ [LiveNext]_liveVars => LiveInvariant'
  BY LiveStep
<1> QED BY <1>1, <1>2, PTL DEF LiveSpec

(* Type correctness of the telemetry and of the Engine Room over it. *)
THEOREM LiveTypeCorrect == LiveSpec => []LiveTypeOK
<1>1. LiveInvariant => LiveTypeOK
  BY DEF LiveInvariant, ViewRight, LiveTypeOK, FleetOK, WindowOK
<1> QED BY <1>1, LiveCorrect, PTL

(* The mounted blocks are the last of the stream of all agents, and a reader who is away
   is told how many have come since. *)
THEOREM WindowAlwaysTail == LiveSpec => []WindowIsTail
<1>1. LiveInvariant => WindowIsTail
  <2> SUFFICES ASSUME LiveInvariant, app = "on" PROVE WindowIsTail
    BY DEF WindowIsTail
  <2>1. WindowOK(stream, fleet.entries, left)
    BY DEF LiveInvariant, ViewRight
  <2>2. PICK v \in Windows : v = stream
    BY <2>1 DEF WindowOK
  <2>3. v.blocks \in Seq(Blocks) /\ v.follow \in BOOLEAN
    BY WindowParts
  <2>4. DOMAIN v.blocks = 1 .. Len(v.blocks)
    BY <2>3, LenProperties
  <2>5. v.unseen = IF v.follow THEN 0 ELSE Total(v) - left
    BY <2>1, <2>2, <2>3 DEF WindowOK
  <2>6. Total(v) = Len(fleet.entries) /\ \A i \in DOMAIN v.blocks : v.blocks[i] = fleet.entries[v.base + i].block
    BY <2>1, <2>2, <2>4 DEF WindowOK
  <2> QED BY <2>2, <2>5, <2>6 DEF WindowIsTail
<1> QED BY <1>1, LiveCorrect, PTL

(* Once a run has told its end the recorder keeps nothing of it. *)
THEOREM NothingStaysBehind == LiveSpec => []NothingLeftBehind
<1>1. LiveInvariant => NothingLeftBehind
  <2> SUFFICES ASSUME LiveInvariant, NEW r \in DOMAIN runs, runs[r].st = "over"
               PROVE  r \notin open /\ counts[r] = 0 /\ segments[r] = None /\ flushes[r] = <<>>
    BY DEF NothingLeftBehind
  <2>1. TelemetryTypeOK /\ BooksRight
    BY DEF LiveInvariant
  <2>2. RunRight(r)
    BY <2>1, Basics DEF BooksRight
  <2> QED BY <2>2 DEF RunRight
<1> QED BY <1>1, LiveCorrect, PTL

(* A block of the stream keeps its place and its kind as long as the app lives. *)
THEOREM PlacesAlwaysKept == LiveSpec => PlacesKept
<1> DEFINE Held ==
      app' # "off" =>
        \A i \in DOMAIN fleet.entries :
          /\ i \in DOMAIN fleet'.entries /\ fleet'.entries[i].run = fleet.entries[i].run
          /\ fleet'.entries[i].block.kind = fleet.entries[i].block.kind
<1>1. ASSUME LiveInvariant, [LiveNext]_liveVars PROVE Held
  <2>1. ASSUME fleet' = fleet PROVE Held
    BY <2>1
  <2>2. CASE Machinery /\ UNCHANGED viewVars
    BY <2>1, <2>2 DEF viewVars
  <2>3. CASE Restart
    BY <2>3 DEF Restart
  <2>4. CASE ReadTail
    BY <2>1, <2>4 DEF ReadTail
  <2>5. CASE Subscribe
    <3>1. fleet.entries = <<>>
      BY <1>1, <2>5, NothingShown DEF LiveInvariant, ViewRight, Subscribe
    <3> QED BY <3>1
  <2>6. CASE TakeItem
    <3>1. FleetOK(fleet) /\ FleetOK(fleet') /\ Stands(fleet.entries, fleet'.entries)
      BY <1>1, <2>6, TakenStands DEF LiveInvariant, ViewRight
    <3>2. PICK es \in Seq(Entries), ds \in Seq(Entries) : es = fleet.entries /\ ds = fleet'.entries
      BY <3>1 DEF FleetOK, Fleets
    <3>3. DOMAIN es = 1 .. Len(es) /\ DOMAIN ds = 1 .. Len(ds) /\ Len(es) \in Nat /\ Len(ds) \in Nat
      BY LenProperties
    <3>4. \A i \in DOMAIN es : i \in DOMAIN ds /\ ds[i].run = es[i].run /\ ds[i].block.kind = es[i].block.kind
      BY <3>1, <3>2, <3>3 DEF Stands
    <3> QED BY <3>2, <3>4
  <2>7. CASE Scroll(TRUE) \/ Scroll(FALSE)
    <3>1. fleet' = fleet
      <4>1. ASSUME NEW b \in BOOLEAN, Scroll(b) PROVE fleet' = fleet
        BY <4>1 DEF Scroll
      <4>2. TRUE \in BOOLEAN /\ FALSE \in BOOLEAN
        OBVIOUS
      <4> QED BY <2>7, <4>1, <4>2, Zenon
    <3> QED BY <2>1, <3>1
  <2>8. CASE UNCHANGED liveVars
    BY <2>1, <2>8 DEF liveVars, viewVars
  <2> QED BY <1>1, <2>2, <2>3, <2>4, <2>5, <2>6, <2>7, <2>8, Zenon DEF LiveNext
<1>2. LiveInvariant /\ [LiveNext]_liveVars => [Held]_liveVars
  BY <1>1
<1> QED BY <1>2, LiveCorrect, PTL DEF LiveSpec, PlacesKept
-----------------------------------------------------------------------------
(* Transcripts.  A list of lists laid end to end is built up list by list: *)
FlatBy(h, f, n) == h = [k \in 1 .. n |-> IF k = 1 THEN f[k] ELSE h[k - 1] \o f[k]]

(* there is such a building up, whatever the lists are. *)
LEMMA FlatExists ==
  ASSUME NEW f, NEW n \in Nat
  PROVE  \E h : FlatBy(h, f, n)
<1> DEFINE Laid(h, k) == IF k = 1 THEN f[k] ELSE h[k - 1] \o f[k]
           Upto(h, j) == \A k \in 1 .. n : k <= j => h[k] = Laid(h, k)
           Bad == {j \in Nat : ~ \E h : Upto(h, j)}
<1> HIDE DEF Upto
<1>1. \E h : Upto(h, n)
  <2> SUFFICES ASSUME ~ \E h : Upto(h, n) PROVE FALSE
    OBVIOUS
  <2>1. PICK B : B = Bad
    OBVIOUS
  <2>2. B \subseteq Nat /\ B # {}
    BY <2>1
  <2>3. PICK m \in B : \A y \in B : m <= y
    BY <2>2, LeastNumber
  <2>4. m \in Nat /\ ~ \E h : Upto(h, m)
    BY <2>1
  <2>5. m # 0
    <3> SUFFICES ASSUME m = 0 PROVE FALSE
      OBVIOUS
    <3>1. \A k \in 1 .. n : ~(k <= 0)
      OBVIOUS
    <3>2. Upto(<<>>, m)
      BY <3>1 DEF Upto
    <3> QED BY <2>4, <3>2
  <2>6. PICK j \in Nat : m = j + 1
    BY <2>4, <2>5
  <2>7. PICK g : Upto(g, j)
    <3>1. j \notin B
      BY <2>3, <2>6
    <3> QED BY <2>1, <3>1
  <2>8. PICK h : h = [k \in 1 .. n |-> Laid(g, k)]
    OBVIOUS
  <2>9. ASSUME NEW k \in 1 .. n, k <= m PROVE h[k] = Laid(h, k)
    <3>1. h[k] = Laid(g, k)
      BY <2>8
    <3>2. CASE k = 1
      BY <3>1, <3>2
    <3>3. CASE k # 1
      <4>1. PICK l \in 1 .. n : l = k - 1 /\ l <= j
        BY <2>6, <2>9, <3>3
      <4>2. h[l] = g[l]
        <5>1. h[l] = Laid(g, l)
          BY <2>8
        <5>2. g[l] = Laid(g, l)
          BY <2>7, <4>1 DEF Upto
        <5> HIDE DEF Laid
        <5> QED BY <5>1, <5>2
      <4>3. h[k - 1] = g[k - 1]
        BY <4>1, <4>2
      <4> QED BY <3>1, <3>3, <4>3
    <3> QED BY <3>2, <3>3
  <2>10. Upto(h, m)
    <3> HIDE DEF Laid
    <3> QED BY <2>9 DEF Upto
  <2> QED BY <2>4, <2>10
<1>2. PICK g : Upto(g, n)
  BY <1>1
<1>3. PICK h : h = [k \in 1 .. n |-> g[k]]
  OBVIOUS
<1>4. ASSUME NEW k \in 1 .. n PROVE h[k] = Laid(h, k)
  <2>1. h[k] = Laid(g, k)
    BY <1>2, <1>3 DEF Upto
  <2>2. k # 1 => h[k - 1] = g[k - 1]
    <3>1. k # 1 => k - 1 \in 1 .. n
      OBVIOUS
    <3> QED BY <1>3, <3>1
  <2> QED BY <2>1, <2>2
<1>5. h = [k \in 1 .. n |-> Laid(h, k)]
  <2> HIDE DEF Laid
  <2> QED BY <1>3, <1>4
<1> QED BY <1>5 DEF FlatBy

(* A chain of lists, each the one before with one more behind it *)
Linked(g, f, n) == \A k \in 1 .. n : g[k] = g[k - 1] \o f[k]
Chain(g, f, n) == g \in [0 .. n -> Seq(Nat)] /\ g[0] = <<>> /\ Linked(g, f, n)

(* A list over no positions is the empty one. *)
LEMMA EmptyList == ASSUME NEW f, DOMAIN f = 1 .. 0, f = [k \in 1 .. 0 |-> f[k]] PROVE f = <<>>
OBVIOUS

(* What FlattenSeq makes of lists is the end of the chain that they build. *)
LEMMA FlatIs ==
  ASSUME NEW n \in Nat, NEW f \in [1 .. n -> Seq(Nat)]
  PROVE  \E g : Chain(g, f, n) /\ FlattenSeq(f) = g[n]
<1>1. Len(f) = n
  BY FunctionIsSeq
<1>2. CASE n = 0
  <2>1. FlattenSeq(f) = f
    BY <1>1, <1>2 DEF FlattenSeq
  <2>2. f = <<>>
    BY <1>2, EmptyList
  <2>3. PICK g : g = [k \in 0 .. 0 |-> <<>>]
    OBVIOUS
  <2>4. <<>> \in Seq(Nat)
    BY EmptySeq
  <2>5. Chain(g, f, n) /\ g[n] = <<>>
    BY <1>2, <2>3, <2>4 DEF Chain, Linked
  <2> QED BY <2>1, <2>2, <2>5
<1>3. CASE n # 0
  <2> DEFINE flatten == CHOOSE h : FlatBy(h, f, n)
  <2>1. FlattenSeq(f) = flatten[n]
    <3>1. PICK m : m = Len(f) /\ m = n
      BY <1>1
    <3> DEFINE other == CHOOSE h : h = [i \in 1 .. m |-> IF i = 1 THEN f[i] ELSE h[i - 1] \o f[i]]
    <3>2. FlattenSeq(f) = other[m]
      BY <3>1, <1>3 DEF FlattenSeq
    <3>3. other = flatten
      BY <3>1 DEF FlatBy
    <3> HIDE DEF other, flatten
    <3> QED BY <3>1, <3>2, <3>3
  <2>2. FlatBy(flatten, f, n)
    <3>1. \E h : FlatBy(h, f, n)
      BY FlatExists, Zenon
    <3> QED BY <3>1, Zenon
  <2>3. PICK h : h = flatten /\ FlatBy(h, f, n)
    BY <2>2, Zenon
  <2> HIDE DEF flatten
  <2>4. \A k \in 1 .. n : h[k] = IF k = 1 THEN f[k] ELSE h[k - 1] \o f[k]
    BY <2>3 DEF FlatBy
  <2>5. \A k \in 1 .. n : h[k] \in Seq(Nat)
    <3> DEFINE Listed(k) == k \in 1 .. n => h[k] \in Seq(Nat)
    <3>1. PICK B : B = {k \in Nat : ~Listed(k)}
      OBVIOUS
    <3>2. B = {}
      <4> SUFFICES ASSUME B # {} PROVE FALSE
        OBVIOUS
      <4>1. B \subseteq Nat
        BY <3>1
      <4>2. PICK k \in B : \A y \in B : k <= y
        BY <4>1, LeastNumber
      <4>3. k \in 1 .. n /\ h[k] \notin Seq(Nat)
        BY <3>1
      <4>4. CASE k = 1
        BY <2>4, <4>3, <4>4
      <4>5. CASE k # 1
        <5>1. PICK l \in 1 .. n : k = l + 1
          <6>1. k - 1 \in 1 .. n /\ k = (k - 1) + 1
            BY <4>3, <4>5
          <6> QED BY <6>1
        <5>2. l \notin B
          BY <5>1, <4>2
        <5>3. h[l] \in Seq(Nat)
          BY <3>1, <5>1, <5>2
        <5>4. h[k] = h[l] \o f[k]
          <6>1. k - 1 = l
            BY <5>1
          <6> QED BY <2>4, <4>3, <4>5, <6>1
        <5>5. f[k] \in Seq(Nat)
          BY <4>3
        <5>6. h[l] \o f[k] \in Seq(Nat)
          BY <5>3, <5>5, ConcatProperties
        <5> QED BY <4>3, <5>4, <5>6
      <4> QED BY <4>4, <4>5
    <3> HIDE DEF Listed
    <3>3. \A k \in 1 .. n : Listed(k)
      BY <3>1, <3>2
    <3> QED BY <3>3 DEF Listed
  <2>6. PICK g : g = [k \in 0 .. n |-> IF k = 0 THEN <<>> ELSE h[k]]
    OBVIOUS
  <2>7. g \in [0 .. n -> Seq(Nat)] /\ g[0] = <<>> /\ \A k \in 1 .. n : g[k] = h[k]
    <3>1. <<>> \in Seq(Nat)
      BY EmptySeq
    <3> QED BY <2>5, <2>6, <3>1
  <2>8. ASSUME NEW k \in 1 .. n PROVE g[k] = g[k - 1] \o f[k]
    <3>1. CASE k = 1
      <4>1. f[k] \in Seq(Nat)
        OBVIOUS
      <4>2. <<>> \o f[k] = f[k]
        BY <4>1, ConcatEmptySeq
      <4>3. g[k] = f[k]
        BY <2>4, <2>7, <3>1
      <4>4. k - 1 = 0
        BY <3>1
      <4>5. g[k - 1] = <<>>
        BY <4>4, <2>7
      <4> QED BY <4>2, <4>3, <4>5
    <3>2. CASE k # 1
      <4>1. k - 1 \in 1 .. n
        BY <3>2
      <4> QED BY <2>4, <2>7, <3>2, <4>1
    <3> QED BY <3>1, <3>2
  <2>9. Chain(g, f, n)
    BY <2>7, <2>8 DEF Chain, Linked
  <2>10. g[n] = h[n]
    BY <1>3, <2>7
  <2> QED BY <2>1, <2>3, <2>9, <2>10
<1> QED BY <1>2, <1>3

(* Chains of the same lists are the same. *)
LEMMA ChainsAgree ==
  ASSUME NEW n \in Nat, NEW f, NEW g, NEW h, g[0] = h[0], Linked(g, f, n), Linked(h, f, n)
  PROVE  \A k \in 0 .. n : g[k] = h[k]
<1> DEFINE Same(k) == k \in 0 .. n => g[k] = h[k]
<1>1. PICK B : B = {k \in Nat : ~Same(k)}
  OBVIOUS
<1>2. B = {}
  <2> SUFFICES ASSUME B # {} PROVE FALSE
    OBVIOUS
  <2>1. B \subseteq Nat
    BY <1>1
  <2>2. PICK k \in B : \A y \in B : k <= y
    BY <2>1, LeastNumber
  <2>3. k \in 0 .. n /\ g[k] # h[k]
    BY <1>1
  <2>4. k # 0
    BY <2>3
  <2>5. PICK l \in 0 .. n : k = l + 1 /\ k \in 1 .. n
    <3>1. k - 1 \in 0 .. n /\ k = (k - 1) + 1 /\ k \in 1 .. n
      BY <2>3, <2>4
    <3> QED BY <3>1
  <2>6. l \notin B
    BY <2>2, <2>5
  <2>7. g[l] = h[l]
    BY <1>1, <2>5, <2>6
  <2>8. g[k] = g[l] \o f[k] /\ h[k] = h[l] \o f[k]
    <3>1. k - 1 = l
      BY <2>5
    <3> QED BY <2>5, <3>1 DEF Linked
  <2> QED BY <2>3, <2>7, <2>8
<1> HIDE DEF Same
<1>3. \A k \in 0 .. n : Same(k)
  BY <1>1, <1>2
<1> QED BY <1>3 DEF Same

(* It does not matter which two of three lists are joined first. *)
LEMMA JoinedAnyway ==
  ASSUME NEW a \in Seq(Nat), NEW b \in Seq(Nat), NEW c \in Seq(Nat)
  PROVE  (a \o b) \o c = a \o (b \o c)
BY ConcatAssociative

(* One more list comes behind the others. *)
LEMMA FlatMore ==
  ASSUME NEW n \in Nat, NEW f \in [1 .. n + 1 -> Seq(Nat)], NEW e \in [1 .. n -> Seq(Nat)],
         \A k \in 1 .. n : e[k] = f[k]
  PROVE  /\ FlattenSeq(e) \in Seq(Nat) /\ FlattenSeq(f) \in Seq(Nat)
         /\ FlattenSeq(f) = FlattenSeq(e) \o f[n + 1]
<1>1. PICK g : Chain(g, e, n) /\ FlattenSeq(e) = g[n]
  BY FlatIs
<1>2. PICK h : Chain(h, f, n + 1) /\ FlattenSeq(f) = h[n + 1]
  <2>1. PICK m \in Nat : m = n + 1
    OBVIOUS
  <2>2. f \in [1 .. m -> Seq(Nat)]
    BY <2>1
  <2> QED BY <2>1, <2>2, FlatIs
<1>3. ASSUME NEW k \in 1 .. n PROVE g[k] = g[k - 1] \o f[k] /\ h[k] = h[k - 1] \o f[k]
  <2>1. g[k] = g[k - 1] \o e[k] /\ e[k] = f[k]
    BY <1>1 DEF Chain, Linked
  <2>2. k \in 1 .. n + 1
    OBVIOUS
  <2>3. h[k] = h[k - 1] \o f[k]
    BY <2>2, <1>2 DEF Chain, Linked
  <2> QED BY <2>1, <2>3
<1>4. g[0] = h[0]
  BY <1>1, <1>2 DEF Chain, Linked
<1>5. g[n] = h[n]
  <2>1. \A k \in 0 .. n : g[k] = h[k]
    <3>1. Linked(g, f, n) /\ Linked(h, f, n)
      BY <1>3 DEF Linked
    <3> QED BY <3>1, <1>4, ChainsAgree
  <2>2. n \in 0 .. n
    OBVIOUS
  <2> QED BY <2>1, <2>2
<1>6. h[n + 1] = h[n] \o f[n + 1]
  <2>1. n + 1 \in 1 .. n + 1 /\ (n + 1) - 1 = n
    OBVIOUS
  <2> QED BY <2>1, <1>2 DEF Chain, Linked
<1>7. g[n] \in Seq(Nat) /\ h[n + 1] \in Seq(Nat)
  BY <1>1, <1>2 DEF Chain, Linked
<1> QED BY <1>1, <1>2, <1>5, <1>6, <1>7

(* One more list comes before the others. *)
LEMMA FlatFirst ==
  ASSUME NEW n \in Nat, NEW f \in [1 .. n + 1 -> Seq(Nat)], NEW e \in [1 .. n -> Seq(Nat)],
         \A k \in 1 .. n : e[k] = f[k + 1]
  PROVE  FlattenSeq(f) = f[1] \o FlattenSeq(e) /\ FlattenSeq(e) \in Seq(Nat)
<1>1. PICK g : Chain(g, e, n) /\ FlattenSeq(e) = g[n]
  BY FlatIs
<1>2. PICK h : Chain(h, f, n + 1) /\ FlattenSeq(f) = h[n + 1]
  <2>1. PICK m \in Nat : m = n + 1
    OBVIOUS
  <2>2. f \in [1 .. m -> Seq(Nat)]
    BY <2>1
  <2> QED BY <2>1, <2>2, FlatIs
<1>3. PICK a \in Seq(Nat) : a = f[1]
  OBVIOUS
<1>4. PICK p : p = [k \in 0 .. n |-> a \o g[k]]
  OBVIOUS
<1>5. PICK q : q = [k \in 0 .. n |-> h[k + 1]]
  OBVIOUS
<1>6. \A k \in 0 .. n : g[k] \in Seq(Nat)
  BY <1>1 DEF Chain, Linked
<1>7. p[0] = q[0]
  <2>0. 0 \in 0 .. n
    OBVIOUS
  <2>1. p[0] = a \o <<>>
    BY <1>1, <1>4, <2>0 DEF Chain, Linked
  <2>2. a \o <<>> = a /\ <<>> \o a = a
    BY ConcatEmptySeq
  <2>3. q[0] = h[0] \o f[1]
    <3>1. 1 \in 1 .. n + 1 /\ 1 - 1 = 0
      OBVIOUS
    <3>2. h[1] = h[0] \o f[1]
      BY <3>1, <1>2 DEF Chain, Linked
    <3>3. q[0] = h[1]
      BY <1>5
    <3> QED BY <3>2, <3>3
  <2>4. h[0] = <<>>
    BY <1>2 DEF Chain, Linked
  <2> QED BY <2>1, <2>2, <2>3, <2>4, <1>3
<1>8. ASSUME NEW k \in 1 .. n PROVE p[k] = p[k - 1] \o e[k] /\ q[k] = q[k - 1] \o e[k]
  <2>1. PICK l \in 0 .. n : l = k - 1
    OBVIOUS
  <2>2. g[k] = g[l] \o e[k]
    BY <1>1, <2>1 DEF Chain, Linked
  <2>3. g[l] \in Seq(Nat) /\ e[k] \in Seq(Nat)
    BY <1>6
  <2>4. (a \o g[l]) \o e[k] = a \o (g[l] \o e[k])
    <3>1. PICK b \in Seq(Nat), c \in Seq(Nat) : b = g[l] /\ c = e[k]
      BY <2>3
    <3>2. (a \o b) \o c = a \o (b \o c)
      BY JoinedAnyway
    <3> QED BY <3>1, <3>2
  <2>5. p[k] = a \o g[k] /\ p[l] = a \o g[l]
    <3>1. k \in 0 .. n
      OBVIOUS
    <3> QED BY <1>4, <3>1
  <2>6. p[k] = p[l] \o e[k]
    BY <2>2, <2>4, <2>5
  <2>7. q[k] = h[k + 1] /\ q[l] = h[k]
    BY <1>5, <2>1
  <2>8. h[k + 1] = h[k] \o f[k + 1]
    <3>1. k + 1 \in 1 .. n + 1 /\ (k + 1) - 1 = k
      OBVIOUS
    <3> QED BY <3>1, <1>2 DEF Chain, Linked
  <2>9. q[k] = q[l] \o e[k]
    BY <2>7, <2>8
  <2> QED BY <2>1, <2>6, <2>9
<1>9. p[n] = q[n]
  <2>1. \A k \in 0 .. n : p[k] = q[k]
    <3>1. Linked(p, e, n) /\ Linked(q, e, n)
      BY <1>8 DEF Linked
    <3> QED BY <3>1, <1>7, ChainsAgree
  <2>2. n \in 0 .. n
    OBVIOUS
  <2> QED BY <2>1, <2>2
<1>10. p[n] = a \o g[n] /\ q[n] = h[n + 1] /\ g[n] \in Seq(Nat)
  <2>1. n \in 0 .. n
    OBVIOUS
  <2> QED BY <1>4, <1>5, <1>6, <2>1
<1> QED BY <1>1, <1>2, <1>3, <1>9, <1>10

(* Lists with nothing in them are nothing together. *)
LEMMA FlatNone ==
  ASSUME NEW n \in Nat, NEW f \in [1 .. n -> Seq(Nat)], \A k \in 1 .. n : f[k] = <<>>
  PROVE  FlattenSeq(f) = <<>>
<1>1. PICK g : Chain(g, f, n) /\ FlattenSeq(f) = g[n]
  BY FlatIs
<1>2. PICK h : h = [k \in 0 .. n |-> <<>>]
  OBVIOUS
<1>3. <<>> \o <<>> = <<>>
  BY EmptySeq, ConcatEmptySeq
<1>4. ASSUME NEW k \in 1 .. n PROVE g[k] = g[k - 1] \o f[k] /\ h[k] = h[k - 1] \o f[k]
  <2>1. k - 1 \in 0 .. n /\ k \in 0 .. n
    OBVIOUS
  <2>2. h[k - 1] = <<>> /\ h[k] = <<>> /\ f[k] = <<>>
    BY <1>2, <2>1
  <2> QED BY <1>1, <1>3, <2>2 DEF Chain, Linked
<1>5. g[0] = h[0]
  BY <1>1, <1>2 DEF Chain, Linked
<1>6. g[n] = h[n]
  <2>1. \A k \in 0 .. n : g[k] = h[k]
    <3>1. Linked(g, f, n) /\ Linked(h, f, n)
      BY <1>4 DEF Linked
    <3> QED BY <3>1, <1>5, ChainsAgree
  <2>2. n \in 0 .. n
    OBVIOUS
  <2> QED BY <2>1, <2>2
<1> QED BY <1>1, <1>2, <1>6

-----------------------------------------------------------------------------
(* Lists and what is in them *)
LEMMA Joined ==
  ASSUME NEW a \in Seq(Nat), NEW b \in Seq(Nat)
  PROVE  /\ a \o b \in Seq(Nat) /\ Len(a \o b) = Len(a) + Len(b) /\ Len(a) \in Nat /\ Len(b) \in Nat
         /\ ToSet(a \o b) = ToSet(a) \cup ToSet(b)
<1>1. PICK c \in Seq(Nat) : c = a \o b
  BY ConcatProperties
<1>2. /\ Len(c) = Len(a) + Len(b) /\ Len(a) \in Nat /\ Len(b) \in Nat
      /\ \A i \in 1 .. Len(a) + Len(b) : c[i] = IF i <= Len(a) THEN a[i] ELSE b[i - Len(a)]
  BY <1>1, ConcatProperties, LenProperties
<1>3. DOMAIN a = 1 .. Len(a) /\ DOMAIN b = 1 .. Len(b) /\ DOMAIN c = 1 .. Len(c)
  BY LenProperties
<1>4. ASSUME NEW i \in 1 .. Len(c) PROVE c[i] \in ToSet(a) \cup ToSet(b)
  <2>1. CASE i <= Len(a)
    <3>1. i \in 1 .. Len(a) /\ c[i] = a[i]
      BY <1>2, <2>1
    <3> QED BY <3>1, <1>3 DEF ToSet
  <2>2. CASE ~(i <= Len(a))
    <3>1. i - Len(a) \in 1 .. Len(b) /\ c[i] = b[i - Len(a)]
      BY <1>2, <2>2
    <3> QED BY <3>1, <1>3 DEF ToSet
  <2> QED BY <2>1, <2>2
<1>5. ASSUME NEW i \in 1 .. Len(a) PROVE a[i] \in ToSet(c)
  <2>1. i \in 1 .. Len(c) /\ c[i] = a[i]
    BY <1>2
  <2> QED BY <2>1, <1>3 DEF ToSet
<1>6. ASSUME NEW i \in 1 .. Len(b) PROVE b[i] \in ToSet(c)
  <2>1. PICK k \in 1 .. Len(c) : k = Len(a) + i /\ ~(k <= Len(a)) /\ k - Len(a) = i
    <3>1. Len(a) + i \in 1 .. Len(c) /\ ~(Len(a) + i <= Len(a)) /\ (Len(a) + i) - Len(a) = i
      BY <1>2
    <3> QED BY <3>1
  <2>2. c[k] = b[i]
    BY <1>2, <2>1
  <2> QED BY <2>1, <2>2, <1>3 DEF ToSet
<1>7. ToSet(c) = ToSet(a) \cup ToSet(b)
  BY <1>3, <1>4, <1>5, <1>6 DEF ToSet
<1> QED BY <1>1, <1>2, <1>7

(* Joining nothing changes nothing. *)
LEMMA NothingJoined ==
  ASSUME NEW a \in Seq(Nat)
  PROVE  /\ <<>> \in Seq(Nat) /\ a \o <<>> = a /\ <<>> \o a = a /\ Len(<<>>) = 0 /\ ToSet(<<>>) = {}
         /\ (Len(a) = 0 => a = <<>>)
<1>1. <<>> \in Seq(Nat) /\ a \o <<>> = a /\ <<>> \o a = a /\ Len(<<>>) = 0
  BY EmptySeq, ConcatEmptySeq
<1>2. ToSet(<<>>) = {}
  BY DEF ToSet
<1>3. Len(a) = 0 => a = <<>>
  OBVIOUS
<1> QED BY <1>1, <1>2, <1>3

(* The text of a list of segments *)
LEMMA NoTexts == Texts(<<>>) = <<>>
<1>1. PICK f : f = [i \in DOMAIN <<>> |-> <<>>[i].text]
  OBVIOUS
<1>2. f = <<>>
  BY <1>1, EmptySeq
<1>3. Len(<<>>) = 0
  BY EmptySeq
<1>4. FlattenSeq(<<>>) = <<>>
  BY <1>3 DEF FlattenSeq
<1> QED BY <1>1, <1>2, <1>4 DEF Texts

(* A segment comes behind the others, and so does its text. *)
LEMMA TextsMore ==
  ASSUME NEW s \in Seq(Segments), NEW x \in Segments
  PROVE  Texts(s) \in Seq(Nat) /\ Texts(Append(s, x)) = Texts(s) \o x.text /\ x.text \in Seq(Nat)
<1>1. PICK t \in Seq(Segments) : t = Append(s, x)
  BY AppendProperties
<1>2. PICK n \in Nat : n = Len(s)
  BY LenProperties
<1>3. /\ Len(t) = n + 1 /\ t[n + 1] = x /\ \A i \in 1 .. n : t[i] = s[i]
  BY <1>1, <1>2, AppendProperties
<1>4. DOMAIN s = 1 .. n /\ DOMAIN t = 1 .. n + 1
  BY <1>2, <1>3, LenProperties
<1>5. \A y \in Segments : y.text \in Seq(Nat)
  BY DEF Segments
<1>6. (\A i \in 1 .. n : s[i] \in Segments) /\ (\A i \in 1 .. n + 1 : t[i] \in Segments)
  BY <1>2, <1>3, ElementOfSeq
<1>7. PICK e : e = [i \in 1 .. n |-> s[i].text]
  OBVIOUS
<1>8. PICK f : f = [i \in 1 .. n + 1 |-> t[i].text]
  OBVIOUS
<1>9. e \in [1 .. n -> Seq(Nat)] /\ f \in [1 .. n + 1 -> Seq(Nat)]
  BY <1>5, <1>6, <1>7, <1>8
<1>10. (\A i \in 1 .. n : e[i] = f[i]) /\ f[n + 1] = x.text
  BY <1>3, <1>7, <1>8
<1>11. /\ FlattenSeq(e) \in Seq(Nat) /\ FlattenSeq(f) \in Seq(Nat)
       /\ FlattenSeq(f) = FlattenSeq(e) \o f[n + 1]
  BY <1>9, <1>10, FlatMore
<1>12. Texts(s) = FlattenSeq(e) /\ Texts(t) = FlattenSeq(f)
  BY <1>4, <1>7, <1>8 DEF Texts
<1> QED BY <1>1, <1>5, <1>10, <1>11, <1>12

(* The text of segments is that of the first and then that of the rest. *)
LEMMA TextsFirst ==
  ASSUME NEW s \in Seq(Segments), s # <<>>
  PROVE  /\ Texts(s) = Head(s).text \o Texts(Tail(s))
         /\ Head(s).text \in Seq(Nat) /\ Texts(Tail(s)) \in Seq(Nat)
<1>1. PICK t \in Seq(Segments) : t = Tail(s)
  BY HeadTailProperties
<1>2. PICK n \in Nat : n = Len(t)
  BY LenProperties
<1>3. /\ Len(s) = n + 1 /\ Head(s) = s[1] /\ \A i \in 1 .. n : t[i] = s[i + 1]
  <2>1. Len(t) = Len(s) - 1 /\ Len(s) \in Nat /\ \A i \in 1 .. Len(t) : t[i] = s[i + 1]
    BY <1>1, HeadTailProperties, LenProperties
  <2>2. Head(s) = s[1]
    OBVIOUS
  <2> QED BY <1>2, <2>1, <2>2
<1>4. DOMAIN t = 1 .. n /\ DOMAIN s = 1 .. n + 1
  BY <1>2, <1>3, LenProperties
<1>5. \A y \in Segments : y.text \in Seq(Nat)
  BY DEF Segments
<1>6. (\A i \in 1 .. n : t[i] \in Segments) /\ (\A i \in 1 .. n + 1 : s[i] \in Segments)
  BY <1>2, <1>3, ElementOfSeq
<1>7. PICK e : e = [i \in 1 .. n |-> t[i].text]
  OBVIOUS
<1>8. PICK f : f = [i \in 1 .. n + 1 |-> s[i].text]
  OBVIOUS
<1>9. e \in [1 .. n -> Seq(Nat)] /\ f \in [1 .. n + 1 -> Seq(Nat)]
  BY <1>5, <1>6, <1>7, <1>8
<1>10. (\A i \in 1 .. n : e[i] = f[i + 1]) /\ f[1] = Head(s).text /\ f[1] \in Seq(Nat)
  <2>1. \A i \in 1 .. n : i + 1 \in 1 .. n + 1
    OBVIOUS
  <2>2. 1 \in 1 .. n + 1
    OBVIOUS
  <2> QED BY <1>3, <1>7, <1>8, <1>9, <2>1, <2>2
<1>11. FlattenSeq(f) = f[1] \o FlattenSeq(e) /\ FlattenSeq(e) \in Seq(Nat)
  BY <1>9, <1>10, FlatFirst
<1>12. Texts(t) = FlattenSeq(e) /\ Texts(s) = FlattenSeq(f)
  BY <1>4, <1>7, <1>8 DEF Texts
<1> QED BY <1>1, <1>10, <1>11, <1>12

(* The text that waits in the emits of a run *)
Piece(j, r) == IF j.ev.run = r THEN Texts(j.segs) ELSE <<>>
Waiting(w, r) == FlattenSeq([i \in DOMAIN w |-> IF w[i].ev.run = r THEN Texts(w[i].segs) ELSE <<>>])

(* An emit's text is a list of tokens. *)
LEMMA PieceTyped ==
  ASSUME NEW j \in Emits, NEW r
  PROVE  Piece(j, r) \in Seq(Nat)
<1>1. PICK s \in Seq(Segments) : s = j.segs
  BY DEF Emits
<1>2. <<>> \in Seq(Nat)
  BY EmptySeq
<1>3. Texts(s) \in Seq(Nat)
  <2>1. CASE s = <<>>
    BY <2>1, <1>2, NoTexts
  <2>2. CASE s # <<>>
    <3>1. Head(s) \in Segments
      BY <2>2, HeadTailProperties
    <3> QED BY <3>1, TextsMore
  <2> QED BY <2>1, <2>2
<1> QED BY <1>1, <1>2, <1>3 DEF Piece

(* What waits of a run is laid end to end from the pieces of the emits. *)
LEMMA PiecesTyped ==
  ASSUME NEW w \in Seq(Emits), NEW r
  PROVE  LET f == [i \in 1 .. Len(w) |-> Piece(w[i], r)] IN
         f \in [1 .. Len(w) -> Seq(Nat)] /\ Waiting(w, r) = FlattenSeq(f)
<1>1. DOMAIN w = 1 .. Len(w)
  BY LenProperties
<1>2. \A i \in 1 .. Len(w) : Piece(w[i], r) \in Seq(Nat)
  BY ElementOfSeq, PieceTyped
<1> QED BY <1>1, <1>2 DEF Waiting, Piece

(* An emit that is queued brings its piece behind the others. *)
LEMMA WaitMore ==
  ASSUME NEW w \in Seq(Emits), NEW j \in Emits, NEW r
  PROVE  /\ Waiting(w, r) \in Seq(Nat) /\ Waiting(Append(w, j), r) = Waiting(w, r) \o Piece(j, r)
<1>1. PICK v \in Seq(Emits) : v = Append(w, j)
  BY AppendProperties
<1>2. PICK n \in Nat : n = Len(w)
  BY LenProperties
<1>3. Len(v) = n + 1 /\ v[n + 1] = j /\ \A i \in 1 .. n : v[i] = w[i]
  BY <1>1, <1>2, AppendProperties
<1>4. PICK e : e = [i \in 1 .. n |-> Piece(w[i], r)]
  OBVIOUS
<1>5. PICK f : f = [i \in 1 .. n + 1 |-> Piece(v[i], r)]
  OBVIOUS
<1>6. e \in [1 .. n -> Seq(Nat)] /\ Waiting(w, r) = FlattenSeq(e)
  BY <1>2, <1>4, PiecesTyped
<1>7. f \in [1 .. n + 1 -> Seq(Nat)] /\ Waiting(v, r) = FlattenSeq(f)
  BY <1>3, <1>5, PiecesTyped
<1>8. (\A i \in 1 .. n : e[i] = f[i]) /\ f[n + 1] = Piece(j, r)
  BY <1>3, <1>4, <1>5
<1>9. FlattenSeq(e) \in Seq(Nat) /\ FlattenSeq(f) = FlattenSeq(e) \o f[n + 1]
  BY <1>6, <1>7, <1>8, FlatMore
<1> QED BY <1>1, <1>6, <1>7, <1>8, <1>9

(* The first emit's piece comes first. *)
LEMMA WaitFirst ==
  ASSUME NEW w \in Seq(Emits), w # <<>>, NEW r
  PROVE  Waiting(w, r) = Piece(Head(w), r) \o Waiting(Tail(w), r)
<1>1. PICK v \in Seq(Emits) : v = Tail(w)
  BY HeadTailProperties
<1>2. PICK n \in Nat : n = Len(v)
  BY LenProperties
<1>3. Len(w) = n + 1 /\ Head(w) = w[1] /\ \A i \in 1 .. n : v[i] = w[i + 1]
  <2>1. Len(v) = Len(w) - 1 /\ Len(w) \in Nat /\ \A i \in 1 .. Len(v) : v[i] = w[i + 1]
    BY <1>1, HeadTailProperties, LenProperties
  <2>2. Head(w) = w[1]
    OBVIOUS
  <2> QED BY <1>2, <2>1, <2>2
<1>4. PICK e : e = [i \in 1 .. n |-> Piece(v[i], r)]
  OBVIOUS
<1>5. PICK f : f = [i \in 1 .. n + 1 |-> Piece(w[i], r)]
  OBVIOUS
<1>6. e \in [1 .. n -> Seq(Nat)] /\ Waiting(v, r) = FlattenSeq(e)
  BY <1>2, <1>4, PiecesTyped
<1>7. f \in [1 .. n + 1 -> Seq(Nat)] /\ Waiting(w, r) = FlattenSeq(f)
  BY <1>3, <1>5, PiecesTyped
<1>8. (\A i \in 1 .. n : e[i] = f[i + 1]) /\ f[1] = Piece(Head(w), r)
  <2>1. 1 \in 1 .. n + 1 /\ \A i \in 1 .. n : i + 1 \in 1 .. n + 1
    OBVIOUS
  <2> QED BY <1>3, <1>4, <1>5, <2>1
<1>9. FlattenSeq(f) = f[1] \o FlattenSeq(e)
  BY <1>6, <1>7, <1>8, FlatFirst
<1> QED BY <1>1, <1>6, <1>7, <1>8, <1>9

(* Emits of other runs hold nothing of a run. *)
LEMMA WaitNone ==
  ASSUME NEW w \in Seq(Emits), NEW r, \A j \in Members(w) : j.ev.run # r
  PROVE  Waiting(w, r) = <<>>
<1>1. PICK n \in Nat : n = Len(w)
  BY LenProperties
<1>2. PICK f : f = [i \in 1 .. n |-> Piece(w[i], r)]
  OBVIOUS
<1>3. f \in [1 .. n -> Seq(Nat)] /\ Waiting(w, r) = FlattenSeq(f)
  BY <1>1, <1>2, PiecesTyped
<1>4. \A i \in 1 .. n : f[i] = <<>>
  BY <1>1, <1>2 DEF Members, Piece
<1> QED BY <1>3, <1>4, FlatNone

(* The others' text waits as it did. *)
LEMMA WaitWithout ==
  ASSUME NEW w \in Seq(Emits), NEW r, NEW q, q # r
  PROVE  Waiting(Without(r, w), q) = Waiting(w, q)
<1>1. PICK N \in Nat : N = Len(w)
  BY LenProperties
<1>2. PICK kept : /\ Without(r, w) = kept[N] /\ kept[0] = <<>>
                  /\ \A n \in 1 .. N : kept[n] = IF w[n].ev.run = r THEN kept[n - 1] ELSE Append(kept[n - 1], w[n])
  BY <1>1, WithoutSteps
<1>3. PICK f : f = [i \in 1 .. N |-> Piece(w[i], q)]
  OBVIOUS
<1>4. f \in [1 .. N -> Seq(Nat)] /\ Waiting(w, q) = FlattenSeq(f)
  BY <1>1, <1>3, PiecesTyped
<1>5. PICK g : Chain(g, f, N) /\ FlattenSeq(f) = g[N]
  BY <1>4, FlatIs
<1> DEFINE Right(n) == n \in 0 .. N => kept[n] \in Seq(Emits) /\ Waiting(kept[n], q) = g[n]
<1>6. PICK B : B = {n \in Nat : ~Right(n)}
  OBVIOUS
<1>7. B = {}
  <2> SUFFICES ASSUME B # {} PROVE FALSE
    OBVIOUS
  <2>1. B \subseteq Nat
    BY <1>6
  <2>2. PICK n \in B : \A y \in B : n <= y
    BY <2>1, LeastNumber
  <2>3. n \in 0 .. N /\ ~(kept[n] \in Seq(Emits) /\ Waiting(kept[n], q) = g[n])
    BY <1>6
  <2>4. CASE n = 0
    <3>1. <<>> \in Seq(Emits)
      BY EmptySeq
    <3>2. Members(<<>>) = {}
      BY EmptySeq DEF Members
    <3>3. Waiting(<<>>, q) = <<>>
      BY <3>1, <3>2, WaitNone
    <3>4. g[0] = <<>>
      BY <1>5 DEF Chain
    <3> QED BY <1>2, <2>3, <2>4, <3>1, <3>3, <3>4
  <2>5. CASE n # 0
    <3>1. PICK m \in 0 .. N : n = m + 1 /\ n \in 1 .. N /\ n - 1 = m
      <4>1. n - 1 \in 0 .. N /\ n = (n - 1) + 1 /\ n \in 1 .. N
        BY <2>3, <2>5
      <4> QED BY <4>1
    <3>2. m \notin B
      BY <2>2, <3>1
    <3>3. PICK v \in Seq(Emits) : v = kept[m] /\ Waiting(v, q) = g[m]
      BY <1>6, <3>1, <3>2
    <3>4. PICK j \in Emits : j = w[n]
      BY <1>1, <3>1, ElementOfSeq
    <3>5. g[n] = g[m] \o Piece(j, q)
      <4>1. g[n] = g[n - 1] \o f[n]
        BY <1>5, <3>1 DEF Chain, Linked
      <4>2. f[n] = Piece(j, q)
        BY <1>3, <3>1, <3>4
      <4> QED BY <3>1, <4>1, <4>2
    <3>6. CASE j.ev.run = r
      <4>1. kept[n] = v
        BY <1>2, <3>1, <3>3, <3>4, <3>6
      <4>2. Piece(j, q) = <<>>
        BY <3>6 DEF Piece
      <4>3. Waiting(v, q) \in Seq(Nat)
        BY <3>4, WaitMore
      <4>4. g[n] = Waiting(v, q)
        BY <3>3, <3>5, <4>2, <4>3, NothingJoined
      <4> QED BY <2>3, <4>1, <4>4
    <3>7. CASE j.ev.run # r
      <4>1. kept[n] = Append(v, j)
        BY <1>2, <3>1, <3>3, <3>4, <3>7
      <4>2. Append(v, j) \in Seq(Emits)
        BY AppendProperties
      <4>3. Waiting(Append(v, j), q) = Waiting(v, q) \o Piece(j, q)
        BY WaitMore
      <4> QED BY <2>3, <3>3, <3>5, <4>1, <4>2, <4>3
    <3> QED BY <3>6, <3>7
  <2> QED BY <2>4, <2>5
<1> HIDE DEF Right
<1>8. Right(N)
  BY <1>6, <1>7
<1>9. Waiting(kept[N], q) = g[N]
  <2>1. N \in 0 .. N
    OBVIOUS
  <2> QED BY <1>8, <2>1 DEF Right
<1> QED BY <1>2, <1>4, <1>5, <1>9

-----------------------------------------------------------------------------
(* All that the recorder has of a run: what is written, and what waits.  Whole is the
   transcript's promise with nothing lost and nothing twice; the invariant adds whose the
   segments are, so that an emit takes along no other run's text. *)
Stored(s, r) ==
  FlattenSeq([i \in DOMAIN s |-> IF s[i].type = "output_segment" /\ s[i].run = r THEN s[i].text ELSE <<>>])
Buffer(c) == IF c = None THEN <<>> ELSE c.text
Way(w, f, c, r) == Waiting(w, r) \o Texts(f) \o Buffer(c)
Whole(r) ==
  LET all == Written(r) \o OnItsWay(r) IN Len(all) = tokens[r] /\ ToSet(all) = 1 .. tokens[r]

OwnSegs(f, r) == \A i \in 1 .. Len(f) : f[i].run = r
SegmentsOwn ==
  /\ \A r \in Runs : (segments[r] # None => segments[r].run = r) /\ OwnSegs(flushes[r], r)
  /\ \A j \in Members(writing) : j.ev.type # "output_segment" /\ OwnSegs(j.segs, j.ev.run)
TokensKept ==
  \A r \in Runs : (r \notin 1 .. Len(runs) => tokens[r] = 0) /\ (r \notin harmed => Whole(r))
TranscriptInvariant == SegmentsOwn /\ TokensKept

(* as lists that a step leaves alone *)
LEMMA WholeIs ==
  ASSUME NEW r, NEW s, s = store, NEW w, w = writing, NEW f, f = flushes[r], NEW c, c = segments[r]
  PROVE  Whole(r) <=> /\ Len(Stored(s, r) \o Way(w, f, c, r)) = tokens[r]
                      /\ ToSet(Stored(s, r) \o Way(w, f, c, r)) = 1 .. tokens[r]
<1>1. Written(r) = Stored(s, r)
  BY DEF Written, Stored
<1>2. OnItsWay(r) = Way(w, f, c, r)
  BY DEF OnItsWay, Way, Waiting, Buffer
<1> QED BY <1>1, <1>2 DEF Whole

(* the same of the next state, *)
LEMMA WholeNext ==
  ASSUME NEW r, NEW s, s = store', NEW w, w = writing', NEW f, f = flushes'[r], NEW c, c = segments'[r],
         NEW n, n = tokens'[r]
  PROVE  Whole(r)' <=> /\ Len(Stored(s, r) \o Way(w, f, c, r)) = n
                       /\ ToSet(Stored(s, r) \o Way(w, f, c, r)) = 1 .. n
<1>1. Written(r)' = Stored(s, r)
  BY DEF Written, Stored
<1>2. OnItsWay(r)' = Way(w, f, c, r)
  <2>1. Texts(flushes[r])' = Texts(f)
    BY DEF Texts
  <2>2. FlattenSeq([i \in DOMAIN writing |-> IF writing[i].ev.run = r THEN Texts(writing[i].segs) ELSE <<>>])'
        = Waiting(w, r)
    BY DEF Waiting, Texts
  <2> QED BY <2>1, <2>2 DEF OnItsWay, Way, Buffer
<1> QED BY <1>1, <1>2 DEF Whole

(* One more event in the store *)
LEMMA StoredMore ==
  ASSUME NEW s \in Seq(AgentEvents), NEW e \in AgentEvents, NEW r
  PROVE  /\ Stored(s, r) \in Seq(Nat)
         /\ Stored(Append(s, e), r) =
              IF e.type = "output_segment" /\ e.run = r THEN Stored(s, r) \o e.text ELSE Stored(s, r)
<1> DEFINE Told(x) == IF x.type = "output_segment" /\ x.run = r THEN x.text ELSE <<>>
<1>1. PICK t \in Seq(AgentEvents) : t = Append(s, e)
  BY AppendProperties
<1>2. PICK n \in Nat : n = Len(s)
  BY LenProperties
<1>3. Len(t) = n + 1 /\ t[n + 1] = e /\ \A i \in 1 .. n : t[i] = s[i]
  BY <1>1, <1>2, AppendProperties
<1>4. DOMAIN s = 1 .. n /\ DOMAIN t = 1 .. n + 1
  BY <1>2, <1>3, LenProperties
<1>5. \A x \in AgentEvents : Told(x) \in Seq(Nat)
  <2>1. <<>> \in Seq(Nat)
    BY EmptySeq
  <2> QED BY <2>1 DEF AgentEvents
<1>6. (\A i \in 1 .. n : s[i] \in AgentEvents) /\ (\A i \in 1 .. n + 1 : t[i] \in AgentEvents)
  BY <1>2, <1>3, ElementOfSeq
<1>7. PICK d : d = [i \in 1 .. n |-> Told(s[i])]
  OBVIOUS
<1>8. PICK f : f = [i \in 1 .. n + 1 |-> Told(t[i])]
  OBVIOUS
<1>9. Stored(s, r) = FlattenSeq(d) /\ Stored(t, r) = FlattenSeq(f)
  BY <1>4, <1>7, <1>8 DEF Stored
<1>10. Told(e) = (IF e.type = "output_segment" /\ e.run = r THEN e.text ELSE <<>>)
  OBVIOUS
<1> HIDE DEF Told
<1>11. d \in [1 .. n -> Seq(Nat)] /\ f \in [1 .. n + 1 -> Seq(Nat)]
  BY <1>5, <1>6, <1>7, <1>8
<1>12. (\A i \in 1 .. n : d[i] = f[i]) /\ f[n + 1] = Told(e)
  BY <1>3, <1>7, <1>8
<1>13. FlattenSeq(d) \in Seq(Nat) /\ FlattenSeq(f) = FlattenSeq(d) \o f[n + 1]
  BY <1>11, <1>12, FlatMore
<1>14. FlattenSeq(d) \o <<>> = FlattenSeq(d)
  BY <1>13, NothingJoined
<1> QED BY <1>1, <1>9, <1>10, <1>12, <1>13, <1>14

(* What is stored of a run is a list of tokens. *)
LEMMA StoredTyped ==
  ASSUME NEW s \in Seq(AgentEvents), NEW r
  PROVE  Stored(s, r) \in Seq(Nat)
<1>1. CASE s = <<>>
  <2>1. PICK f : f = [i \in DOMAIN s |-> IF s[i].type = "output_segment" /\ s[i].run = r THEN s[i].text ELSE <<>>]
    OBVIOUS
  <2>2. f = <<>> /\ Len(<<>>) = 0 /\ <<>> \in Seq(Nat)
    BY <1>1, <2>1, EmptySeq
  <2> QED BY <2>1, <2>2 DEF Stored, FlattenSeq
<1>2. CASE s # <<>>
  <2>1. Head(s) \in AgentEvents
    BY <1>2, HeadTailProperties
  <2> QED BY <2>1, StoredMore
<1> QED BY <1>1, <1>2

(* The parts of what waits are lists of tokens. *)
WayIs(w, f, c, r) ==
  /\ Waiting(w, r) \in Seq(Nat) /\ Texts(f) \in Seq(Nat) /\ Buffer(c) \in Seq(Nat)
  /\ Way(w, f, c, r) \in Seq(Nat)
  /\ Len(Way(w, f, c, r)) = Len(Waiting(w, r)) + Len(Texts(f)) + Len(Buffer(c))
  /\ ToSet(Way(w, f, c, r)) = ToSet(Waiting(w, r)) \cup ToSet(Texts(f)) \cup ToSet(Buffer(c))

(* Of a typed queue, typed flushes and a typed buffer they are. *)
LEMMA WayTyped ==
  ASSUME NEW w \in Seq(Emits), NEW f \in Seq(Segments), NEW c, c = None \/ c \in Segments, NEW r
  PROVE  WayIs(w, f, c, r)
<1>0. <<>> \in Seq(Nat)
  BY EmptySeq
<1>1. Waiting(w, r) \in Seq(Nat)
  <2>1. CASE w = <<>>
    <3>1. Members(w) = {}
      BY <2>1, EmptySeq DEF Members
    <3>2. Waiting(w, r) = <<>>
      BY <3>1, WaitNone
    <3> QED BY <1>0, <3>2
  <2>2. CASE w # <<>>
    <3>1. Head(w) \in Emits
      BY <2>2, HeadTailProperties
    <3> QED BY <3>1, WaitMore
  <2> QED BY <2>1, <2>2
<1>2. Texts(f) \in Seq(Nat)
  <2>1. CASE f = <<>>
    BY <2>1, <1>0, NoTexts
  <2>2. CASE f # <<>>
    <3>1. Head(f) \in Segments
      BY <2>2, HeadTailProperties
    <3> QED BY <3>1, TextsMore
  <2> QED BY <2>1, <2>2
<1>3. Buffer(c) \in Seq(Nat)
  BY <1>0 DEF Buffer, Segments
<1>4. PICK a \in Seq(Nat) : a = Waiting(w, r)
  BY <1>1
<1>5. PICK b \in Seq(Nat) : b = Texts(f)
  BY <1>2
<1>6. PICK d \in Seq(Nat) : d = Buffer(c)
  BY <1>3
<1>7. a \o b \in Seq(Nat) /\ Len(a \o b) = Len(a) + Len(b) /\ ToSet(a \o b) = ToSet(a) \cup ToSet(b)
  BY Joined
<1>8. PICK ab \in Seq(Nat) : ab = a \o b
  BY <1>7
<1>9. ab \o d \in Seq(Nat) /\ Len(ab \o d) = Len(ab) + Len(d) /\ ToSet(ab \o d) = ToSet(ab) \cup ToSet(d)
  BY Joined
<1>10. Way(w, f, c, r) = ab \o d
  BY <1>4, <1>5, <1>6, <1>8 DEF Way
<1> QED BY <1>4, <1>5, <1>6, <1>7, <1>8, <1>9, <1>10 DEF WayIs

(* An emit takes along all that is buffered of its run, and nothing of another. *)
LEMMA EmitHolds ==
  ASSUME TelemetryTypeOK, SegmentsOwn, NEW e \in AgentEvents, e.type # "output_segment",
         NEW others \in Seq(Emits), Members(others) \subseteq Members(writing),
         NEW nc, EmitWith(e, others, nc)
  PROVE  /\ \A j \in Members(writing') : j.ev.type # "output_segment" /\ OwnSegs(j.segs, j.ev.run)
         /\ \A r \in Runs : (segments'[r] # None => segments'[r].run = r) /\ OwnSegs(flushes'[r], r)
         /\ \A r \in Runs : Way(writing', flushes'[r], segments'[r], r) = Way(others, flushes[r], segments[r], r)
<1>1. PICK x \in Runs : x = e.run
  BY DEF AgentEvents
<1>2. PICK f \in Seq(Segments) : f = flushes[x]
  BY Basics
<1>3. PICK c : c = segments[x] /\ (c = None \/ c \in Segments)
  BY Basics
<1>4. OwnSegs(f, x) /\ (c # None => c.run = x)
  BY <1>2, <1>3 DEF SegmentsOwn
<1>5. OwnSegs(<<>>, x) /\ <<>> \in Seq(Segments)
  BY EmptySeq DEF OwnSegs
<1>6. PICK segs \in Seq(Segments) : segs = IF e.type \in Boundaries THEN Taken(x) ELSE <<>>
  BY <1>1, SegsTyped
<1>7. Texts(f) \in Seq(Nat) /\ Buffer(c) \in Seq(Nat)
  <2>1. <<>> \in Seq(Emits)
    BY EmptySeq
  <2>2. WayIs(<<>>, f, c, x)
    BY <1>3, <2>1, WayTyped
  <2> QED BY <2>2 DEF WayIs
<1>8. ASSUME e.type \in Boundaries PROVE OwnSegs(segs, x) /\ Texts(segs) = Texts(f) \o Buffer(c)
  <2>1. segs = f \o (IF c = None THEN <<>> ELSE <<c>>)
    BY <1>2, <1>3, <1>6, <1>8 DEF Taken
  <2>2. CASE c = None
    <3>1. segs = f
      BY <2>1, <2>2, ConcatEmptySeq
    <3>2. Buffer(c) = <<>>
      BY <2>2 DEF Buffer
    <3> QED BY <1>4, <1>7, <3>1, <3>2, NothingJoined
  <2>3. CASE c # None
    <3>1. c \in Segments /\ c.run = x /\ Buffer(c) = c.text
      BY <1>3, <1>4, <2>3 DEF Buffer
    <3>2. segs = Append(f, c)
      BY <2>1, <2>3, <3>1, AppendIsConcat
    <3>3. Texts(segs) = Texts(f) \o c.text
      BY <3>1, <3>2, TextsMore
    <3>4. OwnSegs(segs, x)
      <4>1. /\ Len(segs) = Len(f) + 1 /\ segs[Len(f) + 1] = c /\ Len(f) \in Nat
            /\ \A i \in 1 .. Len(f) : segs[i] = f[i]
        BY <3>1, <3>2, AppendProperties, LenProperties
      <4>2. ASSUME NEW i \in 1 .. Len(segs) PROVE segs[i].run = x
        <5>1. i \in 1 .. Len(f) \/ i = Len(f) + 1
          BY <4>1
        <5> QED BY <1>4, <3>1, <4>1, <5>1 DEF OwnSegs
      <4> QED BY <4>2 DEF OwnSegs
    <3> QED BY <3>1, <3>3, <3>4
  <2> QED BY <2>2, <2>3
<1>9. OwnSegs(segs, x)
  BY <1>5, <1>6, <1>8
<1>10. PICK j \in Emits : j = [ev |-> e, segs |-> segs] /\ j.ev = e /\ j.segs = segs
  <2>1. PICK j : j = [ev |-> e, segs |-> segs]
    OBVIOUS
  <2>2. j \in Emits /\ j.ev = e /\ j.segs = segs
    BY <2>1 DEF Emits
  <2> QED BY <2>1, <2>2
<1>11. writing' = Append(others, j)
  BY <1>1, <1>6, <1>10 DEF EmitWith
<1>12. PICK v \in Seq(Emits) : v = writing' /\ v = Append(others, j)
  BY <1>11, AppendProperties
<1>13. \A k \in Members(v) : k \in Members(others) \/ k = j
  <2>1. /\ Len(v) = Len(others) + 1 /\ v[Len(others) + 1] = j /\ Len(others) \in Nat
        /\ \A i \in 1 .. Len(others) : v[i] = others[i]
    BY <1>12, AppendProperties, LenProperties
  <2>2. ASSUME NEW i \in 1 .. Len(v) PROVE v[i] \in Members(others) \/ v[i] = j
    <3>1. i \in 1 .. Len(others) \/ i = Len(others) + 1
      BY <2>1
    <3> QED BY <2>1, <3>1 DEF Members
  <2> QED BY <2>2 DEF Members
<1>14. ASSUME NEW k \in Members(writing') PROVE k.ev.type # "output_segment" /\ OwnSegs(k.segs, k.ev.run)
  <2>1. CASE k = j
    BY <2>1, <1>1, <1>9, <1>10
  <2>2. CASE k \in Members(others)
    BY <2>2 DEF SegmentsOwn
  <2> QED BY <1>12, <1>13, <2>1, <2>2
<1>15. CASE e.type \in Boundaries
  <2>1. flushes' = [flushes EXCEPT ![x] = <<>>] /\ segments' = [segments EXCEPT ![x] = None]
    BY <1>1, <1>15 DEF EmitWith
  <2>2. ASSUME NEW r \in Runs PROVE (segments'[r] # None => segments'[r].run = r) /\ OwnSegs(flushes'[r], r)
    BY <1>5, <2>1, Basics DEF SegmentsOwn
  <2>3. ASSUME NEW r \in Runs
        PROVE  Way(writing', flushes'[r], segments'[r], r) = Way(others, flushes[r], segments[r], r)
    <3>1. PICK a \in Seq(Nat) : a = Waiting(others, r) /\ Waiting(v, r) = a \o Piece(j, r)
      BY <1>12, WaitMore
    <3>2. CASE r = x
      <4>1. flushes'[r] = <<>> /\ segments'[r] = None
        BY <2>1, <3>2, Basics
      <4>2. PICK b \in Seq(Nat), d \in Seq(Nat) : b = Texts(f) /\ d = Buffer(c)
        BY <1>7
      <4>3. Piece(j, r) = b \o d
        BY <1>1, <1>8, <1>10, <1>15, <3>2, <4>2 DEF Piece
      <4>4. a \o (b \o d) \in Seq(Nat) /\ a \o (b \o d) = (a \o b) \o d
        <5>1. PICK bd \in Seq(Nat) : bd = b \o d
          BY Joined
        <5>2. a \o bd \in Seq(Nat)
          BY Joined
        <5>3. (a \o b) \o d = a \o (b \o d)
          BY JoinedAnyway
        <5> QED BY <5>1, <5>2, <5>3
      <4>5. PICK all \in Seq(Nat) : all = a \o (b \o d)
        BY <4>4
      <4>6. Way(writing', flushes'[r], segments'[r], r) = Waiting(v, r) \o Texts(<<>>) \o Buffer(None)
        BY <1>12, <4>1 DEF Way
      <4>7. Waiting(v, r) = all
        BY <3>1, <4>3, <4>5
      <4>8. Texts(<<>>) = <<>> /\ Buffer(None) = <<>>
        BY NoTexts DEF Buffer
      <4>9. Way(writing', flushes'[r], segments'[r], r) = all
        BY <4>6, <4>7, <4>8, NothingJoined
      <4>10. Way(others, flushes[r], segments[r], r) = (a \o b) \o d
        BY <1>2, <1>3, <3>1, <3>2, <4>2 DEF Way
      <4> QED BY <4>4, <4>5, <4>9, <4>10
    <3>3. CASE r # x
      <4>1. flushes'[r] = flushes[r] /\ segments'[r] = segments[r]
        BY <2>1, <3>3, Basics
      <4>2. Piece(j, r) = <<>>
        BY <1>1, <1>10, <3>3 DEF Piece
      <4>3. Waiting(v, r) = a
        BY <3>1, <4>2, NothingJoined
      <4> QED BY <1>12, <3>1, <4>1, <4>3 DEF Way
    <3> QED BY <3>2, <3>3
  <2> QED BY <1>14, <2>2, <2>3
<1>16. CASE e.type \notin Boundaries
  <2>1. flushes' = flushes /\ segments' = segments /\ segs = <<>>
    BY <1>6, <1>16 DEF EmitWith
  <2>2. ASSUME NEW r \in Runs
        PROVE  Way(writing', flushes'[r], segments'[r], r) = Way(others, flushes[r], segments[r], r)
    <3>1. PICK a \in Seq(Nat) : a = Waiting(others, r) /\ Waiting(v, r) = a \o Piece(j, r)
      BY <1>12, WaitMore
    <3>2. Piece(j, r) = <<>>
      BY <1>10, <2>1, NoTexts DEF Piece
    <3>3. Waiting(v, r) = a
      BY <3>1, <3>2, NothingJoined
    <3> QED BY <1>12, <2>1, <3>1, <3>3 DEF Way
  <2> QED BY <1>14, <2>1, <2>2 DEF SegmentsOwn
<1> QED BY <1>15, <1>16

(* A run whose lists hold as much and the same as before is as whole as before. *)
LEMMA WholeStays ==
  ASSUME NEW r, NEW a, NEW b,
         a = Stored(store, r) \o Way(writing, flushes[r], segments[r], r),
         b = Stored(store', r) \o Way(writing', flushes'[r], segments'[r], r),
         Len(b) = Len(a), ToSet(b) = ToSet(a), tokens'[r] = tokens[r], Whole(r)
  PROVE  Whole(r)'
<1>1. PICK s, w, f, c : s = store /\ w = writing /\ f = flushes[r] /\ c = segments[r]
  OBVIOUS
<1>2. PICK s2, w2, f2, c2, n2 : s2 = store' /\ w2 = writing' /\ f2 = flushes'[r] /\ c2 = segments'[r] /\ n2 = tokens'[r]
  OBVIOUS
<1>3. a = Stored(s, r) \o Way(w, f, c, r) /\ b = Stored(s2, r) \o Way(w2, f2, c2, r)
  BY <1>1, <1>2
<1>4. Len(a) = tokens[r] /\ ToSet(a) = 1 .. tokens[r]
  BY <1>1, <1>3, WholeIs
<1>5. Len(b) = n2 /\ ToSet(b) = 1 .. n2
  BY <1>2, <1>4
<1> QED BY <1>2, <1>3, <1>5, WholeNext

(* An emit of a run alone, its events in the store as before *)
LEMMA EmitTranscript ==
  ASSUME TelemetryTypeOK, TranscriptInvariant, NEW e \in AgentEvents, e.type # "output_segment",
         NEW nc, EmitWith(e, writing, nc), Len(runs') \in Nat, Len(runs) \in Nat, Len(runs') >= Len(runs),
         UNCHANGED <<scene, store, tokens, harmed>>
  PROVE  TranscriptInvariant'
<1>1. writing \in Seq(Emits) /\ Members(writing) \subseteq Members(writing)
  BY Basics
<1>2. /\ \A j \in Members(writing') : j.ev.type # "output_segment" /\ OwnSegs(j.segs, j.ev.run)
      /\ \A r \in Runs : (segments'[r] # None => segments'[r].run = r) /\ OwnSegs(flushes'[r], r)
      /\ \A r \in Runs : Way(writing', flushes'[r], segments'[r], r) = Way(writing, flushes[r], segments[r], r)
  BY <1>1, EmitHolds DEF TranscriptInvariant
<1>3. Runs' = Runs
  BY TypesSame
<1>4. SegmentsOwn'
  <2>1. ASSUME NEW r \in Runs PROVE ((segments[r] # None => segments[r].run = r) /\ OwnSegs(flushes[r], r))'
    BY <1>2 DEF OwnSegs
  <2>2. ASSUME NEW j \in Members(writing') PROVE j.ev.type # "output_segment" /\ OwnSegs(j.segs, j.ev.run)
    BY <1>2
  <2> QED BY <1>3, <2>1, <2>2 DEF SegmentsOwn, Members
<1>5. ASSUME NEW r \in Runs, r \notin harmed PROVE Whole(r)'
  <2>1. Whole(r)
    BY <1>5 DEF TranscriptInvariant, TokensKept
  <2>2. PICK a : a = Stored(store, r) \o Way(writing, flushes[r], segments[r], r)
    OBVIOUS
  <2>3. a = Stored(store', r) \o Way(writing', flushes'[r], segments'[r], r)
    BY <1>2, <2>2
  <2> QED BY <2>1, <2>2, <2>3, WholeStays
<1>6. ASSUME NEW r \in Runs, r \notin 1 .. Len(runs') PROVE tokens'[r] = 0
  <2>1. r \notin 1 .. Len(runs)
    BY <1>6
  <2> QED BY <2>1 DEF TranscriptInvariant, TokensKept
<1>7. TokensKept'
  BY <1>3, <1>5, <1>6 DEF TokensKept
<1> QED BY <1>4, <1>7 DEF TranscriptInvariant

(* The handlers that emit an event keep the transcripts: a run's start, *)
LEMMA StartRunTranscript ==
  ASSUME TelemetryTypeOK, TranscriptInvariant, NEW x \in Agents, StartRun(x)
  PROVE  TranscriptInvariant'
<1>1. PICK n \in Nat : n = Len(runs) /\ runs \in Seq(RunRecords)
  BY Basics DEF TelemetryTypeOK
<1>2. n + 1 \in Runs
  <2>1. n < Len(scene.cast) /\ scene \in Scenes
    BY <1>1 DEF StartRun, TelemetryTypeOK
  <2>2. Runs = 1 .. Len(scene.cast) /\ Len(scene.cast) \in Nat
    BY <2>1, SceneTyped, RunsAre
  <2> QED BY <2>1, <2>2
<1>3. PICK e \in AgentEvents : e = Ev("run_started", n + 1, 0, None)
  <2>1. "run_started" \in Types /\ None \in Calls
    BY DEF Types, RunEvents, Calls
  <2> QED BY <1>2, <2>1, EvTyped
<1>4. e.type # "output_segment" /\ EmitWith(e, writing, counts) /\ UNCHANGED <<scene, store, tokens, harmed>>
  BY <1>1, <1>3 DEF StartRun, Emit, Ev
<1>5. Len(runs') = n + 1
  <2>1. PICK rec : runs' = Append(runs, rec)
    BY DEF StartRun
  <2>2. Len(Append(runs, rec)) = Len(runs) + 1
    BY <1>1
  <2> QED BY <1>1, <2>1, <2>2
<1> QED BY <1>1, <1>4, <1>5, EmitTranscript

(* the start of a call or a tool, *)
LEMMA StartActTranscript ==
  ASSUME TelemetryTypeOK, TranscriptInvariant, NEW r \in DOMAIN runs, NEW kind \in {"call", "tool"},
         NEW call \in Calls, StartAct(r, kind, call)
  PROVE  TranscriptInvariant'
<1>1. r \in Runs /\ Len(runs) \in Nat /\ Len(acts) + 1 \in Nat
  BY RunParts, Basics
<1>2. PICK type \in {"call_started", "tool_started"} : \E nc : EmitWith(Ev(type, r, Len(acts) + 1, call), writing, nc)
  <2>1. CASE kind = "call"
    BY <2>1 DEF StartAct
  <2>2. CASE kind # "call"
    <3>1. EmitWith(Ev("tool_started", r, Len(acts) + 1, call), writing, counts)
      BY <2>2 DEF StartAct, Emit
    <3> QED BY <3>1
  <2> QED BY <2>1, <2>2
<1>3. PICK e \in AgentEvents : e = Ev(type, r, Len(acts) + 1, call)
  <2>1. type \in Types
    BY DEF Types
  <2> QED BY <1>1, <2>1, EvTyped
<1>4. PICK nc : EmitWith(e, writing, nc)
  BY <1>2, <1>3
<1>5. e.type # "output_segment"
  BY <1>3 DEF Ev
<1>6. runs' = runs /\ UNCHANGED <<scene, store, tokens, harmed>>
  BY DEF StartAct
<1> QED BY <1>1, <1>4, <1>5, <1>6, EmitTranscript

(* its end, *)
LEMMA EndActTranscript ==
  ASSUME TelemetryTypeOK, TranscriptInvariant, NEW a \in DOMAIN acts, NEW type, EndAct(a, type)
  PROVE  TranscriptInvariant'
<1>1. acts[a].kind \in {"call", "tool"} /\ acts[a].call \in Calls /\ acts[a].run \in Runs /\ a \in Nat /\ Len(runs) \in Nat
  BY ActParts, Basics
<1>2. type \in Types /\ type # "output_segment"
  BY <1>1 DEF EndAct, ActEnds, Types
<1>3. PICK e \in AgentEvents : e = Ev(type, acts[a].run, a, acts[a].call)
  BY <1>1, <1>2, EvTyped
<1>4. e.type # "output_segment" /\ EmitWith(e, writing, counts)
  BY <1>2, <1>3 DEF EndAct, Emit, Ev
<1>5. runs' = runs /\ UNCHANGED <<scene, store, tokens, harmed>>
  BY DEF EndAct
<1> QED BY <1>1, <1>4, <1>5, EmitTranscript

(* and the run's end. *)
LEMMA EndRunTranscript ==
  ASSUME TelemetryTypeOK, TranscriptInvariant, NEW r \in DOMAIN runs, NEW how \in RunEnds, EndRun(r, how)
  PROVE  TranscriptInvariant'
<1>1. r \in Runs /\ Len(runs) \in Nat
  BY RunParts
<1>2. how \in Types /\ how # "output_segment" /\ None \in Calls
  BY DEF Types, RunEvents, RunEnds, Calls
<1>3. PICK e \in AgentEvents : e = Ev(how, r, 0, None)
  BY <1>1, <1>2, EvTyped
<1>4. e.type # "output_segment" /\ EmitWith(e, writing, counts) /\ UNCHANGED <<scene, store, tokens, harmed>>
  BY <1>2, <1>3 DEF EndRun, Emit, Ev
<1>5. Len(runs') = Len(runs)
  <2>1. runs' = [runs EXCEPT ![r] = [agent |-> runs[r].agent, st |-> "ending", how |-> how]]
    BY DEF EndRun
  <2>2. runs \in Seq(RunRecords)
    BY DEF TelemetryTypeOK
  <2> QED BY <2>1, RunChanged
<1> QED BY <1>1, <1>4, <1>5, EmitTranscript

-----------------------------------------------------------------------------
(* An empty buffer is not taken for a segment. *)
LEMMA NoneIsNoSegment == ASSUME scene \in Scenes PROVE None \notin Segments
<1>1. Runs \subseteq Nat
  BY SceneTyped
<1> QED BY <1>1, TelemetryAssumption DEF Segments

(* A list of one token *)
LEMMA OneToken == ASSUME NEW n \in Nat PROVE <<n>> \in Seq(Nat) /\ Len(<<n>>) = 1 /\ ToSet(<<n>>) = {n}
<1>1. <<n>> \in Seq(Nat) /\ Len(<<n>>) = 1
  OBVIOUS
<1>2. ToSet(<<n>>) = {n}
  BY DEF ToSet
<1> QED BY <1>1, <1>2

BufferIs(b, f, c, r, n) ==
  /\ b.flushes \in Seq(Segments) /\ (b.segment = None \/ b.segment \in Segments)
  /\ OwnSegs(b.flushes, r) /\ (b.segment # None => b.segment.run = r)
  /\ Texts(b.flushes) \o Buffer(b.segment) = (Texts(f) \o Buffer(c)) \o <<n>>

(* What a token does to the buffers of its run: it comes behind all that is there. *)
LEMMA BufferedIs ==
  ASSUME scene \in Scenes, NEW r \in Runs, NEW f \in Seq(Segments), f = flushes[r],
         NEW c, c = segments[r], c = None \/ c \in Segments,
         OwnSegs(f, r), c # None => c.run = r,
         NEW kind \in {"text", "thinking"}, NEW n \in Nat, NEW b, b = Buffered(r, kind, n)
  PROVE  BufferIs(b, f, c, r, n)
<1> DEFINE same == c # None /\ c.kind = kind
<1>1. PICK txt \in Seq(Nat) : txt = IF same THEN Append(c.text, n) ELSE <<n>>
  <2>1. <<n>> \in Seq(Nat)
    OBVIOUS
  <2>2. CASE same
    <3>1. c.text \in Seq(Nat)
      BY <2>2 DEF Segments
    <3>2. Append(c.text, n) \in Seq(Nat)
      BY <3>1, AppendProperties
    <3> QED BY <2>2, <3>2
  <2> QED BY <2>1, <2>2
<1>2. PICK seg : seg = [run |-> r, kind |-> kind, text |-> txt]
  OBVIOUS
<1>3. seg \in Segments /\ seg.run = r /\ seg.text = txt
  BY <1>2 DEF Segments
<1>4. seg # None
  BY <1>3, NoneIsNoSegment
<1> DEFINE full == Len(txt) >= FLUSH_CHARS
<1>5. PICK head : head = f \o (IF c # None /\ ~same THEN <<c>> ELSE <<>>)
  OBVIOUS
<1>6. /\ b.flushes = head \o (IF full THEN <<seg>> ELSE <<>>)
      /\ b.segment = IF full THEN None ELSE seg
  BY <1>1, <1>2, <1>5 DEF Buffered
<1>7. PICK t \in Seq(Nat) : t = Texts(f)
  <2>1. <<>> \in Seq(Emits)
    BY EmptySeq
  <2>2. WayIs(<<>>, f, c, r)
    BY <2>1, WayTyped
  <2> QED BY <2>2 DEF WayIs
<1>8. PICK d \in Seq(Nat) : d = Buffer(c)
  <2>1. <<>> \in Seq(Emits)
    BY EmptySeq
  <2>2. WayIs(<<>>, f, c, r)
    BY <2>1, WayTyped
  <2> QED BY <2>2 DEF WayIs
<1>9. PICK one \in Seq(Nat) : one = <<n>>
  BY OneToken
(* what is before the segment that the token is in, and that *)
<1>10. /\ head \in Seq(Segments) /\ OwnSegs(head, r) /\ Texts(head) \in Seq(Nat)
       /\ Texts(head) \o txt = (t \o d) \o one
  <2>1. CASE c = None
    <3>1. head = f /\ txt = one
      BY <2>1, <1>1, <1>5, <1>9, ConcatEmptySeq
    <3>2. d = <<>>
      BY <2>1, <1>8 DEF Buffer
    <3>3. t \o d = t
      BY <3>2, NothingJoined
    <3> QED BY <1>7, <3>1, <3>3
  <2>2. CASE same
    <3>1. head = f /\ txt = Append(c.text, n) /\ d = c.text
      <4>1. head = f
        BY <2>2, <1>5, ConcatEmptySeq
      <4> QED BY <2>2, <4>1, <1>1, <1>8 DEF Buffer
    <3>2. Append(d, n) = d \o one
      BY <1>9, AppendIsConcat
    <3>3. t \o (d \o one) = (t \o d) \o one
      BY JoinedAnyway
    <3> QED BY <1>7, <3>1, <3>2, <3>3
  <2>3. CASE c # None /\ ~same
    <3>1. c \in Segments /\ c.run = r /\ d = c.text /\ txt = one
      BY <2>3, <1>1, <1>8, <1>9 DEF Buffer
    <3>2. head = Append(f, c)
      BY <2>3, <1>5, <3>1, AppendIsConcat
    <3>3. Texts(head) = t \o d /\ head \in Seq(Segments)
      BY <3>1, <3>2, <1>7, TextsMore, AppendProperties
    <3>4. t \o d \in Seq(Nat)
      BY Joined
    <3>5. OwnSegs(head, r)
      <4>1. /\ Len(head) = Len(f) + 1 /\ head[Len(f) + 1] = c /\ Len(f) \in Nat
            /\ \A i \in 1 .. Len(f) : head[i] = f[i]
        BY <3>1, <3>2, AppendProperties, LenProperties
      <4>2. ASSUME NEW i \in 1 .. Len(head) PROVE head[i].run = r
        <5>1. i \in 1 .. Len(f) \/ i = Len(f) + 1
          BY <4>1
        <5> QED BY <3>1, <4>1, <5>1 DEF OwnSegs
      <4> QED BY <4>2 DEF OwnSegs
    <3> QED BY <3>1, <3>3, <3>4, <3>5
  <2> QED BY <2>1, <2>2, <2>3
<1> HIDE DEF same, full
<1>11. CASE full
  <2>1. b.segment = None /\ b.flushes = Append(head, seg)
    BY <1>3, <1>6, <1>10, <1>11, AppendIsConcat
  <2>2. Texts(b.flushes) = Texts(head) \o txt /\ b.flushes \in Seq(Segments)
    <3>1. PICK g \in Seq(Segments) : g = head
      BY <1>10
    <3>2. Append(g, seg) \in Seq(Segments) /\ Texts(Append(g, seg)) = Texts(g) \o seg.text
      BY <1>3, TextsMore, AppendProperties
    <3> QED BY <1>3, <2>1, <3>1, <3>2
  <2>3. Buffer(b.segment) = <<>>
    BY <2>1 DEF Buffer
  <2>4. Texts(head) \o txt \in Seq(Nat)
    BY <1>10, Joined
  <2>5. (Texts(head) \o txt) \o <<>> = Texts(head) \o txt
    BY <2>4, NothingJoined
  <2>6. OwnSegs(b.flushes, r)
    <3>1. PICK g \in Seq(Segments) : g = head
      BY <1>10
    <3>2. /\ Len(b.flushes) = Len(g) + 1 /\ b.flushes[Len(g) + 1] = seg /\ Len(g) \in Nat
          /\ \A i \in 1 .. Len(g) : b.flushes[i] = g[i]
      BY <1>3, <2>1, <3>1, AppendProperties, LenProperties
    <3>3. ASSUME NEW i \in 1 .. Len(b.flushes) PROVE b.flushes[i].run = r
      <4>1. i \in 1 .. Len(g) \/ i = Len(g) + 1
        BY <3>2
      <4> QED BY <1>3, <1>10, <3>1, <3>2, <4>1 DEF OwnSegs
    <3> QED BY <3>3 DEF OwnSegs
  <2> QED BY <1>7, <1>8, <1>9, <1>10, <2>1, <2>2, <2>3, <2>5, <2>6 DEF BufferIs
<1>12. CASE ~full
  <2>1. b.segment = seg /\ b.flushes = head
    BY <1>6, <1>10, <1>12, ConcatEmptySeq
  <2>2. Buffer(b.segment) = txt
    BY <1>3, <1>4, <2>1 DEF Buffer
  <2> QED BY <1>3, <1>7, <1>8, <1>9, <1>10, <2>1, <2>2 DEF BufferIs
<1> QED BY <1>11, <1>12

(* A token is the next number, and comes behind all that its run has. *)
LEMMA TokenTranscript ==
  ASSUME TelemetryTypeOK, BooksRight, TranscriptInvariant, NEW a \in DOMAIN acts, NEW kind \in Kinds, Token(a, kind)
  PROVE  TranscriptInvariant'
<1>0. scene \in Scenes /\ kind \in {"text", "thinking"}
  BY SceneTyped DEF TelemetryTypeOK, Kinds
<1>1. PICK r \in Runs : r = acts[a].run /\ r \in 1 .. Len(runs)
  BY ActParts, Basics DEF BooksRight
<1>2. PICK n \in Nat : n = tokens[r]
  BY DEF TelemetryTypeOK
<1>3. PICK m \in Nat : m = n + 1
  OBVIOUS
<1>4. PICK f \in Seq(Segments) : f = flushes[r]
  BY Basics
<1>5. PICK c : c = segments[r] /\ (c = None \/ c \in Segments)
  BY Basics
<1>6. PICK b : b = Buffered(r, kind, m)
  OBVIOUS
<1>7. /\ tokens' = [tokens EXCEPT ![r] = m] /\ flushes' = [flushes EXCEPT ![r] = b.flushes]
      /\ segments' = [segments EXCEPT ![r] = b.segment]
      /\ UNCHANGED <<scene, store, runs, acts, open, counts, writing, harmed, troubles>>
  BY <1>1, <1>2, <1>3, <1>6 DEF Token
<1>8. OwnSegs(f, r) /\ (c # None => c.run = r)
  BY <1>4, <1>5 DEF TranscriptInvariant, SegmentsOwn
<1>9. /\ b.flushes \in Seq(Segments) /\ (b.segment = None \/ b.segment \in Segments)
      /\ OwnSegs(b.flushes, r) /\ (b.segment # None => b.segment.run = r)
      /\ Texts(b.flushes) \o Buffer(b.segment) = (Texts(f) \o Buffer(c)) \o <<m>>
  <2>1. BufferIs(b, f, c, r, m)
    BY <1>0, <1>4, <1>5, <1>6, <1>8, BufferedIs
  <2> QED BY <2>1 DEF BufferIs
<1>10. /\ flushes'[r] = b.flushes /\ segments'[r] = b.segment /\ tokens'[r] = m
      /\ \A q \in Runs : q # r => flushes'[q] = flushes[q] /\ segments'[q] = segments[q] /\ tokens'[q] = tokens[q]
  BY <1>7, Basics DEF TelemetryTypeOK
<1>11. Runs' = Runs /\ runs' = runs /\ writing' = writing /\ store' = store /\ harmed' = harmed
  BY <1>7, TypesSame
<1>12. SegmentsOwn'
  <2>1. ASSUME NEW q \in Runs PROVE ((segments[q] # None => segments[q].run = q) /\ OwnSegs(flushes[q], q))'
    <3>1. (segments'[q] # None => segments'[q].run = q) /\ OwnSegs(flushes'[q], q)
      BY <1>9, <1>10 DEF TranscriptInvariant, SegmentsOwn
    <3> QED BY <3>1 DEF OwnSegs
  <2>2. ASSUME NEW j \in Members(writing) PROVE j.ev.type # "output_segment" /\ OwnSegs(j.segs, j.ev.run)
    BY DEF TranscriptInvariant, SegmentsOwn
  <2> QED BY <1>11, <2>1, <2>2 DEF SegmentsOwn, Members
<1>13. ASSUME NEW q \in Runs, q \notin harmed PROVE Whole(q)'
  <2>1. Whole(q)
    BY <1>13 DEF TranscriptInvariant, TokensKept
  <2>2. CASE q # r
    <3>1. PICK s : s = Stored(store, q) \o Way(writing, flushes[q], segments[q], q)
      OBVIOUS
    <3>2. s = Stored(store', q) \o Way(writing', flushes'[q], segments'[q], q)
      BY <1>10, <1>11, <2>2, <3>1
    <3> QED BY <1>10, <2>1, <2>2, <3>1, <3>2, WholeStays
  <2>3. CASE q = r
    <3>1. PICK s \in Seq(AgentEvents), w \in Seq(Emits) : s = store /\ w = writing
      BY DEF TelemetryTypeOK
    <3>2. PICK g \in Seq(Segments) : g = b.flushes
      BY <1>9
    <3>3. PICK d : d = b.segment /\ (d = None \/ d \in Segments)
      BY <1>9
    <3>4. WayIs(w, f, c, r) /\ WayIs(w, g, d, r)
      BY <1>5, <3>2, <3>3, WayTyped
    <3>5. /\ Len(Stored(s, r) \o Way(w, f, c, r)) = n
          /\ ToSet(Stored(s, r) \o Way(w, f, c, r)) = 1 .. n
      BY <1>2, <1>4, <1>5, <2>1, <2>3, <3>1, WholeIs
    <3>6. PICK st \in Seq(Nat) : st = Stored(s, r)
      BY StoredTyped
    <3>7. PICK wt \in Seq(Nat) : wt = Waiting(w, r)
      BY <3>4 DEF WayIs
    <3>8. PICK ft \in Seq(Nat), ct \in Seq(Nat) : ft = Texts(f) /\ ct = Buffer(c)
      BY <3>4 DEF WayIs
    <3>9. PICK gt \in Seq(Nat), dt \in Seq(Nat) : gt = Texts(g) /\ dt = Buffer(d)
      BY <3>4 DEF WayIs
    <3>10. PICK old \in Seq(Nat), new \in Seq(Nat) : old = Way(w, f, c, r) /\ new = Way(w, g, d, r)
      BY <3>4 DEF WayIs
    <3>11. /\ Len(old) = Len(wt) + Len(ft) + Len(ct) /\ ToSet(old) = ToSet(wt) \cup ToSet(ft) \cup ToSet(ct)
          /\ Len(new) = Len(wt) + Len(gt) + Len(dt) /\ ToSet(new) = ToSet(wt) \cup ToSet(gt) \cup ToSet(dt)
      <4>1. /\ Len(Way(w, f, c, r)) = Len(Waiting(w, r)) + Len(Texts(f)) + Len(Buffer(c))
            /\ ToSet(Way(w, f, c, r)) = ToSet(Waiting(w, r)) \cup ToSet(Texts(f)) \cup ToSet(Buffer(c))
        BY <3>4 DEF WayIs
      <4>2. /\ Len(Way(w, g, d, r)) = Len(Waiting(w, r)) + Len(Texts(g)) + Len(Buffer(d))
            /\ ToSet(Way(w, g, d, r)) = ToSet(Waiting(w, r)) \cup ToSet(Texts(g)) \cup ToSet(Buffer(d))
        BY <3>4 DEF WayIs
      <4> QED BY <3>7, <3>8, <3>9, <3>10, <4>1, <4>2
    <3>12. gt \o dt = (ft \o ct) \o <<m>>
      BY <1>9, <3>2, <3>3, <3>8, <3>9
    <3>13. Len(gt) + Len(dt) = Len(ft) + Len(ct) + 1 /\ ToSet(gt) \cup ToSet(dt) = ToSet(ft) \cup ToSet(ct) \cup {m}
      <4>1. PICK one \in Seq(Nat) : one = <<m>>
        BY OneToken
      <4>2. Len(one) = 1 /\ ToSet(one) = {m}
        BY <4>1, OneToken
      <4>3. PICK fc \in Seq(Nat) : fc = ft \o ct
        BY Joined
      <4>4. Len(fc) = Len(ft) + Len(ct) /\ ToSet(fc) = ToSet(ft) \cup ToSet(ct)
        BY <4>3, Joined
      <4>5. Len(fc \o one) = Len(fc) + Len(one) /\ ToSet(fc \o one) = ToSet(fc) \cup ToSet(one)
        BY Joined
      <4>6. Len(gt \o dt) = Len(gt) + Len(dt) /\ ToSet(gt \o dt) = ToSet(gt) \cup ToSet(dt)
        BY Joined
      <4>7. gt \o dt = fc \o one
        BY <3>12, <4>1, <4>3
      <4> QED BY <4>2, <4>4, <4>5, <4>6, <4>7
    <3>14. /\ Len(st \o old) = Len(st) + Len(old) /\ ToSet(st \o old) = ToSet(st) \cup ToSet(old)
           /\ Len(st \o new) = Len(st) + Len(new) /\ ToSet(st \o new) = ToSet(st) \cup ToSet(new)
      BY Joined
    <3>15. Len(st \o old) = n /\ ToSet(st \o old) = 1 .. n
      BY <3>5, <3>6, <3>10
    <3>16. Len(st \o new) = m
      <4>1. Len(st) \in Nat /\ Len(wt) \in Nat /\ Len(ft) \in Nat /\ Len(ct) \in Nat /\ Len(gt) \in Nat /\ Len(dt) \in Nat
        BY LenProperties
      <4>2. Len(new) = Len(old) + 1
        <5>1. PICK y : y = Len(wt)
          OBVIOUS
        <5>2. PICK z : z = Len(ft) + Len(ct)
          OBVIOUS
        <5>3. PICK p : p = Len(gt) + Len(dt)
          OBVIOUS
        <5>4. y \in Nat /\ z \in Nat /\ p \in Nat
          BY <4>1, <5>1, <5>2, <5>3
        <5>5. Len(old) = y + z /\ Len(new) = y + p
          <6>1. Len(old) = Len(wt) + Len(ft) + Len(ct) /\ Len(new) = Len(wt) + Len(gt) + Len(dt)
            BY <3>11
          <6> QED BY <4>1, <5>1, <5>2, <5>3, <6>1
        <5>6. p = z + 1
          BY <3>13, <5>2, <5>3
        <5> QED BY <5>4, <5>5, <5>6
      <4>3. Len(old) \in Nat /\ Len(st) + Len(old) = n /\ Len(st \o new) = Len(st) + Len(new)
        BY <3>14, <3>15, LenProperties
      <4>4. PICK ls \in Nat : ls = Len(st)
        BY <4>1
      <4>5. PICK lo \in Nat : lo = Len(old)
        BY <4>3
      <4>6. ls + lo = n /\ Len(st \o new) = ls + (lo + 1)
        BY <4>2, <4>3, <4>4, <4>5
      <4> QED BY <4>6, <1>3
    <3>17. ToSet(st \o new) = 1 .. m
      <4>1. ToSet(st \o new) = ToSet(st \o old) \cup {m}
        BY <3>11, <3>13, <3>14
      <4>2. 1 .. m = (1 .. n) \cup {m}
        BY <1>3
      <4> QED BY <3>15, <4>1, <4>2
    <3>18. s = store' /\ w = writing' /\ g = flushes'[r] /\ d = segments'[r] /\ m = tokens'[r]
      BY <1>10, <1>11, <3>1, <3>2, <3>3
    <3>19. /\ Len(Stored(s, r) \o Way(w, g, d, r)) = m
           /\ ToSet(Stored(s, r) \o Way(w, g, d, r)) = 1 .. m
      BY <3>6, <3>10, <3>16, <3>17
    <3>20. Whole(r)'
      BY <3>18, <3>19, WholeNext
    <3> QED BY <2>3, <3>20
  <2> QED BY <2>2, <2>3
<1>14. ASSUME NEW q \in Runs, q \notin 1 .. Len(runs') PROVE tokens'[q] = 0
  BY <1>1, <1>10, <1>11, <1>14 DEF TranscriptInvariant, TokensKept
<1>15. TokensKept'
  BY <1>11, <1>13, <1>14 DEF TokensKept
<1> QED BY <1>12, <1>15 DEF TranscriptInvariant

(* The write of an emit's own event brings no text anywhere. *)
LEMMA ReturnTranscript ==
  ASSUME TelemetryTypeOK, TranscriptInvariant, NEW stored \in BOOLEAN, Write(stored), Head(writing).segs = <<>>
  PROVE  TranscriptInvariant'
<1>1. PICK w \in Seq(Emits) : w = writing /\ w # <<>>
  BY Basics DEF Write
<1>2. PICK j \in Emits : j = Head(w) /\ j.ev \in AgentEvents
  <2>1. Head(w) \in Emits
    BY <1>1, HeadTailProperties
  <2> QED BY <2>1 DEF Emits
<1>3. PICK rest \in Seq(Emits) : rest = Tail(w)
  BY <1>1, HeadTailProperties
<1>4. Members(rest) \subseteq Members(w) /\ j \in Members(w)
  <2>1. /\ Len(rest) = Len(w) - 1 /\ Len(w) \in Nat \ {0} /\ Head(w) = w[1]
        /\ \A i \in 1 .. Len(rest) : rest[i] = w[i + 1]
    BY <1>1, <1>3, HeadTailProperties, LenProperties
  <2>2. 1 \in 1 .. Len(w) /\ \A i \in 1 .. Len(rest) : i + 1 \in 1 .. Len(w)
    BY <2>1
  <2> QED BY <1>2, <2>1, <2>2 DEF Members
<1>5. /\ writing' = rest /\ Returned(j) /\ UNCHANGED <<scene, segments, flushes, tokens>> /\ j.segs = <<>>
      /\ store' = IF stored THEN Append(store, j.ev) ELSE store
      /\ harmed \subseteq harmed'
  BY <1>1, <1>2, <1>3 DEF Write
<1>6. j.ev.type # "output_segment"
  BY <1>1, <1>4 DEF TranscriptInvariant, SegmentsOwn
<1>7. Runs' = Runs /\ Len(runs') = Len(runs)
  BY <1>5, TypesSame, ReturnedTyped
<1>8. SegmentsOwn'
  <2>1. ASSUME NEW q \in Runs PROVE ((segments[q] # None => segments[q].run = q) /\ OwnSegs(flushes[q], q))'
    <3>1. (segments'[q] # None => segments'[q].run = q) /\ OwnSegs(flushes'[q], q)
      BY <1>5 DEF TranscriptInvariant, SegmentsOwn
    <3> QED BY <3>1 DEF OwnSegs
  <2>2. ASSUME NEW k \in Members(rest) PROVE k.ev.type # "output_segment" /\ OwnSegs(k.segs, k.ev.run)
    BY <1>1, <1>4 DEF TranscriptInvariant, SegmentsOwn
  <2> QED BY <1>5, <1>7, <2>1, <2>2 DEF SegmentsOwn, Members
<1>9. ASSUME NEW q \in Runs, q \notin harmed PROVE Whole(q)'
  <2>1. Whole(q)
    BY <1>9 DEF TranscriptInvariant, TokensKept
  <2>2. PICK s \in Seq(AgentEvents) : s = store
    BY DEF TelemetryTypeOK
  <2>3. Stored(store', q) = Stored(store, q)
    <3>1. Stored(Append(s, j.ev), q) = Stored(s, q)
      BY <1>2, <1>6, StoredMore
    <3> QED BY <1>5, <2>2, <3>1
  <2>4. Waiting(rest, q) = Waiting(w, q)
    <3>1. Piece(j, q) = <<>>
      BY <1>5, NoTexts DEF Piece
    <3>2. PICK a \in Seq(Nat) : a = Waiting(rest, q)
      BY <1>2, WaitMore
    <3>3. Waiting(w, q) = Piece(j, q) \o Waiting(rest, q)
      BY <1>1, <1>2, <1>3, WaitFirst
    <3> QED BY <3>1, <3>2, <3>3, NothingJoined
  <2>5. PICK a : a = Stored(store, q) \o Way(writing, flushes[q], segments[q], q)
    OBVIOUS
  <2>6. a = Stored(store', q) \o Way(writing', flushes'[q], segments'[q], q)
    BY <1>1, <1>5, <2>3, <2>4, <2>5 DEF Way
  <2>7. tokens'[q] = tokens[q]
    BY <1>5
  <2> QED BY <2>1, <2>5, <2>6, <2>7, WholeStays
<1>10. TokensKept'
  <2>1. ASSUME NEW q \in Runs, q \notin 1 .. Len(runs') PROVE tokens'[q] = 0
    BY <1>5, <1>7, <2>1 DEF TranscriptInvariant, TokensKept
  <2>2. \A q \in Runs : q \notin harmed' => Whole(q)'
    BY <1>5, <1>9
  <2> QED BY <1>7, <2>1, <2>2 DEF TokensKept
<1> QED BY <1>8, <1>10 DEF TranscriptInvariant

(* The write of a segment moves its text from what waits into the store, or the run is
   one of which something is missing. *)
LEMMA SegmentTranscript ==
  ASSUME TelemetryTypeOK, TranscriptInvariant, NEW stored \in BOOLEAN, Write(stored), Head(writing).segs # <<>>
  PROVE  TranscriptInvariant'
<1>0. scene \in Scenes
  BY DEF TelemetryTypeOK
<1>1. PICK w \in Seq(Emits) : w = writing /\ w # <<>>
  BY Basics DEF Write
<1>2. PICK j \in Emits : j = Head(w) /\ j.ev \in AgentEvents
  <2>1. Head(w) \in Emits
    BY <1>1, HeadTailProperties
  <2> QED BY <2>1 DEF Emits
<1>3. PICK rest \in Seq(Emits) : rest = Tail(w)
  BY <1>1, HeadTailProperties
<1>4. Members(rest) \subseteq Members(w) /\ j \in Members(w)
  <2>1. /\ Len(rest) = Len(w) - 1 /\ Len(w) \in Nat \ {0} /\ Head(w) = w[1]
        /\ \A i \in 1 .. Len(rest) : rest[i] = w[i + 1]
    BY <1>1, <1>3, HeadTailProperties, LenProperties
  <2>2. 1 \in 1 .. Len(w) /\ \A i \in 1 .. Len(rest) : i + 1 \in 1 .. Len(w)
    BY <2>1
  <2> QED BY <1>2, <2>1, <2>2 DEF Members
<1>5. PICK segs \in Seq(Segments) : segs = j.segs /\ segs # <<>>
  BY <1>1, <1>2 DEF Emits
<1>6. PICK less \in Seq(Segments) : less = Tail(segs)
  BY <1>5, HeadTailProperties
<1>7. PICK seg \in Segments : seg = Head(segs)
  BY <1>5, HeadTailProperties
<1>8. PICK x \in Runs : x = j.ev.run
  BY <1>2 DEF AgentEvents
<1>9. j.ev.type # "output_segment" /\ OwnSegs(segs, x)
  BY <1>1, <1>4, <1>5, <1>8 DEF TranscriptInvariant, SegmentsOwn
<1>10. seg.run = x /\ OwnSegs(less, x)
  <2>1. /\ Len(less) = Len(segs) - 1 /\ Len(segs) \in Nat \ {0} /\ seg = segs[1]
        /\ \A i \in 1 .. Len(less) : less[i] = segs[i + 1]
    BY <1>5, <1>6, <1>7, HeadTailProperties, LenProperties
  <2>2. 1 \in 1 .. Len(segs) /\ \A i \in 1 .. Len(less) : i + 1 \in 1 .. Len(segs)
    BY <2>1
  <2> QED BY <1>9, <2>1, <2>2 DEF OwnSegs
<1>11. PICK m \in Emits : m = [j EXCEPT !.segs = less] /\ m.ev = j.ev /\ m.segs = less
  <2>1. PICK m : m = [j EXCEPT !.segs = less]
    OBVIOUS
  <2>2. m \in Emits /\ m.ev = j.ev /\ m.segs = less
    BY <2>1 DEF Emits
  <2> QED BY <2>1, <2>2
<1>12. PICK e \in AgentEvents : e = Segment(seg) /\ e.type = "output_segment" /\ e.run = x /\ e.text = seg.text
  <2>1. Segment(seg) \in AgentEvents
    BY <1>0, SegmentTyped
  <2>2. Segment(seg).type = "output_segment" /\ Segment(seg).run = x /\ Segment(seg).text = seg.text
    BY <1>10 DEF Segment
  <2> QED BY <2>1, <2>2
<1>13. /\ writing' = Append(rest, m) /\ UNCHANGED <<scene, runs, segments, flushes, tokens>>
       /\ store' = IF stored THEN Append(store, e) ELSE store
       /\ harmed' = IF stored THEN harmed ELSE harmed \cup {x}
  BY <1>1, <1>2, <1>3, <1>5, <1>6, <1>7, <1>11, <1>12 DEF Write
<1>14. Runs' = Runs
  BY <1>13, TypesSame
<1>15. PICK v \in Seq(Emits) : v = writing' /\ v = Append(rest, m)
  BY <1>13, AppendProperties
<1>16. SegmentsOwn'
  <2>1. ASSUME NEW q \in Runs PROVE ((segments[q] # None => segments[q].run = q) /\ OwnSegs(flushes[q], q))'
    <3>1. (segments'[q] # None => segments'[q].run = q) /\ OwnSegs(flushes'[q], q)
      BY <1>13 DEF TranscriptInvariant, SegmentsOwn
    <3> QED BY <3>1 DEF OwnSegs
  <2>2. \A k \in Members(v) : k \in Members(rest) \/ k = m
    <3>1. /\ Len(v) = Len(rest) + 1 /\ v[Len(rest) + 1] = m /\ Len(rest) \in Nat
          /\ \A i \in 1 .. Len(rest) : v[i] = rest[i]
      BY <1>15, AppendProperties, LenProperties
    <3>2. ASSUME NEW i \in 1 .. Len(v) PROVE v[i] \in Members(rest) \/ v[i] = m
      <4>1. i \in 1 .. Len(rest) \/ i = Len(rest) + 1
        BY <3>1
      <4> QED BY <3>1, <4>1 DEF Members
    <3> QED BY <3>2 DEF Members
  <2>3. ASSUME NEW k \in Members(v) PROVE k.ev.type # "output_segment" /\ OwnSegs(k.segs, k.ev.run)
    <3>1. CASE k = m
      BY <3>1, <1>8, <1>9, <1>10, <1>11
    <3>2. CASE k \in Members(rest)
      BY <3>2, <1>1, <1>4 DEF TranscriptInvariant, SegmentsOwn
    <3> QED BY <2>2, <3>1, <3>2
  <2> QED BY <1>14, <1>15, <2>1, <2>3 DEF SegmentsOwn, Members
<1>17. ASSUME NEW q \in Runs, q \notin harmed' PROVE Whole(q)'
  <2>1. q \notin harmed /\ Whole(q) /\ (q = x => stored)
    BY <1>13, <1>17 DEF TranscriptInvariant, TokensKept
  <2>2. PICK s \in Seq(AgentEvents) : s = store
    BY DEF TelemetryTypeOK
  <2>3. PICK t \in Seq(AgentEvents) : t = store'
    <3>1. Append(s, e) \in Seq(AgentEvents)
      BY AppendProperties
    <3> QED BY <1>13, <2>2, <3>1
  <2>4. PICK f \in Seq(Segments) : f = flushes[q]
    BY Basics
  <2>5. PICK c : c = segments[q] /\ (c = None \/ c \in Segments)
    BY Basics
  <2>6. WayIs(w, f, c, q) /\ WayIs(v, f, c, q)
    BY <2>5, WayTyped
  <2>7. PICK rt \in Seq(Nat) : rt = Waiting(rest, q) /\ Waiting(v, q) = rt \o Piece(m, q)
    BY <1>15, WaitMore
  <2>8. Waiting(w, q) = Piece(j, q) \o rt
    BY <1>1, <1>2, <1>3, <2>7, WaitFirst
  <2>9. PICK jt \in Seq(Nat), mt \in Seq(Nat) : jt = Piece(j, q) /\ mt = Piece(m, q)
    BY PieceTyped
  <2>10. PICK st \in Seq(Nat), tt \in Seq(Nat) : st = Stored(s, q) /\ tt = Stored(t, q)
    BY StoredTyped
(* the text moves *)
  <2>11. /\ Len(st) + Len(jt) = Len(tt) + Len(mt)
        /\ ToSet(st) \cup ToSet(jt) = ToSet(tt) \cup ToSet(mt)
    <3>1. CASE q # x
      <4>1. jt = <<>> /\ mt = <<>>
        BY <1>8, <1>11, <2>9, <3>1 DEF Piece
      <4>2. Stored(Append(s, e), q) = Stored(s, q)
        BY <1>12, <3>1, StoredMore
      <4>3. tt = st
        BY <1>13, <2>2, <2>3, <2>10, <4>2
      <4> QED BY <4>1, <4>3
    <3>2. CASE q = x
      <4>1. PICK a \in Seq(Nat) : a = seg.text
        BY DEF Segments
      <4>2. jt = Texts(segs) /\ mt = Texts(less)
        BY <1>5, <1>8, <1>11, <2>9, <3>2 DEF Piece
      <4>3. jt = a \o mt
        BY <1>5, <1>6, <1>7, <4>1, <4>2, TextsFirst
      <4>4. tt = st \o a
        <5>1. t = Append(s, e)
          BY <1>13, <2>1, <2>2, <2>3, <3>2
        <5>2. Stored(Append(s, e), q) = Stored(s, q) \o e.text
          BY <1>12, <3>2, StoredMore
        <5> QED BY <1>12, <2>10, <4>1, <5>1, <5>2
      <4>5. Len(a \o mt) = Len(a) + Len(mt) /\ ToSet(a \o mt) = ToSet(a) \cup ToSet(mt)
        BY Joined
      <4>6. Len(st \o a) = Len(st) + Len(a) /\ ToSet(st \o a) = ToSet(st) \cup ToSet(a)
        BY Joined
      <4>7. Len(a) \in Nat /\ Len(mt) \in Nat /\ Len(st) \in Nat
        BY LenProperties
      <4>8. Len(st) + (Len(a) + Len(mt)) = (Len(st) + Len(a)) + Len(mt)
        BY <4>7
      <4>9. ToSet(st) \cup (ToSet(a) \cup ToSet(mt)) = (ToSet(st) \cup ToSet(a)) \cup ToSet(mt)
        OBVIOUS
      <4> QED BY <4>3, <4>4, <4>5, <4>6, <4>8, <4>9
    <3> QED BY <3>1, <3>2
  <2>12. PICK wt \in Seq(Nat), vt \in Seq(Nat) : wt = Waiting(w, q) /\ vt = Waiting(v, q)
    BY <2>6 DEF WayIs
  <2>13. /\ Len(wt) = Len(jt) + Len(rt) /\ ToSet(wt) = ToSet(jt) \cup ToSet(rt)
         /\ Len(vt) = Len(rt) + Len(mt) /\ ToSet(vt) = ToSet(rt) \cup ToSet(mt)
    <3>1. wt = jt \o rt /\ vt = rt \o mt
      BY <2>7, <2>8, <2>9, <2>12
    <3>2. Len(jt \o rt) = Len(jt) + Len(rt) /\ ToSet(jt \o rt) = ToSet(jt) \cup ToSet(rt)
      BY Joined
    <3>3. Len(rt \o mt) = Len(rt) + Len(mt) /\ ToSet(rt \o mt) = ToSet(rt) \cup ToSet(mt)
      BY Joined
    <3> QED BY <3>1, <3>2, <3>3
  <2>14. PICK ft \in Seq(Nat), ct \in Seq(Nat) : ft = Texts(f) /\ ct = Buffer(c)
    BY <2>6 DEF WayIs
  <2>15. PICK old \in Seq(Nat) : old = Way(w, f, c, q) /\ Len(old) = Len(wt) + Len(ft) + Len(ct)
                               /\ ToSet(old) = ToSet(wt) \cup ToSet(ft) \cup ToSet(ct)
    <3>1. /\ Way(w, f, c, q) \in Seq(Nat)
          /\ Len(Way(w, f, c, q)) = Len(Waiting(w, q)) + Len(Texts(f)) + Len(Buffer(c))
          /\ ToSet(Way(w, f, c, q)) = ToSet(Waiting(w, q)) \cup ToSet(Texts(f)) \cup ToSet(Buffer(c))
      BY <2>6 DEF WayIs
    <3> QED BY <2>12, <2>14, <3>1
  <2>16. PICK new \in Seq(Nat) : new = Way(v, f, c, q) /\ Len(new) = Len(vt) + Len(ft) + Len(ct)
                               /\ ToSet(new) = ToSet(vt) \cup ToSet(ft) \cup ToSet(ct)
    <3>1. /\ Way(v, f, c, q) \in Seq(Nat)
          /\ Len(Way(v, f, c, q)) = Len(Waiting(v, q)) + Len(Texts(f)) + Len(Buffer(c))
          /\ ToSet(Way(v, f, c, q)) = ToSet(Waiting(v, q)) \cup ToSet(Texts(f)) \cup ToSet(Buffer(c))
      BY <2>6 DEF WayIs
    <3> QED BY <2>12, <2>14, <3>1
  <2>17. /\ Len(st \o old) = Len(st) + Len(old) /\ ToSet(st \o old) = ToSet(st) \cup ToSet(old)
         /\ Len(tt \o new) = Len(tt) + Len(new) /\ ToSet(tt \o new) = ToSet(tt) \cup ToSet(new)
    BY Joined
  <2>18. Len(tt \o new) = Len(st \o old)
    <3>1. /\ Len(st) \in Nat /\ Len(jt) \in Nat /\ Len(tt) \in Nat /\ Len(mt) \in Nat /\ Len(rt) \in Nat
          /\ Len(ft) \in Nat /\ Len(ct) \in Nat
      BY LenProperties
    <3>2. Len(old) = Len(jt) + Len(rt) + Len(ft) + Len(ct) /\ Len(new) = Len(rt) + Len(mt) + Len(ft) + Len(ct)
      BY <2>13, <2>15, <2>16
    <3>3. PICK i \in Nat, k \in Nat, l \in Nat, o \in Nat : i = Len(st) /\ k = Len(jt) /\ l = Len(tt) /\ o = Len(mt)
      BY <3>1
    <3>4. PICK y \in Nat : y = Len(rt) + Len(ft) + Len(ct)
      BY <3>1
    <3>5. Len(old) = k + y /\ Len(new) = o + y
      BY <3>1, <3>2, <3>3, <3>4
    <3>6. i + k = l + o
      BY <2>11, <3>3
    <3>7. i + (k + y) = l + (o + y)
      BY <3>6
    <3> QED BY <2>17, <3>3, <3>5, <3>7
  <2>19. ToSet(tt \o new) = ToSet(st \o old)
    BY <2>11, <2>13, <2>15, <2>16, <2>17
  <2>20. st \o old = Stored(store, q) \o Way(writing, flushes[q], segments[q], q)
    BY <1>1, <2>2, <2>4, <2>5, <2>10, <2>15
  <2>21. tt \o new = Stored(store', q) \o Way(writing', flushes'[q], segments'[q], q)
    BY <1>13, <1>15, <2>3, <2>4, <2>5, <2>10, <2>16
  <2>22. tokens'[q] = tokens[q]
    BY <1>13
  <2> QED BY <2>1, <2>18, <2>19, <2>20, <2>21, <2>22, WholeStays
<1>18. TokensKept'
  <2>1. ASSUME NEW q \in Runs, q \notin 1 .. Len(runs') PROVE tokens'[q] = 0
    BY <1>13, <2>1 DEF TranscriptInvariant, TokensKept
  <2> QED BY <1>14, <1>17, <2>1 DEF TokensKept
<1> QED BY <1>16, <1>18 DEF TranscriptInvariant

(* A run that is cancelled leaves the others' text where it is. *)
LEMMA CancelRunTranscript ==
  ASSUME TelemetryTypeOK, BooksRight, TranscriptInvariant, NEW r \in DOMAIN runs, CancelRun(r)
  PROVE  TranscriptInvariant'
<1>0. scene \in Scenes /\ r \in Runs /\ Len(runs) \in Nat
  BY RunParts DEF TelemetryTypeOK
<1>1. PICK w \in Seq(Emits) : w = writing
  BY Basics
<1>2. PICK others \in Seq(Emits) : others = Without(r, w) /\ Members(others) \subseteq {k \in Members(w) : k.ev.run # r}
  BY <1>1, NoneOf DEF BooksRight
<1>3. /\ UNCHANGED <<scene, queue, tokens, heard>> /\ harmed' = harmed \cup {r}
      /\ \/ /\ EmitWith(Ev("run_cancelled", r, 0, None), others, counts)
            /\ runs' = [runs EXCEPT ![r] = [agent |-> runs[r].agent, st |-> "ending", how |-> "run_cancelled"]]
         \/ writing' = others /\ runs' = [runs EXCEPT ![r].st = "gone"] /\ UNCHANGED recorder
  BY <1>1, <1>2, Zenon DEF CancelRun
<1>4. Runs' = Runs
  BY <1>3, TypesSame
<1>5. Len(runs') = Len(runs)
  <2>1. PICK b : runs' = [runs EXCEPT ![r] = b]
    BY <1>3
  <2>2. runs \in Seq(RunRecords)
    BY DEF TelemetryTypeOK
  <2> QED BY <2>1, <2>2
(* what the store may have been given is of the run itself *)
<1>6. \A q \in Runs : q # r => Stored(store', q) = Stored(store, q)
  <2>1. CASE store' = store
    BY <2>1
  <2>2. CASE store' # store
    <3>1. /\ w # <<>> /\ Head(w).ev.run = r
          /\ store' = Append(store, IF Head(w).segs = <<>> THEN Head(w).ev ELSE Segment(Head(Head(w).segs)))
      BY <1>1, <2>2 DEF CancelRun
    <3>2. PICK j \in Emits : j = Head(w) /\ j.ev \in AgentEvents /\ j.ev.run = r /\ j \in Members(writing)
      <4>1. Head(w) \in Emits /\ Head(w) = w[1] /\ Len(w) \in Nat \ {0}
        BY <3>1, HeadTailProperties, LenProperties
      <4>2. Head(w) \in Members(w)
        BY <4>1 DEF Members
      <4>3. Head(w).ev \in AgentEvents
        BY <4>1 DEF Emits
      <4> QED BY <1>1, <3>1, <4>1, <4>2, <4>3
    <3>3. PICK e \in AgentEvents : store' = Append(store, e) /\ e.run = r
      <4>1. CASE j.segs = <<>>
        BY <3>1, <3>2, <4>1
      <4>2. CASE j.segs # <<>>
        <5>1. PICK segs \in Seq(Segments) : segs = j.segs
          BY DEF Emits
        <5>2. PICK seg \in Segments : seg = Head(segs) /\ seg = segs[1] /\ 1 \in 1 .. Len(segs)
          <6>1. Head(segs) \in Segments /\ Head(segs) = segs[1] /\ Len(segs) \in Nat \ {0}
            BY <4>2, <5>1, HeadTailProperties, LenProperties
          <6> QED BY <6>1
        <5>3. seg.run = r
          BY <3>2, <5>1, <5>2 DEF TranscriptInvariant, SegmentsOwn, OwnSegs
        <5>4. Segment(seg) \in AgentEvents /\ Segment(seg).run = r
          <6>1. Segment(seg) \in AgentEvents
            BY <1>0, SegmentTyped
          <6>2. Segment(seg).run = r
            BY <5>3 DEF Segment
          <6> QED BY <6>1, <6>2
        <5>5. store' = Append(store, Segment(seg))
          BY <3>1, <3>2, <4>2, <5>1, <5>2
        <5> QED BY <5>4, <5>5
      <4> QED BY <4>1, <4>2
    <3>4. PICK s \in Seq(AgentEvents) : s = store
      BY DEF TelemetryTypeOK
    <3>5. ASSUME NEW q \in Runs, q # r PROVE Stored(Append(s, e), q) = Stored(s, q)
      BY <3>3, <3>5, StoredMore
    <3> QED BY <3>3, <3>4, <3>5
  <2> QED BY <2>1, <2>2
<1>7. /\ \A j \in Members(writing') : j.ev.type # "output_segment" /\ OwnSegs(j.segs, j.ev.run)
      /\ \A q \in Runs : (segments'[q] # None => segments'[q].run = q) /\ OwnSegs(flushes'[q], q)
      /\ \A q \in Runs : Way(writing', flushes'[q], segments'[q], q) = Way(others, flushes[q], segments[q], q)
  <2>1. CASE EmitWith(Ev("run_cancelled", r, 0, None), others, counts)
    <3>1. PICK e \in AgentEvents : e = Ev("run_cancelled", r, 0, None)
      <4>1. "run_cancelled" \in Types /\ None \in Calls
        BY DEF Types, RunEvents, RunEnds, Calls
      <4> QED BY <1>0, <4>1, EvTyped
    <3>2. e.type # "output_segment"
      BY <3>1 DEF Ev
    <3>3. Members(others) \subseteq Members(writing) /\ EmitWith(e, others, counts)
      BY <1>1, <1>2, <2>1, <3>1
    <3> QED BY <3>2, <3>3, EmitHolds DEF TranscriptInvariant
  <2>2. CASE writing' = others /\ UNCHANGED recorder
    <3>1. flushes' = flushes /\ segments' = segments /\ writing' = others
      BY <2>2 DEF recorder
    <3>2. Members(others) \subseteq Members(writing)
      BY <1>1, <1>2
    <3> QED BY <3>1, <3>2 DEF TranscriptInvariant, SegmentsOwn
  <2> QED BY <1>3, <2>1, <2>2
<1>8. SegmentsOwn'
  <2>1. ASSUME NEW q \in Runs PROVE ((segments[q] # None => segments[q].run = q) /\ OwnSegs(flushes[q], q))'
    BY <1>7 DEF OwnSegs
  <2> QED BY <1>4, <1>7, <2>1 DEF SegmentsOwn, Members
<1>9. ASSUME NEW q \in Runs, q \notin harmed' PROVE Whole(q)'
  <2>1. q # r /\ Whole(q) /\ tokens'[q] = tokens[q]
    BY <1>3, <1>9 DEF TranscriptInvariant, TokensKept
  <2>2. Waiting(others, q) = Waiting(w, q)
    BY <1>2, <2>1, WaitWithout
  <2>3. Way(writing', flushes'[q], segments'[q], q) = Way(writing, flushes[q], segments[q], q)
    <3>1. Way(others, flushes[q], segments[q], q) = Way(writing, flushes[q], segments[q], q)
      BY <1>1, <2>2 DEF Way
    <3> QED BY <1>7, <3>1
  <2>4. PICK a : a = Stored(store, q) \o Way(writing, flushes[q], segments[q], q)
    OBVIOUS
  <2>5. a = Stored(store', q) \o Way(writing', flushes'[q], segments'[q], q)
    BY <1>6, <2>1, <2>3, <2>4
  <2> QED BY <2>1, <2>4, <2>5, WholeStays
<1>10. TokensKept'
  <2>1. ASSUME NEW q \in Runs, q \notin 1 .. Len(runs') PROVE tokens'[q] = 0
    BY <1>3, <1>5, <2>1 DEF TranscriptInvariant, TokensKept
  <2> QED BY <1>4, <1>9, <2>1 DEF TokensKept
<1> QED BY <1>8, <1>10 DEF TranscriptInvariant

(* Nothing of a run that is over is on its way. *)
LEMMA NothingOnItsWay ==
  ASSUME TelemetryTypeOK, BooksRight, NEW r \in 1 .. Len(runs), runs[r].st = "over"
  PROVE  Waiting(writing, r) = <<>> /\ segments[r] = None /\ flushes[r] = <<>>
<1>1. segments[r] = None /\ flushes[r] = <<>>
  BY DEF BooksRight, RunRight
<1>2. ASSUME NEW j \in Members(writing) PROVE j.ev.run # r
  <2>1. EmitRight(j)
    BY DEF BooksRight
  <2>2. CASE j.ev.who = 0
    BY <2>1, <2>2 DEF EmitRight
  <2>3. CASE j.ev.who # 0
    BY <2>3, ActiveIs
  <2> QED BY <2>2, <2>3
<1>3. PICK w \in Seq(Emits) : w = writing
  BY Basics
<1>4. Waiting(w, r) = <<>>
  BY <1>2, <1>3, WaitNone
<1> QED BY <1>1, <1>3, <1>4

(* A process that dies harms the runs that are not over; of the others nothing was on its way. *)
LEMMA DieTranscript ==
  ASSUME TelemetryTypeOK, BooksRight, TranscriptInvariant, Die
  PROVE  TranscriptInvariant'
<1>1. /\ runs' = [r \in DOMAIN runs |-> IF runs[r].st = "over" THEN runs[r] ELSE [runs[r] EXCEPT !.st = "gone"]]
      /\ segments' = [r \in Runs |-> None] /\ flushes' = [r \in Runs |-> <<>>] /\ writing' = <<>>
      /\ harmed' = harmed \cup {r \in DOMAIN runs : runs[r].st # "over"}
      /\ scene' = scene /\ store' = store /\ tokens' = tokens
  BY DEF Die
<1>2. Len(runs') = Len(runs) /\ DOMAIN runs = 1 .. Len(runs)
  <2>1. ASSUME NEW r \in DOMAIN runs PROVE runs'[r] \in RunRecords
    BY <1>1, RunParts DEF RunRecords
  <2>2. runs' \in [1 .. Len(runs) -> RunRecords]
    BY <1>1, <2>1, Basics
  <2> QED BY <2>2, Basics, FunctionIsSeq
<1>3. Runs' = Runs
  BY <1>1, TypesSame
<1>4. Members(<<>>) = {} /\ OwnSegs(<<>>, 0) /\ \A r : OwnSegs(<<>>, r)
  <2>1. Len(<<>>) = 0
    BY EmptySeq
  <2> QED BY <2>1 DEF Members, OwnSegs
<1>5. SegmentsOwn'
  <2>1. ASSUME NEW q \in Runs PROVE ((segments[q] # None => segments[q].run = q) /\ OwnSegs(flushes[q], q))'
    <3>1. segments'[q] = None /\ flushes'[q] = <<>>
      BY <1>1
    <3> QED BY <1>4, <3>1 DEF OwnSegs
  <2>2. Members(writing') = {}
    BY <1>1, <1>4
  <2> QED BY <1>3, <2>1, <2>2 DEF SegmentsOwn, Members
<1>6. ASSUME NEW q \in Runs, q \notin harmed' PROVE Whole(q)'
  <2>1. Whole(q) /\ q \notin harmed
    BY <1>1, <1>6 DEF TranscriptInvariant, TokensKept
  <2>2. PICK s \in Seq(AgentEvents), st \in Seq(Nat) : s = store /\ st = Stored(s, q)
    <3>1. PICK s \in Seq(AgentEvents) : s = store
      BY DEF TelemetryTypeOK
    <3>2. Stored(s, q) \in Seq(Nat)
      BY StoredTyped
    <3> QED BY <3>1, <3>2
  <2>3. PICK w \in Seq(Emits) : w = writing
    BY Basics
  <2>4. PICK f \in Seq(Segments) : f = flushes[q]
    BY Basics
  <2>5. PICK c : c = segments[q] /\ (c = None \/ c \in Segments)
    BY Basics
  <2>6. WayIs(w, f, c, q)
    BY <2>5, WayTyped
  <2>7. PICK old \in Seq(Nat) : old = Way(w, f, c, q)
    BY <2>6 DEF WayIs
  <2>8. Len(st \o old) = tokens[q] /\ ToSet(st \o old) = 1 .. tokens[q]
    BY <2>1, <2>2, <2>3, <2>4, <2>5, <2>7, WholeIs
  <2>9. old = <<>>
    <3>1. CASE q \in 1 .. Len(runs)
      <4>1. runs[q].st = "over"
        BY <1>1, <1>2, <1>6, <3>1
      <4>2. Waiting(w, q) = <<>> /\ c = None /\ f = <<>>
        BY <2>3, <2>4, <2>5, <3>1, <4>1, NothingOnItsWay
      <4>3. Way(w, f, c, q) = <<>> \o <<>> \o <<>>
        BY <4>2, NoTexts DEF Way, Buffer
      <4>4. <<>> \in Seq(Nat)
        BY EmptySeq
      <4>5. <<>> \o <<>> = <<>>
        BY <4>4, NothingJoined
      <4> QED BY <2>7, <4>3, <4>5
    <3>2. CASE q \notin 1 .. Len(runs)
      <4>1. tokens[q] = 0
        BY <3>2 DEF TranscriptInvariant, TokensKept
      <4>2. Len(st) + Len(old) = 0 /\ Len(st) \in Nat /\ Len(old) \in Nat
        <5>1. Len(st \o old) = Len(st) + Len(old) /\ Len(st) \in Nat /\ Len(old) \in Nat
          BY Joined
        <5> QED BY <2>8, <4>1, <5>1
      <4>3. Len(old) = 0
        BY <4>2
      <4> QED BY <4>3, NothingJoined
    <3> QED BY <3>1, <3>2
  <2>10. Way(<<>>, <<>>, None, q) = <<>>
    <3>1. <<>> \in Seq(Emits) /\ <<>> \in Seq(Nat)
      BY EmptySeq
    <3>2. Waiting(<<>>, q) = <<>>
      BY <1>4, <3>1, WaitNone
    <3>3. <<>> \o <<>> = <<>>
      BY <3>1, NothingJoined
    <3> QED BY <3>2, <3>3, NoTexts DEF Way, Buffer
  <2>11. Way(writing', flushes'[q], segments'[q], q) = Way(writing, flushes[q], segments[q], q)
    <3>1. writing' = <<>> /\ flushes'[q] = <<>> /\ segments'[q] = None
      BY <1>1
    <3> QED BY <2>3, <2>4, <2>5, <2>7, <2>9, <2>10, <3>1
  <2>12. PICK a : a = Stored(store, q) \o Way(writing, flushes[q], segments[q], q)
    OBVIOUS
  <2>13. a = Stored(store', q) \o Way(writing', flushes'[q], segments'[q], q)
    BY <1>1, <2>11, <2>12
  <2>14. tokens'[q] = tokens[q]
    BY <1>1
  <2> QED BY <2>1, <2>12, <2>13, <2>14, WholeStays
<1>7. TokensKept'
  <2>1. ASSUME NEW q \in Runs, q \notin 1 .. Len(runs') PROVE tokens'[q] = 0
    BY <1>1, <1>2, <2>1 DEF TranscriptInvariant, TokensKept
  <2> QED BY <1>3, <1>6, <2>1 DEF TokensKept
<1> QED BY <1>5, <1>7 DEF TranscriptInvariant

(* So it is with every step of the recorder and the store, *)
LEMMA MachineryTranscript ==
  ASSUME TelemetryTypeOK, BooksRight, TranscriptInvariant, Machinery
  PROVE  TranscriptInvariant'
<1>1. scene.inputs \subseteq Calls /\ None \in Calls
  BY SceneTyped DEF TelemetryTypeOK
<1>2. ASSUME NEW x \in Agents, StartRun(x) PROVE TranscriptInvariant'
  BY <1>2, StartRunTranscript
<1>3. ASSUME NEW r \in DOMAIN runs, NEW call \in Calls, NEW kind \in {"call", "tool"}, StartAct(r, kind, call)
      PROVE  TranscriptInvariant'
  BY <1>3, StartActTranscript
<1>4. ASSUME NEW r \in DOMAIN runs, NEW how \in RunEnds, EndRun(r, how) PROVE TranscriptInvariant'
  BY <1>4, EndRunTranscript
<1>5. ASSUME NEW r \in DOMAIN runs, CancelRun(r) PROVE TranscriptInvariant'
  BY <1>5, CancelRunTranscript
<1>6. ASSUME NEW a \in DOMAIN acts, NEW type, EndAct(a, type) PROVE TranscriptInvariant'
  BY <1>6, EndActTranscript
<1>7. ASSUME NEW a \in DOMAIN acts, NEW kind \in Kinds, Token(a, kind) PROVE TranscriptInvariant'
  BY <1>7, TokenTranscript
<1>8. ASSUME NEW stored \in BOOLEAN, Write(stored) PROVE TranscriptInvariant'
  BY <1>8, SegmentTranscript, ReturnTranscript
<1>9. ASSUME Store \/ StoreRefuses PROVE TranscriptInvariant'
  <2>0. TRUE \in BOOLEAN /\ FALSE \in BOOLEAN
    OBVIOUS
  <2>1. CASE Store
    <3>1. Write(TRUE)
      BY <2>1, Zenon DEF Store
    <3> QED BY <2>0, <3>1, <1>8
  <2>2. CASE StoreRefuses
    <3>1. Write(FALSE)
      BY <2>2, Zenon DEF StoreRefuses
    <3> QED BY <2>0, <3>1, <1>8
  <2> QED BY <1>9, <2>1, <2>2
<1>10. "run_finished" \in RunEnds /\ "run_failed" \in RunEnds
  BY DEF RunEnds
<1> QED BY <1>1, <1>2, <1>3, <1>4, <1>5, <1>6, <1>7, <1>9, <1>10 DEF Machinery

(* The app has no part in it. *)
LEMMA RestTranscript ==
  ASSUME TranscriptInvariant, UNCHANGED restVars
  PROVE  TranscriptInvariant'
<1>1. /\ scene' = scene /\ store' = store /\ runs' = runs /\ segments' = segments /\ flushes' = flushes
      /\ writing' = writing /\ tokens' = tokens /\ harmed' = harmed
  BY DEF restVars
<1>2. Runs' = Runs
  BY <1>1, TypesSame
<1>3. SegmentsOwn'
  BY <1>1, <1>2 DEF TranscriptInvariant, SegmentsOwn, Members, OwnSegs
<1>4. ASSUME NEW q \in Runs, Whole(q) PROVE Whole(q)'
  <2>1. PICK a : a = Stored(store, q) \o Way(writing, flushes[q], segments[q], q)
    OBVIOUS
  <2>2. a = Stored(store', q) \o Way(writing', flushes'[q], segments'[q], q)
    BY <1>1, <2>1
  <2> QED BY <1>1, <1>4, <2>1, <2>2, WholeStays
<1>5. TokensKept'
  BY <1>1, <1>2, <1>4 DEF TranscriptInvariant, TokensKept
<1> QED BY <1>3, <1>5 DEF TranscriptInvariant

(* In the beginning there is no text. *)
LEMMA TranscriptInitially ==
  ASSUME LiveInit
  PROVE  TranscriptInvariant
<1>1. /\ scene \in Scenes /\ store = <<>> /\ writing = <<>> /\ segments = [r \in Runs |-> None]
      /\ flushes = [r \in Runs |-> <<>>] /\ tokens = [r \in Runs |-> 0]
  BY DEF LiveInit, TelemetryInit
<1>2. Len(<<>>) = 0 /\ <<>> \in Seq(Nat) /\ <<>> \in Seq(Emits) /\ <<>> \in Seq(AgentEvents)
  BY EmptySeq
<1>3. Members(<<>>) = {} /\ \A r : OwnSegs(<<>>, r)
  BY <1>2 DEF Members, OwnSegs
<1>4. SegmentsOwn
  BY <1>1, <1>3 DEF SegmentsOwn
<1>5. ASSUME NEW q \in Runs PROVE Whole(q)
  <2>1. Waiting(<<>>, q) = <<>>
    BY <1>2, <1>3, WaitNone
  <2>2. <<>> \o <<>> = <<>> /\ ToSet(<<>>) = {}
    BY <1>2, NothingJoined
  <2>3. Way(<<>>, <<>>, None, q) = <<>>
    BY <2>1, <2>2, NoTexts DEF Way, Buffer
  <2>4. Stored(<<>>, q) = <<>>
    <3>1. PICK f : f = [i \in DOMAIN <<>> |-> IF <<>>[i].type = "output_segment" /\ <<>>[i].run = q THEN <<>>[i].text ELSE <<>>]
      OBVIOUS
    <3>2. f = <<>>
      BY <3>1
    <3> QED BY <1>2, <3>1, <3>2 DEF Stored, FlattenSeq
  <2>5. store = <<>> /\ writing = <<>> /\ flushes[q] = <<>> /\ segments[q] = None /\ tokens[q] = 0
    BY <1>1
  <2>6. Len(Stored(<<>>, q) \o Way(<<>>, <<>>, None, q)) = 0 /\ ToSet(Stored(<<>>, q) \o Way(<<>>, <<>>, None, q)) = {}
    BY <1>2, <2>2, <2>3, <2>4
  <2>7. 1 .. 0 = {}
    OBVIOUS
  <2>8. PICK e : e = <<>>
    OBVIOUS
  <2> QED BY <2>5, <2>6, <2>7, <2>8, WholeIs
<1>6. TokensKept
  BY <1>1, <1>5 DEF TokensKept
<1> QED BY <1>4, <1>6 DEF TranscriptInvariant

(* Every step keeps the transcripts. *)
LEMMA TranscriptStep ==
  ASSUME LiveInvariant, TranscriptInvariant, [LiveNext]_liveVars
  PROVE  TranscriptInvariant'
<1>0. TelemetryTypeOK /\ BooksRight
  BY DEF LiveInvariant
<1>1. CASE Machinery
  BY <1>0, <1>1, MachineryTranscript
<1>2. CASE Restart
  <2>1. Die
    BY <1>2 DEF Restart
  <2> QED BY <1>0, <2>1, DieTranscript
<1>3. CASE ReadTail \/ Subscribe \/ TakeItem \/ Scroll(TRUE) \/ Scroll(FALSE) \/ UNCHANGED liveVars
  <2>1. ReadTail => UNCHANGED restVars
    BY DEF ReadTail, telemetryVars, restVars
  <2>2. Subscribe => UNCHANGED restVars
    BY DEF Subscribe, restVars
  <2>3. TakeItem => UNCHANGED restVars
    BY DEF TakeItem, restVars
  <2>4. ASSUME NEW b \in BOOLEAN, Scroll(b) PROVE UNCHANGED restVars
    BY <2>4 DEF Scroll, telemetryVars, restVars
  <2>5. UNCHANGED liveVars => UNCHANGED restVars
    BY DEF liveVars, telemetryVars, restVars
  <2>6. TRUE \in BOOLEAN /\ FALSE \in BOOLEAN
    OBVIOUS
  <2>7. UNCHANGED restVars
    BY <1>3, <2>1, <2>2, <2>3, <2>4, <2>5, <2>6, Zenon
  <2> QED BY <2>7, RestTranscript
<1> QED BY <1>1, <1>2, <1>3, Zenon DEF LiveNext

(* In every state the tokens of a run that nothing was taken from are, each of them once, in
   its segments, written or on their way. *)
THEOREM TranscriptCorrect == LiveSpec => []TranscriptInvariant
<1>1. LiveInit => TranscriptInvariant
  BY TranscriptInitially
<1>2. LiveInvariant /\ TranscriptInvariant /\ [LiveNext]_liveVars => TranscriptInvariant'
  BY TranscriptStep
<1> QED BY <1>1, <1>2, LiveCorrect, PTL DEF LiveSpec

(* The transcript of a run loses nothing and repeats nothing on its way into the store, and
   all of it is there when the run is over; the recorder keeps nothing of such a run. *)
THEOREM RecorderKeepsFaithAlways == LiveSpec => []RecorderKeepsFaith
<1>1. LiveInvariant /\ TranscriptInvariant => TranscriptKept
  <2> SUFFICES ASSUME LiveInvariant, TranscriptInvariant, NEW r \in DOMAIN runs \ harmed
               PROVE  LET all == Written(r) \o OnItsWay(r)
                      IN /\ Len(all) = tokens[r] /\ ToSet(all) = 1 .. tokens[r]
                         /\ runs[r].st = "over" => OnItsWay(r) = <<>>
    BY DEF TranscriptKept
  <2>1. TelemetryTypeOK /\ BooksRight
    BY DEF LiveInvariant
  <2>2. r \in 1 .. Len(runs) /\ r \in Runs
    BY <2>1, RunParts
  <2>3. Whole(r)
    BY <2>2 DEF TranscriptInvariant, TokensKept
  <2>4. ASSUME runs[r].st = "over" PROVE OnItsWay(r) = <<>>
    <3>1. Waiting(writing, r) = <<>> /\ segments[r] = None /\ flushes[r] = <<>>
      BY <2>1, <2>2, <2>4, NothingOnItsWay
    <3>2. OnItsWay(r) = <<>> \o <<>> \o <<>>
      BY <3>1, NoTexts DEF OnItsWay, Waiting
    <3>3. <<>> \in Seq(Nat)
      BY EmptySeq
    <3>4. <<>> \o <<>> = <<>>
      BY <3>3, NothingJoined
    <3> QED BY <3>2, <3>4
  <2> QED BY <2>3, <2>4 DEF Whole
<1>2. TranscriptKept /\ NothingLeftBehind => RecorderKeepsFaith
  BY DEF RecorderKeepsFaith
<1> QED BY <1>1, <1>2, LiveCorrect, TranscriptCorrect, NothingStaysBehind, PTL

=============================================================================
