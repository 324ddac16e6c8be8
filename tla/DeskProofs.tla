------------------------------ MODULE DeskProofs ------------------------------
(***************************************************************************)
(* What is decided about canon: proofs about Proposals, for any agents,    *)
(* works, levels, sessions, bounds on what they do, and crashes, and then  *)
(* about Flags, for any flags, categories, crews, verdicts and bounds: its *)
(* types, that the two copies of a flag's status agree, and that declines  *)
(* never add up.                                                           *)
(***************************************************************************)
EXTENDS Proposals, Flags, FiniteSetTheorems, SequenceTheorems, TLAPS

DialStates == [global : Levels, over : [Agents -> Levels \cup {Unset}]]

(* Settings come from one shell, one headless command after the other. *)
OneDial ==
  \A s \in Consoles \cup Shells :
    "autonomy" \in Verbs[s] =>
      s \in Shells /\ \A t \in Consoles \cup Shells : "autonomy" \in Verbs[t] => t = s

(* Decisions come from one screen, pressed once at a time. *)
OneDesk ==
  /\ \A s \in Screens, t \in Screens : s = t
  /\ \A s \in Consoles \cup Shells : Verbs[s] \subseteq {"autonomy"}
  /\ MaxPresses <= 1

-----------------------------------------------------------------------------
(* The inductive invariants                                                *)

(* A session works on a command it was given, in a state of that command's. *)
CommandsFit ==
  /\ \A s \in Sessions :
       /\ pc[s] # "idle" => cmd[s] \in Commands
       /\ pc[s] # "idle" /\ s \notin Screens => cmd[s].verb \in Verbs[s]
       /\ pc[s] # "idle" /\ s \in Screens => cmd[s].verb # "autonomy"
       /\ pc[s] = "sync" => s \in Shells
       /\ pc[s] = "set" => cmd[s].verb = "autonomy"
       /\ pc[s] \in {"target", "decide"} => cmd[s].verb # "autonomy"
       /\ pc[s] = "target" => cmd[s].verb = "approve"
       /\ pc[s] = "resync" => s \in Screens
  /\ \A s \in Screens : \A i \in DOMAIN pressed[s] : pressed[s][i].verb \in {"approve", "reject"}

(* Who is about to mark an approval has put its event into the log. *)
TargetsFirst ==
  /\ ApprovedIsCanon
  /\ \A s \in Sessions :
       pc[s] = "decide" /\ cmd[s].verb = "approve" => Positions("canon", cmd[s].work) # {}

IsSetting(i) == log[i].kind = "autonomy"

(* The dial is what the first n events leave *)
KeptIs(n, d) ==
  \/ d = FullAuto /\ \A i \in 1 .. n : ~ IsSetting(i)
  \/ \E i \in 1 .. n : IsSetting(i) /\ log[i].dial = d /\ \A j \in i + 1 .. n : ~ IsSetting(j)

(* and x's level in it was given by the last of them about x. *)
GivenIs(n, x, l) ==
  \/ l = (IF x = Everyone THEN 0 ELSE Unset)
     /\ \A i \in 1 .. n : ~ (IsSetting(i) /\ log[i].who = x)
  \/ \E i \in 1 .. n :
       /\ IsSetting(i) /\ log[i].who = x /\ log[i].level = l
       /\ \A j \in i + 1 .. n : ~ (IsSetting(j) /\ log[j].who = x)

AddsUp(d) ==
  /\ KeptIs(Len(log), d)
  /\ GivenIs(Len(log), Everyone, d.global)
  /\ \A a \in Agents : GivenIs(Len(log), a, d.over[a])

(* A shell that sets the dial knows every setting that was appended: it synced past
   them, and nobody else appends one. *)
SettingsInStep ==
  /\ KeptIs(cursor, dial)
  /\ \E d \in DialStates : AddsUp(d)
  /\ \A s \in Shells : cmd[s].verb = "autonomy" =>
       /\ pc[s] = "sync" => \A j \in want[s] + 1 .. Len(log) : ~ IsSetting(j)
       /\ pc[s] = "read" => \A j \in cursor + 1 .. Len(log) : ~ IsSetting(j)
       /\ pc[s] = "set" => KeptIs(Len(log), seen[s])

Decided(w) == Positions("approved", w) \cup Positions("rejected", w)

Committing(a, w) == apc[a] # "idle" /\ awork[a] = w

(* A work is committed once, a proposal made once, and decisions come after it was
   folded. *)
WorkInOrder(w) ==
  /\ \A a, b \in Agents : Committing(a, w) /\ Committing(b, w) => a = b
  /\ (\E a \in Agents : Committing(a, w)) \/ w \notin begun =>
       Positions("proposed", w) = {} /\ Positions("canon", w) = {}
  /\ (\E a \in Agents : Committing(a, w)) => w \in begun
  /\ \A i, j \in Positions("proposed", w) : i = j
  /\ data[w] = "open" => \E i \in Positions("proposed", w) : i <= cursor
  /\ status[w] = "open" \/ Decided(w) # {} => data[w] = "open"
  /\ \A i \in Decided(w) : i <= cursor => status[w] # "open"
  /\ data[w] # "open" /\ Positions("proposed", w) # {} => Positions("canon", w) = {}

(* A screen holds one press, for a work it lists, and lists proposals it has folded. *)
ScreenInOrder(s) ==
  /\ \A w \in shown[s] : data[w] = "open"
  /\ pc[s] \in {"read", "target", "decide"} => data[cmd[s].work] = "open"
  /\ pressed[s] # <<>> => pc[s] = "idle" /\ Len(pressed[s]) = 1 /\ pressed[s][1].work \in shown[s]
  /\ pc[s] = "resync" => \A w \in Works : \A i \in Decided(w) : i <= want[s]

(* What is ripe for the screen to decide *)
Ripe(s, w) ==
  \/ pc[s] = "idle" /\ (w \in shown[s] \/ status[w] = "open")
  \/ pc[s] \in {"read", "target", "decide"} /\ cmd[s].work = w

Approving(s, w) == pc[s] = "decide" /\ cmd[s].verb = "approve" /\ cmd[s].work = w

CountHolds(w) ==
  /\ Cardinality(Decided(w)) <= 1 + faults
  /\ Cardinality(Positions("canon", w)) <= 1 + faults

(* What may still be decided has used up no more than the crashes. *)
RoomLeft(s, w) ==
  /\ Ripe(s, w) => Cardinality(Decided(w)) <= faults
  /\ Ripe(s, w) /\ ~ Approving(s, w) => Cardinality(Positions("canon", w)) <= faults
  /\ data[w] = "open" /\ Decided(w) = {} /\ ~ Approving(s, w) =>
       Cardinality(Positions("canon", w)) <= faults

DeskInv ==
  /\ \A w \in Works : WorkInOrder(w) /\ CountHolds(w)
  /\ \A s \in Screens : ScreenInOrder(s) /\ \A w \in Works : RoomLeft(s, w)

-----------------------------------------------------------------------------
(* The log                                                                 *)

LEMMA LogGrows ==
  ASSUME TypeOK, NEW e \in Entries, log' = Append(log, e)
  PROVE  /\ log' \in Seq(Entries) /\ Len(log) \in Nat /\ Len(log') = Len(log) + 1
         /\ DOMAIN log = 1 .. Len(log) /\ DOMAIN log' = 1 .. Len(log) + 1
         /\ \A i \in 1 .. Len(log) : log'[i] = log[i]
         /\ log'[Len(log) + 1] = e
<1>1. log \in Seq(Entries)
  BY DEF TypeOK
<1> QED BY <1>1, AppendProperties, LenProperties

LEMMA PositionsGrow ==
  ASSUME TypeOK, NEW e \in Entries, log' = Append(log, e), NEW k, NEW w
  PROVE  /\ e.kind = k /\ e.work = w => Positions(k, w)' = Positions(k, w) \cup {Len(log) + 1}
         /\ ~ (e.kind = k /\ e.work = w) => Positions(k, w)' = Positions(k, w)
BY LogGrows DEF Positions

LEMMA PositionsStay ==
  ASSUME UNCHANGED log, NEW k, NEW w
  PROVE  Positions(k, w)' = Positions(k, w)
BY DEF Positions

(* Positions are places of the log, finitely many. *)
LEMMA PositionsFinite ==
  ASSUME TypeOK, NEW k, NEW w
  PROVE  /\ Positions(k, w) \subseteq 1 .. Len(log) /\ Len(log) \in Nat
         /\ IsFiniteSet(Positions(k, w)) /\ Cardinality(Positions(k, w)) \in Nat
<1>1. log \in Seq(Entries)
  BY DEF TypeOK
<1>2. Len(log) \in Nat /\ DOMAIN log = 1 .. Len(log)
  BY <1>1, LenProperties
<1>3. Positions(k, w) \subseteq 1 .. Len(log)
  BY <1>2 DEF Positions
<1>4. IsFiniteSet(1 .. Len(log))
  BY <1>2, FS_Interval
<1>5. IsFiniteSet(Positions(k, w))
  BY <1>3, <1>4, FS_Subset
<1> QED BY <1>2, <1>3, <1>5, FS_CardinalityType

-----------------------------------------------------------------------------
(* Types                                                                   *)

LEMMA CommandForms ==
  ASSUME NEW c \in Commands
  PROVE  \/ c.verb = "autonomy" /\ c.who \in Agents \cup {Everyone} /\ c.level \in SetLevels
         \/ c.verb \in {"approve", "reject"} /\ c.work \in Works
BY DEF Commands

LEMMA PressIsCommand ==
  ASSUME NEW v \in {"approve", "reject"}, NEW w \in Works
  PROVE  [verb |-> v, work |-> w] \in Commands
BY DEF Commands

LEMMA EntryTyped ==
  ASSUME NEW k \in {"proposed", "approved", "rejected", "canon"}, NEW w \in Works
  PROVE  /\ Entry(k, w) \in Entries /\ Entry(k, w).kind = k /\ Entry(k, w).work = w
BY DEF Entry, Entries

(* A setting's entry keeps who was given which level, and the dial it makes. *)
LEMMA SettingTyped ==
  ASSUME NEW c \in Commands, c.verb = "autonomy", NEW d \in DialStates
  PROVE  LET e == Setting(c.who, c.level, Successor(d, c)) IN
           /\ e \in Entries /\ e.kind = "autonomy" /\ e.who = c.who /\ e.level = c.level
           /\ e.dial = Successor(d, c) /\ Successor(d, c) \in DialStates
<1>1. c.who \in Agents \cup {Everyone} /\ c.level \in Levels
  BY CommandForms, ProposalsAssumption
<1>2. Successor(d, c) \in DialStates
  BY <1>1 DEF Successor, DialStates
<1> QED BY <1>1, <1>2 DEF Setting, Entries, DialStates

Typed == TypeOK /\ CommandsFit

LEMMA TypedInductive == Typed /\ [Next]_vars => Typed'
<1> SUFFICES ASSUME TypeOK, CommandsFit, [Next]_vars PROVE TypeOK' /\ CommandsFit'
  BY DEF Typed
<1> USE ProposalsAssumption DEF canonVars, agentVars
<1>0. /\ log \in Seq(Entries) /\ Len(log) \in Nat /\ DOMAIN log = 1 .. Len(log)
      /\ cursor \in 0 .. Len(log)
      /\ status \in [Works -> {"none", "open", "approved", "rejected"}]
      /\ data \in [Works -> {"none", "open"}] /\ dial \in DialStates
      /\ begun \subseteq Works
      /\ apc \in [Agents -> {"idle", "propose", "append"}] /\ awork \in [Agents -> Works]
      /\ pc \in [Sessions -> {"idle", "sync", "read", "target", "decide", "set", "done", "resync"}]
      /\ cmd \in [Sessions -> Commands \cup {NoCommand}] /\ want \in [Sessions -> Nat]
      /\ seen \in [Sessions -> DialStates] /\ shown \in [Screens -> SUBSET Works]
      /\ pressed \in [Screens -> Seq(Commands)]
      /\ acts \in 0 .. MaxActs /\ faults \in 0 .. MaxFaults
  BY LenProperties DEF TypeOK, DialStates
<1>1. CASE Fold
  <2>1. log[cursor + 1] \in Entries /\ cursor' \in 0 .. Len(log)
    BY <1>0, <1>1 DEF Fold
  <2>2. /\ status' \in [Works -> {"none", "open", "approved", "rejected"}]
        /\ data' \in [Works -> {"none", "open"}] /\ dial' \in DialStates
    <3>1. CASE ProposalCreated(log[cursor + 1])
      BY <1>0, <2>1, <3>1 DEF ProposalCreated
    <3>2. CASE ProposalDecided(log[cursor + 1])
      BY <1>0, <2>1, <3>2 DEF ProposalDecided
    <3>3. CASE AutonomyChanged(log[cursor + 1])
      BY <1>0, <2>1, <3>3 DEF AutonomyChanged, Entries, DialStates
    <3>4. CASE UNCHANGED <<status, data, dial>>
      BY <1>0, <3>4
    <3> QED BY <1>1, <3>1, <3>2, <3>3, <3>4 DEF Fold
  <2>3. TypeOK'
    BY <1>0, <1>1, <2>1, <2>2 DEF Fold, TypeOK, DialStates
  <2> QED BY <1>1, <2>3 DEF Fold, CommandsFit
<1>2. ASSUME NEW a \in Agents, NEW w \in Works, StartCommit(a, w) PROVE TypeOK' /\ CommandsFit'
  BY <1>0, <1>2 DEF StartCommit, TypeOK, CommandsFit
<1>3. ASSUME NEW a \in Agents, EndCommit(a) PROVE TypeOK' /\ CommandsFit'
  <2>1. \E e \in Entries : log' = Append(log, e)
    BY <1>0, <1>3, EntryTyped DEF EndCommit
  <2>2. log' \in Seq(Entries) /\ cursor \in 0 .. Len(log')
    BY <1>0, <2>1, LogGrows
  <2> QED BY <1>0, <1>3, <2>2 DEF EndCommit, TypeOK, CommandsFit
<1>4. ASSUME NEW s \in Sessions, Stepping(s) PROVE TypeOK' /\ CommandsFit'
  <2>1. CASE Sync(s)
    BY <1>0, <1>4, <2>1 DEF Sync, TypeOK, CommandsFit
  <2>2. CASE TakePress(s)
    <3>1. Head(pressed[s]) \in Commands /\ Tail(pressed[s]) \in Seq(Commands)
      BY <1>0, <2>2, HeadTailProperties DEF TakePress
    <3>2. /\ Head(pressed[s]) = pressed[s][1] /\ 1 \in DOMAIN pressed[s]
          /\ \A i \in DOMAIN Tail(pressed[s]) : \E j \in DOMAIN pressed[s] : Tail(pressed[s])[i] = pressed[s][j]
      <4>1. pressed[s] \in Seq(Commands) /\ pressed[s] # <<>>
        BY <1>0, <2>2 DEF TakePress
      <4> QED BY <4>1, HeadTailProperties, LenProperties
    <3>3. cmd'[s].verb \in {"approve", "reject"}
      BY <1>0, <2>2, <3>2 DEF TakePress, CommandsFit
    <3>4. TypeOK'
      BY <1>0, <2>2, <3>1 DEF TakePress, TypeOK
    <3>5. \A t \in Screens : \A i \in DOMAIN pressed'[t] : pressed'[t][i].verb \in {"approve", "reject"}
      BY <1>0, <2>2, <3>2 DEF TakePress, CommandsFit
    <3>6. /\ cmd' = [cmd EXCEPT ![s] = Head(pressed[s])] /\ pc' = [pc EXCEPT ![s] = "read"]
          /\ s \in Screens
      BY <2>2 DEF TakePress
    <3> QED BY <1>0, <3>1, <3>3, <3>4, <3>5, <3>6 DEF CommandsFit
  <2>3. CASE Read(s)
    <3>1. \E p \in {"set", "done", "target", "decide"} :
            /\ pc' = [pc EXCEPT ![s] = p]
            /\ p = "set" => cmd[s].verb = "autonomy"
            /\ p \in {"target", "decide"} => cmd[s].verb # "autonomy"
            /\ p = "target" => cmd[s].verb = "approve"
      BY <2>3 DEF Read
    <3>2. seen' \in [Sessions -> DialStates]
      BY <1>0, <2>3 DEF Read
    <3>3. /\ pc[s] # "idle"
          /\ UNCHANGED <<log, canonVars, agentVars, cmd, want, shown, pressed, acts, faults>>
      BY <2>3 DEF Read
    <3>4. TypeOK'
      <4>1. pc' \in [Sessions -> {"idle", "sync", "read", "target", "decide", "set", "done", "resync"}]
        BY <1>0, <3>1
      <4> QED BY <1>0, <3>2, <3>3, <4>1 DEF TypeOK, DialStates
    <3> QED BY <1>0, <3>1, <3>3, <3>4 DEF CommandsFit
  <2>4. CASE AppendTarget(s)
    <3>1. cmd[s].work \in Works /\ cmd[s] \in Commands
      BY <1>0, <1>4, <2>4, CommandForms DEF AppendTarget, CommandsFit
    <3>2. \E e \in Entries : log' = Append(log, e)
      BY <2>4, <3>1, EntryTyped DEF AppendTarget
    <3>3. log' \in Seq(Entries) /\ cursor \in 0 .. Len(log')
      BY <1>0, <3>2, LogGrows
    <3> QED BY <1>0, <1>4, <2>4, <3>1, <3>3 DEF AppendTarget, TypeOK, CommandsFit
  <2>5. CASE AppendDecision(s)
    <3>1. cmd[s].work \in Works
      BY <1>0, <1>4, <2>5, CommandForms DEF AppendDecision, CommandsFit
    <3>2. \E e \in Entries : log' = Append(log, e)
      BY <2>5, <3>1, EntryTyped DEF AppendDecision
    <3>3. log' \in Seq(Entries) /\ cursor \in 0 .. Len(log')
      BY <1>0, <3>2, LogGrows
    <3> QED BY <1>0, <1>4, <2>5, <3>3 DEF AppendDecision, TypeOK, CommandsFit
  <2>6. CASE AppendSetting(s)
    <3>1. cmd[s] \in Commands /\ cmd[s].verb = "autonomy" /\ seen[s] \in DialStates
      BY <1>0, <1>4, <2>6 DEF AppendSetting, CommandsFit
    <3>2. \E e \in Entries : log' = Append(log, e)
      BY <2>6, <3>1, SettingTyped DEF AppendSetting
    <3>3. log' \in Seq(Entries) /\ cursor \in 0 .. Len(log')
      BY <1>0, <3>2, LogGrows
    <3> QED BY <1>0, <1>4, <2>6, <3>3 DEF AppendSetting, TypeOK, CommandsFit
  <2>7. CASE Finish(s)
    BY <1>0, <1>4, <2>7 DEF Finish, TypeOK, CommandsFit
  <2>8. CASE Reload(s)
    BY <1>0, <1>4, <2>8 DEF Reload, OpenWorks, TypeOK, CommandsFit
  <2> QED BY <1>4, <2>1, <2>2, <2>3, <2>4, <2>5, <2>6, <2>7, <2>8 DEF Stepping
<1>5. ASSUME NEW s \in Sessions, OpenScreen(s) PROVE TypeOK' /\ CommandsFit'
  BY <1>0, <1>5 DEF OpenScreen, OpenWorks, TypeOK, CommandsFit
<1>6. ASSUME NEW s \in Sessions, Crash(s) PROVE TypeOK' /\ CommandsFit'
  BY <1>0, <1>6 DEF Crash, TypeOK, CommandsFit
<1>7. ASSUME NEW s \in Sessions, NEW c \in Commands, Type(s, c) PROVE TypeOK' /\ CommandsFit'
  <2>1. s \in Consoles \cup Shells /\ s \notin Screens /\ c.verb \in Verbs[s]
    BY <1>7 DEF Type
  <2> QED BY <1>0, <1>7, <2>1, CommandForms DEF Type, TypeOK, CommandsFit
<1>8. ASSUME NEW s \in Sessions, NEW v \in {"approve", "reject"}, NEW w \in Works, Press(s, v, w)
      PROVE  TypeOK' /\ CommandsFit'
  <2>1. [verb |-> v, work |-> w] \in Commands
    BY PressIsCommand
  <2>2. pressed' \in [Screens -> Seq(Commands)] /\ acts' \in 0 .. MaxActs
    BY <1>0, <1>8, <2>1 DEF Press
  <2>3. \A t \in Screens : \A i \in DOMAIN pressed'[t] : pressed'[t][i].verb \in {"approve", "reject"}
    <3> SUFFICES ASSUME NEW t \in Screens, NEW i \in DOMAIN pressed'[t]
                 PROVE  pressed'[t][i].verb \in {"approve", "reject"}
      OBVIOUS
    <3>1. pressed[t] \in Seq(Commands) /\ \A j \in DOMAIN pressed[t] : pressed[t][j].verb \in {"approve", "reject"}
      BY <1>0 DEF CommandsFit
    <3>2. CASE t # s
      BY <1>0, <1>8, <3>1, <3>2 DEF Press
    <3>3. CASE t = s
      <4>1. pressed'[t] = Append(pressed[t], [verb |-> v, work |-> w])
        BY <1>0, <1>8, <3>3 DEF Press
      <4> QED BY <3>1, <4>1, <2>1, AppendProperties, LenProperties
    <3> QED BY <3>2, <3>3
  <2> QED BY <1>0, <1>8, <2>2, <2>3 DEF Press, TypeOK, CommandsFit
<1>9. CASE UNCHANGED vars
  BY <1>0, <1>9 DEF vars, TypeOK, CommandsFit
<1> QED BY <1>1, <1>2, <1>3, <1>4, <1>5, <1>6, <1>7, <1>8, <1>9 DEF Next

LEMMA TypedInit == Init => Typed
<1> SUFFICES ASSUME Init PROVE TypeOK /\ CommandsFit
  BY DEF Typed
<1> USE ProposalsAssumption DEF Init
<1>1. 0 \in 0 .. MaxActs /\ 0 \in 0 .. MaxFaults /\ log \in Seq(Entries) /\ Len(log) = 0
  BY EmptySeq
<1>2. dial \in [global : Levels, over : [Agents -> Levels \cup {Unset}]]
  BY DEF FullAuto, Levels
<1>3. awork \in [Agents -> Works]
  OBVIOUS
<1>4. pressed \in [Screens -> Seq(Commands)]
  BY EmptySeq
<1>5. /\ seen \in [Sessions -> [global : Levels, over : [Agents -> Levels \cup {Unset}]]]
      /\ cmd \in [Sessions -> Commands \cup {NoCommand}]
  BY <1>2
<1>6. TypeOK
  BY <1>1, <1>2, <1>3, <1>4, <1>5 DEF TypeOK
<1>7. CommandsFit
  BY DEF CommandsFit
<1> QED BY <1>6, <1>7

LEMMA TypedAlways == Spec => []Typed
BY TypedInit, TypedInductive, PTL DEF Spec

(* Every variable keeps its type, for any agents, works, sessions and bounds. *)
THEOREM TypeCorrect == Spec => []TypeOK
<1>1. Typed => TypeOK
  BY DEF Typed
<1> QED BY <1>1, TypedAlways, PTL

-----------------------------------------------------------------------------
(* Approvals                                                               *)

LEMMA ApprovalsKept ==
  ASSUME TypeOK, ApprovedIsCanon, NEW e \in Entries, log' = Append(log, e),
         e.kind = "approved" => Positions("canon", e.work) # {}
  PROVE  ApprovedIsCanon'
<1> SUFFICES ASSUME NEW w \in Works, NEW i \in Positions("approved", w)'
             PROVE  \E j \in Positions("canon", w)' : j < i
  BY DEF ApprovedIsCanon
<1>1. Positions("canon", w) \subseteq Positions("canon", w)'
  BY PositionsGrow
<1>2. CASE i \in Positions("approved", w)
  BY <1>1, <1>2 DEF ApprovedIsCanon
<1>3. CASE i = Len(log) + 1 /\ e.kind = "approved" /\ e.work = w
  <2>1. PICK j \in Positions("canon", w) : TRUE
    BY <1>3
  <2>2. j < i
    BY <1>3, <2>1, PositionsFinite
  <2> QED BY <1>1, <2>2
<1> QED BY <1>2, <1>3, PositionsGrow

LEMMA TargetsInductive == Typed /\ TargetsFirst /\ [Next]_vars => TargetsFirst'
<1> SUFFICES ASSUME TypeOK, CommandsFit, TargetsFirst, [Next]_vars PROVE TargetsFirst'
  BY DEF Typed
<1> DEFINE Ready(s) == pc[s] = "decide" /\ cmd[s].verb = "approve" => Positions("canon", cmd[s].work) # {}
<1>0. /\ pc \in [Sessions -> {"idle", "sync", "read", "target", "decide", "set", "done", "resync"}]
      /\ cmd \in [Sessions -> Commands \cup {NoCommand}] /\ awork \in [Agents -> Works]
  BY DEF TypeOK
<1>1. ASSUME UNCHANGED log, \A s \in Sessions : pc'[s] # "decide" \/ UNCHANGED <<pc[s], cmd[s]>>
                                                \/ cmd'[s].verb # "approve"
      PROVE  TargetsFirst'
  <2>1. ApprovedIsCanon'
    BY <1>1, PositionsStay DEF ApprovedIsCanon, TargetsFirst
  <2>2. \A s \in Sessions : Ready(s)'
    BY <1>1, PositionsStay DEF TargetsFirst
  <2> QED BY <2>1, <2>2 DEF TargetsFirst
<1>2. ASSUME NEW e \in Entries, log' = Append(log, e),
             e.kind = "approved" => Positions("canon", e.work) # {},
             \A s \in Sessions : pc'[s] # "decide" \/ UNCHANGED <<pc[s], cmd[s]>>
                                 \/ (e.kind = "canon" /\ e.work = cmd'[s].work)
      PROVE  TargetsFirst'
  <2>1. ApprovedIsCanon'
    BY <1>2, ApprovalsKept DEF TargetsFirst
  <2>2. \A w : Positions("canon", w) \subseteq Positions("canon", w)'
    BY <1>2, PositionsGrow
  <2>3. \A s \in Sessions : Ready(s)'
    <3> SUFFICES ASSUME NEW s \in Sessions, NEW w, w = cmd'[s].work,
                        pc'[s] = "decide", cmd'[s].verb = "approve"
                 PROVE  Positions("canon", w)' # {}
      BY DEF Positions
    <3>1. CASE UNCHANGED <<pc[s], cmd[s]>>
      <4>1. Positions("canon", w) # {}
        BY <3>1 DEF TargetsFirst
      <4> QED BY <2>2, <4>1
    <3>2. CASE e.kind = "canon" /\ e.work = w
      BY <1>2, <3>2, PositionsGrow
    <3> QED BY <1>2, <3>1, <3>2
  <2> QED BY <2>1, <2>3 DEF TargetsFirst
<1>3. CASE Fold \/ UNCHANGED vars
  BY <1>1, <1>3 DEF Fold, vars
<1>4. ASSUME NEW a \in Agents, NEW w \in Works, StartCommit(a, w) PROVE TargetsFirst'
  BY <1>1, <1>4 DEF StartCommit
<1>5. ASSUME NEW a \in Agents, EndCommit(a) PROVE TargetsFirst'
  <2>1. PICK k \in {"proposed", "canon"} : log' = Append(log, Entry(k, awork[a]))
    BY <1>5 DEF EndCommit
  <2>2. awork[a] \in Works /\ UNCHANGED <<pc, cmd>>
    BY <1>0, <1>5 DEF EndCommit
  <2> QED BY <1>2, <2>1, <2>2, EntryTyped
<1>6. ASSUME NEW s \in Sessions, Stepping(s) PROVE TargetsFirst'
  <2>1. CASE Sync(s) \/ TakePress(s) \/ Finish(s) \/ Reload(s)
    BY <1>0, <1>1, <2>1 DEF Sync, TakePress, Finish, Reload
  <2>2. CASE Read(s)
    BY <1>0, <1>1, <2>2 DEF Read
  <2>3. CASE AppendTarget(s)
    <3>1. cmd[s].work \in Works /\ log' = Append(log, Entry("canon", cmd[s].work))
      BY <1>0, <2>3, CommandForms DEF AppendTarget, CommandsFit
    <3>2. pc' = [pc EXCEPT ![s] = "decide"] /\ cmd' = cmd
      BY <2>3 DEF AppendTarget
    <3> QED BY <1>0, <1>2, <3>1, <3>2, EntryTyped
  <2>4. CASE AppendDecision(s)
    <3>1. /\ cmd[s].work \in Works /\ pc' = [pc EXCEPT ![s] = "done"] /\ cmd' = cmd
          /\ pc[s] = "decide"
      BY <1>0, <2>4, CommandForms DEF AppendDecision, CommandsFit
    <3>2. PICK k \in {"approved", "rejected"} : /\ log' = Append(log, Entry(k, cmd[s].work))
                                                /\ k = "approved" => cmd[s].verb = "approve"
      BY <2>4 DEF AppendDecision
    <3>3. k = "approved" => Positions("canon", cmd[s].work) # {}
      BY <3>1, <3>2 DEF TargetsFirst
    <3>4. PICK e \in Entries : e.kind = k /\ e.work = cmd[s].work /\ log' = Append(log, e)
      BY <3>1, <3>2, EntryTyped
    <3> QED BY <1>0, <1>2, <3>1, <3>3, <3>4
  <2>5. CASE AppendSetting(s)
    <3>1. cmd[s] \in Commands /\ cmd[s].verb = "autonomy" /\ seen[s] \in DialStates
      BY <1>0, <2>5 DEF AppendSetting, CommandsFit, TypeOK, DialStates
    <3>2. PICK e \in Entries : e.kind = "autonomy" /\ log' = Append(log, e)
      BY <2>5, <3>1, SettingTyped DEF AppendSetting
    <3>3. pc' = [pc EXCEPT ![s] = "done"] /\ cmd' = cmd
      BY <2>5 DEF AppendSetting
    <3> QED BY <1>0, <1>2, <3>2, <3>3
  <2> QED BY <1>6, <2>1, <2>2, <2>3, <2>4, <2>5 DEF Stepping
<1>7. ASSUME NEW s \in Sessions, OpenScreen(s) \/ Crash(s) PROVE TargetsFirst'
  BY <1>0, <1>1, <1>7 DEF OpenScreen, Crash
<1>8. ASSUME NEW s \in Sessions, NEW c \in Commands, Type(s, c) PROVE TargetsFirst'
  BY <1>0, <1>1, <1>8 DEF Type
<1>9. ASSUME NEW s \in Sessions, NEW v \in {"approve", "reject"}, NEW w \in Works, Press(s, v, w)
      PROVE  TargetsFirst'
  BY <1>1, <1>9 DEF Press
<1> QED BY <1>3, <1>4, <1>5, <1>6, <1>7, <1>8, <1>9 DEF Next

(* Whatever any number of sessions decide at once and wherever they crash, no approval
   stands in the log without its event before it. *)
THEOREM ApprovalsHaveTheirEvent == Spec => []ApprovedIsCanon
<1>1. Init => TargetsFirst
  BY DEF Init, TargetsFirst, ApprovedIsCanon, Positions
<1>2. TargetsFirst => ApprovedIsCanon
  BY DEF TargetsFirst
<1> QED BY <1>1, <1>2, TargetsInductive, TypedAlways, PTL DEF Spec

-----------------------------------------------------------------------------
(* Settings                                                                *)

(* What the log grows by leaves what its first events say. *)
LEMMA SettingsGrow ==
  ASSUME TypeOK, NEW e \in Entries, log' = Append(log, e), NEW n \in 0 .. Len(log)
  PROVE  /\ \A i \in 1 .. n : IsSetting(i)' = IsSetting(i) /\ log'[i] = log[i]
         /\ \A d : KeptIs(n, d)' = KeptIs(n, d)
         /\ \A x, l : GivenIs(n, x, l)' = GivenIs(n, x, l)
<1>1. Len(log) \in Nat /\ (\A i \in 1 .. Len(log) : log'[i] = log[i]) /\ log'[Len(log) + 1] = e
  BY LogGrows
<1>2. \A i \in 1 .. n : log'[i] = log[i]
  BY <1>1
<1>3. \A i \in 1 .. n : IsSetting(i)' = IsSetting(i)
  BY <1>2 DEF IsSetting
<1>5. ASSUME NEW d PROVE KeptIs(n, d)' = KeptIs(n, d)
  BY <1>2, <1>3 DEF KeptIs
<1>6. ASSUME NEW x, NEW l PROVE GivenIs(n, x, l)' = GivenIs(n, x, l)
  BY <1>2, <1>3 DEF GivenIs
<1> QED BY <1>2, <1>3, <1>5, <1>6

(* Events that set nothing leave what is kept and given. *)
LEMMA SettingsLast ==
  ASSUME NEW m \in Nat, NEW n \in Nat, m <= n, \A j \in m + 1 .. n : ~ IsSetting(j)
  PROVE  /\ \A d : KeptIs(m, d) => KeptIs(n, d)
         /\ \A x, l : GivenIs(m, x, l) => GivenIs(n, x, l)
BY DEF KeptIs, GivenIs

LEMMA KeptUnique ==
  ASSUME NEW n \in Nat, NEW c, NEW d, KeptIs(n, c), KeptIs(n, d)
  PROVE  c = d
<1>1. CASE \A i \in 1 .. n : ~ IsSetting(i)
  BY <1>1 DEF KeptIs
<1>2. CASE \E i \in 1 .. n : IsSetting(i)
  <2>1. PICK i \in 1 .. n : IsSetting(i) /\ log[i].dial = c /\ \A j \in i + 1 .. n : ~ IsSetting(j)
    BY <1>2 DEF KeptIs
  <2>2. PICK k \in 1 .. n : IsSetting(k) /\ log[k].dial = d /\ \A j \in k + 1 .. n : ~ IsSetting(j)
    BY <1>2 DEF KeptIs
  <2>3. i = k
    BY <2>1, <2>2
  <2> QED BY <2>1, <2>2, <2>3
<1> QED BY <1>1, <1>2

(* A successor of the dial that is kept adds up with what was given before. *)
LEMMA SuccessorAddsUp ==
  ASSUME TypeOK, NEW d \in DialStates, AddsUp(d), NEW c \in Commands, c.verb = "autonomy",
         log' = Append(log, Setting(c.who, c.level, Successor(d, c)))
  PROVE  AddsUp(Successor(d, c))'
<1> DEFINE e == Setting(c.who, c.level, Successor(d, c))
           f == Successor(d, c)
<1>1. /\ e \in Entries /\ e.kind = "autonomy" /\ e.who = c.who /\ e.level = c.level /\ e.dial = f
      /\ f \in DialStates
  BY SettingTyped
<1>2. /\ c.who \in Agents \cup {Everyone} /\ Everyone \notin Agents
  BY CommandForms, ProposalsAssumption
<1>n. PICK n \in Nat : n = Len(log)
  BY LenProperties DEF TypeOK
<1>3. Len(log') = n + 1 /\ log'[n + 1] = e
  BY <1>1, <1>n, LogGrows
<1>4. /\ IsSetting(n + 1)'
      /\ \A x, l : GivenIs(n, x, l)' = GivenIs(n, x, l)
  <2>1. n \in 0 .. Len(log)
    BY <1>n
  <2> QED BY <1>1, <1>3, <2>1, SettingsGrow DEF IsSetting
<1> HIDE DEF e
<1>5. KeptIs(n + 1, f)'
  <2> HIDE DEF f
  <2>1. \A j \in n + 2 .. n + 1 : FALSE
    BY <1>3
  <2> QED BY <1>1, <1>3, <1>4, <2>1 DEF KeptIs
<1>6. ASSUME NEW x, NEW l, x # c.who, GivenIs(n, x, l) PROVE GivenIs(n + 1, x, l)'
  <2>1. GivenIs(n, x, l)'
    BY <1>4, <1>6
  <2>2. ~ (log'[n + 1].who = x)
    BY <1>1, <1>3, <1>6
  <2>3. CASE /\ l = (IF x = Everyone THEN 0 ELSE Unset)
             /\ \A i \in 1 .. n : ~ (IsSetting(i)' /\ log'[i].who = x)
    <3> SUFFICES ASSUME NEW j \in 1 .. n + 1 PROVE ~ (IsSetting(j)' /\ log'[j].who = x)
      BY <2>3 DEF GivenIs
    <3>1. CASE j = n + 1
      BY <2>2, <3>1
    <3>2. CASE j \in 1 .. n
      BY <2>3, <3>2
    <3>3. j = n + 1 \/ j \in 1 .. n
      OBVIOUS
    <3> QED BY <3>1, <3>2, <3>3
  <2>4. ASSUME NEW i \in 1 .. n, IsSetting(i)', log'[i].who = x, log'[i].level = l,
               \A j \in i + 1 .. n : ~ (IsSetting(j)' /\ log'[j].who = x)
        PROVE  GivenIs(n + 1, x, l)'
    <3>1. \A j \in i + 1 .. n + 1 : ~ (IsSetting(j)' /\ log'[j].who = x)
      <4> SUFFICES ASSUME NEW j \in i + 1 .. n + 1 PROVE ~ (IsSetting(j)' /\ log'[j].who = x)
        OBVIOUS
      <4>1. CASE j = n + 1
        BY <2>2, <4>1
      <4>2. CASE j \in i + 1 .. n
        BY <2>4, <4>2
      <4>3. j = n + 1 \/ j \in i + 1 .. n
        OBVIOUS
      <4> QED BY <4>1, <4>2, <4>3
    <3>2. i \in 1 .. n + 1
      OBVIOUS
    <3> QED BY <2>4, <3>1, <3>2 DEF GivenIs
  <2> QED BY <2>1, <2>3, <2>4 DEF GivenIs
<1>7. GivenIs(n + 1, c.who, c.level)'
  <2>1. \A j \in n + 2 .. n + 1 : FALSE
    OBVIOUS
  <2> QED BY <1>1, <1>3, <1>4, <2>1 DEF GivenIs
<1>8. CASE c.who = Everyone
  <2>1. f = [d EXCEPT !.global = c.level]
    BY <1>8 DEF Successor
  <2>2. f.global = c.level /\ f.over = d.over
    BY <2>1 DEF DialStates
  <2>3. \A a \in Agents : GivenIs(n + 1, a, d.over[a])'
    BY <1>2, <1>6, <1>8, <1>n DEF AddsUp
  <2>4. GivenIs(n + 1, Everyone, c.level)'
    BY <1>7, <1>8
  <2> HIDE DEF f
  <2>5. AddsUp(f)'
    BY <1>3, <1>5, <2>2, <2>3, <2>4 DEF AddsUp
  <2> QED BY <2>5 DEF f
<1>9. CASE c.who \in Agents
  <2>1. f = [d EXCEPT !.over[c.who] = c.level]
    BY <1>2, <1>9 DEF Successor
  <2>2. f.global = d.global /\ f.over = [d.over EXCEPT ![c.who] = c.level]
    BY <2>1 DEF DialStates
  <2>3. \A a \in Agents : a # c.who => f.over[a] = d.over[a]
    BY <2>2 DEF DialStates
  <2>4. f.over[c.who] = c.level
    BY <1>9, <2>2 DEF DialStates
  <2>5. \A a \in Agents : a # c.who => GivenIs(n + 1, a, f.over[a])'
    BY <1>6, <2>3, <1>n DEF AddsUp
  <2>6. GivenIs(n + 1, Everyone, f.global)'
    BY <1>2, <1>6, <1>9, <2>2, <1>n DEF AddsUp
  <2>7. \A a \in Agents : GivenIs(n + 1, a, f.over[a])'
    BY <1>7, <2>4, <2>5
  <2> HIDE DEF f
  <2>8. AddsUp(f)'
    BY <1>3, <1>5, <2>6, <2>7 DEF AddsUp
  <2> QED BY <2>8 DEF f
<1> QED BY <1>2, <1>8, <1>9

(* The clause of SettingsInStep for one shell *)
ShellInStep(s) ==
  cmd[s].verb = "autonomy" =>
    /\ pc[s] = "sync" => \A j \in want[s] + 1 .. Len(log) : ~ IsSetting(j)
    /\ pc[s] = "read" => \A j \in cursor + 1 .. Len(log) : ~ IsSetting(j)
    /\ pc[s] = "set" => KeptIs(Len(log), seen[s])

LEMMA SettingsParts ==
  SettingsInStep <=> /\ KeptIs(cursor, dial)
                     /\ \E d \in DialStates : AddsUp(d)
                     /\ \A s \in Shells : ShellInStep(s)
BY DEF SettingsInStep, ShellInStep

(* An event that sets nothing is appended, and no shell that sets moves. *)
LEMMA OtherAppend ==
  ASSUME TypeOK, SettingsInStep, NEW e \in Entries, e.kind # "autonomy", log' = Append(log, e),
         UNCHANGED <<cursor, dial, want, seen, cmd>>,
         \A s \in Shells : cmd[s].verb = "autonomy" => pc'[s] = pc[s]
  PROVE  SettingsInStep'
<1>n. PICK n \in Nat : n = Len(log)
  BY LenProperties DEF TypeOK
<1>1. PICK m \in 0 .. n : m = cursor
  BY <1>n DEF TypeOK
<1>2. /\ Len(log') = n + 1 /\ log'[n + 1] = e /\ ~ IsSetting(n + 1)'
      /\ \A i \in 1 .. n : log'[i] = log[i]
      /\ n \in 0 .. Len(log)
  BY <1>n, LogGrows DEF IsSetting
<1>3. /\ \A d : KeptIs(n, d)' = KeptIs(n, d) /\ KeptIs(m, d)' = KeptIs(m, d)
      /\ \A x, l : GivenIs(n, x, l)' = GivenIs(n, x, l)
  BY <1>1, <1>2, <1>n, SettingsGrow
<1>4. \A j \in n + 1 .. n + 1 : ~ (log'[j].kind = "autonomy")
  BY <1>2 DEF IsSetting
<1>5. /\ \A d : KeptIs(n, d)' => KeptIs(n + 1, d)'
      /\ \A x, l : GivenIs(n, x, l)' => GivenIs(n + 1, x, l)'
  <2>1. ASSUME NEW i \in 1 .. n, NEW j \in i + 1 .. n + 1 PROVE j = n + 1 \/ j \in i + 1 .. n
    OBVIOUS
  <2>2. ASSUME NEW j \in 1 .. n + 1 PROVE j = n + 1 \/ j \in 1 .. n
    OBVIOUS
  <2>3. 1 .. n \subseteq 1 .. n + 1 /\ n + 1 \in n + 1 .. n + 1
    OBVIOUS
  <2>4. ASSUME NEW d, KeptIs(n, d)' PROVE KeptIs(n + 1, d)'
    <3>1. CASE d = FullAuto /\ \A i \in 1 .. n : ~ IsSetting(i)'
      <4>1. \A i \in 1 .. n + 1 : ~ IsSetting(i)'
        BY <1>4, <2>2, <2>3, <3>1 DEF IsSetting
      <4> QED BY <3>1, <4>1 DEF KeptIs, FullAuto
    <3>2. ASSUME NEW i \in 1 .. n, IsSetting(i)', log'[i].dial = d,
                 \A j \in i + 1 .. n : ~ IsSetting(j)'
          PROVE  KeptIs(n + 1, d)'
      <4>1. \A j \in i + 1 .. n + 1 : ~ IsSetting(j)'
        BY <1>4, <2>1, <2>3, <3>2 DEF IsSetting
      <4> QED BY <2>3, <3>2, <4>1 DEF KeptIs
    <3> QED BY <2>4, <3>1, <3>2 DEF KeptIs
  <2>5. ASSUME NEW x, NEW l, GivenIs(n, x, l)' PROVE GivenIs(n + 1, x, l)'
    <3>1. CASE /\ l = (IF x = Everyone THEN 0 ELSE Unset)
               /\ \A i \in 1 .. n : ~ (IsSetting(i)' /\ log'[i].who = x)
      <4>1. \A i \in 1 .. n + 1 : ~ (IsSetting(i)' /\ log'[i].who = x)
        BY <1>4, <2>2, <2>3, <3>1 DEF IsSetting
      <4> QED BY <3>1, <4>1 DEF GivenIs
    <3>2. ASSUME NEW i \in 1 .. n, IsSetting(i)', log'[i].who = x, log'[i].level = l,
                 \A j \in i + 1 .. n : ~ (IsSetting(j)' /\ log'[j].who = x)
          PROVE  GivenIs(n + 1, x, l)'
      <4>1. \A j \in i + 1 .. n + 1 : ~ (IsSetting(j)' /\ log'[j].who = x)
        BY <1>4, <2>1, <2>3, <3>2 DEF IsSetting
      <4> QED BY <2>3, <3>2, <4>1 DEF GivenIs
    <3> QED BY <2>5, <3>1, <3>2 DEF GivenIs
  <2> QED BY <2>4, <2>5
<1>6. KeptIs(cursor, dial)'
  <2>1. KeptIs(m, dial)
    BY <1>1 DEF SettingsInStep
  <2>2. PICK d : d = dial
    OBVIOUS
  <2>3. KeptIs(m, d)'
    BY <1>3, <2>1, <2>2
  <2> QED BY <1>1, <2>2, <2>3 DEF KeptIs
<1>7. ASSUME NEW d \in DialStates, AddsUp(d) PROVE AddsUp(d)'
  BY <1>2, <1>3, <1>5, <1>7, <1>n DEF AddsUp
<1>8. ASSUME NEW s \in Shells, NEW from \in Nat, \A j \in from + 1 .. n : ~ IsSetting(j)
      PROVE  \A j \in from + 1 .. n + 1 : ~ (log'[j].kind = "autonomy")
  <2> SUFFICES ASSUME NEW j \in from + 1 .. n + 1 PROVE ~ (log'[j].kind = "autonomy")
    OBVIOUS
  <2>1. j = n + 1 \/ (j \in from + 1 .. n /\ j \in 1 .. n)
    OBVIOUS
  <2> QED BY <1>2, <1>8, <2>1 DEF IsSetting
<1>9. ASSUME NEW s \in Shells PROVE ShellInStep(s)'
  <2> SUFFICES ASSUME cmd[s].verb = "autonomy" PROVE ShellInStep(s)'
    BY DEF ShellInStep
  <2>1. ShellInStep(s) /\ pc'[s] = pc[s]
    BY SettingsParts
  <2>2. want[s] \in Nat /\ cursor \in Nat
    BY DEF TypeOK, Sessions
  <2>3. pc[s] = "sync" => \A j \in want[s] + 1 .. n + 1 : ~ (log'[j].kind = "autonomy")
    BY <1>8, <1>n, <2>1, <2>2 DEF ShellInStep
  <2>4. pc[s] = "read" => \A j \in cursor + 1 .. n + 1 : ~ (log'[j].kind = "autonomy")
    BY <1>8, <1>n, <2>1, <2>2 DEF ShellInStep
  <2>5. pc[s] = "set" => KeptIs(n + 1, seen[s])'
    <3>1. PICK d : d = seen[s]
      OBVIOUS
    <3>2. pc[s] = "set" => KeptIs(n + 1, d)'
      BY <1>3, <1>5, <1>n, <2>1, <3>1 DEF ShellInStep
    <3> QED BY <3>1, <3>2 DEF KeptIs
  <2> QED BY <1>2, <2>1, <2>3, <2>4, <2>5 DEF ShellInStep, IsSetting, KeptIs
<1>10. \E d \in DialStates : AddsUp(d)'
  BY <1>7 DEF SettingsInStep
<1>11. (\A s \in Shells : ShellInStep(s))'
  BY <1>9
<1> QED BY <1>6, <1>10, <1>11 DEF SettingsInStep, ShellInStep

(* Nothing is appended and no dial is read: the shells that set are where they were, or
   have less to know. *)
LEMMA SettingsStay ==
  ASSUME SettingsInStep, UNCHANGED <<log, cursor, dial, seen>>,
         \A s \in Shells : \/ UNCHANGED <<pc[s], want[s], cmd[s]>>
                           \/ pc'[s] \notin {"sync", "read", "set"}
                           \/ cmd'[s].verb # "autonomy"
  PROVE  SettingsInStep'
<1>1. KeptIs(cursor, dial)' /\ \E d \in DialStates : AddsUp(d)'
  BY DEF SettingsInStep, KeptIs, AddsUp, GivenIs, IsSetting
<1>2. ASSUME NEW s \in Shells PROVE ShellInStep(s)'
  <2>1. ShellInStep(s)
    BY SettingsParts
  <2> QED BY <2>1 DEF ShellInStep, KeptIs, IsSetting
<1> QED BY <1>1, <1>2 DEF SettingsInStep, ShellInStep

LEMMA SettingsInductive ==
  ASSUME OneDial
  PROVE  Typed /\ SettingsInStep /\ [Next]_vars => SettingsInStep'
<1> SUFFICES ASSUME TypeOK, CommandsFit, SettingsInStep, [Next]_vars PROVE SettingsInStep'
  BY DEF Typed
<1> USE ProposalsAssumption DEF canonVars, agentVars
<1>0. /\ pc \in [Sessions -> {"idle", "sync", "read", "target", "decide", "set", "done", "resync"}]
      /\ cmd \in [Sessions -> Commands \cup {NoCommand}] /\ awork \in [Agents -> Works]
      /\ seen \in [Sessions -> DialStates] /\ want \in [Sessions -> Nat]
      /\ Len(log) \in Nat /\ cursor \in 0 .. Len(log) /\ log \in Seq(Entries)
      /\ dial \in DialStates
  BY LenProperties DEF TypeOK, DialStates
(* Two sessions that set are one shell. *)
<1>s. ASSUME NEW s \in Sessions, NEW t \in Sessions, pc[s] # "idle", pc[t] # "idle",
             cmd[s].verb = "autonomy", cmd[t].verb = "autonomy"
      PROVE  s = t /\ s \in Shells /\ s \notin Screens
  <2>1. s \notin Screens /\ t \notin Screens /\ "autonomy" \in Verbs[s] /\ "autonomy" \in Verbs[t]
    BY <1>s DEF CommandsFit
  <2> QED BY <2>1 DEF OneDial, Sessions
<1>1. CASE Fold
  <2>n. PICK m \in 0 .. Len(log) : m = cursor
    BY <1>0
  <2> DEFINE e == log[m + 1]
  <2>1. m + 1 \in 1 .. Len(log) /\ cursor' = m + 1
    BY <1>1, <2>n DEF Fold
  <2>2. UNCHANGED <<log, pc, cmd, want, seen>>
    BY <1>1 DEF Fold
  <2>3. KeptIs(m + 1, dial)'
    <3>1. KeptIs(m, dial)
      BY <2>n DEF SettingsInStep
    <3>2. CASE e.kind = "autonomy"
      <4>1. dial' = e.dial
        BY <1>1, <2>n, <3>2 DEF Fold, ProposalCreated, ProposalDecided, AutonomyChanged
      <4>2. \A j \in m + 2 .. m + 1 : FALSE
        OBVIOUS
      <4> QED BY <2>1, <2>2, <3>2, <4>1, <4>2 DEF KeptIs, IsSetting
    <3>3. CASE e.kind # "autonomy"
      <4>1. dial' = dial
        BY <1>1, <2>n, <3>3 DEF Fold, ProposalCreated, ProposalDecided, AutonomyChanged
      <4>2. \A j \in m + 1 .. m + 1 : ~ IsSetting(j)
        BY <3>3 DEF IsSetting
      <4>3. KeptIs(m + 1, dial)
        BY <3>1, <4>2, SettingsLast
      <4> QED BY <2>2, <4>1, <4>3 DEF KeptIs, IsSetting
    <3> QED BY <3>2, <3>3
  <2>4. \E d \in DialStates : AddsUp(d)'
    BY <2>2 DEF SettingsInStep, AddsUp, KeptIs, GivenIs, IsSetting
  <2>5. ASSUME NEW s \in Shells PROVE ShellInStep(s)'
    <3>1. ShellInStep(s)
      BY SettingsParts
    <3>2. (\A j \in m + 1 .. Len(log) : ~ IsSetting(j)) => \A j \in m + 2 .. Len(log) : ~ IsSetting(j)
      BY <1>0
    <3>3. ASSUME cmd[s].verb = "autonomy" /\ pc[s] = "read"
          PROVE  \A j \in m + 2 .. Len(log) : ~ IsSetting(j)
      BY <2>n, <3>1, <3>2, <3>3 DEF ShellInStep
    <3> QED BY <2>1, <2>2, <3>1, <3>3 DEF ShellInStep, IsSetting, KeptIs
  <2>6. KeptIs(cursor, dial)'
    BY <2>1, <2>3 DEF KeptIs
  <2> QED BY <2>4, <2>5, <2>6 DEF SettingsInStep, ShellInStep
<1>2. ASSUME NEW a \in Agents, NEW w \in Works, StartCommit(a, w) PROVE SettingsInStep'
  BY <1>2, SettingsStay DEF StartCommit
<1>3. ASSUME NEW a \in Agents, EndCommit(a) PROVE SettingsInStep'
  <2>1. PICK k \in {"proposed", "canon"} : log' = Append(log, Entry(k, awork[a]))
    BY <1>3 DEF EndCommit
  <2>2. PICK e \in Entries : e.kind # "autonomy" /\ log' = Append(log, e)
    BY <1>0, <2>1, EntryTyped
  <2> QED BY <1>3, <2>2, OtherAppend DEF EndCommit
<1>4. ASSUME NEW s \in Sessions, Stepping(s) PROVE SettingsInStep'
  <2>1. CASE Sync(s)
    <3>1. cursor >= want[s] /\ pc' = [pc EXCEPT ![s] = "read"] /\ pc[s] = "sync"
          /\ UNCHANGED <<log, cursor, dial, seen, want, cmd>>
      BY <2>1 DEF Sync
    <3>2. KeptIs(cursor, dial)' /\ \E d \in DialStates : AddsUp(d)'
      BY <3>1 DEF SettingsInStep, KeptIs, AddsUp, GivenIs, IsSetting
    <3>3. ASSUME NEW t \in Shells PROVE ShellInStep(t)'
      <4>1. ShellInStep(t)
        BY SettingsParts
      <4>2. CASE t # s
        BY <1>0, <3>1, <4>1, <4>2 DEF ShellInStep, KeptIs, IsSetting, Sessions
      <4>3. CASE t = s
        <5>1. want[s] \in Nat /\ cursor \in Nat
          BY <1>0
        <5>2. (\A j \in want[s] + 1 .. Len(log) : ~ IsSetting(j))
              => \A j \in cursor + 1 .. Len(log) : ~ IsSetting(j)
          BY <1>0, <3>1, <5>1
        <5>3. pc'[t] = "read"
          BY <1>0, <3>1, <4>3
        <5> QED BY <3>1, <4>1, <4>3, <5>2, <5>3 DEF ShellInStep, IsSetting
      <4> QED BY <4>2, <4>3
    <3> QED BY <3>2, <3>3 DEF SettingsInStep, ShellInStep
  <2>2. CASE TakePress(s)
    BY <1>0, <2>2, SettingsStay DEF TakePress, Sessions
  <2>3. CASE Read(s)
    <3>1. CASE cmd[s].verb = "autonomy"
      <4>1. /\ seen' = [seen EXCEPT ![s] = dial] /\ pc' = [pc EXCEPT ![s] = "set"] /\ pc[s] = "read"
            /\ UNCHANGED <<log, cursor, dial, want, cmd>>
        BY <2>3, <3>1 DEF Read
      <4>2. KeptIs(cursor, dial)' /\ \E d \in DialStates : AddsUp(d)'
        BY <4>1 DEF SettingsInStep, KeptIs, AddsUp, GivenIs, IsSetting
      <4>3. ASSUME NEW t \in Shells PROVE ShellInStep(t)'
        <5>1. ShellInStep(t)
          BY SettingsParts
        <5>2. CASE t # s
          BY <1>0, <4>1, <5>1, <5>2 DEF ShellInStep, KeptIs, IsSetting, Sessions
        <5>3. CASE t = s
          <6>1. \A j \in cursor + 1 .. Len(log) : ~ IsSetting(j)
            BY <3>1, <4>1, <5>1, <5>3 DEF ShellInStep
          <6>2. KeptIs(Len(log), dial)
            BY <1>0, <6>1, SettingsLast DEF SettingsInStep
          <6>3. pc'[t] = "set" /\ seen'[t] = dial
            BY <1>0, <4>1, <5>3
          <6>4. KeptIs(Len(log), seen[t])'
            BY <4>1, <6>2, <6>3 DEF KeptIs, IsSetting
          <6> QED BY <6>3, <6>4 DEF ShellInStep
        <5> QED BY <5>2, <5>3
      <4> QED BY <4>2, <4>3 DEF SettingsInStep, ShellInStep
    <3>2. CASE cmd[s].verb # "autonomy"
      BY <1>0, <2>3, <3>2, SettingsStay DEF Read, Sessions
    <3> QED BY <3>1, <3>2
  <2>4. CASE AppendTarget(s) \/ AppendDecision(s)
    <3>1. cmd[s].work \in Works /\ cmd[s].verb # "autonomy" /\ cmd' = cmd
      BY <1>0, <2>4, CommandForms DEF AppendTarget, AppendDecision, CommandsFit
    <3>2. PICK e \in Entries : e.kind # "autonomy" /\ log' = Append(log, e)
      BY <2>4, <3>1, EntryTyped DEF AppendTarget, AppendDecision
    <3>3. \A t \in Shells : cmd[t].verb = "autonomy" => pc'[t] = pc[t]
      BY <1>0, <2>4, <3>1 DEF AppendTarget, AppendDecision, Sessions
    <3> QED BY <2>4, <3>2, <3>3, OtherAppend DEF AppendTarget, AppendDecision
  <2>5. CASE AppendSetting(s)
    <3>1. /\ pc[s] = "set" /\ cmd[s] \in Commands /\ cmd[s].verb = "autonomy"
          /\ seen[s] \in DialStates
      BY <1>0, <2>5 DEF AppendSetting, CommandsFit
    <3>2. s \in Shells
      BY <1>s, <3>1
    <3>3. KeptIs(Len(log), seen[s])
      BY <3>1, <3>2, SettingsParts DEF ShellInStep
    <3>4. PICK d \in DialStates : AddsUp(d)
      BY DEF SettingsInStep
    <3>5. d = seen[s]
      BY <1>0, <3>3, <3>4, KeptUnique DEF AddsUp
    <3>6. PICK c \in Commands : c = cmd[s]
      BY <3>1
    <3>7. log' = Append(log, Setting(c.who, c.level, Successor(d, c)))
      BY <2>5, <3>5, <3>6 DEF AppendSetting
    <3>8. AddsUp(Successor(d, c))'
      BY <3>1, <3>4, <3>6, <3>7, SuccessorAddsUp
    <3>9. Successor(d, c) \in DialStates
      BY <3>1, <3>6, SettingTyped
    <3>10. KeptIs(cursor, dial)'
      <4>1. PICK m \in 0 .. Len(log) : m = cursor
        BY <1>0
      <4>2. PICK b : b = dial
        OBVIOUS
      <4>3. PICK e \in Entries : log' = Append(log, e)
        BY <3>1, <3>6, <3>7, SettingTyped
      <4>4. KeptIs(m, b)'
        BY <4>1, <4>2, <4>3, SettingsGrow DEF SettingsInStep
      <4> QED BY <2>5, <4>1, <4>2, <4>4 DEF AppendSetting, KeptIs
    <3>11. ASSUME NEW t \in Shells PROVE ShellInStep(t)'
      <4>1. pc' = [pc EXCEPT ![s] = "done"] /\ cmd' = cmd
        BY <2>5 DEF AppendSetting
      <4>2. CASE pc[t] = "idle" \/ cmd[t].verb # "autonomy"
        BY <1>0, <4>1, <4>2 DEF ShellInStep, Sessions
      <4>3. CASE pc[t] # "idle" /\ cmd[t].verb = "autonomy"
        <5>1. t = s
          BY <1>s, <3>1, <4>3 DEF Sessions
        <5> QED BY <1>0, <4>1, <5>1 DEF ShellInStep
      <4> QED BY <4>2, <4>3
    <3> QED BY <3>8, <3>9, <3>10, <3>11 DEF SettingsInStep, ShellInStep
  <2>6. CASE Finish(s)
    BY <1>0, <2>6, SettingsStay DEF Finish, Sessions
  <2>7. CASE Reload(s)
    BY <1>0, <2>7, SettingsStay DEF Reload, Sessions
  <2> QED BY <1>4, <2>1, <2>2, <2>3, <2>4, <2>5, <2>6, <2>7 DEF Stepping
<1>5. ASSUME NEW s \in Sessions, OpenScreen(s) \/ Crash(s) PROVE SettingsInStep'
  BY <1>0, <1>5, SettingsStay DEF OpenScreen, Crash, Sessions
<1>6. ASSUME NEW s \in Sessions, NEW c \in Commands, Type(s, c) PROVE SettingsInStep'
  <2>1. /\ pc' = [pc EXCEPT ![s] = IF s \in Shells THEN "sync" ELSE "read"]
        /\ want' = [want EXCEPT ![s] = Len(log)] /\ cmd' = [cmd EXCEPT ![s] = c]
        /\ UNCHANGED <<log, cursor, dial, seen>>
    BY <1>6 DEF Type
  <2>2. KeptIs(cursor, dial)' /\ \E d \in DialStates : AddsUp(d)'
    BY <2>1 DEF SettingsInStep, KeptIs, AddsUp, GivenIs, IsSetting
  <2>3. ASSUME NEW t \in Shells PROVE ShellInStep(t)'
    <3>1. ShellInStep(t)
      BY SettingsParts
    <3>2. CASE t # s
      BY <1>0, <2>1, <3>1, <3>2 DEF ShellInStep, KeptIs, IsSetting, Sessions
    <3>3. CASE t = s
      <4>1. pc'[t] = "sync" /\ want'[t] = Len(log)
        BY <1>0, <2>1, <3>3
      <4>2. \A j \in Len(log) + 1 .. Len(log) : FALSE
        BY <1>0
      <4> QED BY <2>1, <4>1, <4>2 DEF ShellInStep
    <3> QED BY <3>2, <3>3
  <2> QED BY <2>2, <2>3 DEF SettingsInStep, ShellInStep
<1>7. ASSUME NEW s \in Sessions, NEW v \in {"approve", "reject"}, NEW w \in Works, Press(s, v, w)
      PROVE  SettingsInStep'
  BY <1>7, SettingsStay DEF Press
<1>8. CASE UNCHANGED vars
  BY <1>8, SettingsStay DEF vars
<1> QED BY <1>1, <1>2, <1>3, <1>4, <1>5, <1>6, <1>7, <1>8 DEF Next

-----------------------------------------------------------------------------
(* From the relation to the definitions the runs check: LastSetting is the last one. *)
LEMMA LastSettingIs ==
  ASSUME NEW n \in Nat, NEW about, NEW i \in 1 .. n, IsSetting(i), log[i].who \in about,
         \A j \in i + 1 .. n : ~ (IsSetting(j) /\ log[j].who \in about)
  PROVE  LastSetting(n, about) = i
<1> DEFINE S == {j \in 1 .. n : log[j].kind = "autonomy" /\ log[j].who \in about}
<1>1. i \in S
  BY DEF IsSetting
<1>2. ASSUME NEW j \in S PROVE j <= i
  <2>1. j \in 1 .. n /\ j \notin i + 1 .. n
    BY DEF IsSetting
  <2> QED BY <2>1
<1>3. ASSUME NEW k \in S, \A j \in S : j <= k PROVE k = i
  <2>1. i <= k /\ k <= i /\ k \in Nat /\ i \in Nat
    BY <1>1, <1>2, <1>3
  <2> QED BY <2>1
<1>4. (CHOOSE k \in S : \A j \in S : j <= k) = i
  <2> HIDE DEF S
  <2> QED BY <1>1, <1>2, <1>3
<1>5. S # {}
  BY <1>1
<1>6. LastSetting(n, about) = IF S = {} THEN 0 ELSE CHOOSE k \in S : \A j \in S : j <= k
  BY DEF LastSetting
<1> HIDE DEF S
<1> QED BY <1>4, <1>5, <1>6

LEMMA LastSettingNone ==
  ASSUME NEW n \in Nat, NEW about, \A j \in 1 .. n : ~ (IsSetting(j) /\ log[j].who \in about)
  PROVE  LastSetting(n, about) = 0
<1>1. {j \in 1 .. n : log[j].kind = "autonomy" /\ log[j].who \in about} = {}
  BY DEF IsSetting
<1> QED BY <1>1 DEF LastSetting

LEMMA GivenIsGiven ==
  ASSUME NEW n \in Nat, NEW x, NEW l, GivenIs(n, x, l)
  PROVE  Given(n, x) = l
<1>1. CASE /\ l = (IF x = Everyone THEN 0 ELSE Unset)
           /\ \A i \in 1 .. n : ~ (IsSetting(i) /\ log[i].who = x)
  <2>1. LastSetting(n, {x}) = 0
    BY <1>1, LastSettingNone
  <2> QED BY <1>1, <2>1 DEF Given
<1>2. ASSUME NEW i \in 1 .. n, IsSetting(i), log[i].who = x, log[i].level = l,
             \A j \in i + 1 .. n : ~ (IsSetting(j) /\ log[j].who = x)
      PROVE  Given(n, x) = l
  <2>1. LastSetting(n, {x}) = i
    BY <1>2, LastSettingIs
  <2>2. i > 0
    OBVIOUS
  <2> QED BY <1>2, <2>1, <2>2 DEF Given
<1> QED BY <1>1, <1>2 DEF GivenIs

LEMMA SettingsInStepAddUp ==
  ASSUME TypeOK, SettingsInStep
  PROVE  SettingsAddUp
<1>n. PICK n \in Nat : n = Len(log)
  BY LenProperties DEF TypeOK
<1>1. PICK d \in DialStates : AddsUp(d)
  BY DEF SettingsInStep
<1> DEFINE about == Agents \cup {Everyone}
           i == LastSetting(n, about)
           kept == IF i = 0 THEN FullAuto ELSE log[i].dial
<1>2. ASSUME NEW j \in 1 .. n, IsSetting(j) PROVE log[j].who \in about
  <2>1. log[j] \in Entries
    BY <1>n DEF TypeOK
  <2> QED BY <1>2, <2>1 DEF Entries, IsSetting
<1>3. kept = d
  <2>1. CASE d = FullAuto /\ \A j \in 1 .. n : ~ IsSetting(j)
    <3>1. i = 0
      BY <2>1, LastSettingNone
    <3> QED BY <2>1, <3>1
  <2>2. ASSUME NEW j \in 1 .. n, IsSetting(j), log[j].dial = d,
               \A k \in j + 1 .. n : ~ IsSetting(k)
        PROVE  kept = d
    <3>1. i = j
      BY <1>2, <2>2, LastSettingIs
    <3>2. i # 0
      BY <3>1
    <3> QED BY <2>2, <3>1, <3>2
  <2> QED BY <1>1, <1>n, <2>1, <2>2 DEF AddsUp, KeptIs
<1>4. Given(n, Everyone) = d.global /\ \A a \in Agents : Given(n, a) = d.over[a]
  BY <1>1, <1>n, GivenIsGiven DEF AddsUp
<1> QED BY <1>3, <1>4, <1>n DEF SettingsAddUp

(* The log adds up: whatever sessions decide at once and wherever they crash, an
   approval in the log has its event before it; and when settings come from one shell,
   the one in force is all of theirs together, each having kept what the ones before
   it gave: a command folds the log up to where it stood, and nobody sets meanwhile. *)
THEOREM SettingsKept ==
  ASSUME OneDial
  PROVE  Spec => []LogAddsUp
<1>1. Init => Typed /\ SettingsInStep
  <2> SUFFICES ASSUME Init PROVE Typed /\ SettingsInStep
    OBVIOUS
  <2>1. Typed
    BY TypedInit
  <2>2. \A j \in 1 .. 0 : FALSE
    OBVIOUS
  <2>3. cursor = 0 /\ Len(log) = 0 /\ dial = FullAuto /\ \A s \in Shells : pc[s] = "idle"
    BY DEF Init, Sessions
  <2>4. KeptIs(0, FullAuto) /\ GivenIs(0, Everyone, 0)
    BY <2>2 DEF KeptIs, GivenIs
  <2>5. \A a \in Agents : GivenIs(0, a, Unset)
    BY <2>2, ProposalsAssumption DEF GivenIs
  <2>6. FullAuto \in DialStates /\ FullAuto.global = 0 /\ \A a \in Agents : FullAuto.over[a] = Unset
    BY DEF FullAuto, DialStates, Levels
  <2>7. AddsUp(FullAuto)
    BY <2>3, <2>4, <2>5, <2>6 DEF AddsUp
  <2> QED BY <2>1, <2>3, <2>4, <2>6, <2>7 DEF SettingsInStep
<1>2. Typed /\ SettingsInStep /\ [Next]_vars => Typed' /\ SettingsInStep'
  BY SettingsInductive, TypedInductive
<1>3. Typed /\ SettingsInStep => SettingsAddUp
  BY SettingsInStepAddUp DEF Typed
<1>4. Spec => []SettingsAddUp
  BY <1>1, <1>2, <1>3, PTL DEF Spec
<1>5. ApprovedIsCanon /\ SettingsAddUp => LogAddsUp
  BY DEF LogAddsUp
<1> QED BY <1>4, <1>5, ApprovalsHaveTheirEvent, PTL

-----------------------------------------------------------------------------
(* One desk                                                                *)

LEMMA DecidedGrows ==
  ASSUME TypeOK, NEW e \in Entries, log' = Append(log, e), NEW w
  PROVE  /\ e.kind \in {"approved", "rejected"} /\ e.work = w =>
              Decided(w)' = Decided(w) \cup {Len(log) + 1}
         /\ ~ (e.kind \in {"approved", "rejected"} /\ e.work = w) => Decided(w)' = Decided(w)
<1>1. e.kind = "approved" => e.kind # "rejected"
  OBVIOUS
<1> QED BY <1>1, PositionsGrow DEF Decided

LEMMA DecidedFinite ==
  ASSUME TypeOK, NEW w
  PROVE  /\ Decided(w) \subseteq 1 .. Len(log) /\ IsFiniteSet(Decided(w))
         /\ Cardinality(Decided(w)) \in Nat
<1>1. IsFiniteSet(Decided(w))
  BY PositionsFinite, FS_Union DEF Decided
<1> QED BY <1>1, PositionsFinite, FS_CardinalityType DEF Decided

LEMMA OneMore ==
  ASSUME NEW S, IsFiniteSet(S), NEW x
  PROVE  /\ Cardinality(S) \in Nat /\ Cardinality(S \cup {x}) \in Nat
         /\ Cardinality(S \cup {x}) <= Cardinality(S) + 1
<1>1. Cardinality(S) \in Nat
  BY FS_CardinalityType
<1>2. Cardinality(S \cup {x}) = IF x \in S THEN Cardinality(S) ELSE Cardinality(S) + 1
  BY FS_AddElement
<1> QED BY <1>1, <1>2

(* Only a screen decides. *)
LEMMA ScreensDecide ==
  ASSUME OneDesk, TypeOK, CommandsFit, NEW s \in Sessions, pc[s] \in {"target", "decide"}
  PROVE  s \in Screens /\ cmd[s].work \in Works
<1>1. cmd[s] \in Commands /\ cmd[s].verb # "autonomy"
  BY DEF CommandsFit
<1>2. s \in Screens
  BY <1>1 DEF CommandsFit, OneDesk, Sessions
<1> QED BY <1>1, <1>2, CommandForms

LEMMA WorkStays ==
  ASSUME NEW w, WorkInOrder(w), UNCHANGED <<log, cursor, status, data, begun, apc, awork>>
  PROVE  WorkInOrder(w)'
BY DEF WorkInOrder, Decided, Positions, Committing

(* A session appends an event or a decision of an open proposal, or a setting. *)
LEMMA WorkAppends ==
  ASSUME TypeOK, NEW e \in Entries, log' = Append(log, e),
         UNCHANGED <<cursor, status, data, begun, apc, awork>>,
         e.kind # "proposed", NEW w \in Works, WorkInOrder(w),
         e.kind # "autonomy" /\ e.work = w => data[w] = "open"
  PROVE  WorkInOrder(w)'
<1>n. PICK n \in Nat : n = Len(log)
  BY PositionsFinite
<1>1. Positions("proposed", w)' = Positions("proposed", w)
  BY PositionsGrow
<1>2. \A a : Committing(a, w)' = Committing(a, w)
  BY DEF Committing
<1>3. data[w] = "open" => Positions("proposed", w) # {}
  BY DEF WorkInOrder
<1>4. Positions("canon", w)' = Positions("canon", w) \/ data[w] = "open"
  BY PositionsGrow
<1>5. Decided(w)' = Decided(w) \/ (data[w] = "open" /\ Decided(w)' = Decided(w) \cup {n + 1})
  BY <1>n, DecidedGrows
<1>6. cursor \in 0 .. n /\ ~ (n + 1 <= cursor)
  BY <1>n DEF TypeOK
<1> QED BY <1>1, <1>2, <1>3, <1>4, <1>5, <1>6 DEF WorkInOrder

(* An agent appends its work, or a proposal of it. *)
LEMMA WorkCommits ==
  ASSUME TypeOK, NEW a \in Agents, EndCommit(a), NEW w \in Works, WorkInOrder(w)
  PROVE  /\ WorkInOrder(w)'
         /\ Decided(w)' = Decided(w)
         /\ \/ Positions("canon", w)' = Positions("canon", w)
            \/ /\ Positions("canon", w) = {} /\ data[w] # "open"
               /\ Positions("canon", w)' = {Len(log) + 1}
<1>0. /\ apc \in [Agents -> {"idle", "propose", "append"}] /\ awork \in [Agents -> Works]
      /\ apc' = [apc EXCEPT ![a] = "idle"]
      /\ UNCHANGED <<cursor, status, data, begun, awork>>
  BY DEF EndCommit, TypeOK, canonVars
<1>n. PICK n \in Nat : n = Len(log)
  BY PositionsFinite
<1>w. PICK v \in Works : v = awork[a]
  BY <1>0
<1>1. PICK e \in Entries : /\ log' = Append(log, e) /\ e.kind \in {"proposed", "canon"}
                           /\ e.work = v
  BY <1>w, EntryTyped DEF EndCommit
<1>2. Decided(w)' = Decided(w)
  BY <1>1, DecidedGrows
<1>3. \A b \in Agents : Committing(b, w)' => Committing(b, w) /\ b # a
  BY <1>0 DEF Committing
<1>4. CASE w = v
  <2>1. Committing(a, w)
    BY <1>4, <1>w DEF Committing, EndCommit
  <2>2. /\ Positions("proposed", w) = {} /\ Positions("canon", w) = {} /\ w \in begun
        /\ data[w] # "open"
    BY <2>1 DEF WorkInOrder
  <2>3. ~ \E b \in Agents : Committing(b, w)'
    BY <1>3, <2>1 DEF WorkInOrder
  <2>4. \/ Positions("proposed", w)' = {n + 1} /\ Positions("canon", w)' = {}
        \/ Positions("proposed", w)' = {} /\ Positions("canon", w)' = {n + 1}
    <3>1. CASE e.kind = "proposed"
      BY <1>1, <1>4, <1>n, <2>2, <3>1, PositionsGrow
    <3>2. CASE e.kind = "canon"
      BY <1>1, <1>4, <1>n, <2>2, <3>2, PositionsGrow
    <3> QED BY <1>1, <3>1, <3>2
  <2> QED BY <1>0, <1>2, <1>n, <2>2, <2>3, <2>4 DEF WorkInOrder
<1>5. CASE w # v
  <2>1. Positions("proposed", w)' = Positions("proposed", w) /\ Positions("canon", w)' = Positions("canon", w)
    BY <1>1, <1>5, PositionsGrow
  <2> QED BY <1>0, <1>2, <1>3, <2>1 DEF WorkInOrder
<1> QED BY <1>4, <1>5

(* An agent begins a work nobody began. *)
LEMMA WorkBegins ==
  ASSUME TypeOK, NEW a \in Agents, NEW v \in Works, StartCommit(a, v), NEW w \in Works,
         WorkInOrder(w)
  PROVE  WorkInOrder(w)'
<1>0. /\ apc \in [Agents -> {"idle", "propose", "append"}] /\ awork \in [Agents -> Works]
      /\ apc[a] = "idle" /\ v \notin begun /\ begun' = begun \cup {v}
      /\ awork' = [awork EXCEPT ![a] = v]
      /\ apc'[a] \in {"propose", "append"} /\ \A b \in Agents : b # a => apc'[b] = apc[b]
      /\ UNCHANGED <<log, cursor, status, data>>
  BY DEF StartCommit, TypeOK, canonVars
<1>1. \A k : Positions(k, w)' = Positions(k, w)
  BY <1>0, PositionsStay
<1>2. Decided(w)' = Decided(w)
  BY <1>1 DEF Decided
<1>3. CASE w = v
  <2>1. ~ \E b \in Agents : Committing(b, w)
    BY <1>0, <1>3 DEF WorkInOrder
  <2>2. \A b \in Agents : Committing(b, w)' => b = a
    BY <1>0, <2>1 DEF Committing
  <2> QED BY <1>0, <1>1, <1>2, <1>3, <2>2 DEF WorkInOrder
<1>4. CASE w # v
  <2>1. \A b \in Agents : Committing(b, w)' => Committing(b, w)
    BY <1>0, <1>4 DEF Committing
  <2> QED BY <1>0, <1>1, <1>2, <1>4, <2>1 DEF WorkInOrder
<1> QED BY <1>3, <1>4

(* The projector folds an event; a proposal it opens was not decided and its event is
   not in canon. *)
LEMMA WorkFolds ==
  ASSUME TypeOK, Fold, NEW w \in Works, WorkInOrder(w)
  PROVE  /\ WorkInOrder(w)'
         /\ Decided(w)' = Decided(w) /\ Positions("canon", w)' = Positions("canon", w)
         /\ data[w] = "open" => data'[w] = "open"
         /\ \/ data'[w] = data[w] /\ (status'[w] = "open" => status[w] = "open")
            \/ Decided(w) = {} /\ Positions("canon", w) = {}
<1>0. /\ status \in [Works -> {"none", "open", "approved", "rejected"}]
      /\ data \in [Works -> {"none", "open"}] /\ UNCHANGED <<log, begun, apc, awork>>
  BY DEF TypeOK, Fold, agentVars
<1>n. PICK m \in Nat : m = cursor /\ m + 1 \in DOMAIN log /\ cursor' = m + 1
  BY LenProperties DEF Fold, TypeOK
<1>1. \A k : Positions(k, w)' = Positions(k, w)
  BY <1>0, PositionsStay
<1>2. Decided(w)' = Decided(w) /\ \A a : Committing(a, w)' = Committing(a, w)
  BY <1>0, <1>1 DEF Decided, Committing
<1> DEFINE e == log[m + 1]
<1>3. e \in Entries
  BY <1>n DEF TypeOK
<1>4. Decided(w) # {} => \E i \in Positions("proposed", w) : i <= m
  BY <1>n DEF WorkInOrder
<1>5. \A i \in Decided(w) : i \in Nat /\ (i <= m + 1 => i <= m \/ i = m + 1)
  BY <1>n, DecidedFinite, PositionsFinite
<1>6. CASE e.kind = "proposed" /\ e.work = w
  <2>1. m + 1 \in Positions("proposed", w)
    BY <1>6, <1>n DEF Positions
  <2>2. ~ \E i \in Positions("proposed", w) : i <= m
    BY <2>1 DEF WorkInOrder
  <2>3. Decided(w) = {} /\ data[w] # "open" /\ Positions("canon", w) = {}
    BY <1>4, <1>n, <2>1, <2>2 DEF WorkInOrder
  <2>4. data'[w] = "open" /\ m + 1 <= m + 1
    BY <1>0, <1>6, <1>n DEF Fold, ProposalCreated, ProposalDecided, AutonomyChanged
  <2>5. ~ \E a \in Agents : Committing(a, w)
    BY <2>1 DEF WorkInOrder
  <2> QED BY <1>0, <1>1, <1>2, <1>n, <2>1, <2>3, <2>4, <2>5 DEF WorkInOrder
<1>7. CASE e.kind \in {"approved", "rejected"} /\ e.work = w
  <2>1. status'[w] # "open" /\ data' = data
    BY <1>0, <1>7, <1>n DEF Fold, ProposalCreated, ProposalDecided, AutonomyChanged
  <2> QED BY <1>0, <1>1, <1>2, <1>n, <2>1, PositionsFinite DEF WorkInOrder
<1>8. CASE ~ (e.kind \in {"proposed", "approved", "rejected"} /\ e.work = w)
  <2>1. status'[w] = status[w] /\ data'[w] = data[w]
    BY <1>0, <1>3, <1>8, <1>n DEF Fold, ProposalCreated, ProposalDecided, AutonomyChanged
  <2>2. m + 1 \notin Decided(w)
    BY <1>8 DEF Decided, Positions
  <2>3. \A i \in Positions("proposed", w) : i <= m => i <= m + 1
    BY <1>n, PositionsFinite
  <2> QED BY <1>0, <1>1, <1>2, <1>5, <1>n, <2>1, <2>2, <2>3 DEF WorkInOrder
<1> QED BY <1>6, <1>7, <1>8

LEMMA ScreenStays ==
  ASSUME TypeOK, CommandsFit, NEW s \in Screens, ScreenInOrder(s),
         \A w \in Works : Decided(w)' = Decided(w) /\ (data[w] = "open" => data'[w] = "open"),
         UNCHANGED <<pc[s], cmd[s], want[s], shown[s], pressed[s]>>
  PROVE  ScreenInOrder(s)'
<1>1. shown[s] \subseteq Works
  BY DEF TypeOK
<1>2. pc[s] \in {"read", "target", "decide"} => cmd[s].work \in Works
  BY CommandForms DEF CommandsFit, Sessions
<1> QED BY <1>1, <1>2 DEF ScreenInOrder

LEMMA ScreensInductive ==
  ASSUME OneDesk, TypeOK, CommandsFit, DeskInv, [Next]_vars, NEW s \in Screens
  PROVE  ScreenInOrder(s)'
<1> USE DEF canonVars, agentVars
<1>0. /\ pc \in [Sessions -> {"idle", "sync", "read", "target", "decide", "set", "done", "resync"}]
      /\ cmd \in [Sessions -> Commands \cup {NoCommand}] /\ want \in [Sessions -> Nat]
      /\ shown \in [Screens -> SUBSET Works] /\ pressed \in [Screens -> Seq(Commands)]
      /\ s \in Sessions /\ ScreenInOrder(s)
  BY DEF TypeOK, Sessions, DeskInv
<1>u. UNCHANGED log => \A w \in Works : Decided(w)' = Decided(w)
  BY PositionsStay DEF Decided
<1>1. CASE Fold
  <2>1. \A w \in Works : Decided(w)' = Decided(w) /\ (data[w] = "open" => data'[w] = "open")
    BY <1>1, WorkFolds DEF DeskInv
  <2> QED BY <1>0, <1>1, <2>1, ScreenStays DEF Fold
<1>2. ASSUME NEW a \in Agents, EndCommit(a) \/ \E w \in Works : StartCommit(a, w)
      PROVE  ScreenInOrder(s)'
  <2>1. \A w \in Works : Decided(w)' = Decided(w)
    BY <1>2, <1>u, WorkCommits DEF StartCommit, DeskInv
  <2> QED BY <1>0, <1>2, <2>1, ScreenStays DEF StartCommit, EndCommit
<1>3. ASSUME NEW t \in Sessions, t # s, NEW e \in Entries, log' = Append(log, e) \/ log' = log,
             e.kind \notin {"approved", "rejected"}, data' = data,
             UNCHANGED <<pc[s], cmd[s], want[s], shown[s], pressed[s]>>
      PROVE  ScreenInOrder(s)'
  <2>1. \A w \in Works : Decided(w)' = Decided(w)
    BY <1>3, <1>u, DecidedGrows
  <2> QED BY <1>0, <1>3, <2>1, ScreenStays
<1>4. ASSUME NEW t \in Sessions, Stepping(t) PROVE ScreenInOrder(s)'
  <2>1. CASE t \notin Screens
    <3>1. pc[t] \notin {"target", "decide", "resync"}
      BY <2>1, ScreensDecide DEF CommandsFit
    <3>2. CASE AppendSetting(t)
      <4>1. /\ cmd[t] \in Commands /\ cmd[t].verb = "autonomy" /\ seen[t] \in DialStates
        BY <3>2 DEF AppendSetting, CommandsFit, TypeOK, DialStates
      <4>2. PICK e \in Entries : e.kind = "autonomy" /\ log' = Append(log, e)
        BY <3>2, <4>1, SettingTyped DEF AppendSetting
      <4> QED BY <1>0, <1>3, <2>1, <3>2, <4>2 DEF AppendSetting
    <3>3. UNCHANGED log \/ AppendSetting(t)
      BY <1>4, <3>1 DEF Stepping, Sync, TakePress, Read, AppendTarget, AppendDecision, Finish, Reload
    <3>4. CASE Sync(t) \/ Read(t) \/ Finish(t)
      BY <1>0, <1>u, <2>1, <3>4, ScreenStays DEF Sync, Read, Finish
    <3> QED BY <1>4, <2>1, <3>1, <3>2, <3>4
            DEF Stepping, TakePress, AppendTarget, AppendDecision, Reload
  <2>2. CASE t \in Screens
    <3>1. t = s
      BY <2>2 DEF OneDesk
    <3>2. CASE TakePress(s)
      <4>1. /\ pressed[s] \in Seq(Commands) /\ pressed[s] # <<>> /\ Len(pressed[s]) = 1
            /\ pressed[s][1].work \in shown[s] /\ pc[s] = "idle"
        BY <1>0, <3>2 DEF TakePress, ScreenInOrder
      <4>2. Head(pressed[s]) = pressed[s][1] /\ Len(Tail(pressed[s])) = 0
            /\ Tail(pressed[s]) \in Seq(Commands)
        BY <4>1, HeadTailProperties
      <4>3. Tail(pressed[s]) = <<>>
        BY <4>2, EmptySeq
      <4>4. pc'[s] = "read" /\ cmd'[s] = pressed[s][1] /\ pressed'[s] = <<>>
            /\ shown' = shown /\ data' = data
        BY <1>0, <3>2, <4>2, <4>3 DEF TakePress
      <4> QED BY <1>0, <4>1, <4>4 DEF ScreenInOrder
    <3>3. CASE Read(s)
      <4>1. /\ pc'[s] \in {"set", "target", "decide", "done"} /\ pressed[s] = <<>>
            /\ data[cmd[s].work] = "open" /\ UNCHANGED <<cmd, shown, pressed, data>>
        BY <1>0, <3>3 DEF Read, ScreenInOrder
      <4> QED BY <1>0, <4>1 DEF ScreenInOrder
    <3>4. CASE AppendTarget(s) \/ AppendDecision(s)
      <4>1. /\ pc[s] \in {"target", "decide"} /\ pc'[s] \in {"decide", "done"}
            /\ UNCHANGED <<cmd, shown, pressed, data>>
        BY <1>0, <3>4 DEF AppendTarget, AppendDecision
      <4> QED BY <1>0, <4>1 DEF ScreenInOrder
    <3>5. CASE Finish(s)
      <4>1. /\ pc[s] = "done" /\ pc'[s] = "resync" /\ want'[s] = Len(log)
            /\ UNCHANGED <<log, cmd, shown, pressed, data>>
        BY <1>0, <3>5 DEF Finish
      <4>2. \A w \in Works : \A i \in Decided(w) : i <= Len(log)
        BY DecidedFinite, PositionsFinite
      <4> QED BY <1>0, <1>u, <4>1, <4>2 DEF ScreenInOrder
    <3>6. CASE Reload(s)
      <4>1. /\ pc'[s] = "idle" /\ shown'[s] = OpenWorks /\ pressed[s] = <<>>
            /\ UNCHANGED <<pressed, data>>
        BY <1>0, <3>6 DEF Reload, ScreenInOrder
      <4>2. \A w \in OpenWorks : data[w] = "open"
        BY DEF OpenWorks, DeskInv, WorkInOrder
      <4> QED BY <4>1, <4>2 DEF ScreenInOrder
    <3>7. ~ Sync(s) /\ ~ AppendSetting(s)
      BY <1>0, ProposalsAssumption DEF Sync, AppendSetting, CommandsFit
    <3> QED BY <1>4, <3>1, <3>2, <3>3, <3>4, <3>5, <3>6, <3>7 DEF Stepping
  <2> QED BY <2>1, <2>2
<1>5. ASSUME NEW t \in Sessions, OpenScreen(t) PROVE ScreenInOrder(s)'
  <2>1. t = s
    BY <1>5 DEF OneDesk, OpenScreen
  <2>2. /\ pc[s] = "idle" /\ shown'[s] = OpenWorks /\ pressed[s] = <<>>
        /\ UNCHANGED <<pressed, data, pc>>
    BY <1>0, <1>5, <2>1 DEF OpenScreen, ScreenInOrder
  <2>3. \A w \in OpenWorks : data[w] = "open"
    BY DEF OpenWorks, DeskInv, WorkInOrder
  <2> QED BY <2>2, <2>3 DEF ScreenInOrder
<1>6. ASSUME NEW t \in Sessions, Crash(t) PROVE ScreenInOrder(s)'
  <2>1. CASE t = s
    BY <1>0, <1>6, <2>1 DEF Crash, ScreenInOrder
  <2>2. CASE t # s
    BY <1>0, <1>6, <1>u, <2>2, ScreenStays DEF Crash
  <2> QED BY <2>1, <2>2
<1>7. ASSUME NEW t \in Sessions, NEW c \in Commands, Type(t, c) PROVE ScreenInOrder(s)'
  <2>1. t # s
    BY <1>7, ProposalsAssumption DEF Type
  <2> QED BY <1>0, <1>7, <1>u, <2>1, ScreenStays DEF Type
<1>8. ASSUME NEW t \in Sessions, NEW v \in {"approve", "reject"}, NEW w \in Works, Press(t, v, w)
      PROVE  ScreenInOrder(s)'
  <2>1. t = s
    BY <1>8 DEF OneDesk, Press
  <2>2. pressed[s] \in Seq(Commands) /\ Len(pressed[s]) \in Nat /\ MaxPresses \in Nat
    BY <1>0, LenProperties, ProposalsAssumption
  <2>3. pc[s] = "idle" /\ Len(pressed[s]) = 0
    <3>1. MaxPresses <= 1
      BY DEF OneDesk
    <3>2. Len(pressed[s]) + (IF pc[s] = "idle" THEN 0 ELSE 1) < MaxPresses
      BY <1>8, <2>1 DEF Press
    <3>3. CASE pc[s] = "idle"
      BY <2>2, <3>1, <3>2, <3>3
    <3>4. CASE pc[s] # "idle"
      <4>1. Len(pressed[s]) + 1 < MaxPresses
        BY <3>2, <3>4
      <4> QED BY <2>2, <3>1, <4>1
    <3> QED BY <3>3, <3>4
  <2>4. pressed'[s] = Append(pressed[s], [verb |-> v, work |-> w]) /\ w \in shown[s]
    BY <1>0, <1>8, <2>1 DEF Press
  <2>5. Len(pressed'[s]) = 1 /\ pressed'[s][1] = [verb |-> v, work |-> w]
    BY <2>2, <2>3, <2>4, PressIsCommand, AppendProperties
  <2>6. pressed'[s][1].work \in shown[s]
    BY <2>4, <2>5
  <2>7. shown' = shown /\ data' = data /\ pc'[s] = "idle"
    BY <1>8, <2>3 DEF Press
  <2>8. \A v1 \in shown[s] : data[v1] = "open"
    BY <1>0 DEF ScreenInOrder
  <2> QED BY <2>5, <2>6, <2>7, <2>8 DEF ScreenInOrder
<1>9. CASE UNCHANGED vars
  BY <1>0, <1>9, <1>u, ScreenStays DEF vars
<1> QED BY <1>1, <1>2, <1>4, <1>5, <1>6, <1>7, <1>8, <1>9 DEF Next

LEMMA WorksInductive ==
  ASSUME OneDesk, TypeOK, CommandsFit, DeskInv, [Next]_vars, NEW w \in Works
  PROVE  WorkInOrder(w)'
<1> USE DEF canonVars, agentVars
<1>0. WorkInOrder(w)
  BY DEF DeskInv
<1>1. CASE Fold
  BY <1>0, <1>1, WorkFolds
<1>2. ASSUME NEW a \in Agents, EndCommit(a) \/ \E v \in Works : StartCommit(a, v)
      PROVE  WorkInOrder(w)'
  BY <1>0, <1>2, WorkCommits, WorkBegins
<1>3. ASSUME NEW s \in Sessions, Stepping(s) PROVE WorkInOrder(w)'
  <2>1. CASE Sync(s) \/ TakePress(s) \/ Read(s) \/ Finish(s) \/ Reload(s)
    BY <1>0, <2>1, WorkStays DEF Sync, TakePress, Read, Finish, Reload
  <2>2. CASE AppendTarget(s) \/ AppendDecision(s)
    <3>1. s \in Screens /\ cmd[s].work \in Works
      BY <2>2, ScreensDecide DEF AppendTarget, AppendDecision
    <3>2. data[cmd[s].work] = "open"
      BY <2>2, <3>1 DEF AppendTarget, AppendDecision, DeskInv, ScreenInOrder
    <3>3. PICK e \in Entries : /\ e.kind \in {"canon", "approved", "rejected"}
                               /\ e.work = cmd[s].work /\ log' = Append(log, e)
      BY <2>2, <3>1, EntryTyped DEF AppendTarget, AppendDecision
    <3> QED BY <1>0, <2>2, <3>2, <3>3, WorkAppends DEF AppendTarget, AppendDecision
  <2>3. CASE AppendSetting(s)
    <3>1. /\ cmd[s] \in Commands /\ cmd[s].verb = "autonomy" /\ seen[s] \in DialStates
      BY <2>3 DEF AppendSetting, CommandsFit, TypeOK, DialStates
    <3>2. PICK e \in Entries : e.kind = "autonomy" /\ log' = Append(log, e)
      BY <2>3, <3>1, SettingTyped DEF AppendSetting
    <3> QED BY <1>0, <2>3, <3>2, WorkAppends DEF AppendSetting
  <2> QED BY <1>3, <2>1, <2>2, <2>3 DEF Stepping
<1>4. ASSUME NEW s \in Sessions, OpenScreen(s) \/ Crash(s) PROVE WorkInOrder(w)'
  BY <1>0, <1>4, WorkStays DEF OpenScreen, Crash
<1>5. ASSUME NEW s \in Sessions, NEW c \in Commands, Type(s, c) PROVE WorkInOrder(w)'
  BY <1>0, <1>5, WorkStays DEF Type
<1>6. ASSUME NEW s \in Sessions, NEW v \in {"approve", "reject"}, NEW x \in Works, Press(s, v, x)
      PROVE  WorkInOrder(w)'
  BY <1>0, <1>6, WorkStays DEF Press
<1>7. CASE UNCHANGED vars
  BY <1>0, <1>7, WorkStays DEF vars
<1> QED BY <1>1, <1>2, <1>3, <1>4, <1>5, <1>6, <1>7 DEF Next

(* Whom a screen may decide on has a proposal in the read model. *)
LEMMA OpenIsProposed ==
  ASSUME DeskInv, NEW s \in Screens, NEW w \in Works, Ripe(s, w)
  PROVE  data[w] = "open"
BY DEF DeskInv, ScreenInOrder, WorkInOrder, Ripe

LEMMA RoomStays ==
  ASSUME TypeOK, NEW s \in Screens, NEW w \in Works, RoomLeft(s, w), UNCHANGED <<faults, data[w]>>,
         Decided(w)' = Decided(w), Positions("canon", w)' = Positions("canon", w),
         Ripe(s, w)' => \/ Ripe(s, w) 
                        \/ data[w] = "open" /\ Decided(w) = {},
         Approving(s, w) => Approving(s, w)'
  PROVE  RoomLeft(s, w)'
<1>1. Decided(w) = {} => Cardinality(Decided(w)) <= faults
  BY FS_EmptySet, ProposalsAssumption DEF TypeOK
<1> QED BY <1>1 DEF RoomLeft

LEMMA CountStays ==
  ASSUME NEW w \in Works, CountHolds(w), UNCHANGED faults,
         Decided(w)' = Decided(w), Positions("canon", w)' = Positions("canon", w)
  PROVE  CountHolds(w)'
BY DEF CountHolds

LEMMA CountsInductive ==
  ASSUME OneDesk, TypeOK, CommandsFit, DeskInv, [Next]_vars, NEW w \in Works
  PROVE  CountHolds(w)' /\ \A s \in Screens : RoomLeft(s, w)'
<1> USE DEF canonVars, agentVars
<1>0. /\ pc \in [Sessions -> {"idle", "sync", "read", "target", "decide", "set", "done", "resync"}]
      /\ cmd \in [Sessions -> Commands \cup {NoCommand}]
      /\ faults \in Nat /\ Screens \subseteq Sessions
      /\ CountHolds(w) /\ WorkInOrder(w) /\ \A s \in Screens : RoomLeft(s, w)
  BY ProposalsAssumption DEF TypeOK, Sessions, DeskInv
<1>u. UNCHANGED log => Decided(w)' = Decided(w) /\ Positions("canon", w)' = Positions("canon", w)
  BY PositionsStay DEF Decided
<1>f. /\ IsFiniteSet(Decided(w)) /\ Cardinality(Decided(w)) \in Nat
      /\ IsFiniteSet(Positions("canon", w)) /\ Cardinality(Positions("canon", w)) \in Nat
  BY DecidedFinite, PositionsFinite
<1>e. Cardinality({}) = 0
  BY FS_EmptySet
<1>1. CASE Fold
  <2>1. /\ Decided(w)' = Decided(w) /\ Positions("canon", w)' = Positions("canon", w)
        /\ \/ data'[w] = data[w] /\ (status'[w] = "open" => status[w] = "open")
           \/ Decided(w) = {} /\ Positions("canon", w) = {}
    BY <1>0, <1>1, WorkFolds
  <2>2. UNCHANGED <<faults, pc, cmd, shown>>
    BY <1>1 DEF Fold
  <2>3. ASSUME NEW s \in Screens PROVE RoomLeft(s, w)'
    <3>1. CASE data'[w] = data[w] /\ (status'[w] = "open" => status[w] = "open")
      BY <1>0, <2>1, <2>2, <3>1, RoomStays DEF Ripe, Approving
    <3>2. CASE Decided(w) = {} /\ Positions("canon", w) = {}
      BY <1>0, <1>e, <2>1, <2>2, <3>2 DEF RoomLeft
    <3> QED BY <2>1, <3>1, <3>2
  <2> QED BY <1>0, <2>1, <2>2, <2>3, CountStays
<1>2. ASSUME NEW a \in Agents, NEW v \in Works, StartCommit(a, v)
      PROVE  CountHolds(w)' /\ \A s \in Screens : RoomLeft(s, w)'
  BY <1>0, <1>2, <1>u, CountStays, RoomStays DEF StartCommit, Ripe, Approving
<1>3. ASSUME NEW a \in Agents, EndCommit(a)
      PROVE  CountHolds(w)' /\ \A s \in Screens : RoomLeft(s, w)'
  <2>0. UNCHANGED <<faults, pc, cmd, shown, status, data>>
    BY <1>3 DEF EndCommit
  <2>1. Decided(w)' = Decided(w)
    BY <1>0, <1>3, WorkCommits
  <2>2. CASE Positions("canon", w)' = Positions("canon", w)
    BY <1>0, <2>0, <2>1, <2>2, CountStays, RoomStays DEF Ripe, Approving
  <2>3. CASE data[w] # "open" /\ Positions("canon", w)' = {Len(log) + 1}
    <3>1. Cardinality(Positions("canon", w)') = 1
      BY <2>3, FS_Singleton
    <3>2. CountHolds(w)'
      BY <1>0, <2>0, <2>1, <3>1 DEF CountHolds
    <3>3. ASSUME NEW s \in Screens PROVE RoomLeft(s, w)'
      <4>1. ~ Ripe(s, w)
        BY <2>3, OpenIsProposed
      <4>2. ~ Ripe(s, w)'
        BY <2>0, <4>1 DEF Ripe
      <4> QED BY <2>0, <2>3, <4>2 DEF RoomLeft
    <3> QED BY <3>2, <3>3
  <2> QED BY <1>0, <1>3, <2>2, <2>3, WorkCommits
<1>4. ASSUME NEW t \in Sessions, t \notin Screens, UNCHANGED <<faults, status, data, shown>>,
             pc' = [pc EXCEPT ![t] = pc'[t]], cmd' = [cmd EXCEPT ![t] = cmd'[t]],
             Decided(w)' = Decided(w), Positions("canon", w)' = Positions("canon", w)
      PROVE  CountHolds(w)' /\ \A s \in Screens : RoomLeft(s, w)'
  <2>1. \A s \in Screens : pc'[s] = pc[s] /\ cmd'[s] = cmd[s]
    BY <1>0, <1>4
  <2> QED BY <1>0, <1>4, <2>1, CountStays, RoomStays DEF Ripe, Approving
<1>5. ASSUME NEW t \in Sessions, Stepping(t), t \notin Screens
      PROVE  CountHolds(w)' /\ \A s \in Screens : RoomLeft(s, w)'
  <2>1. pc[t] \notin {"target", "decide", "resync"}
    BY <1>5, ScreensDecide DEF CommandsFit
  <2>2. CASE AppendSetting(t)
    <3>1. /\ cmd[t] \in Commands /\ cmd[t].verb = "autonomy" /\ seen[t] \in DialStates
      BY <2>2 DEF AppendSetting, CommandsFit, TypeOK, DialStates
    <3>2. PICK e \in Entries : e.kind = "autonomy" /\ log' = Append(log, e)
      BY <2>2, <3>1, SettingTyped DEF AppendSetting
    <3>3. Decided(w)' = Decided(w) /\ Positions("canon", w)' = Positions("canon", w)
      BY <3>2, DecidedGrows, PositionsGrow
    <3> QED BY <1>0, <1>4, <1>5, <2>2, <3>3 DEF AppendSetting
  <2>3. CASE Sync(t) \/ Read(t) \/ Finish(t)
    BY <1>0, <1>4, <1>5, <1>u, <2>3 DEF Sync, Read, Finish
  <2> QED BY <1>5, <2>1, <2>2, <2>3
          DEF Stepping, TakePress, AppendTarget, AppendDecision, Reload
<1>6. ASSUME NEW t \in Screens, Stepping(t)
      PROVE  CountHolds(w)' /\ RoomLeft(t, w)'
  <2>0. t \in Sessions /\ RoomLeft(t, w) /\ ScreenInOrder(t)
    BY <1>0 DEF DeskInv
  <2>1. CASE TakePress(t)
    <3>1. /\ pc[t] = "idle" /\ pc'[t] = "read" /\ cmd'[t] = Head(pressed[t])
          /\ pressed[t] # <<>> /\ UNCHANGED <<log, status, data, shown, faults>>
      BY <1>0, <2>0, <2>1 DEF TakePress
    <3>2. Head(pressed[t]) = pressed[t][1] /\ pressed[t][1].work \in shown[t]
      BY <2>0, <3>1, HeadTailProperties DEF ScreenInOrder, TypeOK
    <3>3. Ripe(t, w)' => Ripe(t, w)
      BY <3>1, <3>2 DEF Ripe
    <3>4. ~ Approving(t, w)
      BY <3>1 DEF Approving
    <3> QED BY <1>0, <1>u, <2>0, <3>1, <3>3, <3>4, CountStays, RoomStays
  <2>2. CASE Read(t)
    <3>1. /\ pc[t] = "read" /\ pc'[t] \in {"set", "done", "target", "decide"}
          /\ UNCHANGED <<log, status, data, cmd, shown, faults>>
      BY <1>0, <2>0, <2>2 DEF Read
    <3>2. (Ripe(t, w)' => Ripe(t, w)) /\ ~ Approving(t, w)
      BY <3>1 DEF Ripe, Approving
    <3> QED BY <1>0, <1>u, <2>0, <3>1, <3>2, CountStays, RoomStays
  <2>3. CASE Finish(t)
    <3>1. /\ pc[t] = "done" /\ pc'[t] = "resync"
          /\ UNCHANGED <<log, status, data, cmd, shown, faults>>
      BY <1>0, <2>0, <2>3 DEF Finish
    <3>2. ~ Ripe(t, w)' /\ ~ Approving(t, w)
      BY <3>1 DEF Ripe, Approving
    <3> QED BY <1>0, <1>u, <2>0, <3>1, <3>2, CountStays, RoomStays
  <2>4. CASE Reload(t)
    <3>1. /\ pc[t] = "resync" /\ pc'[t] = "idle" /\ cursor >= want[t]
          /\ shown'[t] = OpenWorks /\ UNCHANGED <<log, status, data, cmd, faults>>
      BY <1>0, <2>0, <2>4 DEF Reload, TypeOK
    <3>2. ~ Approving(t, w)
      BY <3>1 DEF Approving
    <3>3. Ripe(t, w)' => status[w] = "open"
      BY <3>1 DEF Ripe, OpenWorks
    <3>4. \A i \in Decided(w) : i <= cursor
      <4>1. \A i \in Decided(w) : i <= want[t] /\ i \in Nat /\ want[t] \in Nat /\ cursor \in Nat
        BY <2>0, <3>1, DecidedFinite, PositionsFinite DEF ScreenInOrder, TypeOK
      <4> QED BY <3>1, <4>1
    <3>5. status[w] = "open" => data[w] = "open" /\ Decided(w) = {}
      BY <1>0, <3>4 DEF WorkInOrder
    <3> QED BY <1>0, <1>u, <2>0, <3>1, <3>2, <3>3, <3>5, CountStays, RoomStays
  <2>5. CASE AppendTarget(t)
    <3>1. /\ pc[t] = "target" /\ pc'[t] = "decide" /\ cmd[t].verb = "approve"
          /\ UNCHANGED <<status, data, cmd, shown, faults>>
      BY <1>0, <2>0, <2>5 DEF AppendTarget, CommandsFit
    <3>2. PICK v \in Works : v = cmd[t].work
      BY <2>0, <3>1, ScreensDecide
    <3>3. PICK e \in Entries : e.kind = "canon" /\ e.work = v /\ log' = Append(log, e)
      BY <2>5, <3>2, EntryTyped DEF AppendTarget
    <3>4. Decided(w)' = Decided(w) /\ ~ Approving(t, w)
      BY <3>1, <3>3, DecidedGrows DEF Approving
    <3>5. CASE w = v
      <4>1. Ripe(t, w) /\ Approving(t, w)'
        BY <3>1, <3>2, <3>5 DEF Ripe, Approving
      <4>2. Cardinality(Positions("canon", w)) <= faults /\ Cardinality(Decided(w)) <= faults
        BY <2>0, <3>4, <4>1 DEF RoomLeft
      <4>3. Positions("canon", w)' = Positions("canon", w) \cup {Len(log) + 1}
        BY <3>3, <3>5, PositionsGrow
      <4>4. PICK S, x : S = Positions("canon", w) /\ x = Len(log) + 1
        OBVIOUS
      <4>5. /\ IsFiniteSet(S) /\ Cardinality(S) <= faults
            /\ Positions("canon", w)' = S \cup {x}
        BY <1>f, <4>2, <4>3, <4>4
      <4>6. /\ Cardinality(S) \in Nat /\ Cardinality(S \cup {x}) \in Nat
            /\ Cardinality(S \cup {x}) <= Cardinality(S) + 1
        BY <4>5, OneMore
      <4>7. Cardinality(S \cup {x}) <= 1 + faults
        BY <1>0, <4>5, <4>6
      <4>8. Cardinality(Positions("canon", w)') <= 1 + faults'
        BY <3>1, <4>5, <4>7
      <4>9. Cardinality(Decided(w)') <= 1 + faults'
        BY <1>0, <3>1, <3>4 DEF CountHolds
      <4>10. CountHolds(w)'
        BY <4>8, <4>9 DEF CountHolds
      <4>11. RoomLeft(t, w)'
        BY <3>1, <3>4, <4>1, <4>2 DEF RoomLeft
      <4> QED BY <4>10, <4>11
    <3>6. CASE w # v
      <4>1. Positions("canon", w)' = Positions("canon", w)
        BY <3>3, <3>6, PositionsGrow
      <4>2. ~ Ripe(t, w)'
        BY <3>1, <3>2, <3>6 DEF Ripe
      <4> QED BY <1>0, <2>0, <3>1, <3>4, <4>1, <4>2, CountStays, RoomStays
    <3> QED BY <3>5, <3>6
  <2>6. CASE AppendDecision(t)
    <3>1. /\ pc[t] = "decide" /\ pc'[t] = "done" /\ UNCHANGED <<status, data, cmd, shown, faults>>
      BY <1>0, <2>0, <2>6 DEF AppendDecision
    <3>2. PICK v \in Works : v = cmd[t].work
      BY <2>0, <3>1, ScreensDecide
    <3>3. PICK e \in Entries : /\ e.kind \in {"approved", "rejected"} /\ e.work = v
                               /\ log' = Append(log, e)
      BY <2>6, <3>2, EntryTyped DEF AppendDecision
    <3>4. Positions("canon", w)' = Positions("canon", w) /\ ~ Ripe(t, w)'
      BY <3>1, <3>3, PositionsGrow DEF Ripe
    <3>5. CASE w = v
      <4>1. Ripe(t, w)
        BY <3>1, <3>2, <3>5 DEF Ripe
      <4>2. Cardinality(Decided(w)) <= faults
        BY <2>0, <4>1 DEF RoomLeft
      <4>3. Decided(w)' = Decided(w) \cup {Len(log) + 1}
        BY <3>3, <3>5, DecidedGrows
      <4>4. PICK S, x : S = Decided(w) /\ x = Len(log) + 1
        OBVIOUS
      <4>5. /\ IsFiniteSet(S) /\ Cardinality(S) <= faults
            /\ Decided(w)' = S \cup {x}
        BY <1>f, <4>2, <4>3, <4>4
      <4>6. /\ Cardinality(S) \in Nat /\ Cardinality(S \cup {x}) \in Nat
            /\ Cardinality(S \cup {x}) <= Cardinality(S) + 1
        BY <4>5, OneMore
      <4>7. Cardinality(S \cup {x}) <= 1 + faults
        BY <1>0, <4>5, <4>6
      <4>8. Cardinality(Decided(w)') <= 1 + faults'
        BY <3>1, <4>5, <4>7
      <4>9. Cardinality(Positions("canon", w)') <= 1 + faults'
        BY <1>0, <3>1, <3>4 DEF CountHolds
      <4>10. CountHolds(w)'
        BY <4>8, <4>9 DEF CountHolds
      <4>11. RoomLeft(t, w)'
        BY <3>4, <4>3 DEF RoomLeft
      <4> QED BY <4>10, <4>11
    <3>6. CASE w # v
      <4>1. Decided(w)' = Decided(w)
        BY <3>3, <3>6, DecidedGrows
      <4>2. ~ Approving(t, w)
        BY <3>2, <3>6 DEF Approving
      <4> QED BY <1>0, <2>0, <3>1, <3>4, <4>1, <4>2, CountStays, RoomStays
    <3> QED BY <3>5, <3>6
  <2>7. ~ Sync(t) /\ ~ AppendSetting(t)
    BY <2>0, ProposalsAssumption DEF Sync, AppendSetting, CommandsFit
  <2> QED BY <1>6, <2>1, <2>2, <2>3, <2>4, <2>5, <2>6, <2>7 DEF Stepping
<1>7. ASSUME NEW t \in Sessions, Stepping(t)
      PROVE  CountHolds(w)' /\ \A s \in Screens : RoomLeft(s, w)'
  <2>1. CASE t \in Screens
    BY <1>6, <1>7, <2>1 DEF OneDesk
  <2> QED BY <1>5, <1>7, <2>1
<1>8. ASSUME NEW t \in Sessions, OpenScreen(t)
      PROVE  CountHolds(w)' /\ \A s \in Screens : RoomLeft(s, w)'
  <2> SUFFICES ASSUME NEW s \in Screens PROVE CountHolds(w)' /\ RoomLeft(s, w)'
    BY <1>8 DEF OpenScreen
  <2>1. /\ pc[s] = "idle" /\ shown'[s] = OpenWorks
        /\ UNCHANGED <<log, status, data, pc, cmd, faults>>
    BY <1>8 DEF OpenScreen, OneDesk, TypeOK
  <2>2. Ripe(s, w)' => Ripe(s, w)
    BY <2>1 DEF Ripe, OpenWorks
  <2>3. ~ Approving(s, w)
    BY <2>1 DEF Approving
  <2> QED BY <1>0, <1>u, <2>1, <2>2, <2>3, CountStays, RoomStays
<1>9. ASSUME NEW t \in Sessions, Crash(t)
      PROVE  CountHolds(w)' /\ \A s \in Screens : RoomLeft(s, w)'
  <2>1. /\ faults' = faults + 1 /\ data' = data
        /\ Decided(w)' = Decided(w) /\ Positions("canon", w)' = Positions("canon", w)
    BY <1>9, <1>u DEF Crash
  <2>2. CountHolds(w)'
    BY <1>0, <1>f, <2>1 DEF CountHolds
  <2>3. /\ Cardinality(Decided(w)) <= faults + 1
        /\ Cardinality(Positions("canon", w)) <= faults + 1
    BY <1>0, <1>f DEF CountHolds
  <2>4. \A s \in Screens : RoomLeft(s, w)'
    BY <2>1, <2>3 DEF RoomLeft
  <2> QED BY <2>2, <2>4
<1>10. ASSUME NEW t \in Sessions, NEW c \in Commands, Type(t, c)
       PROVE  CountHolds(w)' /\ \A s \in Screens : RoomLeft(s, w)'
  <2>1. t \notin Screens
    BY <1>10, ProposalsAssumption DEF Type
  <2> QED BY <1>0, <1>4, <1>10, <1>u, <2>1 DEF Type
<1>11. ASSUME NEW t \in Sessions, NEW v \in {"approve", "reject"}, NEW x \in Works, Press(t, v, x)
       PROVE  CountHolds(w)' /\ \A s \in Screens : RoomLeft(s, w)'
  BY <1>0, <1>11, <1>u, CountStays, RoomStays DEF Press, Ripe, Approving
<1>12. CASE UNCHANGED vars
  BY <1>0, <1>12, <1>u, CountStays, RoomStays DEF vars, Ripe, Approving
<1> QED BY <1>1, <1>2, <1>3, <1>7, <1>8, <1>9, <1>10, <1>11, <1>12 DEF Next

(* Decisions are made once: on one screen, pressed once at a time, with whatever agents
   and shells beside it, a proposal is decided once and its event appended once, and once
   more at most for each crash; what is listed again after a decision has folded it. *)
THEOREM DecidedAtMostOnce ==
  ASSUME OneDesk
  PROVE  Spec => []DecidedOnce
<1>1. Init => DeskInv
  <2> SUFFICES ASSUME Init PROVE DeskInv
    OBVIOUS
  <2>1. DOMAIN log = {} /\ cursor = 0 /\ begun = {} /\ faults = 0
    BY DEF Init
  <2>2. ASSUME NEW w \in Works PROVE Decided(w) = {} /\ Positions("canon", w) = {}
                                     /\ Positions("proposed", w) = {}
    BY <2>1 DEF Decided, Positions
  <2>3. ASSUME NEW w \in Works PROVE WorkInOrder(w)
    BY <2>2 DEF WorkInOrder, Committing, Init
  <2>4. Cardinality({}) = 0
    BY FS_EmptySet
  <2>5. ASSUME NEW w \in Works PROVE CountHolds(w) /\ \A s \in Screens : RoomLeft(s, w)
    <3>1. Cardinality(Decided(w)) = 0 /\ Cardinality(Positions("canon", w)) = 0
      BY <2>2, <2>4
    <3> QED BY <2>1, <3>1 DEF CountHolds, RoomLeft
  <2>6. ASSUME NEW s \in Screens PROVE ScreenInOrder(s)
    BY DEF ScreenInOrder, Init, Sessions
  <2> QED BY <2>3, <2>5, <2>6 DEF DeskInv
<1>2. Typed /\ DeskInv /\ [Next]_vars => DeskInv'
  <2> SUFFICES ASSUME TypeOK, CommandsFit, DeskInv, [Next]_vars PROVE DeskInv'
    BY DEF Typed
  <2>1. \A w \in Works : WorkInOrder(w)' /\ CountHolds(w)' /\ \A s \in Screens : RoomLeft(s, w)'
    BY WorksInductive, CountsInductive
  <2>2. \A s \in Screens : ScreenInOrder(s)'
    BY ScreensInductive
  <2> QED BY <2>1, <2>2 DEF DeskInv
<1>3. DeskInv => DecidedOnce
  BY DEF DeskInv, CountHolds, DecidedOnce, Decided
<1> QED BY <1>1, <1>2, <1>3, TypedAlways, PTL DEF Spec

-----------------------------------------------------------------------------
(* Flags.  They travel by copy, so the invariant is about every copy there is: in the
   rows, in the events that wait, in the hands of who polled one, and in what a run has
   still to append. *)

Status == {"open"} \cup TERMINAL_FLAG_STATES

ColumnRecord == [status : Status, escalated : BOOLEAN]

(* An open flag has never been declined, and is not too old yet. *)
Copies ==
  {f \in FlagRecord : /\ f.attempts <= 1
                      /\ f.status = "open" => f.attempts = 0 /\ f.passes < STALE_AFTER}

(* An event that says escalated, or cleared, carries a flag that is, or is not. *)
Changes ==
  {e \in [type : {"created", "rejected", "resolved", "escalated", "cleared"}, id : Ids,
          flag : Copies] :
     /\ e.type = "escalated" => e.flag.escalated
     /\ e.type = "cleared" => ~ e.flag.escalated}

Own(i) == {e \in Changes : e.id = i}

Titles == [type : {"labeled"}, id : Ids, flag : {None}]

Runs == {r \in [id : Ids, flag : Copies, todo : Seq(Changes)] : r.todo \in Seq(Own(r.id))}

-----------------------------------------------------------------------------
(* The inductive invariant                                                 *)

RowsOK ==
  /\ records \in [Ids -> Copies \cup {None}] /\ cols \in [Ids -> ColumnRecord \cup {None}]
  /\ queue \in Seq(Ids)
  /\ \A j, k \in DOMAIN queue : queue[j] = queue[k] => j = k
  /\ \A i \in Ids : (records[i] = None <=> cols[i] = None) /\ (records[i] = None <=> i \notin Queued)
  /\ CopiesAgree
  /\ Queued \subseteq filed

PendingOK ==
  /\ pending \in Seq(Changes \cup Titles) /\ Len(pending) <= MaxPending
  /\ \A k \in DOMAIN pending :
       /\ pending[k].id \in filed
       /\ pending[k].type = "labeled" => records[pending[k].id] # None

RunsOK ==
  /\ run \in [Deciders -> Runs \cup {None}]
  /\ \A d \in Deciders : run[d] # None => run[d].id \in filed
  /\ deferred \in [Deciders -> SUBSET Ids] /\ \A d \in Deciders : deferred[d] \subseteq filed

OthersOK ==
  /\ filed \subseteq Ids /\ filing \in Filings
  /\ labels \subseteq filed /\ \A i \in labels : records[i] # None
  /\ held = None \/ (held \in [id : Ids, flag : Copies] /\ held.id \in filed)
  /\ clears \in 0 .. MaxClears /\ failures \in 0 .. MaxFailures

IInv == RowsOK /\ PendingOK /\ RunsOK /\ OthersOK

-----------------------------------------------------------------------------
(* The lifecycle, copy by copy                                             *)

LEMMA CopyFacts ==
  ASSUME NEW f \in Copies
  PROVE  /\ f = [category |-> f.category, status |-> f.status, title |-> f.title,
                 severity |-> f.severity, escalated |-> f.escalated, passes |-> f.passes,
                 attempts |-> f.attempts]
         /\ f.category \in Categories /\ f.status \in Status /\ f.title \in BOOLEAN
         /\ f.severity \in {"none", "minor", "critical"} /\ f.escalated \in BOOLEAN
         /\ f.passes \in 0 .. STALE_AFTER /\ f.attempts \in Nat /\ f.attempts <= 1
         /\ f.status = "open" => f.attempts = 0 /\ f.passes < STALE_AFTER
         /\ f # None
BY NoneAssumption DEF Copies, FlagRecord, Status

LEMMA Marked ==
  ASSUME NEW f \in Copies
  PROVE  /\ mark_dismissed(f) \in Copies /\ mark_resolved(f) \in Copies
         /\ mark_escalated(f) \in Copies /\ mark_escalated(f).escalated
         /\ mark_escalated(f).status = f.status
         /\ mark_escalation_cleared(f) \in Copies /\ ~ mark_escalation_cleared(f).escalated
         /\ \A v \in {"minor", "critical"} : /\ [f EXCEPT !.severity = v] \in Copies
                                             /\ [f EXCEPT !.severity = v].status = f.status
         /\ \A c \in Categories : [f EXCEPT !.category = c] \in Copies
         /\ [f EXCEPT !.title = TRUE] \in Copies
         /\ [f EXCEPT !.title = TRUE].status = f.status
         /\ [f EXCEPT !.title = TRUE].escalated = f.escalated
<1>1. mark_dismissed(f) \in Copies /\ mark_resolved(f) \in Copies
  BY CopyFacts DEF mark_dismissed, mark_resolved, Copies, FlagRecord, TERMINAL_FLAG_STATES
<1>2. /\ mark_escalated(f) \in Copies /\ mark_escalated(f).escalated
      /\ mark_escalated(f).status = f.status
      /\ mark_escalation_cleared(f) \in Copies /\ ~ mark_escalation_cleared(f).escalated
  BY CopyFacts DEF mark_escalated, mark_escalation_cleared, Copies, FlagRecord
<1>3. \A v \in {"minor", "critical"} : /\ [f EXCEPT !.severity = v] \in Copies
                                       /\ [f EXCEPT !.severity = v].status = f.status
  BY CopyFacts DEF Copies, FlagRecord
<1>4. \A c \in Categories : [f EXCEPT !.category = c] \in Copies
  BY CopyFacts DEF Copies, FlagRecord
<1>5. /\ [f EXCEPT !.title = TRUE] \in Copies
      /\ [f EXCEPT !.title = TRUE].status = f.status
      /\ [f EXCEPT !.title = TRUE].escalated = f.escalated
  BY CopyFacts DEF Copies, FlagRecord
<1> QED BY <1>1, <1>2, <1>3, <1>4, <1>5

(* Only an open flag is declined or ages, and an open flag is young. *)
LEMMA OpenMarked ==
  ASSUME NEW f \in Copies, f.status = "open"
  PROVE  /\ mark_declined(f) \in Copies /\ mark_stale(f) \in Copies
         /\ f.passes + 1 < STALE_AFTER => [f EXCEPT !.passes = @ + 1] \in Copies
<1>1. f.attempts = 0 /\ f.passes \in Nat /\ f.passes < STALE_AFTER
  BY CopyFacts, FlagsAssumption
<1>2. PICK n \in 0 .. STALE_AFTER : n = f.passes + 1
  BY <1>1, FlagsAssumption
<1>3. mark_declined(f) \in Copies
  <2> DEFINE g == [f EXCEPT !.status = "rejected"]
  <2>1. mark_declined(f) = [g EXCEPT !.attempts = 1]
    BY <1>1, CopyFacts DEF mark_declined
  <2>2. g = [category |-> f.category, status |-> "rejected", title |-> f.title,
             severity |-> f.severity, escalated |-> f.escalated, passes |-> f.passes,
             attempts |-> f.attempts]
    BY CopyFacts
  <2> HIDE DEF g
  <2> QED BY <2>1, <2>2, CopyFacts DEF Copies, FlagRecord, TERMINAL_FLAG_STATES
<1>4. mark_stale(f) \in Copies
  <2> DEFINE g == [f EXCEPT !.status = "stale"]
  <2>1. mark_stale(f) = [g EXCEPT !.passes = n]
    BY <1>2, CopyFacts DEF mark_stale
  <2>2. g = [category |-> f.category, status |-> "stale", title |-> f.title,
             severity |-> f.severity, escalated |-> f.escalated, passes |-> f.passes,
             attempts |-> f.attempts]
    BY CopyFacts
  <2> HIDE DEF g
  <2> QED BY <1>2, <2>1, <2>2, CopyFacts DEF Copies, FlagRecord, TERMINAL_FLAG_STATES
<1>5. ASSUME f.passes + 1 < STALE_AFTER PROVE [f EXCEPT !.passes = @ + 1] \in Copies
  <2>1. [f EXCEPT !.passes = @ + 1] = [f EXCEPT !.passes = n] /\ n < STALE_AFTER
    BY <1>2, <1>5, CopyFacts
  <2>2. [f EXCEPT !.passes = n] \in Copies
    BY <2>1, CopyFacts DEF Copies, FlagRecord
  <2> QED BY <2>1, <2>2
<1> QED BY <1>3, <1>4, <1>5

LEMMA ChangesMade ==
  ASSUME NEW i \in Ids, NEW f \in Copies
  PROVE  /\ \A type \in {"created", "rejected", "resolved"} :
              Event(type, i, f) \in Own(i) /\ <<Event(type, i, f)>> \in Seq(Own(i))
         /\ f.escalated => Event("escalated", i, f) \in Own(i) /\ <<Event("escalated", i, f)>> \in Seq(Own(i))
         /\ ~ f.escalated => Event("cleared", i, f) \in Own(i) /\ <<Event("cleared", i, f)>> \in Seq(Own(i))
<1>1. \A type \in {"created", "rejected", "resolved"} : Event(type, i, f) \in Own(i)
  BY DEF Event, Own, Changes
<1>2. f.escalated => Event("escalated", i, f) \in Own(i)
  BY DEF Event, Own, Changes
<1>3. ~ f.escalated => Event("cleared", i, f) \in Own(i)
  BY DEF Event, Own, Changes
<1>4. \A e \in Own(i) : <<e>> \in Seq(Own(i))
  OBVIOUS
<1> QED BY <1>1, <1>2, <1>3, <1>4

LEMMA NoneMade == ASSUME NEW S PROVE <<>> \in Seq(S)
  OBVIOUS

LEMMA BothMade ==
  ASSUME NEW S, NEW p \in Seq(S), NEW q \in Seq(S)
  PROVE  p \o q \in Seq(S)
  OBVIOUS

LEMMA AgedMade ==
  ASSUME NEW i \in Ids, NEW g \in Copies, g.status = "open"
  PROVE  Aged(i, g) \in Seq(Own(i))
<1>1. CASE g.passes + 1 >= STALE_AFTER
  BY <1>1, OpenMarked, ChangesMade DEF Aged
<1>2. CASE ~ (g.passes + 1 >= STALE_AFTER)
  <2>1. g.passes + 1 < STALE_AFTER
    BY <1>2, CopyFacts, FlagsAssumption
  <2>2. [g EXCEPT !.passes = @ + 1] \in Copies
    BY <2>1, OpenMarked
  <2> QED BY <1>2, <2>2, ChangesMade DEF Aged
<1> QED BY <1>1, <1>2

(* What an answer makes of the copy polled *)
LEMMA JudgedMade ==
  ASSUME NEW i \in Ids, NEW f \in Copies, f.status = "open",
         NEW v \in Verdicts, NEW c \in Vocabulary \cup {""}
  PROVE  Judged(i, f, v, c) \in Seq(Own(i))
<1>1. CASE v = "dismiss"
  BY <1>1, Marked, ChangesMade DEF Judged
<1>2. CASE v # "dismiss"
  <2> DEFINE graded == [f EXCEPT !.severity = v]
             raised == v = "critical" /\ may_escalate(graded)
             g == IF raised THEN mark_escalated(graded) ELSE graded
             first == IF raised THEN <<Event("escalated", i, g)>> ELSE <<>>
             rest == IF Owner[f.category] # None
                     THEN IF g # f THEN <<Event("created", i, g)>> ELSE <<>>
                     ELSE IF c \in Vocabulary
                          THEN <<Event("created", i, [g EXCEPT !.category = c])>>
                          ELSE Aged(i, g)
  <2>1. Judged(i, f, v, c) = first \o rest
    BY <1>2 DEF Judged
  <2>2. v \in {"minor", "critical"}
    BY <1>2, FlagsAssumption
  <2>3. graded \in Copies /\ graded.status = "open"
    BY <2>2, Marked
  <2> HIDE DEF graded
  <2>4. g \in Copies /\ g.status = "open" /\ (raised => g.escalated)
    BY <2>3, Marked
  <2> HIDE DEF g, raised
  <2>5. first \in Seq(Own(i))
    BY <2>4, ChangesMade, NoneMade
  <2> HIDE DEF first
  <2>6. Aged(i, g) \in Seq(Own(i))
    BY <2>4, AgedMade
  <2>7. <<Event("created", i, g)>> \in Seq(Own(i))
    BY <2>4, ChangesMade
  <2>8. c \in Vocabulary => <<Event("created", i, [g EXCEPT !.category = c])>> \in Seq(Own(i))
    BY <2>4, Marked, ChangesMade, FlagsAssumption
  <2>9. rest \in Seq(Own(i))
    BY <2>6, <2>7, <2>8, NoneMade
  <2> HIDE DEF rest
  <2> QED BY <2>1, <2>5, <2>9, BothMade
<1> QED BY <1>1, <1>2

LEMMA DeclinedMade ==
  ASSUME NEW i \in Ids, NEW f \in Copies, f.status = "open"
  PROVE  Declined(i, f) \in Seq(Own(i))
<1> DEFINE g == mark_declined(f)
           rest == IF should_escalate_after_failure(g) THEN <<Event("escalated", i, mark_escalated(g))>>
                   ELSE <<>>
<1>1. g \in Copies
  BY OpenMarked
<1>2. Declined(i, f) = <<Event("rejected", i, g)>> \o rest
  BY DEF Declined
<1> HIDE DEF g
<1>3. <<Event("rejected", i, g)>> \in Seq(Own(i))
  BY <1>1, ChangesMade
<1>4. <<Event("escalated", i, mark_escalated(g))>> \in Seq(Own(i))
  BY <1>1, Marked, ChangesMade
<1>5. rest \in Seq(Own(i))
  BY <1>4, NoneMade
<1> HIDE DEF rest
<1> QED BY <1>2, <1>3, <1>5, BothMade

LEMMA ResolvedMade ==
  ASSUME NEW i \in Ids, NEW f \in Copies
  PROVE  Resolved(i, f) \in Seq(Own(i))
<1> DEFINE g == mark_resolved(f)
           rest == IF may_clear_escalation(g) THEN <<Event("cleared", i, mark_escalation_cleared(g))>>
                   ELSE <<>>
<1>1. g \in Copies
  BY Marked
<1>2. Resolved(i, f) = <<Event("resolved", i, g)>> \o rest
  BY DEF Resolved
<1> HIDE DEF g
<1>3. <<Event("resolved", i, g)>> \in Seq(Own(i))
  BY <1>1, ChangesMade
<1>4. <<Event("cleared", i, mark_escalation_cleared(g))>> \in Seq(Own(i))
  BY <1>1, Marked, ChangesMade
<1>5. rest \in Seq(Own(i))
  BY <1>4, NoneMade
<1> HIDE DEF rest
<1> QED BY <1>2, <1>3, <1>5, BothMade

-----------------------------------------------------------------------------
(* What a step that writes no row leaves standing                          *)

LEMMA RowsKept ==
  ASSUME RowsOK, UNCHANGED rows, filed \subseteq filed'
  PROVE  RowsOK'
<1>1. records' = records /\ cols' = cols /\ queue' = queue
  BY DEF rows
<1>2. Queued' = Queued
  BY <1>1 DEF Queued
<1>3. CopiesAgree'
  BY <1>1 DEF RowsOK, CopiesAgree
<1> QED BY <1>1, <1>2, <1>3 DEF RowsOK

LEMMA PendingKept ==
  ASSUME PendingOK, UNCHANGED pending, records' = records, filed \subseteq filed'
  PROVE  PendingOK'
BY DEF PendingOK

LEMMA EventsTyped ==
  ASSUME NEW e \in Changes \cup Titles
  PROVE  /\ e.id \in Ids
         /\ e.type = "labeled" <=> e \in Titles
         /\ e \in Changes => /\ e.flag \in Copies
                             /\ e.type = "escalated" => e.flag.escalated
                             /\ e.type = "cleared" => ~ e.flag.escalated
BY DEF Changes, Titles

(* One more event waits *)
LEMMA OneMoreWaits ==
  ASSUME PendingOK, records' = records, filed \subseteq filed',
         NEW e \in Changes \cup Titles, Commit(e), e.id \in filed',
         e.type = "labeled" => records[e.id] # None
  PROVE  PendingOK'
<1>1. pending' = Append(pending, e) /\ Len(pending) < MaxPending
  BY DEF Commit
<1>2. pending \in Seq(Changes \cup Titles) /\ Len(pending) \in Nat
  BY DEF PendingOK
<1>3. pending' \in Seq(Changes \cup Titles) /\ Len(pending') = Len(pending) + 1
  BY <1>1, <1>2
<1>4. Len(pending') <= MaxPending
  BY <1>1, <1>2, <1>3, FlagsAssumption
<1>5. ASSUME NEW k \in DOMAIN pending'
      PROVE  /\ pending'[k].id \in filed'
             /\ pending'[k].type = "labeled" => records'[pending'[k].id] # None
  <2>1. k \in 1 .. Len(pending) + 1
    BY <1>3, <1>5
  <2>2. k = Len(pending) + 1 \/ k \in 1 .. Len(pending)
    BY <1>2, <2>1
  <2>3. CASE k = Len(pending) + 1
    <3>1. pending'[k] = e
      BY <1>1, <1>2, <2>3
    <3> QED BY <3>1
  <2>4. CASE k \in 1 .. Len(pending)
    <3>1. pending'[k] = pending[k] /\ k \in DOMAIN pending
      BY <1>1, <1>2, <2>4
    <3> QED BY <3>1 DEF PendingOK
  <2> QED BY <2>2, <2>3, <2>4
<1> QED BY <1>3, <1>4, <1>5 DEF PendingOK

(* An open flag has a record, and the record is a copy. *)
LEMMA OpenHasRecord ==
  ASSUME RowsOK, NEW i \in Queued
  PROVE  i \in Ids /\ i \in filed /\ records[i] \in Copies /\ records[i] # None
<1>1. i \in Ids
  BY DEF RowsOK, Queued
<1> QED BY <1>1 DEF RowsOK

-----------------------------------------------------------------------------
(* The projector                                                           *)

(* Whatever is folded, the row of its flag becomes one copy and the columns
   that copy's. *)
LEMMA Folded ==
  ASSUME IInv, ProjectOne
  PROVE  \E e \in Changes \cup Titles, f \in Copies :
           /\ e = Head(pending) /\ e.id \in filed
           /\ records' = [records EXCEPT ![e.id] = f]
           /\ cols' = [cols EXCEPT ![e.id] = [status |-> f.status, escalated |-> f.escalated]]
           /\ queue' = IF e.id \in Queued THEN queue ELSE Append(queue, e.id)
           /\ e.type = "labeled" => /\ records[e.id] # None
                                    /\ f = [records[e.id] EXCEPT !.title = TRUE]
                                    /\ cols' = cols
<1>1. pending \in Seq(Changes \cup Titles) /\ pending # <<>>
  BY DEF IInv, PendingOK, ProjectOne
<1>2. PICK e \in Changes \cup Titles : e = Head(pending)
  BY <1>1
<1>3. 1 \in DOMAIN pending /\ e = pending[1]
  BY <1>1, <1>2
<1>4. e.id \in filed /\ (e.type = "labeled" => records[e.id] # None)
  BY <1>3 DEF IInv, PendingOK
<1>5. e.id \in Ids
  BY EventsTyped
<1>6. records \in [Ids -> Copies \cup {None}] /\ cols \in [Ids -> ColumnRecord \cup {None}]
  BY DEF IInv, RowsOK
<1>7. queue' = IF e.id \in Queued THEN queue ELSE Append(queue, e.id)
  BY <1>2 DEF ProjectOne
<1>8. CASE e.type = "labeled"
  <2>1. records[e.id] \in Copies /\ records[e.id] # None
    BY <1>4, <1>5, <1>6, <1>8
  <2>2. PICK f \in Copies : f = [records[e.id] EXCEPT !.title = TRUE]
    BY <2>1, Marked
  <2>3. f.status = records[e.id].status /\ f.escalated = records[e.id].escalated
    BY <2>1, <2>2, Marked
  <2>4. cols[e.id] = [status |-> f.status, escalated |-> f.escalated]
    BY <1>5, <2>1, <2>3 DEF IInv, RowsOK, CopiesAgree
  <2>5. records' = [records EXCEPT ![e.id].title = TRUE] /\ cols' = cols
    BY <1>2, <1>8 DEF ProjectOne, Label
  <2>6. records' = [records EXCEPT ![e.id] = f]
    BY <2>2, <2>5
  <2>7. cols' = [cols EXCEPT ![e.id] = [status |-> f.status, escalated |-> f.escalated]]
    BY <1>5, <1>6, <2>4, <2>5
  <2> QED BY <1>2, <1>4, <1>7, <2>1, <2>2, <2>5, <2>6, <2>7
<1>9. CASE e.type # "labeled"
  <2>1. e \in Changes
    BY <1>9, EventsTyped
  <2>2. /\ e.flag \in Copies
        /\ e.type = "escalated" => e.flag.escalated
        /\ e.type = "cleared" => ~ e.flag.escalated
    BY <2>1, EventsTyped
  <2>3. PICK f \in Copies : f = e.flag
    BY <2>2
  <2>4. f.escalated \in BOOLEAN
    BY CopyFacts
  <2>5. WriteFlag(e)
    BY <1>2, <1>9 DEF ProjectOne
  <2>6. (IF e.type = "escalated" THEN TRUE ELSE IF e.type = "cleared" THEN FALSE ELSE f.escalated)
          = f.escalated
    BY <2>2, <2>3, <2>4
  <2>7. records' = [records EXCEPT ![e.id] = f]
    BY <2>3, <2>5 DEF WriteFlag
  <2>8. cols' = [cols EXCEPT ![e.id] = [status |-> f.status, escalated |-> f.escalated]]
    BY <2>3, <2>5, <2>6 DEF WriteFlag
  <2> QED BY <1>2, <1>4, <1>7, <1>9, <2>7, <2>8
<1> QED BY <1>8, <1>9

LEMMA FoldKeeps ==
  ASSUME IInv, ProjectOne
  PROVE  IInv'
<1>1. PICK e \in Changes \cup Titles, f \in Copies :
        /\ e = Head(pending) /\ e.id \in filed
        /\ records' = [records EXCEPT ![e.id] = f]
        /\ cols' = [cols EXCEPT ![e.id] = [status |-> f.status, escalated |-> f.escalated]]
        /\ queue' = IF e.id \in Queued THEN queue ELSE Append(queue, e.id)
  BY Folded
<1>2. PICK i \in Ids : i = e.id
  BY EventsTyped
<1>3. PICK c \in ColumnRecord : c = [status |-> f.status, escalated |-> f.escalated]
  BY CopyFacts DEF ColumnRecord
<1>4. f # None /\ c # None
  BY CopyFacts, NoneAssumption DEF ColumnRecord, Status
<1>5. records \in [Ids -> Copies \cup {None}] /\ cols \in [Ids -> ColumnRecord \cup {None}]
      /\ queue \in Seq(Ids)
  BY DEF IInv, RowsOK
<1>6. /\ records' \in [Ids -> Copies \cup {None}] /\ cols' \in [Ids -> ColumnRecord \cup {None}]
      /\ records'[i] = f /\ cols'[i] = c
      /\ \A j \in Ids : j # i => records'[j] = records[j] /\ cols'[j] = cols[j]
  BY <1>1, <1>2, <1>3, <1>5
<1>7. \A j \in Ids : records[j] # None => records'[j] # None
  BY <1>4, <1>6
<1>8. /\ queue' \in Seq(Ids) /\ Queued' = Queued \cup {i}
      /\ \A j, k \in DOMAIN queue' : queue'[j] = queue'[k] => j = k
  <2>1. \A j, k \in DOMAIN queue : queue[j] = queue[k] => j = k
    BY DEF IInv, RowsOK
  <2>2. CASE i \in Queued
    <3>1. queue' = queue
      BY <1>1, <1>2, <2>2
    <3> QED BY <1>5, <2>1, <2>2, <3>1 DEF Queued
  <2>3. CASE i \notin Queued
    <3>1. queue' = Append(queue, i)
      BY <1>1, <1>2, <2>3
    <3>2. Len(queue) \in Nat /\ DOMAIN queue = 1 .. Len(queue)
      BY <1>5
    <3>3. /\ queue' \in Seq(Ids) /\ DOMAIN queue' = 1 .. Len(queue) + 1
          /\ queue'[Len(queue) + 1] = i
          /\ \A k \in 1 .. Len(queue) : queue'[k] = queue[k]
      BY <1>5, <3>1
    <3>4. \A k \in 1 .. Len(queue) + 1 : k = Len(queue) + 1 \/ k \in 1 .. Len(queue)
      BY <3>2
    <3>5. \A k \in 1 .. Len(queue) : queue[k] # i
      BY <2>3, <3>2 DEF Queued
    <3>6. \A k \in 1 .. Len(queue) : k \in 1 .. Len(queue) + 1
      BY <3>2
    <3>7. Len(queue) + 1 \in 1 .. Len(queue) + 1
      BY <3>2
    <3>8. Queued' = Queued \cup {i}
      BY <3>2, <3>3, <3>4, <3>6, <3>7, Zenon DEF Queued
    <3>9. \A j, k \in DOMAIN queue' : queue'[j] = queue'[k] => j = k
      BY <2>1, <3>2, <3>3, <3>4, <3>5
    <3> QED BY <3>3, <3>8, <3>9
  <2> QED BY <2>2, <2>3
<1>9. RowsOK'
  <2>1. \A j \in Ids : /\ records'[j] = None <=> cols'[j] = None
                       /\ records'[j] = None <=> j \notin Queued'
    BY <1>4, <1>6, <1>8 DEF IInv, RowsOK
  <2>2. CopiesAgree'
    <3> SUFFICES ASSUME NEW j \in Ids, records'[j] # None
                 PROVE  cols'[j] = [status |-> records'[j].status, escalated |-> records'[j].escalated]
      BY DEF CopiesAgree
    <3>1. CASE j = i
      BY <1>3, <1>6, <3>1
    <3>2. CASE j # i
      BY <1>6, <3>2 DEF IInv, RowsOK, CopiesAgree
    <3> QED BY <3>1, <3>2
  <2>3. filed' = filed /\ Queued' \subseteq filed'
    BY <1>1, <1>2, <1>8 DEF IInv, RowsOK, ProjectOne
  <2> QED BY <1>6, <1>8, <2>1, <2>2, <2>3 DEF RowsOK
<1>10. PendingOK'
  <2>1. pending \in Seq(Changes \cup Titles) /\ pending # <<>> /\ pending' = Tail(pending)
    BY DEF IInv, PendingOK, ProjectOne
  <2>2. /\ pending' \in Seq(Changes \cup Titles) /\ Len(pending') = Len(pending) - 1
        /\ \A k \in DOMAIN pending' : pending'[k] = pending[k + 1] /\ k + 1 \in DOMAIN pending
    BY <2>1
  <2>3. Len(pending') <= MaxPending
    BY <2>1, <2>2, FlagsAssumption DEF IInv, PendingOK
  <2>4. ASSUME NEW k \in DOMAIN pending'
        PROVE  /\ pending'[k].id \in filed'
               /\ pending'[k].type = "labeled" => records'[pending'[k].id] # None
    <3>1. PICK q \in DOMAIN pending : pending'[k] = pending[q]
      BY <2>2
    <3>2. pending[q].id \in filed /\ (pending[q].type = "labeled" => records[pending[q].id] # None)
      BY <3>1 DEF IInv, PendingOK
    <3>3. pending[q].id \in Ids
      BY <2>1, <3>1, EventsTyped
    <3> QED BY <1>7, <3>1, <3>2, <3>3 DEF ProjectOne
  <2> QED BY <2>2, <2>3, <2>4 DEF PendingOK
<1>11. RunsOK'
  BY DEF IInv, RunsOK, ProjectOne
<1>12. OthersOK'
  <2>1. labels \subseteq Ids
    BY DEF IInv, OthersOK
  <2> QED BY <1>7, <2>1 DEF IInv, OthersOK, ProjectOne
<1> QED BY <1>9, <1>10, <1>11, <1>12 DEF IInv

-----------------------------------------------------------------------------
(* Who files, and who decides                                              *)

LEMMA FileKeeps ==
  ASSUME IInv, NEW i \in Ids, File(i)
  PROVE  IInv'
<1>1. i \in DOMAIN filing.category /\ filing \in Filings
  BY DEF IInv, OthersOK, File
<1>2. filing.category[i] \in Categories
  BY <1>1, FlagsAssumption
<1>3. New(i) \in Copies
  BY <1>2, FlagsAssumption DEF New, Copies, FlagRecord
<1>4. PICK e \in Changes : e = Event("created", i, New(i))
  BY <1>3, ChangesMade DEF Own
<1>5. e.id = i /\ e.type = "created"
  BY <1>4 DEF Event
<1>6. Commit(e) /\ filed' = filed \cup {i} /\ UNCHANGED <<rows, filing, run, deferred, labels, held, clears, failures>>
  BY <1>4 DEF File
<1>7. RowsOK'
  BY <1>6, RowsKept DEF IInv
<1>8. records' = records
  BY <1>6 DEF rows
<1>9. PendingOK'
  BY <1>5, <1>6, <1>8, OneMoreWaits DEF IInv
<1>10. RunsOK'
  BY <1>6 DEF IInv, RunsOK
<1>11. OthersOK'
  BY <1>6, <1>8 DEF IInv, OthersOK
<1> QED BY <1>7, <1>9, <1>10, <1>11 DEF IInv

LEMMA PollKeeps ==
  ASSUME IInv, NEW d \in Deciders, Poll(d)
  PROVE  IInv'
<1>1. PICK k \in DOMAIN queue :
        /\ queue[k] \in Candidates(d)
        /\ run' = [run EXCEPT ![d] = [id |-> queue[k], flag |-> records[queue[k]], todo |-> <<>>]]
  BY DEF Poll
<1>2. Mine(d) \subseteq Queued /\ Kept(d) \subseteq Queued /\ Candidates(d) \subseteq Queued
  BY DEF Mine, Open, Kept, Candidates
<1>3. PICK i \in Queued : i = queue[k]
  BY <1>1, <1>2
<1>4. i \in Ids /\ i \in filed /\ records[i] \in Copies
  BY OpenHasRecord DEF IInv
<1>5. PICK r \in Runs : r = [id |-> i, flag |-> records[i], todo |-> <<>>]
  BY <1>4, NoneMade DEF Runs
<1>6. UNCHANGED <<rows, pending, filed, filing, labels, held, clears, failures>>
  BY DEF Poll
<1>7. records' = records
  BY <1>6 DEF rows
<1>8. RowsOK' /\ PendingOK'
  BY <1>6, <1>7, RowsKept, PendingKept DEF IInv
<1>9. RunsOK'
  <2>1. run' = [run EXCEPT ![d] = r]
    BY <1>1, <1>3, <1>5
  <2>2. r.id \in filed
    BY <1>4, <1>5
  <2>3. PICK K \in SUBSET Ids : K = Kept(d) /\ K \subseteq filed
    BY <1>2, OpenHasRecord DEF IInv
  <2>4. deferred' = [deferred EXCEPT ![d] = K]
    BY <2>3 DEF Poll
  <2> QED BY <1>6, <2>1, <2>2, <2>3, <2>4 DEF IInv, RunsOK
<1>10. OthersOK'
  BY <1>6, <1>7 DEF IInv, OthersOK
<1> QED BY <1>8, <1>9, <1>10 DEF IInv

(* Whatever a run has still to append about its flag, it may append. *)
LEMMA GoOnKeeps ==
  ASSUME IInv, NEW d \in Deciders, run[d] # None,
         NEW todo \in Seq(Own(run[d].id)), GoOn(d, todo)
  PROVE  IInv'
<1>1. PICK r \in Runs : r = run[d] /\ r.id \in filed
  BY DEF IInv, RunsOK
<1>2. todo \in Seq(Own(r.id)) /\ r.id \in Ids
  BY <1>1 DEF Runs
<1>3. UNCHANGED <<rows, filed, filing, labels, held, clears, failures>>
  BY DEF GoOn
<1>4. records' = records
  BY <1>3 DEF rows
<1>5. RowsOK'
  BY <1>3, RowsKept DEF IInv
<1>6. PendingOK'
  <2>1. CASE todo = <<>>
    BY <1>3, <1>4, <2>1, PendingKept DEF GoOn, IInv
  <2>2. CASE todo # <<>>
    <3>1. Head(todo) \in Own(r.id)
      BY <1>2, <2>2
    <3>2. PICK e \in Own(r.id) : e = Head(todo)
      BY <3>1
    <3>3. e \in Changes /\ e.id = r.id /\ e.type # "labeled"
      BY DEF Own, Changes
    <3>4. Commit(e)
      BY <2>2, <3>2 DEF GoOn
    <3> QED BY <1>1, <1>3, <1>4, <3>3, <3>4, OneMoreWaits DEF IInv
  <2> QED BY <2>1, <2>2
<1>7. RunsOK'
  <2>1. run \in [Deciders -> Runs \cup {None}] /\ deferred \in [Deciders -> SUBSET Ids]
        /\ (\A q \in Deciders : run[q] # None => run[q].id \in filed)
        /\ (\A q \in Deciders : deferred[q] \subseteq filed)
    BY DEF IInv, RunsOK
  <2>2. CASE Len(todo) > 1
    <3>1. Tail(todo) \in Seq(Own(r.id))
      BY <1>2, <2>2
    <3>2. PICK t \in Seq(Own(r.id)) : t = Tail(todo)
      BY <3>1
    <3>3. t \in Seq(Changes)
      <4>1. \A k \in 1 .. Len(t) : t[k] \in Changes
        BY DEF Own
      <4> QED BY <4>1
    <3>4. [r EXCEPT !.todo = t] \in Runs /\ [r EXCEPT !.todo = t].id = r.id
      BY <3>3 DEF Runs
    <3>5. run' = [run EXCEPT ![d] = [r EXCEPT !.todo = t]] /\ deferred' = deferred
      BY <1>1, <2>2, <3>2 DEF GoOn
    <3> QED BY <1>1, <1>3, <2>1, <3>4, <3>5 DEF RunsOK
  <2>3. CASE ~ (Len(todo) > 1)
    <3>1. run' = [run EXCEPT ![d] = None] /\ deferred' = [deferred EXCEPT ![d] = @ \ {r.id}]
      BY <1>1, <2>3 DEF GoOn
    <3> QED BY <1>3, <2>1, <3>1 DEF RunsOK
  <2> QED BY <2>2, <2>3
<1>8. OthersOK'
  BY <1>3, <1>4 DEF IInv, OthersOK
<1> QED BY <1>5, <1>6, <1>7, <1>8 DEF IInv

LEMMA Left ==
  ASSUME NEW f \in Copies, may_decide(f)
  PROVE  f.status = "open"
<1>1. f.status \in Status
  BY CopyFacts
<1> QED BY <1>1 DEF may_decide, Status, TERMINAL_FLAG_STATES

LEMMA AnswerKeeps ==
  ASSUME IInv, NEW d \in Deciders, Answer(d)
  PROVE  IInv'
<1>1. run[d] # None
  BY DEF Answer
<1>2. PICK r \in Runs : r = run[d]
  BY <1>1 DEF IInv, RunsOK
<1>3. r.id \in Ids /\ r.flag \in Copies
  BY DEF Runs
<1> DEFINE i == run[d].id
           f == run[d].flag
<1>4. i \in Ids /\ f \in Copies
  BY <1>2, <1>3
<1>5. /\ \A todo \in Seq(Own(i)) : GoOn(d, todo) => IInv'
      /\ <<>> \in Seq(Own(i))
  BY <1>1, GoOnKeeps
<1>6. CASE ~ may_decide(f) /\ GoOn(d, <<>>)
  BY <1>5, <1>6
<1>7. ASSUME may_decide(f), NEW v \in Verdicts, NEW c \in Vocabulary \cup {""},
             GoOn(d, Judged(i, f, v, c))
      PROVE  IInv'
  <2>1. Judged(i, f, v, c) \in Seq(Own(i))
    BY <1>4, <1>7, Left, JudgedMade, Zenon
  <2> QED BY <1>5, <1>7, <2>1, Zenon
<1>8. CASE may_decide(f) /\ GoOn(d, Declined(i, f))
  <2>1. Declined(i, f) \in Seq(Own(i))
    BY <1>4, <1>8, Left, DeclinedMade, Zenon
  <2> QED BY <1>5, <1>8, <2>1, Zenon
<1>9. CASE may_decide(f) /\ GoOn(d, Resolved(i, f))
  <2>1. Resolved(i, f) \in Seq(Own(i))
    BY <1>4, ResolvedMade, Zenon
  <2> QED BY <1>5, <1>9, <2>1, Zenon
<1> QED BY <1>6, <1>7, <1>8, <1>9, Zenon DEF Answer

LEMMA Append1Keeps ==
  ASSUME IInv, NEW d \in Deciders, Append1(d)
  PROVE  IInv'
<1>1. run[d] # None /\ GoOn(d, run[d].todo)
  BY DEF Append1
<1>2. PICK r \in Runs : r = run[d]
  BY <1>1 DEF IInv, RunsOK
<1>3. r.todo \in Seq(Own(r.id))
  BY DEF Runs
<1> QED BY <1>1, <1>2, <1>3, GoOnKeeps

LEMMA PutOffKeeps ==
  ASSUME IInv, NEW d \in Deciders, PutOff(d)
  PROVE  IInv'
<1>1. run[d] # None
  BY DEF PutOff
<1>2. PICK r \in Runs : r = run[d] /\ r.id \in filed /\ r.id \in Ids
  BY <1>1 DEF IInv, RunsOK, Runs
<1>3. UNCHANGED <<rows, pending, filed, filing, labels, held, clears>>
  BY DEF PutOff
<1>4. records' = records
  BY <1>3 DEF rows
<1>5. RowsOK' /\ PendingOK'
  BY <1>3, <1>4, RowsKept, PendingKept DEF IInv
<1>6. RunsOK'
  <2>1. run' = [run EXCEPT ![d] = None] /\ deferred' = [deferred EXCEPT ![d] = @ \cup {r.id}]
    BY <1>2 DEF PutOff
  <2> QED BY <1>2, <1>3, <2>1 DEF IInv, RunsOK
<1>7. failures' \in 0 .. MaxFailures
  BY FlagsAssumption DEF PutOff, IInv, OthersOK
<1>8. OthersOK'
  BY <1>3, <1>4, <1>7 DEF IInv, OthersOK
<1> QED BY <1>5, <1>6, <1>8 DEF IInv

-----------------------------------------------------------------------------
(* The labeler and the person at the screen                                *)

LEMMA LabelerPollKeeps ==
  ASSUME IInv, LabelerPoll
  PROVE  IInv'
<1>1. UNCHANGED <<rows, pending, filed, filing, run, deferred, held, clears, failures>>
      /\ labels' \subseteq Queued
  BY DEF LabelerPoll, Untitled, Open
<1>2. records' = records
  BY <1>1 DEF rows
<1>3. RowsOK' /\ PendingOK'
  BY <1>1, <1>2, RowsKept, PendingKept DEF IInv
<1>4. RunsOK'
  BY <1>1 DEF IInv, RunsOK
<1>5. \A i \in labels' : i \in filed /\ records[i] # None
  BY <1>1, OpenHasRecord DEF IInv
<1>6. OthersOK'
  BY <1>1, <1>2, <1>5 DEF IInv, OthersOK
<1> QED BY <1>3, <1>4, <1>6 DEF IInv

LEMMA LabelerCommitsKeeps ==
  ASSUME IInv, LabelerCommits
  PROVE  IInv'
<1>1. PICK i \in labels : labels' = labels \ {i} /\ Commit(Event("labeled", i, None))
  BY DEF LabelerCommits
<1>2. i \in filed /\ i \in Ids /\ records[i] # None
  BY DEF IInv, OthersOK
<1>a. Event("labeled", i, None) \in Titles /\ Event("labeled", i, None).id = i
  <2> [type |-> "labeled", id |-> i, flag |-> None] \in [type : {"labeled"}, id : Ids, flag : {None}]
    BY <1>2
  <2> QED BY DEF Titles, Event
<1>3. PICK e \in Titles : e = Event("labeled", i, None) /\ e.id = i
  BY <1>a, Zenon
<1>4. UNCHANGED <<rows, filed, filing, run, deferred, held, clears, failures>>
  BY DEF LabelerCommits
<1>5. records' = records
  BY <1>4 DEF rows
<1>6. RowsOK'
  BY <1>4, RowsKept DEF IInv
<1>7. PendingOK'
  BY <1>1, <1>2, <1>3, <1>4, <1>5, OneMoreWaits DEF IInv
<1>8. RunsOK'
  BY <1>4 DEF IInv, RunsOK
<1>9. OthersOK'
  BY <1>1, <1>4, <1>5 DEF IInv, OthersOK
<1> QED BY <1>6, <1>7, <1>8, <1>9 DEF IInv

LEMMA SelectKeeps ==
  ASSUME IInv, NEW i \in Ids, Select(i)
  PROVE  IInv'
<1>1. UNCHANGED <<rows, pending, filed, filing, run, deferred, labels, failures>>
  BY DEF Select
<1>2. records' = records
  BY <1>1 DEF rows
<1>3. RowsOK' /\ PendingOK'
  BY <1>1, <1>2, RowsKept, PendingKept DEF IInv
<1>4. RunsOK'
  BY <1>1 DEF IInv, RunsOK
<1>5. i \in Queued
  BY DEF Select
<1>6. PICK f \in Copies : f = records[i] /\ i \in filed
  BY <1>5, OpenHasRecord DEF IInv
<1>7. held' = [id |-> i, flag |-> f]
  BY <1>6 DEF Select
<1>8. held' \in [id : Ids, flag : Copies] /\ held'.id \in filed
  BY <1>6, <1>7
<1>9. clears' \in 0 .. MaxClears
  BY FlagsAssumption DEF Select, IInv, OthersOK
<1>10. OthersOK'
  BY <1>1, <1>2, <1>8, <1>9 DEF IInv, OthersOK
<1> QED BY <1>3, <1>4, <1>10 DEF IInv

LEMMA ClearByHandKeeps ==
  ASSUME IInv, ClearByHand
  PROVE  IInv'
<1>1. held # None /\ held' = None
      /\ UNCHANGED <<rows, filed, filing, run, deferred, labels, clears, failures>>
  BY DEF ClearByHand
<1>2. PICK h \in [id : Ids, flag : Copies] : h = held /\ h.id \in filed
  BY <1>1 DEF IInv, OthersOK
<1>3. records' = records
  BY <1>1 DEF rows
<1>4. RowsOK'
  BY <1>1, RowsKept DEF IInv
<1>5. mark_escalation_cleared(h.flag) \in Copies /\ ~ mark_escalation_cleared(h.flag).escalated
  BY <1>2, Marked
<1>6. PICK g \in Copies : g = mark_escalation_cleared(h.flag) /\ ~ g.escalated
  BY <1>5
<1>7. Event("cleared", h.id, g) \in Own(h.id)
  BY <1>2, <1>6, ChangesMade
<1>8. PICK e \in Changes : e = Event("cleared", h.id, g) /\ e.id = h.id /\ e.type = "cleared"
  BY <1>7 DEF Own, Event
<1>9. Commit(e)
  BY <1>2, <1>6, <1>8 DEF ClearByHand
<1>10. PendingOK'
  BY <1>1, <1>2, <1>3, <1>8, <1>9, OneMoreWaits DEF IInv
<1>11. RunsOK'
  BY <1>1 DEF IInv, RunsOK
<1>12. OthersOK'
  BY <1>1, <1>3 DEF IInv, OthersOK
<1> QED BY <1>4, <1>10, <1>11, <1>12 DEF IInv

-----------------------------------------------------------------------------
LEMMA InitIInv == FlagInit => IInv
<1> SUFFICES ASSUME FlagInit PROVE IInv
  OBVIOUS
<1>1. Queued = {}
  BY DEF FlagInit, Queued
<1>2. RowsOK
  BY <1>1 DEF FlagInit, RowsOK, CopiesAgree
<1>3. PendingOK
  BY FlagsAssumption DEF FlagInit, PendingOK
<1>4. RunsOK
  BY DEF FlagInit, RunsOK
<1>5. OthersOK
  BY FlagsAssumption DEF FlagInit, OthersOK
<1> QED BY <1>2, <1>3, <1>4, <1>5 DEF IInv

LEMMA Inductive == IInv /\ [FlagNext]_flagVars => IInv'
<1> SUFFICES ASSUME IInv, [FlagNext]_flagVars PROVE IInv'
  OBVIOUS
<1>1. CASE ProjectOne
  BY <1>1, FoldKeeps
<1>2. ASSUME NEW i \in Ids, File(i) \/ Select(i) PROVE IInv'
  BY <1>2, FileKeeps, SelectKeeps
<1>3. ASSUME NEW d \in Deciders, Poll(d) \/ Answer(d) \/ Append1(d) \/ PutOff(d) PROVE IInv'
  BY <1>3, PollKeeps, AnswerKeeps, Append1Keeps, PutOffKeeps
<1>4. CASE LabelerPoll
  BY <1>4, LabelerPollKeeps
<1>5. CASE LabelerCommits
  BY <1>5, LabelerCommitsKeeps
<1>6. CASE ClearByHand
  BY <1>6, ClearByHandKeeps
<1>7. CASE UNCHANGED flagVars
  <2>1. UNCHANGED <<rows, pending, filed, filing, run, deferred, labels, held, clears, failures>>
    BY <1>7 DEF flagVars
  <2>2. records' = records
    BY <2>1 DEF rows
  <2> QED BY <2>1, <2>2, RowsKept, PendingKept DEF IInv, RunsOK, OthersOK
<1> QED BY <1>1, <1>2, <1>3, <1>4, <1>5, <1>6, <1>7 DEF FlagNext

LEMMA Always == FlagSpec => []IInv
BY InitIInv, Inductive, PTL DEF FlagSpec

-----------------------------------------------------------------------------
(* Rows, events, runs and everything else keep their types. *)
THEOREM FlagsTypeCorrect == FlagSpec => []FlagTypeOK
<1>1. IInv => FlagTypeOK
  <2> SUFFICES ASSUME IInv PROVE FlagTypeOK
    OBVIOUS
  <2>1. \A i \in Ids : /\ records[i] = None \/ records[i] \in FlagRecord
                       /\ records[i] = None <=> cols[i] = None
                       /\ records[i] = None <=> i \notin Queued
    BY DEF IInv, RowsOK, Copies
  <2>2. \A j, k \in DOMAIN queue : queue[j] = queue[k] => j = k
    BY DEF IInv, RowsOK
  <2>3. Len(pending) <= MaxPending
    BY DEF IInv, PendingOK
  <2>4. ASSUME NEW k \in DOMAIN pending
        PROVE  /\ pending[k].type \in {"created", "rejected", "resolved", "escalated", "cleared",
                                       "labeled"}
               /\ pending[k].id \in filed
               /\ pending[k].type = "labeled" \/ pending[k].flag \in FlagRecord
    <3>1. pending[k] \in Changes \cup Titles /\ pending[k].id \in filed
      BY DEF IInv, PendingOK
    <3>2. CASE pending[k] \in Changes
      BY <3>1, <3>2 DEF Changes, Copies
    <3>3. CASE pending[k] \in Titles
      BY <3>1, <3>3 DEF Titles
    <3> QED BY <3>1, <3>2, <3>3
  <2>5. filed \subseteq Ids /\ filing \in Filings /\ labels \subseteq filed
        /\ failures \in 0 .. MaxFailures /\ clears \in 0 .. MaxClears
    BY DEF IInv, OthersOK
  <2>6. \A d \in Deciders : deferred[d] \subseteq filed
    BY DEF IInv, RunsOK
  <2> QED BY <2>1, <2>2, <2>3, <2>4, <2>5, <2>6 DEF FlagTypeOK
<1> QED BY <1>1, Always, PTL

(* However runs, labels and clears of one flag overtake each other, its columns
   and its record say the same, and no flag is ever declined twice. *)
THEOREM RecordsAreRight == FlagSpec => []RecordsHold
<1>1. IInv => RecordsHold
  <2> SUFFICES ASSUME IInv PROVE RecordsHold
    OBVIOUS
  <2>1. CopiesAgree
    BY DEF IInv, RowsOK
  <2>2. DeclinedOnce
    BY DEF IInv, RowsOK, DeclinedOnce, Copies
  <2> QED BY <2>1, <2>2 DEF RecordsHold
<1> QED BY <1>1, Always, PTL

=============================================================================
