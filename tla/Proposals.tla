------------------------------- MODULE Proposals -------------------------------
(***************************************************************************)
(* Gated commits and the director's decisions on them: GatingCommitter and *)
(* AutonomyPolicy (canon/committer.py, policy.py), ProposalService         *)
(* (canon/proposal_service.py), the proposal and autonomy projections      *)
(* (canon/projections/control.py), and the three places decisions come     *)
(* from: the approval screen (tui/approval_screen.py), commands typed in   *)
(* the TUI (director/commands.py) and headless ones (director/cli.py).     *)
(*                                                                         *)
(* Everyone writes to the log and decides on the read model, which the     *)
(* projector folds one event at a time, as CanonStore shows it does when   *)
(* one process projects.                                                   *)
(***************************************************************************)
EXTENDS Naturals, Sequences, FiniteSets

CONSTANTS
  Agents,       \* the agents that commit canon
  Works,        \* the events agents commit; a gated one's proposal has its name
  Tier,         \* the lowest level that gates each: 0 always, 1 retcons, 2 canon,
                \* 3 all, 4 never
  Screens,      \* approval screens
  Consoles,     \* command bars of a TUI
  Shells,       \* headless commands, one after the other
  Verbs,        \* bound: the commands given to each of these two
  MaxPresses,   \* enter presses a screen may hold unhandled
  MaxActs,      \* bound: presses and commands in a behaviour
  MaxFaults,    \* bound: crashes of a session
  SetLevels,    \* bound: the levels autonomy commands give
  Everyone      \* "global", as the target of an autonomy command

Sessions == Screens \cup Consoles \cup Shells
Levels == 0 .. 3    \* full_auto, gated_retcons, gated_canon, gated_all
Unset == 4          \* no override for that agent

ASSUME ProposalsAssumption ==
  /\ Works # {} /\ Tier \in [Works -> 0 .. 4]
  /\ Screens \cap (Consoles \cup Shells) = {} /\ Consoles \cap Shells = {}
  /\ MaxPresses \in Nat /\ MaxActs \in Nat /\ MaxFaults \in Nat
  /\ Verbs \in [Consoles \cup Shells -> SUBSET {"approve", "reject", "autonomy"}]
  /\ SetLevels \subseteq Levels /\ Everyone \notin Agents

VARIABLES
  log,      \* the events table
  cursor,   \* how much of it the read model has folded
  status,   \* proposals.status, the column, of each proposal; "none": no row
  data,     \* the status inside proposals.data, the column with the proposal
  dial,     \* the autonomy_state row
  begun,    \* works an agent has begun to commit
  apc, awork,           \* agent: where its commit is, and of what
  pc, cmd, want, seen,  \* session: control state, command, the sequence its
                        \* catch_up must reach, the dial it read
  shown,    \* the proposals each screen lists
  pressed,  \* decisions pressed there and not handled
  acts, faults

canonVars == <<cursor, status, data, dial>>
agentVars == <<begun, apc, awork>>
vars == <<log, canonVars, agentVars, pc, cmd, want, seen, shown, pressed, acts, faults>>

Entry(k, w) == [kind |-> k, work |-> w]
Setting(who, level, d) == [kind |-> "autonomy", who |-> who, level |-> level, dial |-> d]

FullAuto == [global |-> 0, over |-> [a \in Agents |-> Unset]]

(* AutonomyState.level_for *)
LevelFor(d, a) == IF d.over[a] # Unset THEN d.over[a] ELSE d.global

(* AutonomyPolicy.is_gated *)
Gated(d, a, w) == LevelFor(d, a) >= Tier[w]

Commands ==
  [verb : {"approve", "reject"}, work : Works]
    \cup [verb : {"autonomy"}, who : Agents \cup {Everyone}, level : SetLevels]

NoCommand == [verb |-> "none"]

Init ==
  /\ log = <<>> /\ cursor = 0
  /\ status = [w \in Works |-> "none"] /\ data = [w \in Works |-> "none"]
  /\ dial = FullAuto
  /\ begun = {}
  /\ apc = [a \in Agents |-> "idle"]
  /\ awork = [a \in Agents |-> CHOOSE w \in Works : TRUE]
  /\ pc = [s \in Sessions |-> "idle"] /\ cmd = [s \in Sessions |-> NoCommand]
  /\ want = [s \in Sessions |-> 0] /\ seen = [s \in Sessions |-> FullAuto]
  /\ shown = [s \in Screens |-> {}] /\ pressed = [s \in Screens |-> <<>>]
  /\ acts = 0 /\ faults = 0

-----------------------------------------------------------------------------
ProposalCreated(e) ==
  /\ e.kind = "proposed"
  /\ status' = [status EXCEPT ![e.work] = "open"]
  /\ data' = [data EXCEPT ![e.work] = "open"]
  /\ UNCHANGED dial

(* The status column only: data keeps the proposal as it was created. *)
ProposalDecided(e) ==
  /\ e.kind \in {"approved", "rejected"}
  /\ status' = [status EXCEPT ![e.work] = IF @ = "none" THEN @ ELSE e.kind]
  /\ UNCHANGED <<data, dial>>

AutonomyChanged(e) ==
  /\ e.kind = "autonomy"
  /\ dial' = e.dial
  /\ UNCHANGED <<status, data>>

(* The projector folds the next event; canon's own tables are not needed here. *)
Fold ==
  /\ cursor < Len(log)
  /\ cursor' = cursor + 1
  /\ LET e == log[cursor + 1] IN
       \/ ProposalCreated(e) \/ ProposalDecided(e) \/ AutonomyChanged(e)
       \/ e.kind = "canon" /\ UNCHANGED <<status, data, dial>>
  /\ UNCHANGED <<log, agentVars, pc, cmd, want, seen, shown, pressed, acts, faults>>

(* GatingCommitter.commit: the policy reads the dial ... *)
StartCommit(a, w) ==
  /\ apc[a] = "idle" /\ w \notin begun
  /\ begun' = begun \cup {w}
  /\ awork' = [awork EXCEPT ![a] = w]
  /\ apc' = [apc EXCEPT ![a] = IF Gated(dial, a, w) THEN "propose" ELSE "append"]
  /\ UNCHANGED <<log, canonVars, pc, cmd, want, seen, shown, pressed, acts, faults>>

(* ... then the event, or a proposal of it, is appended. *)
EndCommit(a) ==
  /\ \/ apc[a] = "propose" /\ log' = Append(log, Entry("proposed", awork[a]))
     \/ apc[a] = "append" /\ log' = Append(log, Entry("canon", awork[a]))
  /\ apc' = [apc EXCEPT ![a] = "idle"]
  /\ UNCHANGED <<canonVars, begun, awork, pc, cmd, want, seen, shown, pressed,
                 acts, faults>>

-----------------------------------------------------------------------------
(* A command typed at a console, or a headless one, which folds the log first *)
Type(s, c) ==
  /\ s \in Consoles \cup Shells /\ pc[s] = "idle" /\ acts < MaxActs
  /\ c.verb \in Verbs[s]
  /\ c.verb # "autonomy" => \E i \in DOMAIN log : log[i] = Entry("proposed", c.work)
  /\ acts' = acts + 1
  /\ cmd' = [cmd EXCEPT ![s] = c]
  /\ want' = [want EXCEPT ![s] = Len(log)]
  /\ pc' = [pc EXCEPT ![s] = IF s \in Shells THEN "sync" ELSE "read"]
  /\ UNCHANGED <<log, canonVars, agentVars, seen, shown, pressed, faults>>

(* _with_runtime's catch_up *)
Sync(s) ==
  /\ pc[s] = "sync" /\ cursor >= want[s]
  /\ pc' = [pc EXCEPT ![s] = "read"]
  /\ UNCHANGED <<log, canonVars, agentVars, cmd, want, seen, shown, pressed, acts, faults>>

(* list_proposals(status="open"): by the column *)
OpenWorks == {w \in Works : status[w] = "open"}

(* The approval screen opens over a queue that is not empty. *)
OpenScreen(s) ==
  /\ s \in Screens /\ pc[s] = "idle" /\ shown[s] = {}
  /\ OpenWorks # {}
  /\ shown' = [shown EXCEPT ![s] = OpenWorks]
  /\ UNCHANGED <<log, canonVars, agentVars, pc, cmd, want, seen, pressed, acts, faults>>

(* enter or x on a listed proposal, also while an earlier press is handled *)
Press(s, v, w) ==
  /\ s \in Screens /\ w \in shown[s] /\ acts < MaxActs
  /\ Len(pressed[s]) + (IF pc[s] = "idle" THEN 0 ELSE 1) < MaxPresses
  /\ acts' = acts + 1
  /\ pressed' = [pressed EXCEPT ![s] = Append(@, [verb |-> v, work |-> w])]
  /\ UNCHANGED <<log, canonVars, agentVars, pc, cmd, want, seen, shown, faults>>

(* ApprovalScreen._decide: the next press becomes a command *)
TakePress(s) ==
  /\ s \in Screens /\ pc[s] = "idle" /\ pressed[s] # <<>>
  /\ cmd' = [cmd EXCEPT ![s] = Head(pressed[s])]
  /\ pressed' = [pressed EXCEPT ![s] = Tail(@)]
  /\ pc' = [pc EXCEPT ![s] = "read"]
  /\ UNCHANGED <<log, canonVars, agentVars, want, seen, shown, acts, faults>>

(* get_proposal and the two open-status guards, or get_autonomy_state *)
Read(s) ==
  /\ pc[s] = "read"
  /\ IF cmd[s].verb = "autonomy"
     THEN /\ seen' = [seen EXCEPT ![s] = dial]
          /\ pc' = [pc EXCEPT ![s] = "set"]
     ELSE /\ pc' = [pc EXCEPT ![s] =
                      IF data[cmd[s].work] # "open" THEN "done"
                      ELSE IF cmd[s].verb = "approve" THEN "target" ELSE "decide"]
          /\ UNCHANGED seen
  /\ UNCHANGED <<log, canonVars, agentVars, cmd, want, shown, pressed, acts, faults>>

(* mutant: approve marks the decision before the event it decides on *)
AppendTargetLast(s) ==
  /\ pc[s] = "target"
  /\ log' = Append(log, Entry("approved", cmd[s].work))
  /\ pc' = [pc EXCEPT ![s] = "decide"]
  /\ UNCHANGED <<canonVars, agentVars, cmd, want, seen, shown, pressed, acts, faults>>

(* ProposalService.approve: first the target event *)
AppendTarget(s) ==
  /\ pc[s] = "target"
  /\ log' = Append(log, Entry("canon", cmd[s].work))
  /\ pc' = [pc EXCEPT ![s] = "decide"]
  /\ UNCHANGED <<canonVars, agentVars, cmd, want, seen, shown, pressed, acts, faults>>

(* then, as reject does at once, the decision *)
AppendDecision(s) ==
  /\ pc[s] = "decide"
  /\ log' = Append(log, Entry(IF cmd[s].verb = "approve" THEN "approved" ELSE "rejected",
                              cmd[s].work))
  /\ pc' = [pc EXCEPT ![s] = "done"]
  /\ UNCHANGED <<canonVars, agentVars, cmd, want, seen, shown, pressed, acts, faults>>

(* _cmd_autonomy: the whole successor of the state it read *)
Successor(d, c) ==
  IF c.who = Everyone THEN [d EXCEPT !.global = c.level]
  ELSE [d EXCEPT !.over[c.who] = c.level]

AppendSetting(s) ==
  /\ pc[s] = "set"
  /\ log' = Append(log, Setting(cmd[s].who, cmd[s].level, Successor(seen[s], cmd[s])))
  /\ pc' = [pc EXCEPT ![s] = "done"]
  /\ UNCHANGED <<canonVars, agentVars, cmd, want, seen, shown, pressed, acts, faults>>

(* A command ends; the screen catches up before it lists again. *)
Finish(s) ==
  /\ pc[s] = "done"
  /\ pc' = [pc EXCEPT ![s] = IF s \in Screens THEN "resync" ELSE "idle"]
  /\ want' = [want EXCEPT ![s] = Len(log)]
  /\ UNCHANGED <<log, canonVars, agentVars, cmd, seen, shown, pressed, acts, faults>>

(* mutant: the screen lists again without catching up *)
ReloadEarly(s) ==
  /\ pc[s] = "resync"
  /\ shown' = [shown EXCEPT ![s] = OpenWorks]
  /\ pc' = [pc EXCEPT ![s] = "idle"]
  /\ UNCHANGED <<log, canonVars, agentVars, cmd, want, seen, pressed, acts, faults>>

Reload(s) ==
  /\ pc[s] = "resync" /\ cursor >= want[s]
  /\ shown' = [shown EXCEPT ![s] = OpenWorks]
  /\ pc' = [pc EXCEPT ![s] = "idle"]
  /\ UNCHANGED <<log, canonVars, agentVars, cmd, want, seen, pressed, acts, faults>>

(* The process of a session ends between two of its awaits. *)
Crash(s) ==
  /\ faults < MaxFaults
  /\ faults' = faults + 1
  /\ pc' = [pc EXCEPT ![s] = "idle"]
  /\ shown' = [t \in Screens |-> IF t = s THEN {} ELSE shown[t]]
  /\ pressed' = [t \in Screens |-> IF t = s THEN <<>> ELSE pressed[t]]
  /\ UNCHANGED <<log, canonVars, agentVars, cmd, want, seen, acts>>

Stepping(s) ==
  \/ Sync(s) \/ TakePress(s) \/ Read(s) \/ AppendTarget(s) \/ AppendDecision(s)
  \/ AppendSetting(s) \/ Finish(s) \/ Reload(s)

Next ==
  \/ Fold
  \/ \E a \in Agents : EndCommit(a) \/ \E w \in Works : StartCommit(a, w)
  \/ \E s \in Sessions :
       \/ Stepping(s) \/ OpenScreen(s) \/ Crash(s)
       \/ \E c \in Commands : Type(s, c)
       \/ \E v \in {"approve", "reject"}, w \in Works : Press(s, v, w)

Spec == Init /\ [][Next]_vars

(* The projector loop runs again after every pass, and a handler that began
   runs on; nobody has to press or type anything. *)
FairSpec ==
  /\ Spec
  /\ WF_vars(Fold)
  /\ \A s \in Sessions : WF_vars(Stepping(s))

-----------------------------------------------------------------------------
Entries ==
  [kind : {"proposed", "approved", "rejected", "canon"}, work : Works]
    \cup [kind : {"autonomy"}, who : Agents \cup {Everyone}, level : Levels,
          dial : [global : Levels, over : [Agents -> Levels \cup {Unset}]]]

TypeOK ==
  /\ log \in Seq(Entries) /\ cursor \in 0 .. Len(log)
  /\ status \in [Works -> {"none", "open", "approved", "rejected"}]
  /\ data \in [Works -> {"none", "open"}]
  /\ dial \in [global : Levels, over : [Agents -> Levels \cup {Unset}]]
  /\ begun \subseteq Works
  /\ apc \in [Agents -> {"idle", "propose", "append"}] /\ awork \in [Agents -> Works]
  /\ pc \in [Sessions -> {"idle", "sync", "read", "target", "decide", "set", "done",
                          "resync"}]
  /\ cmd \in [Sessions -> Commands \cup {NoCommand}]
  /\ want \in [Sessions -> Nat]
  /\ seen \in [Sessions -> [global : Levels, over : [Agents -> Levels \cup {Unset}]]]
  /\ shown \in [Screens -> SUBSET Works]
  /\ pressed \in [Screens -> Seq(Commands)]
  /\ acts \in 0 .. MaxActs /\ faults \in 0 .. MaxFaults

Positions(k, w) == {i \in DOMAIN log : log[i].kind = k /\ log[i].work = w}

(* A proposal is decided once and its event enters canon at most once, and once
   more at most for each crash that cut a decision short: on one screen, pressed
   once at a time, the catch_up before the list is shown again is all that keeps
   a decided proposal from being decided again. *)
DecidedOnce ==
  \A w \in Works :
    /\ Cardinality(Positions("approved", w) \cup Positions("rejected", w)) <= 1 + faults
    /\ Cardinality(Positions("canon", w)) <= 1 + faults

(* A rejected proposal's event never enters canon after its rejection. *)
RejectedStaysOut ==
  \A w \in Works : \A i \in Positions("rejected", w), j \in Positions("canon", w) : j < i

(* Whatever sessions decide at once and wherever they crash, an approval in the
   log has its event before it. *)
ApprovedIsCanon ==
  \A w \in Works : \A i \in Positions("approved", w) :
    \E j \in Positions("canon", w) : j < i

(* The last autonomy event of the first n, that is about one of these; 0: none *)
LastSetting(n, about) ==
  LET S == {i \in 1 .. n : log[i].kind = "autonomy" /\ log[i].who \in about}
  IN IF S = {} THEN 0 ELSE CHOOSE i \in S : \A j \in S : j <= i

(* The level last given to x by the commands among the first n events *)
Given(n, x) ==
  LET i == LastSetting(n, {x})
  IN IF i > 0 THEN log[i].level ELSE IF x = Everyone THEN 0 ELSE Unset

(* After any number of headless autonomy commands the setting in force is
   theirs all together: each kept what the ones before it had given. *)
SettingsAddUp ==
  LET i == LastSetting(Len(log), Agents \cup {Everyone})
      kept == IF i = 0 THEN FullAuto ELSE log[i].dial
  IN /\ kept.global = Given(Len(log), Everyone)
     /\ \A a \in Agents : kept.over[a] = Given(Len(log), a)

(* The log adds up: decisions to their events, and settings to the one in force. *)
LogAddsUp == ApprovedIsCanon /\ SettingsAddUp

(* A proposal a screen decided on leaves its list. *)
DecisionsLeaveTheList ==
  \A s \in Screens : \A w \in Works :
    (pc[s] = "done" /\ cmd[s].work = w) ~> (w \notin shown[s])
=============================================================================
