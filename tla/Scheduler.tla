------------------------------- MODULE Scheduler -------------------------------
(***************************************************************************)
(* agent_kit's Scheduler (scheduler.py) and the chassis of the agents it   *)
(* dispatches (base.py), with the seams novelizer/runtime.py gives them    *)
(* (the background gate, the director's override, the progress probe) and  *)
(* the operator's hands on it (pause, pause all, max_concurrent_agents).   *)
(*                                                                         *)
(* A tick awaits in the middle: runs end, agents are paused and the        *)
(* background falls behind between what it read and what it dispatches.    *)
(* One tick is one unit of time; what a tick awaits takes none.            *)
(***************************************************************************)
EXTENDS Integers, FiniteSets, FiniteSetsExt

CONSTANTS
  Agents,
  Readiness,      \* the scores each agent's readiness() may return
  Consumers,      \* the agents that consume a signal once they ran well
  Targets, Nobody,  \* whom an override signal may name; none
  Caps,           \* the values max_concurrent_agents is given
  Permits,        \* runs the model pool admits at once
  Horizon,        \* aging_horizon_s; 0: no aging
  FailBase, FailCap, IdleBase, IdleCap,  \* the two ladders
  MaxRun,         \* ticks a run lasts at most: the model client times out
  MaxAge,         \* bound: ticks of waiting that are told apart
  MaxEvents       \* bound: acts of the operator, runs that fail, probes that raise
                  \* and times the background falls behind, all together

ASSUME SchedulerAssumption ==
  /\ IsFiniteSet(Agents) /\ Nobody \notin Agents /\ Targets \subseteq Agents /\ Consumers \subseteq Agents
  /\ Readiness \in [Agents -> SUBSET Nat]
  /\ Caps \subseteq Nat \ {0} /\ Permits \in Nat \ {0} /\ Horizon \in Nat
  /\ {FailBase, FailCap, IdleBase, IdleCap} \subseteq Nat \ {0}
  /\ {MaxRun, MaxAge, MaxEvents} \subseteq Nat

VARIABLES
  tpc,       \* the tick: "sleep", "gate", "pick", "score", "dispatch"
  free,      \* the slots it found free
  eligible, picks,  \* its agents: to score, to dispatch
  run,       \* agent: "idle"; in flight: "queued" for a permit, "running"
  age,       \* ticks since its last dispatch, or the first tick
  rungs, wait,  \* its ladders: failures and passes in a row, ticks left
  paused,
  held,      \* _paused_by_toggle: the agents "pause all" paused; {}: none
  toggled,   \* is "pause all" on?
  cap,       \* max_concurrent_agents
  override,  \* the target of the first unconsumed override signal
  behind,    \* does a background drain lag?
  events,
  ceiling,   \* history: the cap as the tick read it
  since, solo, late   \* history: see BackgroundFirst, ToggleRestores, PauseBites

tick == <<free, ceiling, eligible, picks>>
ladders == <<rungs, wait>>
runs == <<run, age, ladders>>
operator == <<paused, held, toggled, cap>>
roomVars == <<tpc, tick, runs, operator, override, behind, events, since, solo, late>>

InFlight == {a \in Agents : run[a] # "idle"}
Awaiting == {a \in Agents : run[a] = "queued"}

(* The operator may have paused agents by name before the first tick. *)
RoomInit ==
  /\ tpc = "sleep" /\ free = 0 /\ ceiling = 0 /\ eligible = {} /\ picks = {}
  /\ run = [a \in Agents |-> "idle"]
  /\ age = [a \in Agents |-> 0]
  /\ rungs = [a \in Agents |-> [fail |-> 0, idle |-> 0]]
  /\ wait = [a \in Agents |-> [fail |-> 0, idle |-> 0]]
  /\ solo \in SUBSET Agents /\ paused = [a \in Agents |-> a \in solo]
  /\ held = {} /\ toggled = FALSE /\ cap \in Caps /\ override \in Targets \cup {Nobody}
  /\ behind = FALSE /\ events = 0
  /\ since = FALSE /\ late = [a \in Agents |-> 0]

-----------------------------------------------------------------------------
Event == events < MaxEvents /\ events' = events + 1

(* The ladders: base, twice that, ... up to cap.  The exponent is clamped
   first, and so is the streak here. *)
Doublings(base, top) ==
  CHOOSE d \in 0 .. top : base * 2^d >= top /\ \A e \in 0 .. d - 1 : base * 2^e < top

LadderDelay(base, top, n) ==
  IF n = 0 THEN 0 ELSE Min({base * 2^Min({n - 1, Doublings(base, top)}), top})

Clamped(n, base, top) == Min({n, Doublings(base, top) + 1})

Ready(a) == wait[a].fail = 0 /\ wait[a].idle = 0

AdvanceFail(a) ==
  LET n == Clamped(rungs[a].fail + 1, FailBase, FailCap)
  IN /\ rungs' = [rungs EXCEPT ![a].fail = n]
     /\ wait' = [wait EXCEPT ![a].fail = LadderDelay(FailBase, FailCap, n)]

(* A run that ended well resets the fail ladder; one that committed nothing,
   or declared a pass, goes one up the idle ladder. *)
AdvanceIdle(a) ==
  LET n == Clamped(rungs[a].idle + 1, IdleBase, IdleCap)
  IN /\ rungs' = [rungs EXCEPT ![a] = [fail |-> 0, idle |-> n]]
     /\ wait' = [wait EXCEPT ![a] = [fail |-> 0, idle |-> LadderDelay(IdleBase, IdleCap, n)]]

ResetLadders(a) ==
  /\ rungs' = [rungs EXCEPT ![a] = [fail |-> 0, idle |-> 0]]
  /\ wait' = [wait EXCEPT ![a] = [fail |-> 0, idle |-> 0]]

-----------------------------------------------------------------------------
(* tick: the free slots; with none it ends at once *)
StartTick ==
  /\ tpc = "sleep"
  /\ free' = cap - Cardinality(InFlight)
  /\ tpc' = IF free' <= 0 THEN "slept" ELSE "gate"
  /\ since' = behind /\ ceiling' = cap
  /\ UNCHANGED <<eligible, picks, runs, operator, override, behind, events, solo, late>>

(* mutant: an override goes before the gate *)
ReadGateAfterOverride ==
  /\ tpc = "gate"
  /\ tpc' = IF behind /\ override = Nobody THEN "slept" ELSE "pick"
  /\ UNCHANGED <<tick, runs, operator, override, behind, events, since, solo, late>>

(* the gate: closed while a drain lags; a probe that raises leaves it open *)
ReadGate ==
  /\ tpc = "gate"
  /\ \/ tpc' = (IF behind THEN "slept" ELSE "pick") /\ UNCHANGED <<events, since>>
     \/ Event /\ tpc' = "pick" /\ since' = FALSE
  /\ UNCHANGED <<tick, runs, operator, override, behind, solo, late>>

(* after the override is read: who can go; its target goes first *)
Pick ==
  /\ tpc = "pick"
  /\ LET E == {a \in Agents : run[a] = "idle" /\ Ready(a) /\ ~ paused[a]} IN
       /\ picks' = E \cap {override}
       /\ eligible' = E \ {override}
       /\ tpc' = IF E = {} THEN "slept" ELSE "score"
  /\ UNCHANGED <<free, ceiling, runs, operator, override, behind, events, since, solo, late>>


(* _aged, times the horizon *)
Aged(a, score) == IF Horizon = 0 THEN score ELSE score * (Horizon + age[a])

(* The best of the eligible fill the slots the override left.  Equal scores
   go in the order of the agents' list, which is left open. *)
Score ==
  /\ tpc = "score"
  /\ \E r \in [eligible -> UNION {Readiness[a] : a \in Agents}] :
       /\ \A a \in eligible : r[a] \in Readiness[a]
       /\ \E chosen \in SUBSET {a \in eligible : r[a] > 0} :
            LET rest == {a \in eligible : r[a] > 0} \ chosen IN
              /\ \A a \in chosen, b \in rest : Aged(a, r[a]) >= Aged(b, r[b])
              /\ Cardinality(picks \cup chosen) <= free
              /\ rest # {} => Cardinality(picks \cup chosen) = free
              /\ picks' = picks \cup chosen
  /\ eligible' = {} /\ tpc' = "dispatch"
  /\ UNCHANGED <<free, ceiling, runs, operator, override, behind, events, since, solo, late>>

(* one agent after the other: each emits telemetry first, so others step in *)
Dispatch(a) ==
  /\ tpc = "dispatch" /\ a \in picks
  /\ picks' = picks \ {a}
  /\ run' = [run EXCEPT ![a] = "queued"]
  /\ age' = [age EXCEPT ![a] = 0]
  /\ late' = [late EXCEPT ![a] = IF paused[a] THEN @ + 1 ELSE @]
  /\ UNCHANGED <<tpc, free, ceiling, eligible, ladders, operator, override, behind, events,
                 since, solo>>

(* The tick is over and tick_sleep passes. *)
Sleep ==
  /\ tpc = "slept" \/ (tpc = "dispatch" /\ picks = {})
  /\ \A a \in InFlight : age[a] < MaxRun
  /\ tpc' = "sleep" /\ free' = 0 /\ eligible' = {} /\ picks' = {}
  /\ age' = [a \in Agents |-> Min({age[a] + 1, MaxAge})]
  /\ wait' = [a \in Agents |-> [k \in {"fail", "idle"} |-> IF wait[a][k] > 0 THEN wait[a][k] - 1 ELSE wait[a][k]]]
  /\ since' = FALSE /\ ceiling' = 0
  /\ UNCHANGED <<run, rungs, operator, override, behind, events, solo, late>>

-----------------------------------------------------------------------------
(* slot(): the run gets a permit. *)
StartRun(a) ==
  /\ run[a] = "queued" /\ Cardinality(InFlight \ Awaiting) < Permits
  /\ run' = [run EXCEPT ![a] = "running"]
  /\ UNCHANGED <<tpc, tick, age, ladders, operator, override, behind, events,
                 since, solo, late>>

(* run_once and _run's "finally".  The run fails; or it commits something,
   which the drains have yet to index, or only remarks and consumed signals,
   and consumes its override. *)
EndRun(a) ==
  /\ run[a] = "running"
  /\ run' = [run EXCEPT ![a] = "idle"]
  /\ \/ AdvanceFail(a) /\ Event /\ UNCHANGED <<override, behind>>
     \/ /\ \/ AdvanceIdle(a) /\ UNCHANGED <<behind, events>>
           \/ ResetLadders(a) /\ Event /\ behind' = TRUE
           \/ ResetLadders(a) /\ UNCHANGED <<behind, events>>
        /\ override' = IF override = a /\ a \in Consumers THEN Nobody ELSE override
  /\ UNCHANGED <<tpc, tick, age, operator, since, solo, late>>

(* the drains catch up *)
BackgroundDone ==
  /\ behind /\ behind' = FALSE /\ since' = FALSE
  /\ UNCHANGED <<tpc, tick, runs, operator, override, events, solo, late>>

-----------------------------------------------------------------------------
PauseAgent(a) ==
  /\ Event /\ paused' = [paused EXCEPT ![a] = TRUE]
  /\ late' = [late EXCEPT ![a] = IF paused[a] THEN @ ELSE 0]
  /\ solo' = IF toggled THEN solo ELSE solo \cup {a}
  /\ UNCHANGED <<tpc, tick, runs, held, toggled, cap, override, behind, since>>

ResumeAgent(a) ==
  /\ Event /\ paused' = [paused EXCEPT ![a] = FALSE]
  /\ solo' = solo \ {a}
  /\ UNCHANGED <<tpc, tick, runs, held, toggled, cap, override, behind, since,
                 late>>

(* P: pause those not paused and remember them; then resume only those *)
PauseAll ==
  /\ Event
  /\ toggled' = ~ toggled
  /\ held' = IF toggled THEN {} ELSE {a \in Agents : ~ paused[a]}
  /\ paused' = [a \in Agents |-> IF toggled THEN paused[a] /\ a \notin held ELSE TRUE]
  /\ late' = [a \in Agents |-> IF paused[a] THEN late[a] ELSE 0]
  /\ UNCHANGED <<tpc, tick, runs, cap, override, behind, since, solo>>

(* apply_settings: read afresh by the next tick *)
SetCap(n) ==
  /\ Event /\ n # cap /\ cap' = n
  /\ UNCHANGED <<tpc, tick, runs, paused, held, toggled, override, behind,
                 since, solo, late>>

Ticking == StartTick \/ ReadGate \/ Pick \/ Score \/ (\E a \in Agents : Dispatch(a)) \/ Sleep

RoomNext ==
  \/ Ticking \/ BackgroundDone
  \/ \E a \in Agents : StartRun(a) \/ EndRun(a) \/ PauseAgent(a) \/ ResumeAgent(a)
  \/ PauseAll
  \/ \E n \in Caps : SetCap(n)

RoomSpec == RoomInit /\ [][RoomNext]_roomVars

(* run() ticks for ever, a run ends, if only by a timeout, and the drains go on
   while agents wait.  Parked runs are woken in the order they came, so none
   misses its permit for good. *)
RoomFairSpec ==
  /\ RoomSpec
  /\ WF_roomVars(Ticking) /\ WF_roomVars(BackgroundDone)
  /\ \A a \in Agents : SF_roomVars(StartRun(a)) /\ WF_roomVars(EndRun(a))

-----------------------------------------------------------------------------
RoomTypeOK ==
  /\ tpc \in {"sleep", "gate", "pick", "score", "dispatch", "slept"}
  /\ free \in Int /\ ceiling \in Caps \cup {0} /\ eligible \subseteq Agents /\ picks \subseteq Agents
  /\ run \in [Agents -> {"idle", "queued", "running"}]
  /\ age \in [Agents -> 0 .. MaxAge]
  /\ \A a \in Agents :
       /\ rungs[a].fail \in Nat /\ rungs[a].idle \in Nat
       /\ wait[a].fail \in 0 .. FailCap /\ wait[a].idle \in 0 .. IdleCap
  /\ paused \in [Agents -> BOOLEAN] /\ held \subseteq Agents /\ toggled \in BOOLEAN
  /\ cap \in Caps /\ override \in Agents \cup {Nobody} /\ behind \in BOOLEAN
  /\ events \in 0 .. MaxEvents
  /\ since \in BOOLEAN /\ solo \subseteq Agents /\ late \in [Agents -> Nat]

(* With those a tick dispatches, the agents in flight, queued for a permit or
   not, are no more than the cap it read; and nobody in flight is dispatched
   again, though it counted the slots three awaits before. *)
SlotsBounded ==
  tpc = "dispatch" => /\ Cardinality(InFlight \cup picks) <= ceiling
                      /\ picks \cap InFlight = {}

(* Background first: a tick that began with a drain behind, which has not
   caught up and whose probe answered, dispatches nobody, override or not. *)
BackgroundFirst == since => picks = {}

(* A pause bites: from then until it is resumed an agent is dispatched at most
   once, by a tick that had already picked it. *)
PauseBites == \A a \in Agents : paused[a] => late[a] <= 1

(* Who was paused by name before "pause all" and not resumed by name stays
   paused through it, and after it. *)
ToggleRestores == \A a \in solo : paused[a]

(* Whatever happens between what a tick reads and what it dispatches, it keeps to the
   operator's cap, gate and pauses. *)
TicksObey == SlotsBounded /\ BackgroundFirst /\ PauseBites /\ ToggleRestores

=============================================================================
