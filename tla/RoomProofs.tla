------------------------------- MODULE RoomProofs -------------------------------
(***************************************************************************)
(* Proofs about the room: AdaptivePool, for any clients, sizes and         *)
(* sequence of 429s, and Scheduler, for any agents, scores, caps, ladders  *)
(* and order of what the operator, the runs and the drains do.             *)
(***************************************************************************)
EXTENDS Scheduler, AdaptivePool, FiniteSetTheorems, WellFoundedInduction, TLAPS

-----------------------------------------------------------------------------
(* AdaptivePool                                                            *)

PC == {"idle", "parked", "woken", "running", "releasing"}

(* What a success does to a limit of its type *)
LEMMA SuccessTypes ==
  ASSUME TypeOK, NoteSuccess
  PROVE  /\ limit' \in 1 .. size /\ streak' \in 0 .. RecoverAfter - 1 /\ waking' \in Nat
         /\ limit' >= limit
         /\ limit' # limit => waking' > 0
         /\ waking' >= waking
<1>1. /\ size \in Nat \ {0} /\ limit \in 1 .. size /\ streak \in 0 .. RecoverAfter - 1
      /\ waking \in Nat /\ RecoverAfter \in Nat \ {0}
  BY PoolAssumption DEF TypeOK
<1> QED BY <1>1 DEF NoteSuccess

(* What a 429 does to it: it only falls, and not to 0. *)
LEMMA RateLimitedTypes ==
  ASSUME TypeOK, NoteRateLimited
  PROVE  /\ limit' \in 1 .. size /\ streak' \in 0 .. RecoverAfter - 1
         /\ cooling' \in BOOLEAN /\ waking' = waking
         /\ limit' <= limit
<1>1. /\ size \in Nat \ {0} /\ limit \in 1 .. size /\ streak \in 0 .. RecoverAfter - 1
      /\ waking \in Nat /\ RecoverAfter \in Nat \ {0} /\ cooling \in BOOLEAN
  BY PoolAssumption DEF TypeOK
<1>2. CASE cooling /\ UNCHANGED aimd
  BY <1>1, <1>2 DEF aimd
<1>3. CASE /\ limit' = IF Half = 0 THEN 1 ELSE Half
           /\ cooling' = TRUE /\ streak' = 0 /\ UNCHANGED waking
  <2>1. Half \in Nat /\ Half <= limit
    BY <1>1 DEF Half
  <2> QED BY <1>1, <1>3, <2>1
<1> QED BY <1>2, <1>3 DEF NoteRateLimited

(* A body's end in one view: the lift of a success or the cut of a 429 *)
LEMMA FinishTypes ==
  ASSUME TypeOK, NEW c \in Clients, Finish(c)
  PROVE  /\ limit' \in 1 .. size /\ streak' \in 0 .. RecoverAfter - 1
         /\ waking' \in Nat /\ cooling' \in BOOLEAN /\ faults' \in 0 .. MaxFaults
         /\ waking' >= waking
         /\ limit' > limit => waking' > 0
<1>1. /\ limit \in 1 .. size /\ size \in Nat /\ waking \in Nat /\ cooling \in BOOLEAN
      /\ streak \in 0 .. RecoverAfter - 1 /\ faults \in 0 .. MaxFaults /\ MaxFaults \in Nat
  BY PoolAssumption DEF TypeOK
<1>2. CASE NoteSuccess /\ UNCHANGED <<cooling, faults>>
  BY <1>1, <1>2, SuccessTypes
<1>3. CASE NoteRateLimited /\ faults < MaxFaults /\ faults' = faults + 1
  BY <1>1, <1>3, RateLimitedTypes
<1>4. CASE UNCHANGED aimd /\ faults < MaxFaults /\ faults' = faults + 1
  BY <1>1, <1>4 DEF aimd
<1> QED BY <1>2, <1>3, <1>4 DEF Finish

-----------------------------------------------------------------------------
(* The count of permits goes with the clients that hold them.              *)

LEMMA HoldersFinite == IsFiniteSet(Holders) /\ Cardinality(Holders) \in Nat
<1>1. Holders \subseteq Clients
  BY DEF Holders
<1> QED BY <1>1, PoolAssumption, FS_Subset, FS_CardinalityType

(* A client that leaves shows that a permit is out. *)
LEMMA HolderCounts ==
  ASSUME TypeOK, PermitsAccounted, NEW c \in Clients, pc[c] = "releasing"
  PROVE  active \in Nat \ {0}
<1>1. c \in Holders
  BY DEF Holders
<1>2. Cardinality(Holders) # 0
  BY <1>1, HoldersFinite, FS_EmptySet
<1> QED BY <1>2, HoldersFinite DEF PermitsAccounted

Counted == TypeOK /\ PermitsAccounted

LEMMA CountedInductive == Counted /\ [Next]_vars => Counted'
<1> SUFFICES ASSUME TypeOK, PermitsAccounted, [Next]_vars PROVE Counted'
  BY DEF Counted
<1> USE PoolAssumption
<1>1. /\ size \in Nat \ {0} /\ size \in Sizes /\ limit \in 1 .. size /\ active \in Nat
      /\ streak \in 0 .. RecoverAfter - 1 /\ cooling \in BOOLEAN /\ waking \in Nat
      /\ pc \in [Clients -> PC] /\ faults \in 0 .. MaxFaults /\ resizes \in 0 .. MaxResizes
  BY DEF TypeOK, PC
<1>2. ASSUME NEW c \in Clients, Enter(c) PROVE Counted'
  <2>1. TypeOK'
    BY <1>1, <1>2 DEF Enter, TypeOK, aimd, PC
  <2>2. CASE active' = active + 1 /\ pc' = [pc EXCEPT ![c] = "running"]
    <3>1. Holders' = Holders \cup {c} /\ c \notin Holders
      BY <1>1, <1>2, <2>2 DEF Holders, Enter
    <3>2. Cardinality(Holders') = Cardinality(Holders) + 1
      BY <3>1, HoldersFinite, FS_AddElement
    <3> QED BY <2>1, <2>2, <3>2 DEF Counted, PermitsAccounted
  <2>3. CASE active' = active /\ pc' = [pc EXCEPT ![c] = "parked"]
    <3>1. Holders' = Holders
      BY <1>1, <1>2, <2>3 DEF Holders, Enter
    <3> QED BY <2>1, <2>3, <3>1 DEF Counted, PermitsAccounted
  <2> QED BY <1>2, <2>2, <2>3 DEF Enter
<1>3. ASSUME NEW c \in Clients, Finish(c) PROVE Counted'
  <2>1. TypeOK'
    <3>1. /\ pc' \in [Clients -> PC]
          /\ size' = size /\ active' = active /\ resizes' = resizes
      BY <1>1, <1>3 DEF Finish, PC
    <3> QED BY <1>1, <1>3, <3>1, FinishTypes DEF TypeOK, PC
  <2>2. Holders' = Holders /\ active' = active
    BY <1>1, <1>3 DEF Holders, Finish
  <2> QED BY <2>1, <2>2 DEF Counted, PermitsAccounted
<1>4. ASSUME NEW c \in Clients, Release(c) PROVE Counted'
  <2>1. active \in Nat \ {0}
    BY <1>4, HolderCounts DEF Release
  <2>2. TypeOK'
    BY <1>1, <1>4, <2>1 DEF Release, Woken, TypeOK, aimd, PC
  <2>3. Holders' = Holders \ {c} /\ c \in Holders
    BY <1>1, <1>4 DEF Holders, Release, Woken, PC
  <2>4. Cardinality(Holders') = Cardinality(Holders) - 1
    BY <2>3, HoldersFinite, FS_RemoveElement
  <2> QED BY <1>4, <2>2, <2>4 DEF Release, Counted, PermitsAccounted
<1>5. CASE Wake
  <2>1. TypeOK'
    BY <1>1, <1>5 DEF Wake, Woken, TypeOK, PC
  <2>2. Holders' = Holders
    BY <1>1, <1>5 DEF Holders, Wake, Woken, PC
  <2> QED BY <1>5, <2>1, <2>2 DEF Wake, Counted, PermitsAccounted
<1>6. CASE UNCHANGED pc /\ UNCHANGED active /\ TypeOK'
  BY <1>6 DEF Counted, PermitsAccounted, Holders
<1>7. CASE CooldownEnds
  BY <1>1, <1>6, <1>7 DEF CooldownEnds, TypeOK
<1>8. ASSUME NEW n \in Sizes, Resize(n) PROVE Counted'
  <2>1. limit' \in 1 .. n /\ size' = n /\ resizes' \in 0 .. MaxResizes
    BY <1>1, <1>8 DEF Resize
  <2> QED BY <1>1, <1>6, <1>8, <2>1 DEF Resize, TypeOK
<1>9. CASE UNCHANGED vars
  BY <1>1, <1>6, <1>9 DEF vars, aimd, TypeOK
<1> QED BY <1>2, <1>3, <1>4, <1>5, <1>7, <1>8, <1>9 DEF Next

LEMMA CountedAlways == Spec => []Counted
<1>1. Init => Counted
  <2> SUFFICES ASSUME Init PROVE Counted
    OBVIOUS
  <2>1. TypeOK
    <3>1. size \in Nat \ {0} /\ RecoverAfter \in Nat \ {0} /\ MaxFaults \in Nat /\ MaxResizes \in Nat
      BY PoolAssumption DEF Init
    <3>2. limit \in 1 .. size /\ 0 \in 0 .. RecoverAfter - 1 /\ 0 \in 0 .. MaxFaults
          /\ 0 \in 0 .. MaxResizes
      BY <3>1 DEF Init
    <3>3. pc \in [Clients -> {"idle", "parked", "woken", "running", "releasing"}]
      BY DEF Init
    <3> QED BY <3>1, <3>2, <3>3 DEF Init, TypeOK
  <2>2. Holders = {}
    BY DEF Init, Holders
  <2> QED BY <2>1, <2>2, FS_EmptySet DEF Init, Counted, PermitsAccounted
<1> QED BY <1>1, CountedInductive, PTL DEF Spec

(* The limit never leaves 1 .. size and every variable keeps its type.  Not
   inductive alone: that active stays a number needs the count of holders. *)
THEOREM TypeCorrect == Spec => []TypeOK
<1>1. Counted => TypeOK
  BY DEF Counted
<1> QED BY <1>1, CountedAlways, PTL

(* No permit leaks and none is given twice, however many clients there are. *)
THEOREM PermitsAreAccounted == Spec => []PermitsAccounted
<1>1. Counted => PermitsAccounted
  BY DEF Counted
<1> QED BY <1>1, CountedAlways, PTL

-----------------------------------------------------------------------------
(* No wakeup is lost: nobody is parked beside free capacity unless a task that
   will wake it is due. *)
THEOREM NoWakeupLost == Spec => []NoIdleCapacity
<1>1. Init => NoIdleCapacity
  BY DEF Init, NoIdleCapacity
<1>2. TypeOK /\ NoIdleCapacity /\ [Next]_vars => NoIdleCapacity'
  <2> SUFFICES ASSUME TypeOK, NoIdleCapacity, [Next]_vars,
                      NEW d \in Clients, pc'[d] = "parked"
               PROVE  active' >= limit' \/ waking' > 0
    BY DEF NoIdleCapacity
  <2>1. /\ active \in Nat /\ limit \in Nat /\ waking \in Nat /\ size \in Nat
        /\ pc \in [Clients -> PC]
    BY PoolAssumption DEF TypeOK, PC
  <2>2. pc[d] = "parked" => active >= limit \/ waking > 0
    BY DEF NoIdleCapacity
  <2>3. ASSUME NEW c \in Clients, Enter(c) PROVE active' >= limit' \/ waking' > 0
    BY <2>1, <2>2, <2>3 DEF Enter, aimd
  <2>4. ASSUME NEW c \in Clients, Finish(c) PROVE active' >= limit' \/ waking' > 0
    <3>1. pc[d] = "parked" /\ active' = active
      BY <2>1, <2>4 DEF Finish
    <3>2. limit' \in Nat /\ waking' \in Nat /\ waking' >= waking
      BY <2>1, <2>4, FinishTypes
    <3>3. limit' > limit => waking' > 0
      BY <2>4, FinishTypes
    <3> QED BY <2>1, <2>2, <3>1, <3>2, <3>3
  <2>5. ASSUME NEW c \in Clients, Release(c) PROVE FALSE
    BY <2>1, <2>5 DEF Release, Woken
  <2>6. CASE Wake
    BY <2>1, <2>6 DEF Wake, Woken
  <2>7. CASE CooldownEnds \/ UNCHANGED vars
    BY <2>2, <2>7 DEF CooldownEnds, vars, aimd
  <2>8. ASSUME NEW n \in Sizes, Resize(n) PROVE active' >= limit' \/ waking' > 0
    <3>1. limit' \in Nat /\ limit' <= limit
      BY <2>1, <2>8, PoolAssumption DEF Resize
    <3> QED BY <2>1, <2>2, <2>8, <3>1 DEF Resize
  <2> QED BY <2>3, <2>4, <2>5, <2>6, <2>7, <2>8 DEF Next
<1> QED BY <1>1, <1>2, TypeCorrect, PTL DEF Spec

(* Over the limit nobody is admitted. *)
THEOREM NobodyAdmittedOverLimit == Spec => OverLimitDrains
<1>1. TypeOK /\ [Next]_vars => [active' > limit' => active' <= active]_vars
  <2> SUFFICES ASSUME TypeOK, Next, active' > limit' PROVE active' <= active
    OBVIOUS
  <2>1. active \in Nat /\ limit \in Nat
    BY PoolAssumption DEF TypeOK
  <2>2. ASSUME NEW c \in Clients, Enter(c) PROVE active' <= active
    BY <2>1, <2>2 DEF Enter, aimd
  <2>3. ASSUME NEW c \in Clients, Release(c) PROVE active' <= active
    BY <2>1, <2>3 DEF Release
  <2>4. CASE UNCHANGED active
    BY <2>1, <2>4
  <2> QED BY <2>2, <2>3, <2>4 DEF Next, Finish, Wake, CooldownEnds, Resize
<1> QED BY <1>1, TypeCorrect, PTL DEF Spec, OverLimitDrains

-----------------------------------------------------------------------------
(* Scheduler: its arithmetic                                               *)

LEMMA PowersOfTwo == \A n \in Nat : 2^n \in Nat \ {0} /\ 2^n >= n
<1> SUFFICES ASSUME NEW n \in Nat PROVE 2^n \in Nat \ {0} /\ 2^n >= n
  OBVIOUS
<1> DEFINE S == 1 .. n
           f == [i \in S |-> {i}]
<1>1. IsFiniteSet(S) /\ Cardinality(S) = n
  BY FS_Interval
<1>2. IsFiniteSet(SUBSET S) /\ Cardinality(SUBSET S) = 2^n
  BY <1>1, FS_SUBSET
<1>3. f \in Injection(S, SUBSET S)
  BY DEF Injection, IsInjective
<1>4. n <= 2^n /\ 2^n \in Nat
  BY <1>1, <1>2, <1>3, FS_Injection, FS_CardinalityType
<1>5. {} \in SUBSET S
  OBVIOUS
<1>6. 2^n # 0
  BY <1>2, <1>5, FS_EmptySet
<1> QED BY <1>4, <1>6

LEMMA LeastNatural ==
  ASSUME NEW T, T \subseteq Nat, T # {}
  PROVE  \E x \in T : \A y \in T : x <= y
<1> DEFINE R == {ss \in Nat \X Nat : ss[1] < ss[2]}
<1>1. IsWellFoundedOn(R, Nat)
  BY NatLessThanWellFounded DEF OpToRel
<1>2. PICK x \in T : \A y \in T : <<y, x>> \notin R
  BY <1>1, WFMin
<1>3. \A y \in T : ~(y < x)
  BY <1>2
<1> QED BY <1>3

LEMMA MinOfTwo ==
  ASSUME NEW m \in Nat, NEW n \in Nat
  PROVE  Min({m, n}) \in Nat /\ Min({m, n}) <= m /\ Min({m, n}) <= n /\ Min({m, n}) \in {m, n}
<1>1. PICK x \in {m, n} : \A y \in {m, n} : x <= y
  OBVIOUS
<1> QED BY <1>1 DEF Min

(* The doublings from base to top are a number: enough of them exist. *)
LEMMA DoublingsExist ==
  ASSUME NEW base \in Nat \ {0}, NEW top \in Nat \ {0}
  PROVE  Doublings(base, top) \in Nat /\ base * 2^Doublings(base, top) >= top
<1> DEFINE Enough == {d \in 0 .. top : base * 2^d >= top}
<1>1. \A d \in Nat : 2^d \in Nat \ {0} /\ 2^d >= d
  BY PowersOfTwo
<1>2. base * 2^top >= top
  <2>1. 2^top \in Nat /\ 2^top >= top
    BY <1>1
  <2>2. \A p \in Nat : base * p >= p
    OBVIOUS
  <2> QED BY <2>1, <2>2
<1>3. Enough \subseteq Nat /\ Enough # {}
  BY <1>2
<1>4. PICK d \in Enough : \A e \in Enough : d <= e
  BY <1>3, LeastNatural
<1>5. \A e \in 0 .. d - 1 : base * 2^e < top
  <2> SUFFICES ASSUME NEW e \in 0 .. d - 1 PROVE base * 2^e < top
    OBVIOUS
  <2>1. e \in Nat /\ 2^e \in Nat /\ e \in 0 .. top /\ e < d
    BY <1>1, <1>4
  <2>2. e \notin Enough
    BY <1>4, <2>1
  <2> QED BY <2>1, <2>2
<1>6. d \in 0 .. top /\ base * 2^d >= top
  BY <1>4
<1> HIDE DEF Enough
<1>7. Doublings(base, top) \in 0 .. top /\ base * 2^Doublings(base, top) >= top
  BY <1>5, <1>6 DEF Doublings
<1> QED BY <1>7

(* What a ladder says: after any streak but none an agent waits, and never
   longer than the top (the exponent is clamped before it is raised). *)
LEMMA LadderBounds ==
  ASSUME NEW base \in Nat \ {0}, NEW top \in Nat \ {0}, NEW n \in Nat
  PROVE  /\ LadderDelay(base, top, n) \in 0 .. top
         /\ n > 0 => LadderDelay(base, top, n) > 0
<1>1. CASE n = 0
  BY <1>1 DEF LadderDelay
<1>2. CASE n > 0
  <2> DEFINE k == Min({n - 1, Doublings(base, top)})
  <2>1. n - 1 \in Nat /\ Doublings(base, top) \in Nat
    BY <1>2, DoublingsExist
  <2>2. k \in Nat
    BY <2>1, MinOfTwo
  <2>3. 2^k \in Nat \ {0}
    BY <2>2, PowersOfTwo
  <2> DEFINE p == 2^k
  <2>4. base * p \in Nat \ {0}
    <3> HIDE DEF p, k
    <3>1. \A q \in Nat \ {0} : base * q \in Nat \ {0}
      OBVIOUS
    <3>2. p \in Nat \ {0}
      BY <2>3 DEF p
    <3> QED BY <3>1, <3>2
  <2>5. LadderDelay(base, top, n) = Min({base * p, top})
    BY <1>2 DEF LadderDelay
  <2> HIDE DEF p
  <2>6. Min({base * p, top}) \in {base * p, top} /\ Min({base * p, top}) <= top
    BY <2>4, MinOfTwo
  <2> QED BY <2>4, <2>5, <2>6
<1> QED BY <1>1, <1>2

LEMMA ClampedType ==
  ASSUME NEW base \in Nat \ {0}, NEW top \in Nat \ {0}, NEW n \in Nat
  PROVE  Clamped(n, base, top) \in Nat
BY DoublingsExist, MinOfTwo DEF Clamped

-----------------------------------------------------------------------------
(* Scheduler: the inductive invariant                                      *)

RoomTyped ==
  /\ tpc \in {"sleep", "gate", "pick", "score", "dispatch", "slept"}
  /\ free \in Int /\ ceiling \in Caps \cup {0} /\ eligible \subseteq Agents /\ picks \subseteq Agents
  /\ run \in [Agents -> {"idle", "queued", "running"}]
  /\ age \in [Agents -> 0 .. MaxAge]
  /\ rungs \in [Agents -> [fail : Nat, idle : Nat]]
  /\ wait \in [Agents -> [fail : 0 .. FailCap, idle : 0 .. IdleCap]]
  /\ paused \in [Agents -> BOOLEAN] /\ held \subseteq Agents /\ toggled \in BOOLEAN
  /\ cap \in Caps /\ override \in Agents \cup {Nobody} /\ behind \in BOOLEAN
  /\ events \in 0 .. MaxEvents
  /\ since \in BOOLEAN /\ solo \subseteq Agents /\ late \in [Agents -> Nat]

(* While a tick decides, the slots it found are there still, those it may dispatch are
   idle, and it has chosen nobody before it scores. *)
SlotsHold ==
  /\ tpc \notin {"score", "dispatch"} => picks = {}
  /\ tpc # "score" => eligible = {}
  /\ tpc \in {"gate", "pick", "score"} => free + Cardinality(InFlight) <= ceiling
  /\ tpc \in {"score", "dispatch"} => (picks \cup eligible) \cap InFlight = {}
  /\ tpc = "dispatch" => Cardinality(InFlight \cup picks) <= ceiling

(* A tick that began behind is at the gate, or was turned away there. *)
GateHolds == since => behind /\ tpc \in {"gate", "slept"}

(* An agent dispatched since it was paused is not about to be dispatched again. *)
PausesHold ==
  \A a \in Agents : paused[a] => late[a] <= 1 /\ (late[a] = 1 => a \notin picks \cup eligible)

(* "Pause all" remembers nobody who was paused by name, and nobody when it is off. *)
TogglesHold ==
  /\ \A a \in solo : paused[a]
  /\ solo \cap held = {}
  /\ ~ toggled => held = {}

RoomInv == RoomTyped /\ SlotsHold /\ GateHolds /\ PausesHold /\ TogglesHold

LEMMA InFlightFinite == IsFiniteSet(InFlight) /\ Cardinality(InFlight) \in Nat
<1>1. InFlight \subseteq Agents
  BY DEF InFlight
<1> QED BY <1>1, SchedulerAssumption, FS_Subset, FS_CardinalityType

(* What a run's end makes of the ladders *)
LEMMA LaddersTyped ==
  ASSUME RoomTyped, NEW a \in Agents, AdvanceFail(a) \/ AdvanceIdle(a) \/ ResetLadders(a)
  PROVE  /\ rungs' \in [Agents -> [fail : Nat, idle : Nat]]
         /\ wait' \in [Agents -> [fail : 0 .. FailCap, idle : 0 .. IdleCap]]
<1>1. /\ rungs \in [Agents -> [fail : Nat, idle : Nat]]
      /\ wait \in [Agents -> [fail : 0 .. FailCap, idle : 0 .. IdleCap]]
      /\ rungs[a].fail + 1 \in Nat /\ rungs[a].idle + 1 \in Nat
      /\ 0 \in 0 .. FailCap /\ 0 \in 0 .. IdleCap
      /\ FailBase \in Nat \ {0} /\ FailCap \in Nat \ {0} /\ IdleBase \in Nat \ {0}
      /\ IdleCap \in Nat \ {0}
  BY SchedulerAssumption DEF RoomTyped
<1> DEFINE f == Clamped(rungs[a].fail + 1, FailBase, FailCap)
           i == Clamped(rungs[a].idle + 1, IdleBase, IdleCap)
<1>2. f \in Nat /\ i \in Nat
  BY <1>1, ClampedType
<1>3. /\ LadderDelay(FailBase, FailCap, f) \in 0 .. FailCap
      /\ LadderDelay(IdleBase, IdleCap, i) \in 0 .. IdleCap
  <2> HIDE DEF f, i
  <2> QED BY <1>1, <1>2, LadderBounds
<1>4. CASE AdvanceFail(a)
  <2>1. /\ rungs' = [rungs EXCEPT ![a].fail = f]
        /\ wait' = [wait EXCEPT ![a].fail = LadderDelay(FailBase, FailCap, f)]
    BY <1>4 DEF AdvanceFail
  <2> HIDE DEF f, i
  <2> QED BY <1>1, <1>2, <1>3, <2>1
<1>5. CASE AdvanceIdle(a)
  <2>1. /\ rungs' = [rungs EXCEPT ![a] = [fail |-> 0, idle |-> i]]
        /\ wait' = [wait EXCEPT ![a] = [fail |-> 0, idle |-> LadderDelay(IdleBase, IdleCap, i)]]
    BY <1>5 DEF AdvanceIdle
  <2> HIDE DEF f, i
  <2> QED BY <1>1, <1>2, <1>3, <2>1
<1>6. CASE ResetLadders(a)
  BY <1>1, <1>6 DEF ResetLadders
<1> QED BY <1>4, <1>5, <1>6

LEMMA EventTyped == ASSUME RoomTyped, Event PROVE events' \in 0 .. MaxEvents
BY SchedulerAssumption DEF RoomTyped, Event

(* Every step keeps the types. *)
LEMMA RoomTypedInductive == RoomTyped /\ [RoomNext]_roomVars => RoomTyped'
<1> SUFFICES ASSUME RoomTyped, [RoomNext]_roomVars PROVE RoomTyped'
  OBVIOUS
<1> USE SchedulerAssumption
<1> USE DEF RoomTyped
<1>1. CASE StartTick
  <2>1. cap \in Nat /\ Cardinality(InFlight) \in Nat
    BY InFlightFinite
  <2>2. free' \in Int /\ ceiling' \in Caps \cup {0}
    BY <1>1, <2>1 DEF StartTick
  <2> QED BY <1>1, <2>2 DEF StartTick, runs, ladders, operator
<1>2. CASE ReadGate
  <2>1. tpc' \in {"slept", "pick"} /\ events' \in 0 .. MaxEvents /\ since' \in BOOLEAN
    BY <1>2, EventTyped DEF ReadGate
  <2> QED BY <1>2, <2>1 DEF ReadGate, tick, runs, ladders, operator
<1>3. CASE Pick
  <2>1. picks' \subseteq Agents /\ eligible' \subseteq Agents /\ tpc' \in {"slept", "score"}
    BY <1>3 DEF Pick
  <2> QED BY <1>3, <2>1 DEF Pick, runs, ladders, operator
<1>4. CASE Score
  <2>1. picks' \subseteq Agents
    BY <1>4 DEF Score
  <2> QED BY <1>4, <2>1 DEF Score, runs, ladders, operator
<1>5. ASSUME NEW a \in Agents, Dispatch(a) PROVE RoomTyped'
  <2>1. late' \in [Agents -> Nat] /\ 0 \in 0 .. MaxAge
    BY <1>5 DEF Dispatch
  <2> QED BY <1>5, <2>1 DEF Dispatch, ladders, operator
<1>6. CASE Sleep
  <2>1. age' \in [Agents -> 0 .. MaxAge]
    <3>1. ASSUME NEW n \in 0 .. MaxAge PROVE Min({n + 1, MaxAge}) \in 0 .. MaxAge
      <4>1. n + 1 \in Nat /\ MaxAge \in Nat
        OBVIOUS
      <4> QED BY <4>1, MinOfTwo
    <3> QED BY <1>6, <3>1 DEF Sleep
  <2>2. wait' \in [Agents -> [fail : 0 .. FailCap, idle : 0 .. IdleCap]]
    <3>1. wait' = [a \in Agents |-> [k \in {"fail", "idle"} |->
                     IF wait[a][k] > 0 THEN wait[a][k] - 1 ELSE wait[a][k]]]
      BY <1>6 DEF Sleep
    <3>2. ASSUME NEW a \in Agents PROVE wait'[a] \in [fail : 0 .. FailCap, idle : 0 .. IdleCap]
      <4>1. wait[a].fail \in 0 .. FailCap /\ wait[a].idle \in 0 .. IdleCap
        OBVIOUS
      <4>2. wait'[a] = [fail |-> IF wait[a].fail > 0 THEN wait[a].fail - 1 ELSE wait[a].fail,
                        idle |-> IF wait[a].idle > 0 THEN wait[a].idle - 1 ELSE wait[a].idle]
        BY <3>1
      <4> QED BY <4>1, <4>2
    <3> QED BY <3>1, <3>2
  <2>3. /\ tpc' = "sleep" /\ free' = 0 /\ eligible' = {} /\ picks' = {} /\ since' = FALSE
        /\ ceiling' = 0
        /\ UNCHANGED <<run, rungs, operator, override, behind, events, solo, late>>
    BY <1>6 DEF Sleep
  <2>4. UNCHANGED <<run, rungs, paused, held, toggled, cap, override, behind, events, solo, late>>
    BY <2>3 DEF operator
  <2>5. 0 \in Int /\ 0 \in Caps \cup {0}
    OBVIOUS
  <2> QED BY <2>1, <2>2, <2>3, <2>4, <2>5
<1>7. ASSUME NEW a \in Agents, StartRun(a) PROVE RoomTyped'
  BY <1>7 DEF StartRun, tick, ladders, operator
<1>8. ASSUME NEW a \in Agents, EndRun(a) PROVE RoomTyped'
  <2>1. AdvanceFail(a) \/ AdvanceIdle(a) \/ ResetLadders(a)
    BY <1>8 DEF EndRun
  <2>2. /\ rungs' \in [Agents -> [fail : Nat, idle : Nat]]
        /\ wait' \in [Agents -> [fail : 0 .. FailCap, idle : 0 .. IdleCap]]
    BY <2>1, LaddersTyped
  <2>3. /\ events' \in 0 .. MaxEvents /\ behind' \in BOOLEAN
        /\ override' \in Agents \cup {Nobody} /\ run' \in [Agents -> {"idle", "queued", "running"}]
    <3>1. run' = [run EXCEPT ![a] = "idle"]
          /\ \/ Event /\ UNCHANGED <<override, behind>>
             \/ Event /\ behind' = TRUE /\ override' \in {Nobody, override}
             \/ UNCHANGED <<behind, events>> /\ override' \in {Nobody, override}
      BY <1>8 DEF EndRun
    <3> QED BY <3>1, EventTyped
  <2> QED BY <1>8, <2>2, <2>3 DEF EndRun, tick, operator
<1>9. CASE BackgroundDone
  BY <1>9 DEF BackgroundDone, tick, runs, ladders, operator
<1>10. ASSUME NEW a \in Agents, PauseAgent(a) PROVE RoomTyped'
  BY <1>10 DEF PauseAgent, Event, tick, runs, ladders
<1>11. ASSUME NEW a \in Agents, ResumeAgent(a) PROVE RoomTyped'
  BY <1>11 DEF ResumeAgent, Event, tick, runs, ladders
<1>12. CASE PauseAll
  <2>1. /\ paused' \in [Agents -> BOOLEAN] /\ late' \in [Agents -> Nat] /\ held' \subseteq Agents
        /\ toggled' \in BOOLEAN /\ events' \in 0 .. MaxEvents
    <3>1. held' = IF toggled THEN {} ELSE {a \in Agents : ~ paused[a]}
      BY <1>12 DEF PauseAll
    <3>2. \A a \in Agents : (IF paused[a] THEN late[a] ELSE 0) \in Nat
      OBVIOUS
    <3>3. late' \in [Agents -> Nat]
      BY <1>12, <3>2 DEF PauseAll
    <3>4. paused' = [a \in Agents |-> IF toggled THEN paused[a] /\ a \notin held ELSE TRUE]
      BY <1>12 DEF PauseAll
    <3>5. \A a \in Agents : (IF toggled THEN paused[a] /\ a \notin held ELSE TRUE) \in BOOLEAN
      OBVIOUS
    <3>6. paused' \in [Agents -> BOOLEAN]
      BY <3>4, <3>5, Zenon
    <3> QED BY <1>12, <3>1, <3>3, <3>6, EventTyped DEF PauseAll
  <2> QED BY <1>12, <2>1 DEF PauseAll, tick, runs, ladders
<1>13. ASSUME NEW n \in Caps, SetCap(n) PROVE RoomTyped'
  BY <1>13 DEF SetCap, Event, tick, runs, ladders
<1>14. CASE UNCHANGED roomVars
  BY <1>14 DEF roomVars, tick, runs, ladders, operator
<1> QED BY <1>1, <1>2, <1>3, <1>4, <1>5, <1>6, <1>7, <1>8, <1>9, <1>10, <1>11, <1>12, <1>13,
           <1>14 DEF RoomNext, Ticking

(* An await between the reads of a tick may end a run or queue none: the slots it
   found are still there, and whom it chose is idle. *)
LEMMA FewerInFlight ==
  ASSUME RoomTyped, SlotsHold, InFlight' \subseteq InFlight,
         UNCHANGED <<tpc, free, ceiling, picks, eligible>>
  PROVE  SlotsHold'
<1>1. /\ Cardinality(InFlight') <= Cardinality(InFlight)
      /\ Cardinality(InFlight') \in Nat /\ Cardinality(InFlight) \in Nat
  BY InFlightFinite, FS_Subset, FS_CardinalityType
<1>2. free \in Int /\ ceiling \in Nat
  BY SchedulerAssumption DEF RoomTyped
<1>3. /\ Cardinality(InFlight' \cup picks) <= Cardinality(InFlight \cup picks)
      /\ Cardinality(InFlight' \cup picks) \in Nat /\ Cardinality(InFlight \cup picks) \in Nat
  <2>1. IsFiniteSet(picks)
    BY SchedulerAssumption, FS_Subset DEF RoomTyped
  <2>2. IsFiniteSet(InFlight \cup picks) /\ InFlight' \cup picks \subseteq InFlight \cup picks
    BY <2>1, InFlightFinite, FS_Union
  <2> QED BY <2>2, FS_Subset, FS_CardinalityType
<1> QED BY <1>1, <1>2, <1>3 DEF SlotsHold

(* The slots hold: only Dispatch puts an agent in flight, and it takes it from the picks,
   which Score made to fit what StartTick found. *)
LEMMA SlotsInductive == RoomTyped /\ SlotsHold /\ [RoomNext]_roomVars => SlotsHold'
<1> SUFFICES ASSUME RoomTyped, SlotsHold, [RoomNext]_roomVars PROVE SlotsHold'
  OBVIOUS
<1>0. CASE UNCHANGED <<tick, tpc, run>>
  BY <1>0, FewerInFlight DEF tick, InFlight
<1>1. CASE StartTick
  <2>1. InFlight' = InFlight
    BY <1>1 DEF StartTick, runs, InFlight
  <2>2. cap \in Nat /\ Cardinality(InFlight) \in Nat
    BY InFlightFinite, SchedulerAssumption DEF RoomTyped
  <2> QED BY <1>1, <2>1, <2>2 DEF StartTick, SlotsHold
<1>2. CASE ReadGate
  BY <1>2 DEF ReadGate, tick, runs, SlotsHold, InFlight
<1>3. CASE Pick
  <2>1. InFlight' = InFlight
    BY <1>3 DEF Pick, runs, InFlight
  <2>2. tpc' = "slept" => picks' = {} /\ eligible' = {}
    BY <1>3 DEF Pick
  <2>3. (picks' \cup eligible') \cap InFlight = {}
    BY <1>3 DEF Pick, InFlight
  <2>4. /\ tpc' \in {"slept", "score"} /\ free' = free /\ ceiling' = ceiling
        /\ free + Cardinality(InFlight) <= ceiling
    BY <1>3 DEF Pick, SlotsHold
  <2> QED BY <2>1, <2>2, <2>3, <2>4 DEF SlotsHold
<1>4. CASE Score
  <2>1. InFlight' = InFlight /\ eligible' = {} /\ tpc' = "dispatch" /\ ceiling' = ceiling
    BY <1>4 DEF Score, runs, InFlight
  <2>2. picks' \subseteq picks \cup eligible /\ Cardinality(picks') <= free
    BY <1>4 DEF Score
  <2>3. (picks \cup eligible) \cap InFlight = {} /\ free + Cardinality(InFlight) <= ceiling
    BY <1>4 DEF Score, SlotsHold
  <2>4. IsFiniteSet(picks') /\ Cardinality(picks') \in Nat
    BY <2>2, SchedulerAssumption, FS_Subset, FS_CardinalityType DEF RoomTyped
  <2>5. InFlight \cap picks' = {}
    BY <2>2, <2>3
  <2>6. Cardinality(InFlight \cup picks') = Cardinality(InFlight) + Cardinality(picks')
    BY <2>4, <2>5, InFlightFinite, FS_Union, FS_EmptySet
  <2>7. Cardinality(InFlight \cup picks') <= ceiling
    BY <2>2, <2>3, <2>4, <2>6, InFlightFinite, SchedulerAssumption DEF RoomTyped
  <2> QED BY <2>1, <2>2, <2>3, <2>7 DEF SlotsHold
<1>5. ASSUME NEW a \in Agents, Dispatch(a) PROVE SlotsHold'
  <2>1. InFlight' = InFlight \cup {a}
    BY <1>5 DEF Dispatch, RoomTyped, InFlight
  <2>2. /\ tpc = "dispatch" /\ tpc' = "dispatch" /\ a \in picks /\ picks' = picks \ {a}
        /\ ceiling' = ceiling /\ eligible' = eligible
    BY <1>5 DEF Dispatch
  <2>3. /\ InFlight' \cup picks' = InFlight \cup picks
        /\ eligible = {} /\ picks \cap InFlight = {}
        /\ Cardinality(InFlight \cup picks) <= ceiling
    BY <2>1, <2>2 DEF SlotsHold
  <2> QED BY <2>1, <2>2, <2>3 DEF SlotsHold
<1>6. CASE Sleep
  BY <1>6 DEF Sleep, SlotsHold
<1>7. ASSUME NEW a \in Agents, StartRun(a) \/ EndRun(a) PROVE SlotsHold'
  <2>1. InFlight' \subseteq InFlight /\ UNCHANGED <<tpc, tick>>
    BY <1>7 DEF StartRun, EndRun, InFlight, RoomTyped
  <2> QED BY <2>1, FewerInFlight DEF tick
<1>8. CASE BackgroundDone \/ PauseAll
  BY <1>0, <1>8 DEF BackgroundDone, PauseAll, runs
<1>9. ASSUME NEW a \in Agents, PauseAgent(a) \/ ResumeAgent(a) PROVE SlotsHold'
  BY <1>0, <1>9 DEF PauseAgent, ResumeAgent, runs
<1>10. ASSUME NEW n \in Caps, SetCap(n) PROVE SlotsHold'
  BY <1>0, <1>10 DEF SetCap, runs
<1>11. CASE UNCHANGED roomVars
  BY <1>0, <1>11 DEF roomVars, runs
<1> QED BY <1>1, <1>2, <1>3, <1>4, <1>5, <1>6, <1>7, <1>8, <1>9, <1>10, <1>11 DEF RoomNext, Ticking

(* The gate holds: a run that commits may put the drains behind, never ahead. *)
LEMMA GateInductive == RoomTyped /\ GateHolds /\ [RoomNext]_roomVars => GateHolds'
<1> SUFFICES ASSUME RoomTyped, GateHolds, [RoomNext]_roomVars PROVE GateHolds'
  OBVIOUS
<1> USE DEF GateHolds
<1>1. CASE StartTick \/ ReadGate \/ Pick \/ Score \/ Sleep
  BY <1>1 DEF StartTick, ReadGate, Pick, Score, Sleep, RoomTyped
<1>2. ASSUME NEW a \in Agents, Dispatch(a) \/ StartRun(a) \/ PauseAgent(a) \/ ResumeAgent(a)
      PROVE  GateHolds'
  BY <1>2 DEF Dispatch, StartRun, PauseAgent, ResumeAgent
<1>3. ASSUME NEW a \in Agents, EndRun(a) PROVE GateHolds'
  BY <1>3 DEF EndRun
<1>4. CASE BackgroundDone \/ PauseAll \/ UNCHANGED roomVars
  BY <1>4 DEF BackgroundDone, PauseAll, roomVars
<1>5. ASSUME NEW n \in Caps, SetCap(n) PROVE GateHolds'
  BY <1>5 DEF SetCap
<1> QED BY <1>1, <1>2, <1>3, <1>4, <1>5 DEF RoomNext, Ticking

(* Pauses bite: a tick picks nobody who is paused, and dispatches nobody twice. *)
LEMMA PausesInductive ==
  RoomTyped /\ SlotsHold /\ PausesHold /\ [RoomNext]_roomVars => PausesHold'
<1> SUFFICES ASSUME RoomTyped, SlotsHold, PausesHold, [RoomNext]_roomVars,
                    NEW b \in Agents, paused'[b]
             PROVE  late'[b] <= 1 /\ (late'[b] = 1 => b \notin picks' \cup eligible')
  BY DEF PausesHold
<1> DEFINE Goal == late'[b] <= 1 /\ (late'[b] = 1 => b \notin picks' \cup eligible')
<1>0. /\ paused \in [Agents -> BOOLEAN] /\ late \in [Agents -> Nat]
      /\ picks \subseteq Agents /\ eligible \subseteq Agents
      /\ paused[b] => late[b] <= 1 /\ (late[b] = 1 => b \notin picks \cup eligible)
  BY DEF RoomTyped, PausesHold
<1>1. CASE StartTick \/ ReadGate \/ Sleep
  BY <1>0, <1>1 DEF StartTick, ReadGate, Sleep, tick, operator
<1>2. CASE Pick
  <2>1. b \notin picks' \cup eligible' /\ late' = late /\ paused' = paused
    BY <1>2 DEF Pick, operator
  <2> QED BY <1>0, <2>1
<1>3. CASE Score
  <2>1. picks' \cup eligible' \subseteq picks \cup eligible /\ late' = late /\ paused' = paused
    BY <1>3 DEF Score, operator
  <2> QED BY <1>0, <2>1
<1>4. ASSUME NEW a \in Agents, Dispatch(a) PROVE Goal
  <2>1. /\ paused' = paused /\ picks' = picks \ {a} /\ eligible' = {} /\ a \in picks
        /\ late' = [late EXCEPT ![a] = IF paused[a] THEN @ + 1 ELSE @]
    BY <1>4 DEF Dispatch, operator, SlotsHold
  <2>2. CASE a = b
    <3>1. late[b] # 1 /\ late[b] <= 1
      BY <1>0, <2>1, <2>2
    <3>2. late'[b] = 1
      BY <1>0, <2>1, <2>2, <3>1
    <3> QED BY <2>1, <2>2, <3>2
  <2>3. CASE a # b
    BY <1>0, <2>1, <2>3
  <2> QED BY <2>2, <2>3
<1>5. ASSUME NEW a \in Agents, StartRun(a) \/ EndRun(a) PROVE Goal
  BY <1>0, <1>5 DEF StartRun, EndRun, tick, operator
<1>6. ASSUME NEW a \in Agents, PauseAgent(a) PROVE Goal
  BY <1>0, <1>6 DEF PauseAgent, tick
<1>7. ASSUME NEW a \in Agents, ResumeAgent(a) PROVE Goal
  BY <1>0, <1>7 DEF ResumeAgent, tick
<1>8. CASE PauseAll
  <2>1. /\ late'[b] = IF paused[b] THEN late[b] ELSE 0
        /\ picks' = picks /\ eligible' = eligible
    BY <1>0, <1>8 DEF PauseAll, tick
  <2> QED BY <1>0, <2>1
<1>9. CASE BackgroundDone \/ UNCHANGED roomVars
  BY <1>0, <1>9 DEF BackgroundDone, roomVars, tick, operator
<1>10. ASSUME NEW n \in Caps, SetCap(n) PROVE Goal
  BY <1>0, <1>10 DEF SetCap, tick
<1> QED BY <1>1, <1>2, <1>3, <1>4, <1>5, <1>6, <1>7, <1>8, <1>9, <1>10 DEF RoomNext, Ticking

(* "Pause all", on and off, around pauses and resumes by name *)
LEMMA TogglesInductive == RoomTyped /\ TogglesHold /\ [RoomNext]_roomVars => TogglesHold'
<1> SUFFICES ASSUME RoomTyped, TogglesHold, [RoomNext]_roomVars PROVE TogglesHold'
  OBVIOUS
<1>0. paused \in [Agents -> BOOLEAN] /\ solo \subseteq Agents
  BY DEF RoomTyped
<1>1. CASE UNCHANGED <<paused, held, toggled, solo>>
  BY <1>1 DEF TogglesHold
<1>2. CASE Ticking \/ BackgroundDone \/ UNCHANGED roomVars
  BY <1>1, <1>2 DEF Ticking, StartTick, ReadGate, Pick, Score, Dispatch, Sleep, BackgroundDone,
                    roomVars, operator
<1>3. ASSUME NEW a \in Agents, StartRun(a) \/ EndRun(a) PROVE TogglesHold'
  BY <1>1, <1>3 DEF StartRun, EndRun, operator
<1>4. ASSUME NEW a \in Agents, PauseAgent(a) PROVE TogglesHold'
  BY <1>0, <1>4 DEF PauseAgent, TogglesHold
<1>5. ASSUME NEW a \in Agents, ResumeAgent(a) PROVE TogglesHold'
  BY <1>0, <1>5 DEF ResumeAgent, TogglesHold
<1>6. CASE PauseAll
  <2>1. /\ toggled' = ~ toggled /\ solo' = solo
        /\ held' = IF toggled THEN {} ELSE {a \in Agents : ~ paused[a]}
    BY <1>6 DEF PauseAll
  <2>2. \A a \in Agents : paused'[a] = IF toggled THEN paused[a] /\ a \notin held ELSE TRUE
    BY <1>6 DEF PauseAll
  <2>3. solo' \cap held' = {} /\ (~ toggled' => held' = {})
    BY <2>1 DEF TogglesHold
  <2>4. ASSUME NEW a \in solo PROVE paused'[a]
    BY <1>0, <2>2, <2>4 DEF TogglesHold
  <2> QED BY <2>1, <2>3, <2>4 DEF TogglesHold
<1>7. ASSUME NEW n \in Caps, SetCap(n) PROVE TogglesHold'
  BY <1>1, <1>7 DEF SetCap
<1> QED BY <1>2, <1>3, <1>4, <1>5, <1>6, <1>7 DEF RoomNext

LEMMA RoomInvAlways == RoomSpec => []RoomInv
<1>1. RoomInit => RoomInv
  <2> SUFFICES ASSUME RoomInit PROVE RoomInv
    OBVIOUS
  <2> USE SchedulerAssumption DEF RoomInit
  <2>1. 0 \in 0 .. MaxAge /\ 0 \in 0 .. FailCap /\ 0 \in 0 .. IdleCap /\ 0 \in 0 .. MaxEvents
    OBVIOUS
  <2>2. RoomTyped
    <3>1. [fail |-> 0, idle |-> 0] \in [fail : Nat, idle : Nat]
          /\ [fail |-> 0, idle |-> 0] \in [fail : 0 .. FailCap, idle : 0 .. IdleCap]
      BY <2>1
    <3>2. /\ rungs \in [Agents -> [fail : Nat, idle : Nat]]
          /\ wait \in [Agents -> [fail : 0 .. FailCap, idle : 0 .. IdleCap]]
          /\ paused \in [Agents -> BOOLEAN]
      BY <3>1
    <3>3. run \in [Agents -> {"idle", "queued", "running"}] /\ age \in [Agents -> 0 .. MaxAge]
          /\ late \in [Agents -> Nat]
      BY <2>1
    <3>4. override \in Agents \cup {Nobody} /\ cap \in Caps /\ solo \subseteq Agents
      OBVIOUS
    <3>5. /\ tpc = "sleep" /\ free = 0 /\ ceiling = 0 /\ eligible = {} /\ picks = {}
          /\ held = {} /\ toggled = FALSE /\ behind = FALSE /\ events = 0 /\ since = FALSE
      OBVIOUS
    <3>6. free \in Int /\ ceiling \in Caps \cup {0} /\ events \in 0 .. MaxEvents
      BY <2>1, <3>5
    <3>7. toggled \in BOOLEAN /\ behind \in BOOLEAN /\ since \in BOOLEAN
      BY <3>5, Zenon
    <3> HIDE DEF RoomInit
    <3> QED BY <3>2, <3>3, <3>4, <3>5, <3>6, <3>7, Zenon DEF RoomTyped
  <2>3. SlotsHold /\ GateHolds
    BY DEF SlotsHold, GateHolds
  <2>4. PausesHold /\ TogglesHold
    <3>1. \A a \in Agents : late[a] = 0 /\ a \notin picks
      OBVIOUS
    <3>2. \A a \in solo : paused[a]
      OBVIOUS
    <3> QED BY <3>1, <3>2 DEF PausesHold, TogglesHold
  <2> QED BY <2>2, <2>3, <2>4 DEF RoomInv
<1>2. RoomInv /\ [RoomNext]_roomVars => RoomInv'
  BY RoomTypedInductive, SlotsInductive, GateInductive, PausesInductive, TogglesInductive
     DEF RoomInv
<1> QED BY <1>1, <1>2, PTL DEF RoomSpec

(* Every variable of the scheduler keeps its type; a ladder's wait, a product of powers
   in the code, never exceeds its cap. *)
THEOREM RoomTypeCorrect == RoomSpec => []RoomTypeOK
<1>1. RoomInv => RoomTypeOK
  BY DEF RoomInv, RoomTyped, RoomTypeOK
<1> QED BY <1>1, RoomInvAlways, PTL

(* For any agents, scores, caps and order of awaits, a tick dispatches no more than the
   cap it read leaves free and nobody who is in flight, nobody while a drain is behind, a
   paused agent at most once more, and "pause all" wakes nobody paused by name. *)
THEOREM TicksAlwaysObey == RoomSpec => []TicksObey
<1>1. RoomInv => SlotsBounded
  BY DEF RoomInv, SlotsHold, SlotsBounded
<1>2. RoomInv => BackgroundFirst
  BY DEF RoomInv, SlotsHold, GateHolds, BackgroundFirst
<1>3. RoomInv => PauseBites /\ ToggleRestores
  BY DEF RoomInv, PausesHold, TogglesHold, PauseBites, ToggleRestores
<1> QED BY <1>1, <1>2, <1>3, RoomInvAlways, PTL DEF TicksObey
=============================================================================
