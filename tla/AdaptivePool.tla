------------------------------ MODULE AdaptivePool ------------------------------
(***************************************************************************)
(* The one concurrency limit of the model endpoint (agent_kit/pool.py),    *)
(* from which the scheduler's agents (agent_kit/scheduler.py) and the      *)
(* drains' workers (store/drain.py) draw permits: additive increase,       *)
(* multiplicative decrease, live resizing, and an asyncio.Condition for    *)
(* those who wait.                                                         *)
(*                                                                         *)
(* No coroutine awaits anything while it holds the Condition's lock, so    *)
(* what happens under it is one step.  Who gets the lock next is left      *)
(* open: a client that has just released may come back before those it     *)
(* woke, as a drain's worker does.                                         *)
(***************************************************************************)
EXTENDS Integers, FiniteSets

CONSTANTS
  Clients,       \* coroutines that run something under a permit
  Sizes,         \* the values llm_pool_size is given
  RecoverAfter,  \* successes in a row that lift the limit by one
  MaxFaults,     \* bound: runs that fail, on a 429 or otherwise
  MaxResizes     \* bound: live changes of llm_pool_size

(* llm_pool_size itself is never validated; 0 is left out here. *)
ASSUME PoolAssumption ==
  /\ IsFiniteSet(Clients)
  /\ Sizes \subseteq Nat \ {0} /\ Sizes # {}
  /\ RecoverAfter \in Nat \ {0} /\ MaxFaults \in Nat /\ MaxResizes \in Nat

VARIABLES
  size,     \* the ceiling the operator set
  limit,    \* the current ceiling
  active,   \* permits out
  streak,   \* successes since the last cut, lift or stay at the ceiling
  cooling,  \* is the clock inside the cooldown of a 429?
  waking,   \* wake tasks created and not yet run
  pc,       \* client: "idle", "parked" in Condition.wait, "woken" by a notify
            \* and to check again, "running", "releasing" (waiting for the lock)
  faults, resizes

aimd == <<limit, streak, cooling, waking>>
vars == <<size, aimd, active, pc, faults, resizes>>

Init ==
  /\ size \in Sizes /\ limit = size
  /\ active = 0 /\ streak = 0 /\ cooling = FALSE /\ waking = 0
  /\ pc = [c \in Clients |-> "idle"]
  /\ faults = 0 /\ resizes = 0

-----------------------------------------------------------------------------
(* slot(): wait_for checks at once and after each notify, under the lock. *)
Enter(c) ==
  /\ pc[c] \in {"idle", "woken"}
  /\ \/ /\ active < limit
        /\ active' = active + 1
        /\ pc' = [pc EXCEPT ![c] = "running"]
     \/ /\ active >= limit
        /\ pc' = [pc EXCEPT ![c] = "parked"]
        /\ UNCHANGED active
  /\ UNCHANGED <<size, aimd, faults, resizes>>

(* mutants: recovery stops one short of size; a lift wakes nobody *)
NoteSuccessShort ==
  \/ /\ limit + 1 >= size
     /\ streak' = 0
     /\ UNCHANGED <<limit, waking>>
  \/ /\ limit + 1 < size /\ streak + 1 < RecoverAfter
     /\ streak' = streak + 1
     /\ UNCHANGED <<limit, waking>>
  \/ /\ limit + 1 < size /\ streak + 1 >= RecoverAfter
     /\ limit' = limit + 1 /\ streak' = 0 /\ waking' = waking + 1
NoteSuccessSilent ==
  \/ /\ limit >= size
     /\ streak' = 0
     /\ UNCHANGED <<limit, waking>>
  \/ /\ limit < size /\ streak + 1 < RecoverAfter
     /\ streak' = streak + 1
     /\ UNCHANGED <<limit, waking>>
  \/ /\ limit < size /\ streak + 1 >= RecoverAfter
     /\ limit' = limit + 1 /\ streak' = 0
     /\ UNCHANGED waking

(* note_success: every RecoverAfter-th success lifts the limit by one and
   creates a task to wake the parked. *)
NoteSuccess ==
  \/ /\ limit >= size
     /\ streak' = 0
     /\ UNCHANGED <<limit, waking>>
  \/ /\ limit < size /\ streak + 1 < RecoverAfter
     /\ streak' = streak + 1
     /\ UNCHANGED <<limit, waking>>
  \/ /\ limit < size /\ streak + 1 >= RecoverAfter
     /\ limit' = limit + 1 /\ streak' = 0 /\ waking' = waking + 1

Half == limit \div 2

(* note_rate_limited: outside the cooldown, half the limit, but never 0 *)
NoteRateLimited ==
  \/ cooling /\ UNCHANGED aimd
  \/ /\ ~ cooling
     /\ limit' = IF Half = 0 THEN 1 ELSE Half
     /\ cooling' = TRUE /\ streak' = 0
     /\ UNCHANGED waking

(* The body ends: well, on a 429, or by raising anything else, which the pool
   is not told. *)
Finish(c) ==
  /\ pc[c] = "running"
  /\ \/ NoteSuccess /\ UNCHANGED <<cooling, faults>>
     \/ /\ faults < MaxFaults /\ faults' = faults + 1
        /\ NoteRateLimited \/ UNCHANGED aimd
  /\ pc' = [pc EXCEPT ![c] = "releasing"]
  /\ UNCHANGED <<size, active, resizes>>

Woken == [c \in Clients |-> IF pc[c] = "parked" THEN "woken" ELSE pc[c]]

(* slot()'s "finally", once it has the lock *)
Release(c) ==
  /\ pc[c] = "releasing"
  /\ active' = active - 1
  /\ pc' = [Woken EXCEPT ![c] = "idle"]
  /\ UNCHANGED <<size, aimd, faults, resizes>>

(* a task of _wake_waiters *)
Wake ==
  /\ waking > 0 /\ waking' = waking - 1
  /\ pc' = Woken
  /\ UNCHANGED <<size, limit, active, streak, cooling, faults, resizes>>

CooldownEnds ==
  /\ cooling /\ cooling' = FALSE
  /\ UNCHANGED <<size, limit, active, streak, waking, pc, faults, resizes>>

(* the size setter, from apply_settings: a lower size bites at once, a higher
   one is only room to recover into *)
Resize(n) ==
  /\ resizes < MaxResizes /\ resizes' = resizes + 1
  /\ size' = n
  /\ limit' = IF n < limit THEN n ELSE limit
  /\ UNCHANGED <<active, streak, cooling, waking, pc, faults>>

Next ==
  \/ \E c \in Clients : Enter(c) \/ Finish(c) \/ Release(c)
  \/ Wake \/ CooldownEnds
  \/ \E n \in Sizes : Resize(n)

Spec == Init /\ [][Next]_vars

(* Runs end, if only by the model client's timeout, and the event loop runs
   what can run; nobody has to come, and no order among those woken is promised. *)
FairSpec ==
  /\ Spec
  /\ WF_vars(Wake)
  /\ \A c \in Clients : WF_vars(Finish(c)) /\ WF_vars(Release(c))

-----------------------------------------------------------------------------
(* Types; and the limit stays between 1 and size, whatever 429s, successes and
   resizes come in whatever order. *)
TypeOK ==
  /\ size \in Sizes /\ limit \in 1 .. size
  /\ active \in Nat /\ streak \in 0 .. RecoverAfter - 1
  /\ cooling \in BOOLEAN /\ waking \in Nat
  /\ pc \in [Clients -> {"idle", "parked", "woken", "running", "releasing"}]
  /\ faults \in 0 .. MaxFaults /\ resizes \in 0 .. MaxResizes

Holders == {c \in Clients : pc[c] \in {"running", "releasing"}}

(* No permit leaks and none is given twice, however bodies end. *)
PermitsAccounted == active = Cardinality(Holders)

(* No lost wakeup: a client is parked only while the limit is reached, or a
   task that will wake it is on its way. *)
NoIdleCapacity ==
  \A c \in Clients : pc[c] = "parked" => active >= limit \/ waking > 0

(* After a cut or a resize more may run than the limit allows; until they have
   drained nobody else gets in. *)
OverLimitDrains == [][active' > limit' => active' <= active]_vars

(* If runs keep ending and the last of them to fail has failed, the limit is in
   the end back at the operator's size for good. *)
Recovers ==
  ([]<> \E c \in Clients : pc[c] = "releasing") => <>[](limit = size)
=============================================================================
