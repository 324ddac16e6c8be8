-------------------------------- MODULE Flags --------------------------------
(* The review queue: flags that agents file, Triage judges (agents/triage.py),
   the owners of their category resolve or decline (agents/retconner.py,
   curator.py), FlagLabeler titles (flaglabeler.py) and a person takes off the
   escalations screen (tui/escalations_screen.py).

   The lifecycle of canon/flags.py is guarded on the copy of the flag its user
   polled, every event but a label carries that whole copy with its change, and
   canon/projections/flags.py installs it as it is.

   Repairs of canon, wording and gating are left out: a gated resolution is one
   that is appended late or never. *)
EXTENDS Naturals, Sequences, FiniteSets

CONSTANTS
  Ids,          \* flags
  Says,         \* what each is about
  Filings,      \* who is at work, what is filed under which category, and how
                \* many events the projector is behind: cases, tried one by one
  Owner,        \* _CATEGORY_OWNERS: who a category belongs to; None: Triage
  Polls,        \* the categories each decider polls
  Vocabulary,   \* the categories Triage's model may move an unowned flag to
  Verdicts,     \* what Triage's model says of a flag, a severity or "dismiss"
  Mute,         \* flags on which every model call fails
  STALE_AFTER,
  MaxPending,   \* bound: events the projector is ever behind
  MaxFailures,  \* bound: other runs that fail
  MaxClears,    \* bound: flags a person selects to clear
  None

Deciders == DOMAIN Polls
Categories == DOMAIN Owner

ASSUME FlagsAssumption ==
  /\ "triage" \in Deciders /\ Polls \in [Deciders -> SUBSET Categories]
  /\ \A c \in Filings : /\ c.crew \subseteq Deciders \cup {"flaglabeler", "human"}
                         /\ \E some \in SUBSET Ids : c.category \in [some -> Categories]
                         /\ c.lag \in Nat
  /\ Vocabulary \subseteq Categories
  /\ \A c \in Vocabulary : Owner[c] # None
  /\ Verdicts \subseteq {"dismiss", "minor", "critical"}
  /\ Mute \subseteq Ids /\ DOMAIN Says = Ids
  /\ STALE_AFTER \in Nat \ {0} /\ MaxPending \in Nat /\ MaxFailures \in Nat /\ MaxClears \in Nat

VARIABLES
  records,   \* flags.data, the column with the record, by id
  cols,      \* flags.status and flags.escalated, the columns beside it
  queue,     \* the ids in the order of their rows
  pending,   \* the events the projector has not folded
  filed,     \* the flags filed so far
  filing,    \* the case of this behaviour
  run,       \* what each decider at work polled, and has still to commit
  deferred,  \* what each has put off
  labels,    \* the flags FlagLabeler has still to label
  held,      \* the copy of a flag selected on the screen
  clears,
  failures

rows == <<records, cols, queue>>
flagVars == <<rows, pending, filed, filing, run, deferred, labels, held, clears, failures>>

New(i) == [category |-> filing.category[i], status |-> "open", title |-> FALSE, severity |-> "none",
           escalated |-> FALSE, passes |-> 0, attempts |-> 0]

FlagInit ==
  /\ records = [i \in Ids |-> None] /\ cols = [i \in Ids |-> None] /\ queue = <<>>
  /\ pending = <<>> /\ filed = {} /\ filing \in Filings
  /\ run = [d \in Deciders |-> None] /\ deferred = [d \in Deciders |-> {}]
  /\ labels = {} /\ held = None /\ clears = 0 /\ failures = 0

-----------------------------------------------------------------------------
(* canon/flags.py                                                          *)

TERMINAL_FLAG_STATES == {"resolved", "rejected", "stale"}
FAILURE_ESCALATION_THRESHOLD == 3

may_decide(f) == f.status \notin TERMINAL_FLAG_STATES
may_escalate(f) == ~ f.escalated
may_clear_escalation(f) == f.escalated

mark_declined(f) == [f EXCEPT !.status = "rejected", !.attempts = @ + 1]
mark_dismissed(f) == [f EXCEPT !.status = "rejected"]
mark_resolved(f) == [f EXCEPT !.status = "resolved"]
mark_stale(f) == [f EXCEPT !.status = "stale", !.passes = @ + 1]
mark_escalated(f) == [f EXCEPT !.escalated = TRUE]
mark_escalation_cleared(f) == [f EXCEPT !.escalated = FALSE]

should_escalate_after_failure(f) ==
  f.attempts >= FAILURE_ESCALATION_THRESHOLD /\ may_escalate(f)

-----------------------------------------------------------------------------
(* canon/projections/flags.py                                              *)

(* mutant: only the columns learn of an escalation's end *)
WriteColumnsOnly(e) ==
  /\ records' = IF e.type = "cleared" /\ records[e.id] # None THEN records
             ELSE [records EXCEPT ![e.id] = e.flag]
  /\ cols' = [cols EXCEPT ![e.id] = [status |-> e.flag.status,
                                     escalated |-> IF e.type = "escalated" THEN TRUE
                                                   ELSE IF e.type = "cleared" THEN FALSE
                                                   ELSE e.flag.escalated]]

(* _write_flag: the payload is the row *)
WriteFlag(e) ==
  /\ records' = [records EXCEPT ![e.id] = e.flag]
  /\ cols' = [cols EXCEPT ![e.id] = [status |-> e.flag.status,
                                     escalated |-> IF e.type = "escalated" THEN TRUE
                                                   ELSE IF e.type = "cleared" THEN FALSE
                                                   ELSE e.flag.escalated]]

(* flag_labeled: patches the title into the record there is *)
Label(e) ==
  /\ records' = [records EXCEPT ![e.id].title = TRUE]
  /\ UNCHANGED cols

Queued == {queue[k] : k \in DOMAIN queue}

ProjectOne ==
  LET e == Head(pending) IN
  /\ pending # <<>> /\ pending' = Tail(pending)
  /\ IF e.type = "labeled" THEN Label(e) ELSE WriteFlag(e)
  /\ queue' = IF e.id \in Queued THEN queue ELSE Append(queue, e.id)
  /\ UNCHANGED <<filed, filing, run, deferred, labels, held, clears, failures>>

Event(type, i, f) == [type |-> type, id |-> i, flag |-> f]

Commit(e) ==
  /\ Len(pending) < MaxPending /\ Len(pending) < filing.lag
  /\ pending' = Append(pending, e)

(* read_store.list_flags(status="open"): chosen by the column, read from data *)
Open == {i \in Queued : cols[i].status = "open"}

(* _commit_flag_drafts: nothing that an open flag of the category says already *)
File(i) ==
  /\ i \in DOMAIN filing.category \ filed
  /\ \A j \in Open : ~ (Says[j] = Says[i] /\ records[j].category = filing.category[i])
  /\ Commit(Event("created", i, New(i))) /\ filed' = filed \cup {i}
  /\ UNCHANGED <<rows, filing, run, deferred, labels, held, clears, failures>>

-----------------------------------------------------------------------------
(* The deciders: Triage over every category, an owner over its own         *)

Mine(d) == {i \in Open : records[i].category \in Polls[d]}

(* mutant: a flag is not put off for the ones behind it *)
CandidatesInOrder(d) == Mine(d)

Candidates(d) == IF Mine(d) \subseteq deferred[d] THEN Mine(d) ELSE Mine(d) \ deferred[d]

(* poll: the deferred that are open still, or none once all of them are *)
Kept(d) == IF Mine(d) \subseteq deferred[d] THEN {} ELSE Mine(d) \cap deferred[d]

(* The first in the order of the rows is taken. *)
Poll(d) ==
  /\ d \in filing.crew /\ run[d] = None
  /\ \E k \in DOMAIN queue :
       /\ queue[k] \in Candidates(d) /\ \A j \in 1 .. k - 1 : queue[j] \notin Candidates(d)
       /\ run' = [run EXCEPT ![d] = [id |-> queue[k], flag |-> records[queue[k]], todo |-> <<>>]]
  /\ deferred' = [deferred EXCEPT ![d] = Kept(d)]
  /\ UNCHANGED <<rows, pending, filed, filing, labels, held, clears, failures>>

(* An unowned flag that stays unowned ages. *)
Aged(i, f) ==
  IF f.passes + 1 >= STALE_AFTER THEN <<Event("rejected", i, mark_stale(f))>>
  ELSE <<Event("created", i, [f EXCEPT !.passes = @ + 1])>>

(* Triage.commit: what it appends for a verdict on the copy it polled; "" is
   no reclassification *)
Judged(i, f, verdict, category) ==
  IF verdict = "dismiss" THEN <<Event("rejected", i, mark_dismissed(f))>>
  ELSE LET graded == [f EXCEPT !.severity = verdict]
           raised == verdict = "critical" /\ may_escalate(graded)
           g == IF raised THEN mark_escalated(graded) ELSE graded
           first == IF raised THEN <<Event("escalated", i, g)>> ELSE <<>>
       IN first \o
          (IF Owner[f.category] # None
           THEN IF g # f THEN <<Event("created", i, g)>> ELSE <<>>
           ELSE IF category \in Vocabulary
                THEN <<Event("created", i, [g EXCEPT !.category = category])>>
                ELSE Aged(i, g))

(* _decline, or the end of commit once canon is repaired *)
Declined(i, f) ==
  LET g == mark_declined(f) IN
  <<Event("rejected", i, g)>> \o
    (IF should_escalate_after_failure(g) THEN <<Event("escalated", i, mark_escalated(g))>>
     ELSE <<>>)

Resolved(i, f) ==
  LET g == mark_resolved(f) IN
  <<Event("resolved", i, g)>> \o
    (IF may_clear_escalation(g) THEN <<Event("cleared", i, mark_escalation_cleared(g))>>
     ELSE <<>>)

(* What a run makes of its flag, event by event; run discards a deferral when it
   is through. *)
GoOn(d, todo) ==
  /\ IF todo = <<>> THEN UNCHANGED pending ELSE Commit(Head(todo))
  /\ IF Len(todo) > 1
     THEN run' = [run EXCEPT ![d].todo = Tail(todo)] /\ UNCHANGED deferred
     ELSE /\ run' = [run EXCEPT ![d] = None]
          /\ deferred' = [deferred EXCEPT ![d] = @ \ {run[d].id}]
  /\ UNCHANGED <<rows, filed, filing, labels, held, clears, failures>>

Answer(d) ==
  /\ run[d] # None /\ run[d].todo = <<>> /\ run[d].id \notin Mute
  /\ LET i == run[d].id
         f == run[d].flag
     IN \/ ~ may_decide(f) /\ GoOn(d, <<>>)
        \/ /\ may_decide(f) /\ d = "triage"
           /\ \E v \in Verdicts, c \in Vocabulary \cup {""} : GoOn(d, Judged(i, f, v, c))
        \/ /\ may_decide(f) /\ d # "triage"
           /\ GoOn(d, Declined(i, f)) \/ GoOn(d, Resolved(i, f))

Append1(d) == run[d] # None /\ run[d].todo # <<>> /\ GoOn(d, run[d].todo)

(* The model gives nothing, or the run raises at one of its awaits: the flag is
   put off. *)
PutOff(d) ==
  /\ run[d] # None
  /\ \/ run[d].id \in Mute /\ UNCHANGED failures
     \/ run[d].id \notin Mute /\ failures < MaxFailures /\ failures' = failures + 1
  /\ run' = [run EXCEPT ![d] = None]
  /\ deferred' = [deferred EXCEPT ![d] = @ \cup {run[d].id}]
  /\ UNCHANGED <<rows, pending, filed, filing, labels, held, clears>>

-----------------------------------------------------------------------------
(* FlagLabeler polls the open flags without a title; one whose call fails is
   left for the next poll. *)
Untitled == {i \in Open : ~ records[i].title} \ Mute

LabelerPoll ==
  /\ "flaglabeler" \in filing.crew
  /\ labels = {} /\ Untitled # {} /\ labels' = Untitled
  /\ UNCHANGED <<rows, pending, filed, filing, run, deferred, held, clears, failures>>

LabelerCommits ==
  /\ \E i \in labels :
       /\ labels' = labels \ {i}
       /\ Commit(Event("labeled", i, None))
  /\ UNCHANGED <<rows, filed, filing, run, deferred, held, clears, failures>>

(* A person selects an escalated flag, and clears the copy selected. *)
Select(i) ==
  /\ "human" \in filing.crew
  /\ held = None /\ i \in Queued /\ cols[i].escalated
  /\ clears < MaxClears /\ clears' = clears + 1
  /\ held' = [id |-> i, flag |-> records[i]]
  /\ UNCHANGED <<rows, pending, filed, filing, run, deferred, labels, failures>>

ClearByHand ==
  /\ held # None /\ may_clear_escalation(held.flag)
  /\ Commit(Event("cleared", held.id, mark_escalation_cleared(held.flag)))
  /\ held' = None
  /\ UNCHANGED <<rows, filed, filing, run, deferred, labels, clears, failures>>

Decides(d) == Poll(d) \/ Answer(d) \/ Append1(d) \/ (run[d] # None /\ run[d].id \in Mute /\ PutOff(d))

FlagNext ==
  \/ ProjectOne
  \/ \E i \in Ids : File(i) \/ Select(i)
  \/ \E d \in Deciders : Poll(d) \/ Answer(d) \/ Append1(d) \/ PutOff(d)
  \/ LabelerPoll \/ LabelerCommits \/ ClearByHand

FlagSpec == FlagInit /\ [][FlagNext]_flagVars

(* The projector loop runs on and an agent with work is dispatched in turn; on a
   flag that is not mute a model answers in the end, whatever it says.  Only the
   bound MaxPending can hold up an append, hence the strong fairness. *)
FairFlagSpec ==
  /\ FlagSpec
  /\ WF_flagVars(ProjectOne)
  /\ \A d \in Deciders : SF_flagVars(Decides(d))
  /\ SF_flagVars(LabelerPoll \/ LabelerCommits)

-----------------------------------------------------------------------------
FlagRecord ==
  [category : Categories, status : {"open"} \cup TERMINAL_FLAG_STATES, title : BOOLEAN,
   severity : {"none", "minor", "critical"}, escalated : BOOLEAN,
   passes : 0 .. STALE_AFTER, attempts : Nat]

(* None is no record. *)
ASSUME NoneAssumption ==
  None \notin FlagRecord /\ None \notin [status : {"open"} \cup TERMINAL_FLAG_STATES,
                                          escalated : BOOLEAN]

(* Every variable keeps its type. *)
FlagTypeOK ==
  /\ \A i \in Ids : /\ records[i] = None \/ records[i] \in FlagRecord
                    /\ records[i] = None <=> cols[i] = None
                    /\ records[i] = None <=> i \notin Queued
  /\ \A j, k \in DOMAIN queue : queue[j] = queue[k] => j = k
  /\ Len(pending) <= MaxPending
  /\ \A k \in DOMAIN pending :
       /\ pending[k].type \in {"created", "rejected", "resolved", "escalated", "cleared",
                               "labeled"}
       /\ pending[k].id \in filed
       /\ pending[k].type = "labeled" \/ pending[k].flag \in FlagRecord
  /\ filed \subseteq Ids /\ filing \in Filings /\ labels \subseteq filed
  /\ \A d \in Deciders : deferred[d] \subseteq filed
  /\ failures \in 0 .. MaxFailures /\ clears \in 0 .. MaxClears

(* The columns a flag is chosen by and the record it is read from say the same
   of its status and its escalation, whichever of the events came last. *)
CopiesAgree ==
  \A i \in Ids : records[i] # None =>
    cols[i] = [status |-> records[i].status, escalated |-> records[i].escalated]

(* No flag has been declined twice, so none of the three failures that escalate
   one regardless of its severity ever adds up: a decline is final, and whoever
   reopens the flag writes back a copy that has not counted it. *)
DeclinedOnce == \A i \in Ids : records[i] # None => records[i].attempts <= 1

(* The record of a flag is one and counts right, whatever was written over what. *)
RecordsHold == CopiesAgree /\ DeclinedOnce

(* A flag whose category belongs to somebody, and nobody decides by it *)
Unattended(i) ==
  /\ records[i] # None /\ Owner[records[i].category] # None
  /\ \A d \in Deciders \ {"triage"} : records[i].category \notin Polls[d]

IsOpen(i) == records[i] # None /\ records[i].status = "open"

(* One that stands before it in the queue is open and unattended: judged real
   time after time it is Triage's first candidate for good. *)
HeldUp(i) ==
  \E j, k \in DOMAIN queue :
    j < k /\ queue[k] = i /\ IsOpen(queue[j]) /\ Unattended(queue[j])

(* Every open flag is decided in the end, by Triage, by age ("so it doesn't loop
   forever", agents/triage.py) or by the owner it was passed to, whichever flags
   are mute and however late the read model: unless it, or one before it, has
   been given a category that no owner polls. *)
FlagsRunTheirCourse ==
  \A i \in Ids \ Mute : IsOpen(i) ~> (~ IsOpen(i) \/ Unattended(i) \/ HeldUp(i))

(* The owner of a category polls its open flags "for its own resolution work"
   (agents/triage.py, _CATEGORY_OWNERS), so that a flag left open for its owner
   is decided.  The Structure Analyst, the Plotter, and the Retconner in its
   second category, poll no flags: one of theirs stays open. *)
OwnersCome ==
  \A i \in Ids \ Mute :
    (IsOpen(i) /\ Owner[records[i].category] # None) ~> ~ IsOpen(i)

=============================================================================
