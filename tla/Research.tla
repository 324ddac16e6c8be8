------------------------------ MODULE Research ------------------------------
(* The research assistant (src/research_domain over src/substrate): three agents
   read a corpus and a shared log of claims, and append what they find.  The
   extractor proposes the claims of a document, the verifier corroborates a claim
   or refutes it, the retractor settles a contradiction.  What an agent works on
   and how it checks its model's answer come from lookups that are rebuilt from the
   whole log, under a lock, after each batch of appends.  Other processes append to
   the same log with the command line, anything that parses as JSON. *)
EXTENDS Naturals, Sequences, SequencesExt, FiniteSets

CONSTANTS
  Jobs,           \* bound: what an instance is about, see job below
  Unreadable,     \* the documents that do not decode as text
  Nil,
  MaxConcurrent,  \* runs in flight, the dispatch pool of cli.py
  MaxClaims, MaxLog   \* bounds

Agents == {"extractor", "verifier", "retractor"}

ASSUME ResearchAssumption ==
  /\ \A j \in Jobs :
       /\ j.corpus \in Seq(ToSet(j.corpus)) /\ Cardinality(ToSet(j.corpus)) = Len(j.corpus)
       /\ Nil \notin ToSet(j.corpus) \cup j.texts
       /\ j.drafts \in Nat \ {0} /\ j.troubles \in Nat
  /\ MaxConcurrent \in Nat \ {0} /\ MaxClaims \in Nat /\ MaxLog \in Nat

VARIABLES
  job,      \* the corpus in the order of its names; bounds: what claims say (normalised),
            \* how many a document has, and how much trouble there is
  stream,   \* the stream of substrate_events; rows are never changed or removed
  seen,     \* the lookups are those of this prefix of the stream
  results,  \* the prefix each projection was last recomputed from
  up,       \* the process of "run" is there
  runs,     \* what each agent is at: [pc, item, batch, snap]
  passed,   \* the items an agent found nothing to do about, in memory
  minted,   \* claim identifiers handed out
  troubles  \* faults, stops and events of other processes so far

researchVars == <<job, stream, seen, results, up, runs, passed, minted, troubles>>
world == <<job, up, troubles>>

Docs == ToSet(job.corpus)

-----------------------------------------------------------------------------
(* Events.  "junk" is an event of another process without the fields of its type. *)
Event(type, claim, target, source, text, origin) ==
  [type |-> type, claim |-> claim, target |-> target, source |-> source, text |-> text,
   origin |-> origin, by |-> "agent"]
Proposed(c, source, text, origin) == Event("proposed", c, Nil, source, text, origin)
Corroborated(c, source) == Event("corroborated", c, Nil, source, Nil, Nil)
Refuted(c, target) == Event("refuted", c, target, Nil, Nil, Nil)
Corrected(c, target) == Event("corrected", c, target, Nil, Nil, Nil)

Earliest(S) == CHOOSE i \in S : \A j \in S : i <= j

(* A refresh reads the events in order and breaks off at one it cannot read *)
ReadableTo(n) ==
  LET junk == {i \in 1 .. n : stream[i].type = "junk"}
  IN IF junk = {} THEN n ELSE Earliest(junk) - 1

(* The lookups of the prefix that was seen; events go by their places in the stream *)
Known(type) == {i \in 1 .. seen : stream[i].type = type}
ListClaims == Known("proposed")
ClaimOf(c) == stream[CHOOSE i \in ListClaims : stream[i].claim = c]
CorroboratorsFor(c) == {stream[i].source : i \in {k \in Known("corroborated") : stream[k].claim = c}}
RefutersFor(c) == {stream[i].claim : i \in {k \in Known("refuted") : stream[k].target = c}}
SupersedersFor(c) == {stream[i].claim : i \in {k \in Known("corrected") : stream[k].target = c}}
ExtractedSources == {stream[i].source : i \in {k \in ListClaims : stream[k].origin = "extracted"}}

-----------------------------------------------------------------------------
(* What is left to do, by place in the corpus or the stream; an agent is ready as long
   as there is something *)
ExtractorWork ==
  {i \in DOMAIN job.corpus : job.corpus[i] \notin ExtractedSources \cup passed["extractor"]}
VerifierWork ==
  {i \in ListClaims : LET c == stream[i].claim IN
     CorroboratorsFor(c) = {} /\ RefutersFor(c) = {} /\ c \notin passed["verifier"]}
RetractorWork ==
  {i \in Known("refuted") : LET c == stream[i].target IN
     SupersedersFor(c) = {} /\ c \notin passed["retractor"]}
Workable(a) ==
  CASE a = "extractor" -> ExtractorWork [] a = "verifier" -> VerifierWork [] a = "retractor" -> RetractorWork
ItemAt(a, i) ==
  CASE a = "extractor" -> job.corpus[i] [] a = "verifier" -> stream[i].claim [] a = "retractor" -> stream[i].target

At(pc, item, batch, snap) == [pc |-> pc, item |-> item, batch |-> batch, snap |-> snap]
AtRest == At("idle", Nil, <<>>, 0)
Goes(a, r) == runs' = [runs EXCEPT ![a] = r]
Ends(a) == Goes(a, AtRest)

(* The first of its items goes to the agent's model; a document that cannot be read
   fails the run before that, whenever it comes up *)
Ask(a) ==
  /\ up /\ runs[a].pc = "idle" /\ Cardinality({b \in Agents : runs[b].pc # "idle"}) < MaxConcurrent
  /\ Workable(a) # {}
  /\ LET item == ItemAt(a, Earliest(Workable(a))) IN
       /\ item \notin Unreadable
       /\ Goes(a, At("asked", item, <<>>, 0))
  /\ UNCHANGED <<stream, seen, results, passed, minted, world>>

-----------------------------------------------------------------------------
(* The answers, checked against the lookups as they are when it comes, without the
   lock.  Extractor: the claims of the document that are not known of it yet. *)
NewTexts(d) == {t \in job.texts : \A i \in ListClaims : <<stream[i].source, stream[i].text>> # <<d, t>>}
ExtractorBatch(d, texts) == [i \in DOMAIN texts |-> Proposed(minted + i, d, texts[i], "extracted")]

(* Verifier: the sources that bear the claim out, and who says otherwise; a counter-
   claim that is known is cited, a new one is proposed first *)
NewSupport(c) == (Docs \ CorroboratorsFor(c)) \ {ClaimOf(c).source}
CounterclaimBackwards(c, r) == <<Refuted(minted + 1, c), Proposed(minted + 1, r[1], r[2], "verification")>>
Counterclaim(c, r) == <<Proposed(minted + 1, r[1], r[2], "verification"), Refuted(minted + 1, c)>>
RefutationEvents(c, r) ==
  LET same == {i \in ListClaims : <<stream[i].source, stream[i].text>> = r}
      known == stream[Earliest(same)].claim
  IN IF r = Nil THEN <<>>
     ELSE IF same = {} THEN Counterclaim(c, r)
     ELSE IF known \in RefutersFor(c) THEN <<>> ELSE <<Refuted(known, c)>>
VerifierBatch(c, support, r) ==
  [i \in DOMAIN support |-> Corroborated(c, support[i])] \o RefutationEvents(c, r)

(* Retractor: claims that refute the target take its place, unless one has; what the
   model repeats is appended again *)
Rivals(c) == IF SupersedersFor(c) = {} THEN RefutersFor(c) ELSE {}
RetractorBatch(c, picks) == [i \in DOMAIN picks |-> Corrected(picks[i], c)]

Mints(batch) == Cardinality({i \in DOMAIN batch : batch[i].type = "proposed"})

PassesForgotten(a) == passed
PassesOn(a) == [passed EXCEPT ![a] = @ \cup {runs[a].item}]

Answers(a, batch) ==
  /\ IF batch = <<>>
       THEN Ends(a) /\ passed' = PassesOn(a) /\ minted' = minted
       ELSE /\ minted + Mints(batch) <= MaxClaims /\ Len(stream) + Len(batch) <= MaxLog
            /\ Goes(a, At("ready", runs[a].item, batch, 0))
            /\ minted' = minted + Mints(batch) /\ passed' = passed
  /\ UNCHANGED <<stream, seen, results, world>>

(* What the models may answer *)
Distinct(S, n) == {s \in BoundedSeq(S, n) : IsInjective(s)}
Answer(a) ==
  LET item == runs[a].item IN
  /\ runs[a].pc = "asked"
  /\ \/ /\ a = "extractor"
        /\ \E texts \in Distinct(NewTexts(item), job.drafts) : Answers(a, ExtractorBatch(item, texts))
     \/ /\ a = "verifier"
        /\ \E support \in Distinct(NewSupport(item), Len(job.corpus)), r \in {Nil} \cup (Docs \X job.texts) :
             Answers(a, VerifierBatch(item, support, r))
     \/ /\ a = "retractor"
        /\ \E picks \in BoundedSeq(Rivals(item), 2) : Answers(a, RetractorBatch(item, picks))

-----------------------------------------------------------------------------
(* append_events: the lock, the events one by one, the refresh *)
Holds(pc) == pc \in {"append", "read", "apply", "project"}
Locked == \E a \in Agents : Holds(runs[a].pc)
NotLocked == TRUE
LockFree == ~Locked

TakeLock(a) ==
  /\ runs[a].pc = "ready" /\ LockFree
  /\ Goes(a, At("append", runs[a].item, runs[a].batch, 0))
  /\ UNCHANGED <<stream, seen, results, passed, minted, world>>

AppendOne(a) ==
  /\ runs[a].pc = "append" /\ runs[a].batch # <<>>
  /\ stream' = Append(stream, Head(runs[a].batch))
  /\ LET rest == Tail(runs[a].batch)
     IN Goes(a, At(IF rest = <<>> THEN "read" ELSE "append", runs[a].item, rest, 0))
  /\ UNCHANGED <<seen, results, passed, minted, world>>

ReadStream(a) ==
  /\ runs[a].pc = "read"
  /\ Goes(a, At("apply", runs[a].item, <<>>, Len(stream)))
  /\ UNCHANGED <<stream, seen, results, passed, minted, world>>

(* _refresh_lookup_dicts: cleared and filled again in one go *)
RefreshLookups(a) ==
  /\ runs[a].pc = "apply"
  /\ seen' = ReadableTo(runs[a].snap)
  /\ IF seen' = runs[a].snap THEN Goes(a, At("project", runs[a].item, <<>>, seen')) ELSE Ends(a)
  /\ UNCHANGED <<stream, results, passed, minted, world>>

(* catch_up of the base class reads the stream again, and asks the lookups for every key
   it finds there: one that is not in them yet fails the run, and the projections
   after it keep what they had *)
Projections == <<"proposed", "refuted", "corrected">>
Key(e) == IF e.type = "proposed" THEN e.source ELSE e.target
KeysIn(type, n) == {Key(stream[i]) : i \in {j \in 1 .. n : stream[j].type = type}}
Complete(k) ==
  /\ KeysIn(Projections[k], Len(stream)) \subseteq KeysIn(Projections[k], seen)
  /\ ReadableTo(Len(stream)) = Len(stream)
CatchUp(a) ==
  /\ runs[a].pc = "project"
  /\ results' = [k \in 1 .. 3 |-> IF \A j \in 1 .. k : Complete(j) THEN seen ELSE results[k]]
  /\ Ends(a)
  /\ UNCHANGED <<stream, seen, passed, minted, world>>

Trouble == troubles < job.troubles /\ troubles' = troubles + 1

(* A model that fails or answers out of shape; a store that refuses an append, with
   the events before it in the stream and nothing read back; a store that refuses
   either of the two reads after it *)
Fails(a) ==
  /\ runs[a].pc \in {"asked", "append", "read", "project"} /\ Trouble /\ Ends(a)
  /\ UNCHANGED <<job, stream, seen, results, up, passed, minted>>

-----------------------------------------------------------------------------
(* The command line: "append" of another process.  An identifier that is used again,
   and a field of another type than the agents give it, are left out. *)
FromOutside(e) == stream' = Append(stream, [e EXCEPT !.by = "cli"])
AppendForeign ==
  /\ Trouble /\ Len(stream) < MaxLog
  /\ \/ FromOutside(Event("junk", Nil, Nil, Nil, Nil, Nil)) /\ minted' = minted
     \/ \E d \in Docs, t \in job.texts :
          /\ minted < MaxClaims /\ minted' = minted + 1
          /\ FromOutside(Proposed(minted + 1, d, t, "extracted"))
     \/ \E i, j \in {k \in 1 .. Len(stream) : stream[k].type = "proposed"} :
          /\ \/ FromOutside(Refuted(stream[i].claim, stream[j].claim))
             \/ FromOutside(Corrected(stream[i].claim, stream[j].claim))
          /\ minted' = minted
     \/ \E i \in {k \in 1 .. Len(stream) : stream[k].type = "proposed"}, d \in Docs :
          FromOutside(Corroborated(stream[i].claim, d)) /\ minted' = minted
  /\ UNCHANGED <<job, seen, results, up, runs, passed>>

(* "run" starts by reading the stream, and does not start if it cannot *)
Start ==
  /\ ~up /\ ReadableTo(Len(stream)) = Len(stream)
  /\ up' = TRUE /\ seen' = Len(stream) /\ results' = [k \in 1 .. 3 |-> seen']
  /\ UNCHANGED <<job, stream, runs, passed, minted, troubles>>

Stop ==
  /\ up /\ Trouble
  /\ up' = FALSE /\ seen' = 0 /\ results' = [k \in 1 .. 3 |-> 0]
  /\ runs' = [a \in Agents |-> AtRest] /\ passed' = [a \in Agents |-> {}]
  /\ UNCHANGED <<job, stream, minted>>

ResearchInit ==
  /\ job \in Jobs
  /\ stream = <<>> /\ seen = 0 /\ results = [k \in 1 .. 3 |-> 0] /\ up = FALSE
  /\ runs = [a \in Agents |-> AtRest] /\ passed = [a \in Agents |-> {}]
  /\ minted = 0 /\ troubles = 0

Commits(a) == AppendOne(a) \/ ReadStream(a) \/ RefreshLookups(a) \/ CatchUp(a)
ResearchNext ==
  \/ \E a \in Agents :
       Ask(a) \/ Answer(a) \/ TakeLock(a) \/ Commits(a) \/ Fails(a)
  \/ AppendForeign \/ Start \/ Stop

(* Every model answers some day; the lock is handed on in the order it was asked for,
   and so are the places in the pool, by the scheduler *)
ResearchFairness ==
  /\ WF_researchVars(Start)
  /\ \A a \in Agents :
       /\ SF_researchVars(Ask(a)) /\ WF_researchVars(Answer(a))
       /\ SF_researchVars(TakeLock(a)) /\ WF_researchVars(Commits(a))
ResearchSpec == ResearchInit /\ [][ResearchNext]_researchVars /\ ResearchFairness

-----------------------------------------------------------------------------
Facts ==
  [type : {"proposed", "corroborated", "refuted", "corrected", "junk"},
   claim : Nat \cup {Nil}, target : Nat \cup {Nil}, source : Docs \cup {Nil},
   text : job.texts \cup {Nil}, origin : {"extracted", "verification", Nil}, by : {"agent", "cli"}]
RunsOf(a) ==
  [pc : {"idle", "asked", "ready", "append", "read", "apply", "project"},
   item : IF a = "extractor" THEN Docs \cup {Nil} ELSE Nat \cup {Nil},
   batch : Seq(Facts), snap : 0 .. Len(stream)]

ResearchTypeOK ==
  /\ job \in Jobs /\ stream \in Seq(Facts) /\ seen \in 0 .. Len(stream)
  /\ results \in [1 .. 3 -> 0 .. Len(stream)]
  /\ up \in BOOLEAN /\ minted \in Nat /\ troubles \in Nat
  /\ runs \in [Agents -> RunsOf("extractor") \cup RunsOf("verifier")]
  /\ \A a \in Agents : runs[a] \in RunsOf(a)

(* What an agent appended rests on what was in the stream before it, whatever part of a
   batch a fault let through: a claim is corroborated or refuted after it was
   proposed, by a claim that was, and corrected only by one that refuted it. *)
RestsOn(e, past) ==
  LET proposed(c) == \E x \in past : x.type = "proposed" /\ x.claim = c
  IN /\ e.type = "corroborated" => proposed(e.claim)
     /\ e.type = "refuted" => proposed(e.claim) /\ proposed(e.target)
     /\ e.type = "corrected" =>
          \E x \in past : x.type = "refuted" /\ x.claim = e.claim /\ x.target = e.target
EventsTo(n) == {stream[j] : j \in 1 .. n}
CitationsHold ==
  \A i \in 1 .. Len(stream) : stream[i].by = "agent" => RestsOn(stream[i], EventsTo(i - 1))

(* While the process lives, what its agents see of the stream never shrinks, however the
   refreshes of two agents come together. *)
SeenNeverGoesBack == [][up /\ up' => seen' >= seen]_researchVars

(* As long as no one has put an event into the stream that cannot be read, the agents
   settle what they know of, through faults and restarts: each document before the
   first that cannot be read, each claim and each contradiction.  What they know of
   is all there is if nothing went wrong and no one else wrote; otherwise it is what
   was there at the last batch of their own, or at the start: an event of another
   process, or the landed half of a batch that a fault cut, is read only then. *)
Poisoned == ReadableTo(Len(stream)) # Len(stream)
Settled ==
  /\ ExtractorWork = {} \/ job.corpus[Earliest(ExtractorWork)] \in Unreadable
  /\ VerifierWork = {} /\ RetractorWork = {}
KnowAll == seen = Len(stream)
QueueDrains == <>[](Poisoned \/ (up /\ Settled /\ (troubles = 0 => KnowAll)))
=============================================================================
