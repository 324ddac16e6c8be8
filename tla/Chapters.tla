------------------------------ MODULE Chapters ------------------------------
(* The life of the chapters: the Author drafts and rewrites them, the Editor
   approves them or sends them back, and the chapter workers (Attributor,
   Summarizer, Continuity Checker, Character Keeper) go over each of them after
   every revision.

   They meet only in the event log and in its read model, which lags.  Every
   run of an agent reads once, thinks for as long as its model takes, and
   commits what it then makes of what it had read.  What a run commits besides
   chapters, signals, stamps and the first member of the cast is left out, and
   so is gating: every event below goes straight to the log.

   A text is the number of its version, and whether it still carries its
   speaker markup.  Chapters are numbered in the order they were created,
   which is the order of their rows. *)
EXTENDS Integers, Sequences, FiniteSets

CONSTANTS
  N,             \* bound: the chapters written
  Workers,       \* the chapter workers
  Goal,          \* the crews of workers tried, the others being paused, and
                 \* bounds for each: the chapters written, the signals open,
                 \* the events the projector is behind
  MaxRevisions,  \* MAX_REVISIONS
  Room,          \* with so many drafts the Author stands down
  MaxVersion,    \* bound: versions of a chapter told apart
  MaxSignals,    \* bound: revise signals open at once
  MaxPending,    \* bound: events the projector is ever behind
  MaxFaults,     \* bound: runs that fail, and chapters a model fails on
  None

Ids == 1 .. MaxSignals
Texts == [version : 1 .. MaxVersion, marked : BOOLEAN]

ASSUME ChaptersAssumption ==
  /\ N \in Nat \ {0} /\ MaxVersion \in Nat \ {0} /\ MaxSignals \in Nat \ {0}
  /\ MaxPending \in Nat \ {0} /\ MaxFaults \in Nat /\ MaxRevisions \in Nat /\ Room \in Nat \ {0}
  /\ Workers \subseteq {"attributor", "summarizer", "miner", "keeper"}
  /\ DOMAIN Goal \subseteq SUBSET Workers
  /\ Goal \in [DOMAIN Goal -> [chapters : 1 .. N, signals : Ids, lag : 1 .. MaxPending]]
  /\ None \notin Texts

Records == [text : Texts, status : {"draft", "reviewed"}, revisions : 0 .. MaxRevisions + 1]
Signals == [id : Ids, ch : 1 .. N]

VARIABLES
  \* the log: what was written of each chapter, who is done with it, and what
  \* the projector has not folded yet
  written,  \* the version of each chapter that was last written
  done,     \* current_done_ids, of each worker
  pending,
  \* the read model
  book, notes, asked,
  cast,     \* somebody is in the cast
  \* the runs in progress
  author, editor, work,
  mark,     \* each worker's _last_fingerprint
  crew,     \* the workers at work
  faults

log == <<written, done, pending>>
model == <<book, notes, asked, cast>>
vars == <<log, model, author, editor, work, mark, crew, faults>>

Idle == [pc |-> "idle", asked |-> <<>>]
NoText == [c \in 1 .. N |-> None]

Init ==
  /\ written = <<>> /\ pending = <<>>
  /\ done = [w \in Workers |-> {}]
  /\ book = <<>> /\ asked = <<>> /\ cast = FALSE
  /\ notes = [w \in Workers |-> NoText]
  /\ author = Idle /\ editor = None
  /\ work = [w \in Workers |-> None]
  /\ mark = [w \in Workers |-> None] /\ faults = 0
  /\ crew \in DOMAIN Goal

-----------------------------------------------------------------------------
Append1(e) ==
  /\ Len(pending) < MaxPending /\ Len(pending) < Goal[crew].lag
  /\ pending' = Append(pending, e)

Least(m, n) == IF m < n THEN m ELSE n

Drafts == {c \in DOMAIN book : book[c].status = "draft"}

(* A run fails, times out or is given nothing it can use: at any point, with
   what it had committed until then. *)
Fault == faults < MaxFaults /\ faults' = faults + 1 /\ UNCHANGED crew

AuthorFails ==
  author # Idle /\ author' = Idle /\ Fault /\ UNCHANGED <<log, model, editor, work, mark>>
EditorFails ==
  editor # None /\ editor' = None /\ Fault /\ UNCHANGED <<log, model, author, work, mark>>
WorkerFails(w) ==
  /\ work[w] # None /\ work' = [work EXCEPT ![w] = None] /\ Fault
  /\ UNCHANGED <<log, model, author, editor, mark>>

(* The Author: ready while there is room for one more draft.  A rewrite would
   leave as many as there are, but waits for the same room; a director's
   override, which dispatches it regardless, is left out. *)
AuthorPolls ==
  /\ author = Idle /\ Cardinality(Drafts) < Room
  /\ asked = <<>> => Len(written) < Goal[crew].chapters
  /\ author' = [pc |-> "writing", asked |-> asked]
  /\ UNCHANGED <<log, model, editor, work, mark, crew, faults>>

(* A revise signal it polled comes before a new chapter; every signal it
   polled is then consumed. *)
AuthorWrites ==
  /\ author.pc = "writing"
  /\ IF author.asked # <<>>
       THEN LET c == Head(author.asked).ch IN
              /\ written' = [written EXCEPT ![c] = Least(@ + 1, MaxVersion)]
              /\ done' = [w \in Workers |-> done[w] \ {c}]
              /\ Append1([type |-> "revised", ch |-> c, version |-> written'[c]])
       ELSE /\ Len(written) < Goal[crew].chapters
            /\ written' = Append(written, 1) /\ UNCHANGED done
            /\ Append1([type |-> "created", ch |-> Len(written'), version |-> 1])
  /\ author' = IF author.asked = <<>> THEN Idle ELSE [author EXCEPT !.pc = "closing"]
  /\ UNCHANGED <<model, editor, work, mark, crew, faults>>

AuthorConsumes ==
  /\ author.pc = "closing"
  /\ Append1([type |-> "consumed", id |-> Head(author.asked).id])
  /\ author' = IF Tail(author.asked) = <<>> THEN Idle
               ELSE [author EXCEPT !.asked = Tail(@)]
  /\ UNCHANGED <<written, done, model, editor, work, mark, crew, faults>>

-----------------------------------------------------------------------------
(* The Editor: the first draft, as it stands in the read model *)
EditorPolls ==
  /\ editor = None /\ Drafts # {}
  /\ LET c == CHOOSE c \in Drafts : \A d \in Drafts : c <= d IN
       editor' = [ch |-> c, record |-> book[c]]
  /\ UNCHANGED <<log, model, author, work, mark, crew, faults>>

(* The whole record it read goes back, with a new status. *)
EditorApproves ==
  /\ editor # None
  /\ Append1([type |-> "status", ch |-> editor.ch,
              record |-> [editor.record EXCEPT !.status = "reviewed"]])
  /\ editor' = None
  /\ UNCHANGED <<written, done, model, author, work, mark, crew, faults>>

(* mutant: the budget is the model's to keep *)
MayAskAlways(record) == TRUE

MayAskAgain(record) == record.revisions < MaxRevisions

(* An identifier in use is in the read model, on its way there, or on its way
   out of it. *)
InUse ==
  {asked[i].id : i \in DOMAIN asked} \cup {author.asked[i].id : i \in DOMAIN author.asked}
    \cup {pending[i].id : i \in {j \in DOMAIN pending : pending[j].type \in {"signal", "consumed"}}}

(* With every identifier in use one more signal changes nothing: the Author
   takes all there are at once. *)
EditorSendsBack ==
  /\ editor # None /\ MayAskAgain(editor.record)
  /\ LET free == (1 .. Goal[crew].signals) \ InUse IN
       IF free = {} THEN pending' = pending
       ELSE Append1([type |-> "signal", ch |-> editor.ch,
                     id |-> CHOOSE id \in free : \A o \in free : id <= o])
  /\ editor' = None
  /\ UNCHANGED <<written, done, model, author, work, mark, crew, faults>>

-----------------------------------------------------------------------------
(* The chapters come from the read model, who is done from the log. *)
Unworked(w) == {c \in DOMAIN book : c \notin done[w]}

Fingerprint(w) == <<Len(book), Cardinality(Unworked(w))>>

(* Prose and nobody in the cast: the Keeper goes at once, whatever its mark. *)
Bootstraps(w) == w = "keeper" /\ book # <<>> /\ ~cast

(* The miner also judges the canon when no chapter waits, and the Keeper tends
   the cast; what else their fingerprints hold is left out. *)
Ready(w) ==
  \/ Bootstraps(w)
  \/ (w \in {"miner", "keeper"} \/ Unworked(w) # {}) /\ mark[w] # Fingerprint(w)

(* What fits the Keeper's budget: the oldest chapters, at least one of them.
   The others take every chapter that waits. *)
Selections(w) ==
  IF w # "keeper" THEN {Unworked(w)}
  ELSE {{c \in Unworked(w) : c <= last} : last \in Unworked(w)}
         \cup (IF Unworked(w) = {} THEN {{}} ELSE {})

WorkerPolls(w) ==
  /\ work[w] = None /\ Ready(w)
  /\ \E chosen \in Selections(w) :
       work' = [work EXCEPT ![w] =
         [seen |-> Len(book),
          \* with nobody in the cast and nothing to read its model is not asked
          mints |-> w = "keeper" /\ (cast \/ chosen # {}),
          texts |-> [c \in 1 .. N |-> IF c \in chosen THEN book[c].text ELSE None]]]
  /\ UNCHANGED <<log, model, author, editor, mark, crew, faults>>

(* One chapter is finished: its stamp says so.  The Attributor's carries the
   text it read, stripped of its markup; of the others' only the version of
   the text they are about is kept. *)
WorkerStamps(w, c) ==
  /\ work[w] # None /\ work[w].texts[c] # None
  /\ Append1([type |-> "stamped", by |-> w, ch |-> c,
              text |-> [work[w].texts[c] EXCEPT !.marked = FALSE]])
  /\ done' = [done EXCEPT ![w] = @ \cup {c}]
  /\ work' = [work EXCEPT ![w].texts[c] = None, ![w].mints = FALSE]
  /\ UNCHANGED <<written, model, author, editor, mark, crew, faults>>

(* Before its stamps the Keeper mints whom it found, unless the cast, read
   again, has them by now. *)
KeeperMints ==
  /\ work["keeper"] # None /\ work["keeper"].mints
  /\ ~cast /\ Append1([type |-> "minted"])
  /\ work' = [work EXCEPT !["keeper"].mints = FALSE]
  /\ UNCHANGED <<written, done, model, author, editor, mark, crew, faults>>

(* Its model gave nothing usable: the chapter is left for the next run. *)
WorkerSkips(w, c) ==
  /\ w \in {"summarizer", "miner"} /\ work[w] # None /\ work[w].texts[c] # None
  /\ work' = [work EXCEPT ![w].texts[c] = None]
  /\ Fault /\ UNCHANGED <<log, model, author, editor, mark>>

(* The Keeper reads all it chose at one go, and without an answer commits
   nothing at all; its run ends like any other. *)
KeeperPasses ==
  /\ work["keeper"] # None /\ work["keeper"].mints
  /\ work' = [work EXCEPT !["keeper"].mints = FALSE, !["keeper"].texts = NoText]
  /\ Fault /\ UNCHANGED <<log, model, author, editor, mark>>

(* mutant: whatever is left, the run counts as having seen it *)
NewMarkAlways(w) == Fingerprint(w)

NewMark(w) ==
  IF Unworked(w) = {} /\ Len(book) = work[w].seen THEN Fingerprint(w) ELSE None

WorkerEnds(w) ==
  /\ work[w] # None /\ work[w].texts = NoText
  /\ mark' = [mark EXCEPT ![w] = NewMark(w)]
  /\ work' = [work EXCEPT ![w] = None]
  /\ UNCHANGED <<log, model, author, editor, crew, faults>>

-----------------------------------------------------------------------------
(* mutant: a revision leaves the segments of the text it replaces *)
ChapterRevisedKeeps(e) ==
  /\ book' = [book EXCEPT ![e.ch] =
       [text |-> [version |-> e.version, marked |-> TRUE], status |-> "draft",
        revisions |-> Least(@.revisions + 1, MaxRevisions + 1)]]
  /\ notes' = notes

ChapterRevised(e) ==
  /\ book' = [book EXCEPT ![e.ch] =
       [text |-> [version |-> e.version, marked |-> TRUE], status |-> "draft",
        revisions |-> Least(@.revisions + 1, MaxRevisions + 1)]]
  /\ notes' = [w \in Workers |-> IF w = "attributor" THEN [notes[w] EXCEPT ![e.ch] = None]
                                 ELSE notes[w]]

(* Only the Attributor's stamp writes the chapter itself; the miner's and the
   Keeper's have no projection. *)
ChapterStamped(e) ==
  /\ book' = IF e.by = "attributor" THEN [book EXCEPT ![e.ch].text = e.text] ELSE book
  /\ notes' = IF e.by \in {"miner", "keeper"} THEN notes ELSE [notes EXCEPT ![e.by][e.ch] = e.text]

ChapterWritten(e) ==
  /\ book' = IF e.type = "created"
               THEN Append(book, [text |-> [version |-> e.version, marked |-> TRUE],
                                  status |-> "draft", revisions |-> 0])
               ELSE [book EXCEPT ![e.ch] = e.record]
  /\ notes' = notes

(* A signal that is consumed leaves its row; identifiers are not used twice at once. *)
Without(id) ==
  LET i == CHOOSE k \in DOMAIN asked : asked[k].id = id
  IN IF \A k \in DOMAIN asked : asked[k].id # id THEN asked
     ELSE SubSeq(asked, 1, i - 1) \o SubSeq(asked, i + 1, Len(asked))

SignalWritten(e) ==
  asked' = IF e.type = "signal" THEN Append(asked, [id |-> e.id, ch |-> e.ch]) ELSE Without(e.id)

(* catch_up, one event *)
Project ==
  /\ pending # <<>> /\ pending' = Tail(pending)
  /\ LET e == Head(pending) IN
       \/ e.type \in {"created", "status"} /\ ChapterWritten(e) /\ UNCHANGED <<asked, cast>>
       \/ e.type = "revised" /\ ChapterRevised(e) /\ UNCHANGED <<asked, cast>>
       \/ e.type = "stamped" /\ ChapterStamped(e) /\ UNCHANGED <<asked, cast>>
       \/ e.type \in {"signal", "consumed"} /\ SignalWritten(e) /\ UNCHANGED <<book, notes, cast>>
       \/ e.type = "minted" /\ cast' = TRUE /\ UNCHANGED <<book, notes, asked>>
  /\ UNCHANGED <<written, done, author, editor, work, mark, crew, faults>>

-----------------------------------------------------------------------------
EditorDecides == EditorApproves \/ EditorSendsBack

Next ==
  \/ AuthorPolls \/ AuthorWrites \/ AuthorConsumes \/ AuthorFails
  \/ EditorPolls \/ EditorDecides \/ EditorFails
  \/ \E w \in crew :
       \/ WorkerPolls(w) \/ WorkerEnds(w) \/ WorkerFails(w)
       \/ \E c \in 1 .. N : WorkerStamps(w, c) \/ WorkerSkips(w, c)
  \/ "keeper" \in crew /\ (KeeperMints \/ KeeperPasses)
  \/ Project

Spec == Init /\ [][Next]_vars

(* Every agent is dispatched in the end, a run ends, and the projector goes on.
   Nothing makes the Editor approve. *)
FairSpec ==
  /\ Spec /\ WF_vars(Project)
  /\ WF_vars(AuthorPolls) /\ WF_vars(AuthorWrites \/ AuthorConsumes)
  /\ WF_vars(EditorPolls) /\ WF_vars(EditorDecides)
  /\ \A w \in Workers :
       /\ WF_vars(w \in crew /\ WorkerPolls(w)) /\ WF_vars(WorkerEnds(w))
       /\ WF_vars(\E c \in 1 .. N : WorkerStamps(w, c))

-----------------------------------------------------------------------------
Events ==
  [type : {"created", "revised"}, ch : 1 .. N, version : 1 .. MaxVersion]
    \cup [type : {"status"}, ch : 1 .. N, record : Records]
    \cup [type : {"stamped"}, by : Workers, ch : 1 .. N, text : Texts]
    \cup [type : {"signal"}, ch : 1 .. N, id : Ids] \cup [type : {"consumed"}, id : Ids]
    \cup [type : {"minted"}]

(* The state has its type. *)
TypeOK ==
  /\ written \in Seq(1 .. MaxVersion) /\ Len(written) <= N
  /\ done \in [Workers -> SUBSET (1 .. N)]
  /\ pending \in Seq(Events) /\ Len(pending) <= MaxPending
  /\ book \in Seq(Records) /\ Len(book) <= Len(written)
  /\ notes \in [Workers -> [1 .. N -> Texts \cup {None}]]
  /\ asked \in Seq(Signals)
  /\ author \in [pc : {"idle", "writing", "closing"}, asked : Seq(Signals)]
  /\ editor = None \/ editor \in [ch : 1 .. N, record : Records]
  /\ \A w \in Workers :
       /\ work[w] = None \/ work[w] \in [seen : 0 .. N, mints : BOOLEAN, texts : [1 .. N -> Texts \cup {None}]]
       /\ mark[w] = None \/ mark[w] \in (0 .. N) \X (0 .. N)
  /\ cast \in BOOLEAN /\ crew \in DOMAIN Goal /\ faults \in 0 .. MaxFaults

(* A chapter shows speakers exactly as long as the log counts it as attributed:
   once everything is folded, a chapter has segments if its last revision was
   followed by an attribution, and none if it was not, so that no worker
   passes it over with its segments gone. *)
SegmentsFollowTheLog ==
  pending = <<>> /\ "attributor" \in crew =>
    done["attributor"] = {c \in 1 .. N : notes["attributor"][c] # None}

(* Every draft ships, if the Author is not stood down for good: however often
   the Editor's model says "revise", however late the read model and however
   many runs fail, each chapter's share of revisions is spent, and the chapters
   stay reviewed, a rewrite of one that was approved meanwhile included. *)
EveryDraftShips ==
  []<>(Cardinality(Drafts) < Room) =>
    <>[](\A c \in DOMAIN written : c \in DOMAIN book /\ book[c].status = "reviewed")

(* A model that keeps saying "revise" does not loop forever (agents/editor.py,
   Editor.commit): whatever it says, every chapter ships in the end.  With Room
   drafts it does loop: the Author, who alone spends a chapter's revisions, is
   not ready, and the Editor comes back to the first draft each time. *)
ReviseLoopEnds ==
  <>[](\A c \in DOMAIN written : c \in DOMAIN book /\ book[c].status = "reviewed")

(* No chapter is passed over: once nothing is written any more, every worker
   has been over every chapter, though its model failed on some in a run that
   then ended. *)
EveryChapterIsWorked == <>[](\A w \in crew : done[w] = DOMAIN written)
=============================================================================
