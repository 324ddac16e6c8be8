----------------------------- MODULE Continuity -----------------------------
(* The Continuity Checker (agents/continuity_checker.py) over what canon holds of
   chapters, secrets and causes.  A pass reads canon piece by piece, waits for
   the model, files what the brain's leak and paradox detectors find, commits the
   facts that the model mined from chapters nobody mined yet, and stamps those.
   It is not scheduled again while canon's fingerprint is the one it rested on.

   Other agents write canon at any time.  The story's other flags, and what the
   model itself judges a contradiction, are left out. *)
EXTENDS Brain

CONSTANTS
  Ids,        \* the identifiers that chapters get, in the order they get them
  Cast,       \* characters
  Secrets,
  Unplaced,   \* where a character learned a secret that it learned off the page
  Topics,     \* bound: what an instance is about, and how much of it there is
  MaxDecided, \* bound: flags decided
  MaxUpsets   \* bound: passes that fail, restarts of the program

Tags == {"draft", "revise", "refer", "learn", "reveal", "declare", "decide", "check", "mine", "fail"}

ASSUME ContinuityAssumption ==
  /\ Ids \in Seq(ToSet(Ids)) /\ \A i, j \in DOMAIN Ids : Ids[i] = Ids[j] => i = j
  /\ IsFiniteSet(Cast) /\ IsFiniteSet(Secrets) /\ None # Unplaced /\ {None, Unplaced} \cap ToSet(Ids) = {}
  /\ Topics \subseteq [acts : SUBSET Tags, written : 0 .. Len(Ids), upto : 0 .. Len(Ids),
                      who : SUBSET Cast, places : SUBSET (ToSet(Ids) \cup {Unplaced}),
                      casts : SUBSET SUBSET Cast, refs : Nat, edges : Nat]
  /\ {MaxDecided, MaxUpsets} \subseteq Nat

VARIABLES
  topic,      \* what this instance is about
  chapters,   \* the chapters drafted, in order: identifier and cast
  refs,       \* the secrets that characters use, in the order reported
  learned,    \* the chapter in which a character learned a secret
  revealed,   \* the secrets that are out
  edges,      \* the causes declared: pairs of chapters
  mined,      \* the chapters stamped as mined since their last revision
  open,       \* the detectors' flags that are open, by description
  watermark,  \* _last_fingerprint
  check,      \* the pass under way, or None
  filed,      \* history: the descriptions ever filed
  leaked,     \* history: the references that leaked at some time
  decided,    \* bound: flags decided so far
  upsets      \* bound: failures so far

canon == <<chapters, refs, learned, revealed, edges, mined>>
continuityVars ==
  <<topic, chapters, refs, learned, revealed, edges, mined, open, watermark, check, filed,
    leaked, decided, upsets>>

Order == ChapterOrder(chapters)
Nodes == ToSet(Order)
Matrix == [revealed |-> revealed, knows |-> {k \in Secrets \X Cast : learned[k] # None}]

(* A chapter that waits for its approval has an identifier that other facts
   cite already. *)
Citable == Nodes \cup (IF Len(chapters) < topic.upto THEN {Ids[Len(chapters) + 1]} ELSE {})

Ref(s, who, c) == [secret |-> s, who |-> who, chapter |-> c]

ContinuityInit ==
  /\ topic \in Topics
  /\ chapters \in [1 .. topic.written -> [id : ToSet(Ids), cast : topic.casts]]
  /\ \A i \in DOMAIN chapters : chapters[i].id = Ids[i]
  /\ refs = <<>> /\ edges = <<>> /\ mined = {} /\ revealed = {}
  /\ learned = [k \in Secrets \X Cast |-> None]
  /\ open = {} /\ watermark = None /\ check = None
  /\ filed = {} /\ leaked = {} /\ decided = 0 /\ upsets = 0

-----------------------------------------------------------------------------
(* What other agents write *)

Draft ==
  /\ "draft" \in topic.acts /\ Len(chapters) < topic.upto
  /\ \E cast \in topic.casts :
       chapters' = Append(chapters, [id |-> Ids[Len(chapters) + 1], cast |-> cast])
  /\ UNCHANGED <<refs, learned, revealed, edges, mined>>

(* A revision takes its chapter's stamp back. *)
Revise ==
  /\ "revise" \in topic.acts /\ decided < MaxDecided
  /\ \E c \in mined : mined' = mined \ {c}
  /\ UNCHANGED <<chapters, refs, learned, revealed, edges>>

Refer ==
  /\ "refer" \in topic.acts /\ Len(refs) < topic.refs
  /\ \E s \in Secrets, who \in topic.who, c \in Citable : refs' = Append(refs, Ref(s, who, c))
  /\ UNCHANGED <<chapters, learned, revealed, edges, mined>>

(* The first time counts.  The Character Keeper commits no chapter. *)
Learn ==
  /\ "learn" \in topic.acts
  /\ \E s \in Secrets, who \in topic.who, c \in (Citable \cup {Unplaced}) \cap topic.places :
       learned[s, who] = None /\ learned' = [learned EXCEPT ![<<s, who>>] = c]
  /\ UNCHANGED <<chapters, refs, revealed, edges, mined>>

Reveal ==
  /\ "reveal" \in topic.acts
  /\ \E s \in Secrets \ revealed : revealed' = revealed \cup {s}
  /\ UNCHANGED <<chapters, refs, learned, edges, mined>>

(* No edge to itself, none that cites a chapter canon does not know; the same
   edge may come twice. *)
Declare ==
  /\ "declare" \in topic.acts /\ Len(edges) < topic.edges
  /\ \E c, e \in Citable : c # e /\ edges' = Append(edges, <<c, e>>)
  /\ UNCHANGED <<chapters, refs, learned, revealed, mined>>

Others ==
  /\ Draft \/ Revise \/ Refer \/ Learn \/ Reveal \/ Declare
  /\ decided' = IF mined' # mined THEN decided + 1 ELSE decided
  /\ UNCHANGED <<topic, open, watermark, check, filed, upsets>>

(* The Retconner, or a person, has a flag decided. *)
Decide ==
  /\ "decide" \in topic.acts /\ decided < MaxDecided
  /\ \E d \in open : open' = open \ {d}
  /\ decided' = decided + 1
  /\ UNCHANGED <<canon, topic, watermark, check, filed, upsets>>

-----------------------------------------------------------------------------
(* The Checker *)

Unmined == Nodes \ mined

Fingerprint ==
  <<Len(chapters), IF chapters = <<>> THEN None ELSE Last(chapters).id, Cardinality(Unmined),
    Len(refs), Len(edges)>>

Leaks == {r \in ToSet(refs) : r.secret \notin revealed /\ learned[r.secret, r.who] = None}

(* The edges that cannot be: their effect comes before their cause, or is a
   cause of it in turn. *)
Caused(c) ==
  LET spread[from \in SUBSET ToSet(Ids), n \in Nat] ==
        IF n = 0 THEN from
        ELSE spread[from \cup {e[2] : e \in {d \in ToSet(edges) : d[1] \in from}}, n - 1]
  IN spread[{c}, Len(edges)]

Backwards(e, order) ==
  {e[1], e[2]} \subseteq ToSet(order) /\ Ordinal(e[2], order) < Ordinal(e[1], order)
Circular(e) == e[1] \in Caused(e[2])

Held(w) == watermark' = w /\ UNCHANGED <<topic, decided>>

(* It is ready whenever canon has moved since it rested.  `before` is history:
   what was wrong with canon then. *)
CheckerStarts ==
  /\ "check" \in topic.acts /\ check = None /\ watermark # Fingerprint
  /\ check' = [pc |-> "chapters", fp |-> Fingerprint,
               before |-> [leaks |-> Leaks, backwards |-> {e \in ToSet(edges) : Backwards(e, Order)},
                           circular |-> {e \in ToSet(edges) : Circular(e)}]]
  /\ Held(watermark) /\ UNCHANGED <<canon, open, filed, upsets>>

CheckerReadsChapters ==
  /\ check # None /\ check.pc = "chapters"
  /\ check' = [pc |-> "references", fp |-> check.fp, before |-> check.before,
               order |-> Order, unmined |-> Unmined]
  /\ Held(watermark) /\ UNCHANGED <<canon, open, filed, upsets>>

CheckerReadsReferences ==
  /\ check # None /\ check.pc = "references"
  /\ check' = [pc |-> "matrix", fp |-> check.fp, before |-> check.before,
               order |-> check.order, unmined |-> check.unmined, refs |-> refs]
  /\ Held(watermark) /\ UNCHANGED <<canon, open, filed, upsets>>

CheckerReadsMatrixAndEdges ==
  /\ check # None /\ check.pc = "matrix"
  /\ check' = [pc |-> "asked", fp |-> check.fp, before |-> check.before,
               order |-> check.order, unmined |-> check.unmined, refs |-> check.refs,
               matrix |-> Matrix, edges |-> edges]
  /\ Held(watermark) /\ UNCHANGED <<canon, open, filed, upsets>>

LeakDescription(r) == <<"leak", r.secret, r.who, r.chapter>>
ParadoxDescription(p) == <<"paradox", p[1][1], p[1][2], p[2]>>

Descriptions(read) ==
  {LeakDescription(r) : r \in FindLeaks(read.refs, read.matrix)}
    \cup {ParadoxDescription(p) :
            p \in FindParadoxes(read.edges, read.order, SetToSeq(UNION {{e[1], e[2]} : e \in ToSet(read.edges)}))}

(* The model has judged, and has mined some of the chapters it was given; what
   is wrong already and not yet in the open queue is to be filed. *)
CheckerIsAnswered(ok) ==
  /\ check # None /\ check.pc = "asked" /\ ok \subseteq check.unmined
  /\ check' = [pc |-> "commit", fp |-> check.fp, before |-> check.before, order |-> check.order,
               refs |-> check.refs, matrix |-> check.matrix, edges |-> check.edges,
               todo |-> Descriptions(check) \ open, ok |-> ok]
  /\ Held(watermark) /\ UNCHANGED <<canon, open, filed, upsets>>

(* mutant: one flag is enough for a secret and a character *)
CheckerFilesOnce ==
  /\ check # None /\ check.pc = "commit" /\ check.todo # {}
  /\ \E d \in check.todo :
       /\ check' = [check EXCEPT !.todo = {o \in @ : SubSeq(o, 1, 3) # SubSeq(d, 1, 3)}]
       /\ open' = open \cup {d} /\ filed' = filed \cup {d}
  /\ Held(watermark) /\ UNCHANGED <<canon, upsets>>

CheckerFiles ==
  /\ check # None /\ check.pc = "commit" /\ check.todo # {}
  /\ \E d \in check.todo :
       /\ check' = [check EXCEPT !.todo = @ \ {d}]
       /\ open' = open \cup {d} /\ filed' = filed \cup {d}
  /\ Held(watermark) /\ UNCHANGED <<canon, upsets>>

(* A fact the model mined from a chapter is committed unless what the pass read
   covers it: a use, a moment of learning, a cause. *)
MinedUse(c) ==
  /\ Len(refs) < topic.refs
  /\ \E s \in Secrets, who \in topic.who :
       /\ ~\E r \in ToSet(check.refs) : r.secret = s /\ r.who = who
       /\ refs' = Append(refs, Ref(s, who, c))
  /\ UNCHANGED <<learned, edges>>

MinedLearn(c) ==
  /\ \E k \in Secrets \X topic.who :
       /\ k \notin check.matrix.knows
       /\ learned' = [learned EXCEPT ![k] = IF @ = None THEN c ELSE @]
  /\ UNCHANGED <<refs, edges>>

MinedCause ==
  /\ Len(edges) < topic.edges
  /\ \E e \in ToSet(check.order) \X ToSet(check.order) :
       e[1] # e[2] /\ e \notin ToSet(check.edges) /\ edges' = Append(edges, e)
  /\ UNCHANGED <<refs, learned>>

CheckerMines ==
  /\ check # None /\ check.pc = "commit" /\ check.todo = {} /\ "mine" \in topic.acts
  /\ \E c \in check.ok : MinedUse(c) \/ MinedLearn(c) \/ MinedCause
  /\ Held(watermark) /\ UNCHANGED <<chapters, revealed, mined, check, open, filed, upsets>>

CheckerStamps ==
  /\ check # None /\ check.pc = "commit" /\ check.todo = {}
  /\ \E c \in check.ok :
       /\ check' = [check EXCEPT !.ok = @ \ {c}]
       /\ mined' = mined \cup {c}
  /\ Held(watermark) /\ UNCHANGED <<chapters, refs, learned, revealed, edges, open, filed, upsets>>

Done == check # None /\ check.pc = "commit" /\ check.todo = {} /\ check.ok = {}

(* mutant: the pass rests on canon as it is, mined or not *)
CheckerEndsAnyway ==
  /\ Done
  /\ check' = None /\ Held(Fingerprint)
  /\ UNCHANGED <<canon, open, filed, upsets>>

(* It rests on canon as it is now, its own facts included, unless a chapter is
   left to mine or one came while it worked. *)
CheckerEnds ==
  /\ Done
  /\ check' = None
  /\ LET rests == Unmined = {} /\ SubSeq(Fingerprint, 1, 2) = SubSeq(check.fp, 1, 2) IN
     Held(IF rests THEN Fingerprint ELSE None)
  /\ UNCHANGED <<canon, open, filed, upsets>>

(* A pass raises; the watermark stays as it was. *)
CheckerFails ==
  /\ "fail" \in topic.acts /\ check # None /\ upsets < MaxUpsets
  /\ check' = None /\ upsets' = upsets + 1
  /\ Held(watermark) /\ UNCHANGED <<canon, open, filed>>

Restart ==
  /\ "fail" \in topic.acts /\ upsets < MaxUpsets
  /\ check' = None /\ upsets' = upsets + 1
  /\ Held(None) /\ UNCHANGED <<canon, open, filed>>

-----------------------------------------------------------------------------
Remembered == leaked' = leaked \cup Leaks'

CheckerReads == CheckerReadsChapters \/ CheckerReadsReferences \/ CheckerReadsMatrixAndEdges
CheckerAnswered == \E ok \in SUBSET ToSet(Ids) : CheckerIsAnswered(ok)
CheckerCommits == CheckerFiles \/ CheckerStamps \/ CheckerEnds

ContinuityNext ==
  /\ \/ Others \/ Decide
     \/ CheckerStarts \/ CheckerReads \/ CheckerAnswered \/ CheckerMines \/ CheckerCommits
     \/ CheckerFails \/ Restart
  /\ Remembered

(* The Checker is scheduled while it is ready.  Its model, asked again and again,
   now and then mines every chapter it is given. *)
ContinuityFairness ==
  /\ WF_continuityVars((CheckerStarts \/ CheckerReads \/ CheckerCommits) /\ Remembered)
  /\ SF_continuityVars(check # None /\ CheckerIsAnswered(check.unmined) /\ Remembered)

ContinuitySpec == ContinuityInit /\ [][ContinuityNext]_continuityVars /\ ContinuityFairness

-----------------------------------------------------------------------------
ContinuityTypeOK ==
  /\ \A i \in DOMAIN chapters : chapters[i].id = Ids[i] /\ chapters[i].cast \subseteq Cast
  /\ ToSet(refs) \subseteq [secret : Secrets, who : Cast, chapter : ToSet(Ids)]
  /\ learned \in [Secrets \X Cast -> ToSet(Ids) \cup {None, Unplaced}]
  /\ revealed \subseteq Secrets /\ ToSet(edges) \subseteq ToSet(Ids) \X ToSet(Ids)
  /\ mined \subseteq Nodes /\ open \subseteq filed

(* Tarjan's walk (brain/paradoxes.py) finds every circle: an edge is cyclic just
   when its effect leads back to its cause, however circles share chapters.  The
   Causeway tab counts each edge that is in a circle or runs backwards once. *)
CyclesAreCaught ==
  LET nodes == SetToSeq(UNION {{e[1], e[2]} : e \in ToSet(edges)})
      Reversed(e) == {e[1], e[2]} \subseteq ToSet(Order) /\ Ordinal(e[2], Order) <= Ordinal(e[1], Order)
  IN /\ CycleEdges(edges, nodes) = {e \in ToSet(edges) : Circular(e)}
     /\ CausewayTab(edges, Order, nodes) = Cardinality({i \in DOMAIN edges : Circular(edges[i]) \/ Reversed(edges[i])})

IronyLedger == BuildIronyLedger(Secrets, refs, learned, chapters, Matrix)
Met(s, i) == \E r \in ToSet(refs) : r.secret = s /\ r.chapter \in ToSet(SubSeq(Order, 1, i))
Knew(s, who, i) == learned[s, who] \in ToSet(SubSeq(Order, 1, i))

(* The irony ledger (brain/irony.py) names just the scenes in which the irony can
   be played: the character is on the page, the reader has met the secret by
   then, and no chapter so far is on record in which the character learned it. *)
IronyIsPlayable ==
  \A s \in Secrets :
    /\ UNION {{g.who} \X g.live : g \in IronyLedger[s].gaps}
       = {p \in Cast \X DOMAIN chapters :
            p[1] \in chapters[p[2]].cast /\ Met(s, p[2]) /\ ~Knew(s, p[1], p[2])}
    /\ (IronyLedger[s].gaps = {}) = (IronyLedger[s].note # None)

(* The Secrets tab and the irony ledger tell the same story of a secret, though
   one reads the matrix and the other the moments of learning: whom the ledger
   closes by learning the tab shows to know it, whom it leaves in the dark the
   tab does too unless the moment is in no chapter, and a secret that is out has
   no row and no gap of the kinds a hidden one has. *)
TabAndLedgerAgree ==
  LET tab == SecretsTab(Secrets, Matrix, Cast) IN
  \A s \in Secrets : \A g \in IronyLedger[s].gaps :
       /\ s \in DOMAIN tab /\ g.by = "learned" => g.who \in tab[s]
       /\ g.by = "open" => s \in DOMAIN tab /\ (g.who \in tab[s] => learned[s, g.who] \notin ToSet(Order))
       /\ g.by = "reveal" => s \notin DOMAIN tab

(* A leak that is reported was one: the character had not been shown to learn the
   secret, and it was not out, at some time when the reference was in canon --
   though the Checker reads the references and the matrix at different times and
   files later still. *)
LeaksWereReal == \A d \in filed : d[1] = "leak" => Ref(d[2], d[3], d[4]) \in leaked

(* Neither ledger says anything of the book that is not so. *)
LedgersAreRight == IronyIsPlayable /\ TabAndLedgerAgree /\ LeaksWereReal

(* A pass that ends has filed every leak that there was when it began and is
   still, whatever was written between its reads. *)
LeaksAreFiled ==
  [][CheckerEnds =>
       \A r \in check.before.leaks \cap Leaks : LeakDescription(r) \in filed]_continuityVars

(* It has filed every edge whose effect came before its cause when it began. *)
DisorderIsFiled ==
  [][CheckerEnds =>
       \A e \in check.before.backwards : ParadoxDescription(<<e, "ordering">>) \in filed]_continuityVars

(* It has filed every edge that was in a circle, one way or the other. *)
CirclesAreFiled ==
  [][CheckerEnds =>
       \A e \in check.before.circular : \E why \in {"ordering", "cycle"} :
         ParadoxDescription(<<e, why>>) \in filed]_continuityVars

(* What was wrong when a pass began is in the queue of flags when it ends. *)
PassFilesWhatItSaw == LeaksAreFiled /\ DisorderIsFiled /\ CirclesAreFiled

(* No chapter is left unmined for good: a pass whose mining failed, was overtaken
   by a chapter or a revision, or raised, is followed by another. *)
EveryChapterIsMined == "check" \in topic.acts => <>[](Unmined = {})
=============================================================================
