------------------------------ MODULE ReaderProofs ------------------------------
(***************************************************************************)
(* What holds of those who read a log while others write it: the agents that *)
(* follow the chapters (Chapters) and those that share the claims of the     *)
(* research assistant (Research), for any crew, corpus, lengths and bounds.  *)
(***************************************************************************)
EXTENDS Chapters, Research, SequenceTheorems, FiniteSetTheorems, WellFoundedInduction, TLAPS

-----------------------------------------------------------------------------
(* Chapters: the inductive invariant                                       *)

Written == 1 .. Len(written)

(* The log and its followers name chapters that were written. *)
LogOK ==
  /\ written \in Seq(1 .. MaxVersion) /\ Len(written) <= N
  /\ done \in [Workers -> SUBSET (1 .. N)]
  /\ pending \in Seq(Events) /\ Len(pending) <= MaxPending
  /\ \A k \in DOMAIN pending : pending[k].type \notin {"stamped", "consumed", "minted"} => pending[k].ch \in Written

BookOK ==
  /\ book \in Seq(Records) /\ Len(book) <= Len(written)
  /\ notes \in [Workers -> [1 .. N -> Texts \cup {None}]]
  /\ asked \in Seq(Signals) /\ \A k \in DOMAIN asked : asked[k].ch \in Written
  /\ cast \in BOOLEAN

Tasks == [seen : 0 .. N, mints : BOOLEAN, texts : [1 .. N -> Texts \cup {None}]]

RunsOK ==
  /\ author \in [pc : {"idle", "writing", "closing"}, asked : Seq(Signals)]
  /\ \A k \in DOMAIN author.asked : author.asked[k].ch \in Written
  /\ author.pc = "closing" => author.asked # <<>>
  /\ editor = None \/ (editor \in [ch : 1 .. N, record : Records] /\ editor.ch \in Written)
  /\ work \in [Workers -> Tasks \cup {None}]
  /\ mark \in [Workers -> ((0 .. N) \X (0 .. N)) \cup {None}]
  /\ crew \in DOMAIN Goal /\ faults \in 0 .. MaxFaults

(* The chapters that wait for the projector are those the book has not, in order. *)
Created == {k \in DOMAIN pending : pending[k].type = "created"}

Numbered ==
  /\ \A k \in Created : pending[k].ch \in Len(book) + 1 .. Len(written)
  /\ \A j, k \in Created : j < k => pending[j].ch < pending[k].ch
  /\ \A n \in Len(book) + 1 .. Len(written) : \E k \in Created : pending[k].ch = n

(* What the log says last of a chapter's speakers *)
IsAbout(e, c) ==
  /\ e.type \in {"revised", "stamped"} /\ e.ch = c
  /\ e.type = "stamped" => e.by = "attributor"

About(c) == {k \in DOMAIN pending : IsAbout(pending[k], c)}

Follows(c) ==
  /\ About(c) = {} => (c \in done["attributor"] <=> notes["attributor"][c] # None)
  /\ \A k \in About(c) : (\A j \in About(c) : j <= k) =>
       (c \in done["attributor"] <=> pending[k].type = "stamped")

SegmentsFollow == "attributor" \in Workers => \A c \in 1 .. N : Follows(c)

IInv == LogOK /\ BookOK /\ RunsOK /\ Numbered /\ SegmentsFollow

-----------------------------------------------------------------------------
(* Chapters: what the constants and the events are                         *)

LEMMA Bounds ==
  /\ N \in Nat /\ N > 0 /\ MaxVersion \in Nat /\ MaxVersion > 0 /\ MaxSignals \in Nat
  /\ MaxPending \in Nat /\ MaxFaults \in Nat /\ MaxRevisions \in Nat
  /\ None \notin Texts
BY ChaptersAssumption

LEMMA Crews ==
  ASSUME RunsOK
  PROVE  crew \subseteq Workers /\ Goal[crew].chapters \in 1 .. N /\ Goal[crew].signals \in Ids
BY ChaptersAssumption DEF RunsOK

LEMMA EventFacts ==
  ASSUME NEW e \in Events
  PROVE  /\ e.type \in {"created", "revised", "status", "stamped", "signal", "consumed", "minted"}
         /\ e.type \notin {"consumed", "minted"} => e.ch \in 1 .. N
         /\ e.type \in {"created", "revised"} => e.version \in 1 .. MaxVersion
         /\ e.type = "status" => e.record \in Records
         /\ e.type = "stamped" => e.by \in Workers /\ e.text \in Texts
         /\ e.type \in {"signal", "consumed"} => e.id \in Ids
<1>1. CASE e \in [type : {"created", "revised"}, ch : 1 .. N, version : 1 .. MaxVersion]
  BY <1>1
<1>2. CASE e \in [type : {"status"}, ch : 1 .. N, record : Records]
  BY <1>2
<1>3. CASE e \in [type : {"stamped"}, by : Workers, ch : 1 .. N, text : Texts]
  BY <1>3
<1>4. CASE e \in [type : {"signal"}, ch : 1 .. N, id : Ids]
  BY <1>4
<1>5. CASE e \in [type : {"consumed"}, id : Ids]
  BY <1>5
<1>6. CASE e \in [type : {"minted"}]
  BY <1>6
<1> QED BY <1>1, <1>2, <1>3, <1>4, <1>5, <1>6 DEF Events

LEMMA Least2 ==
  ASSUME NEW m \in Nat, NEW n \in Nat
  PROVE  Least(m, n) \in Nat /\ Least(m, n) <= m /\ Least(m, n) <= n /\ (m > 0 /\ n > 0 => Least(m, n) > 0)
BY DEF Least

LEMMA LeastNatural ==
  ASSUME NEW T, T \subseteq Nat, T # {}
  PROVE  \E x \in T : \A y \in T : x <= y
<1> DEFINE R == {ss \in Nat \X Nat : ss[1] < ss[2]}
<1>1. IsWellFoundedOn(R, Nat)
  BY NatLessThanWellFounded DEF OpToRel
<1>2. PICK x \in T : \A y \in T : <<y, x>> \notin R
  BY <1>1, WFMin
<1>3. \A y \in T : ~(y < x)
  BY <1>2
<1> QED BY <1>3

(* A revised text, a first text, a stamped text *)
LEMMA RecordsMade ==
  ASSUME NEW v \in 1 .. MaxVersion, NEW n \in 0 .. MaxRevisions + 1, NEW t \in Texts, NEW r \in Records
  PROVE  /\ [version |-> v, marked |-> TRUE] \in Texts
         /\ [t EXCEPT !.marked = FALSE] \in Texts
         /\ [text |-> [version |-> v, marked |-> TRUE], status |-> "draft", revisions |-> n] \in Records
         /\ [r EXCEPT !.text = t] \in Records /\ [r EXCEPT !.status = "reviewed"] \in Records
BY DEF Texts, Records

-----------------------------------------------------------------------------
(* Chapters: one more event waits                                          *)

LEMMA Appended ==
  ASSUME LogOK, NEW e \in Events, Append1(e)
  PROVE  /\ pending' \in Seq(Events) /\ Len(pending) \in Nat /\ Len(pending') = Len(pending) + 1
         /\ Len(pending') <= MaxPending
         /\ DOMAIN pending = 1 .. Len(pending) /\ DOMAIN pending' = 1 .. Len(pending) + 1
         /\ \A k \in DOMAIN pending : k \in DOMAIN pending' /\ pending'[k] = pending[k]
         /\ Len(pending) + 1 \in DOMAIN pending' /\ pending'[Len(pending) + 1] = e
         /\ \A k \in DOMAIN pending' : k \in DOMAIN pending \/ k = Len(pending) + 1
<1>1. pending \in Seq(Events) /\ Len(pending) < MaxPending /\ pending' = Append(pending, e)
  BY DEF LogOK, Append1
<1>2. Len(pending) \in Nat /\ DOMAIN pending = 1 .. Len(pending)
  BY <1>1
<1>3. \A k \in 1 .. Len(pending) + 1 : k \in 1 .. Len(pending) \/ k = Len(pending) + 1
  BY <1>2
<1>4. Len(pending) + 1 <= MaxPending
  BY <1>1, <1>2, Bounds
<1>5. \A k \in 1 .. Len(pending) : k \in 1 .. Len(pending) + 1
  BY <1>2
<1>6. Len(pending) + 1 \in 1 .. Len(pending) + 1
  BY <1>2
<1>7. /\ pending' \in Seq(Events) /\ Len(pending') = Len(pending) + 1
      /\ DOMAIN pending' = 1 .. Len(pending) + 1
      /\ pending'[Len(pending) + 1] = e
      /\ \A k \in 1 .. Len(pending) : pending'[k] = pending[k]
  BY <1>1
<1> QED BY <1>2, <1>3, <1>4, <1>5, <1>6, <1>7

(* The log after one more event *)
LEMMA LogGrows ==
  ASSUME LogOK, NEW e \in Events, Append1(e),
         written' \in Seq(1 .. MaxVersion), Len(written') <= N, Len(written) <= Len(written'),
         done' \in [Workers -> SUBSET (1 .. N)],
         e.type \notin {"stamped", "consumed", "minted"} => e.ch \in Written'
  PROVE  LogOK'
<1>1. Len(written) \in Nat /\ Len(written') \in Nat
  BY DEF LogOK
<1>2. \A n \in Written : n \in Written'
  BY <1>1 DEF Written
<1>3. ASSUME NEW k \in DOMAIN pending', pending'[k].type \notin {"stamped", "consumed", "minted"}
      PROVE  pending'[k].ch \in Written'
  <2>1. CASE k \in DOMAIN pending
    BY <1>2, <1>3, <2>1, Appended DEF LogOK
  <2>2. CASE k = Len(pending) + 1
    BY <1>3, <2>2, Appended
  <2> QED BY <1>3, <2>1, <2>2, Appended
<1> QED BY <1>3, Appended DEF LogOK

LEMMA NumbersStay ==
  ASSUME LogOK, Numbered, NEW e \in Events, Append1(e), e.type # "created",
         UNCHANGED book, Len(written') = Len(written)
  PROVE  Numbered'
<1>1. Created' = Created /\ \A k \in Created : pending'[k] = pending[k]
  BY Appended DEF Created
<1> QED BY <1>1 DEF Numbered

LEMMA FollowsStep ==
  ASSUME LogOK, NEW e \in Events, Append1(e), NEW c \in 1 .. N, Follows(c), notes' = notes,
         IsAbout(e, c) => (c \in done'["attributor"] <=> e.type = "stamped"),
         ~ IsAbout(e, c) => (c \in done'["attributor"] <=> c \in done["attributor"])
  PROVE  Follows(c)'
<1>1. /\ Len(pending) \in Nat /\ DOMAIN pending = 1 .. Len(pending)
      /\ \A k \in DOMAIN pending : k <= Len(pending)
      /\ \A k \in DOMAIN pending : k \in DOMAIN pending' /\ pending'[k] = pending[k]
      /\ \A k \in DOMAIN pending' : k \in DOMAIN pending \/ k = Len(pending) + 1
      /\ Len(pending) + 1 \in DOMAIN pending' /\ pending'[Len(pending) + 1] = e
  BY Appended
<1>2. CASE IsAbout(e, c)
  <2>1. About(c)' = About(c) \cup {Len(pending) + 1}
    BY <1>1, <1>2 DEF About
  <2>2. ASSUME NEW k \in About(c)', \A j \in About(c)' : j <= k
        PROVE  k = Len(pending) + 1
    <3>1. Len(pending) + 1 <= k
      BY <2>1, <2>2
    <3>2. k \in DOMAIN pending'
      BY <2>2 DEF About
    <3> QED BY <1>1, <3>1, <3>2
  <2>3. ASSUME NEW k \in About(c)', \A j \in About(c)' : j <= k
        PROVE  c \in done'["attributor"] <=> pending'[k].type = "stamped"
    BY <1>1, <1>2, <2>2, <2>3
  <2>4. About(c)' # {}
    BY <2>1
  <2> QED BY <2>3, <2>4 DEF Follows
<1>3. CASE ~ IsAbout(e, c)
  <2>1. About(c)' = About(c) /\ \A k \in About(c) : pending'[k] = pending[k]
    BY <1>1, <1>3 DEF About
  <2> QED BY <1>3, <2>1 DEF Follows
<1> QED BY <1>2, <1>3

LEMMA FollowsOn ==
  ASSUME SegmentsFollow, UNCHANGED <<pending, done, notes>>
  PROVE  SegmentsFollow'
BY DEF SegmentsFollow, Follows, About

(* An event that is not about a chapter's speakers *)
LEMMA FollowsBeside ==
  ASSUME LogOK, SegmentsFollow, NEW e \in Events, Append1(e), notes' = notes,
         \A c \in 1 .. N : ~ IsAbout(e, c),
         "attributor" \in Workers => done'["attributor"] = done["attributor"]
  PROVE  SegmentsFollow'
<1> SUFFICES ASSUME "attributor" \in Workers, NEW c \in 1 .. N PROVE Follows(c)'
  BY DEF SegmentsFollow
<1> QED BY FollowsStep DEF SegmentsFollow

-----------------------------------------------------------------------------
(* Chapters: every step                                                    *)

LEMMA Beside ==
  ASSUME LogOK, BookOK, Numbered, SegmentsFollow, UNCHANGED log, UNCHANGED model
  PROVE  LogOK' /\ BookOK' /\ Numbered' /\ SegmentsFollow' /\ Written' = Written
<1>1. UNCHANGED <<written, done, pending, book, notes, asked, cast>>
  BY DEF log, model
<1>2. Written' = Written
  BY <1>1 DEF Written
<1>3. LogOK'
  BY <1>1, <1>2 DEF LogOK
<1>4. BookOK'
  BY <1>1, <1>2 DEF BookOK
<1>5. Numbered'
  BY <1>1 DEF Numbered, Created
<1> QED BY <1>1, <1>2, <1>3, <1>4, <1>5, FollowsOn

LEMMA FaultCounted ==
  ASSUME RunsOK, Fault
  PROVE  faults' \in 0 .. MaxFaults /\ crew' = crew
BY Bounds DEF RunsOK, Fault

LEMMA StandsAuthorPolls ==
  ASSUME IInv, AuthorPolls
  PROVE  IInv'
<1>1. /\ UNCHANGED log /\ UNCHANGED model /\ UNCHANGED <<editor, work, mark, crew, faults>>
      /\ author' = [pc |-> "writing", asked |-> asked]
  BY DEF AuthorPolls
<1>2. LogOK' /\ BookOK' /\ Numbered' /\ SegmentsFollow' /\ Written' = Written
  BY <1>1, Beside DEF IInv
<1>3. asked \in Seq(Signals) /\ \A k \in DOMAIN asked : asked[k].ch \in Written
  BY DEF IInv, BookOK
<1>4. /\ author'.pc = "writing" /\ author'.asked = asked
      /\ author' \in [pc : {"idle", "writing", "closing"}, asked : Seq(Signals)]
  BY <1>1, <1>3
<1>5. RunsOK'
  BY <1>1, <1>2, <1>3, <1>4 DEF IInv, RunsOK
<1> QED BY <1>2, <1>5 DEF IInv

(* What a run that fails, or only reads, does to the others *)
LEMMA StandsFails ==
  ASSUME IInv, AuthorFails \/ EditorFails \/ \E w \in crew : WorkerFails(w)
  PROVE  IInv'
<1>1. UNCHANGED log /\ UNCHANGED model /\ UNCHANGED mark /\ Fault
  BY DEF AuthorFails, EditorFails, WorkerFails
<1>2. LogOK' /\ BookOK' /\ Numbered' /\ SegmentsFollow' /\ Written' = Written
  BY <1>1, Beside DEF IInv
<1>3. faults' \in 0 .. MaxFaults /\ crew' = crew
  BY <1>1, FaultCounted DEF IInv
<1>4. /\ author' \in [pc : {"idle", "writing", "closing"}, asked : Seq(Signals)]
      /\ \A k \in DOMAIN author'.asked : author'.asked[k].ch \in Written
      /\ author'.pc = "closing" => author'.asked # <<>>
  <2>1. CASE author' = Idle
    BY <2>1 DEF Idle
  <2>2. CASE author' = author
    BY <2>2 DEF IInv, RunsOK
  <2> QED BY <2>1, <2>2 DEF AuthorFails, EditorFails, WorkerFails
<1>5. editor' = None \/ (editor' \in [ch : 1 .. N, record : Records] /\ editor'.ch \in Written)
  BY DEF IInv, RunsOK, AuthorFails, EditorFails, WorkerFails
<1>6. work' \in [Workers -> Tasks \cup {None}]
  BY DEF IInv, RunsOK, AuthorFails, EditorFails, WorkerFails
<1>7. RunsOK'
  BY <1>1, <1>2, <1>3, <1>4, <1>5, <1>6 DEF IInv, RunsOK
<1> QED BY <1>2, <1>7 DEF IInv

(* One more event that creates nothing and says nothing of a chapter's speakers *)
LEMMA Told ==
  ASSUME LogOK, BookOK, Numbered, SegmentsFollow, NEW e \in Events, Append1(e),
         e.type \in {"status", "signal", "consumed", "minted"},
         e.type \notin {"consumed", "minted"} => e.ch \in Written,
         UNCHANGED <<written, done>>, UNCHANGED model
  PROVE  LogOK' /\ BookOK' /\ Numbered' /\ SegmentsFollow' /\ Written' = Written
<1>1. UNCHANGED <<written, done, book, notes, asked, cast>>
  BY DEF model
<1>2. Written' = Written
  BY <1>1 DEF Written
<1>3. LogOK'
  <2>1. /\ written' \in Seq(1 .. MaxVersion) /\ Len(written') <= N /\ Len(written) <= Len(written')
        /\ done' \in [Workers -> SUBSET (1 .. N)]
    BY <1>1 DEF LogOK
  <2> QED BY <1>2, <2>1, LogGrows
<1>4. BookOK'
  BY <1>1, <1>2 DEF BookOK
<1>5. Numbered'
  BY <1>1, NumbersStay
<1>6. SegmentsFollow'
  BY <1>1, FollowsBeside DEF IsAbout
<1> QED BY <1>2, <1>3, <1>4, <1>5, <1>6

LEMMA StandsAuthorWrites ==
  ASSUME IInv, AuthorWrites
  PROVE  IInv'
<1> USE DEF IInv
<1>1. /\ UNCHANGED model /\ UNCHANGED <<editor, work, mark, crew, faults>>
      /\ UNCHANGED <<book, notes, asked, cast>>
      /\ author.pc = "writing"
      /\ author' = IF author.asked = <<>> THEN Idle ELSE [author EXCEPT !.pc = "closing"]
  BY DEF AuthorWrites, model
<1>2. /\ written \in Seq(1 .. MaxVersion) /\ Len(written) \in Nat /\ Len(written) <= N
      /\ done \in [Workers -> SUBSET (1 .. N)]
  BY DEF LogOK
<1>3. /\ author \in [pc : {"idle", "writing", "closing"}, asked : Seq(Signals)]
      /\ \A k \in DOMAIN author.asked : author.asked[k].ch \in Written
  BY DEF RunsOK
<1>4. ASSUME LogOK', Len(written) <= Len(written'), Numbered', SegmentsFollow'
      PROVE  IInv'
  <2>1. Len(written') \in Nat
    BY <1>4 DEF LogOK
  <2>2. \A n \in Written : n \in Written'
    BY <1>2, <1>4, <2>1 DEF Written
  <2>3. BookOK'
    <3>1. Len(book) \in Nat /\ Len(book) <= Len(written')
      BY <1>2, <1>4, <2>1 DEF BookOK
    <3> QED BY <1>1, <2>2, <3>1 DEF BookOK
  <2>4. /\ author' \in [pc : {"idle", "writing", "closing"}, asked : Seq(Signals)]
        /\ \A k \in DOMAIN author'.asked : author'.asked[k].ch \in Written'
        /\ author'.pc = "closing" => author'.asked # <<>>
    <3>1. CASE author.asked = <<>>
      BY <1>1, <3>1 DEF Idle
    <3>2. CASE author.asked # <<>>
      <4>1. author' = [author EXCEPT !.pc = "closing"]
        BY <1>1, <3>2
      <4>2. author'.asked = author.asked /\ author' \in [pc : {"idle", "writing", "closing"}, asked : Seq(Signals)]
        BY <1>3, <4>1
      <4> QED BY <1>3, <2>2, <3>2, <4>2
    <3> QED BY <3>1, <3>2
  <2>5. RunsOK'
    BY <1>1, <2>2, <2>4 DEF RunsOK
  <2> QED BY <1>4, <2>3, <2>5
<1>5. CASE author.asked # <<>>
  <2>1. Head(author.asked) \in Signals /\ Head(author.asked).ch \in Written
    <3>1. 1 \in DOMAIN author.asked /\ Head(author.asked) = author.asked[1]
      BY <1>3, <1>5
    <3> QED BY <1>3, <3>1
  <2>2. PICK c : c = Head(author.asked).ch
    OBVIOUS
  <2>3. /\ written' = [written EXCEPT ![c] = Least(@ + 1, MaxVersion)]
        /\ done' = [w \in Workers |-> done[w] \ {c}]
        /\ Append1([type |-> "revised", ch |-> c, version |-> written'[c]])
    BY <1>5, <2>2 DEF AuthorWrites
  <2>4. c \in Written /\ c \in 1 .. N
    BY <1>2, <2>1, <2>2, Bounds DEF Written
  <2>5. Least(written[c] + 1, MaxVersion) \in 1 .. MaxVersion
    <3>1. written[c] \in 1 .. MaxVersion
      BY <1>2, <2>4, ElementOfSeq DEF Written
    <3>2. written[c] + 1 \in Nat /\ written[c] + 1 > 0 /\ MaxVersion \in Nat /\ MaxVersion > 0
      BY <3>1, Bounds
    <3>3. /\ Least(written[c] + 1, MaxVersion) \in Nat
          /\ Least(written[c] + 1, MaxVersion) <= MaxVersion
          /\ Least(written[c] + 1, MaxVersion) > 0
      BY <3>2, Least2
    <3> QED BY <3>2, <3>3
  <2>6. written' \in Seq(1 .. MaxVersion) /\ Len(written') = Len(written) /\ written'[c] \in 1 .. MaxVersion
    BY <1>2, <2>3, <2>4, <2>5 DEF Written
  <2>7. PICK e : e = [type |-> "revised", ch |-> c, version |-> written'[c]]
    OBVIOUS
  <2>8. /\ e \in Events /\ Append1(e) /\ e.type = "revised" /\ e.ch = c
    BY <2>3, <2>4, <2>6, <2>7 DEF Events
  <2>9. done' \in [Workers -> SUBSET (1 .. N)] /\ \A w \in Workers : done'[w] = done[w] \ {c}
    BY <1>2, <2>3
  <2>10. Written' = Written
    BY <2>6 DEF Written
  <2>11. LogOK'
    BY <1>2, <2>4, <2>6, <2>8, <2>9, <2>10, LogGrows
  <2>12. Numbered'
    BY <1>1, <2>6, <2>8, NumbersStay
  <2>13. SegmentsFollow'
    <3> SUFFICES ASSUME "attributor" \in Workers, NEW d \in 1 .. N PROVE Follows(d)'
      BY DEF SegmentsFollow
    <3>1. IsAbout(e, d) <=> d = c
      BY <2>8 DEF IsAbout
    <3>2. d \in done'["attributor"] <=> d \in done["attributor"] /\ d # c
      BY <2>9
    <3> QED BY <1>1, <2>8, <3>1, <3>2, FollowsStep DEF SegmentsFollow
  <2> QED BY <1>2, <1>4, <2>6, <2>11, <2>12, <2>13
<1>6. CASE author.asked = <<>>
  <2>1. /\ Len(written) < Goal[crew].chapters
        /\ written' = Append(written, 1) /\ done' = done
        /\ Append1([type |-> "created", ch |-> Len(written'), version |-> 1])
    BY <1>6 DEF AuthorWrites
  <2>2. Len(written) + 1 <= N /\ 1 \in 1 .. MaxVersion
    BY <1>2, <2>1, Bounds, Crews
  <2>3. written' \in Seq(1 .. MaxVersion) /\ Len(written') = Len(written) + 1
    BY <1>2, <2>1, <2>2
  <2>4. PICK e : e = [type |-> "created", ch |-> Len(written) + 1, version |-> 1]
    OBVIOUS
  <2>5. e \in Events /\ Append1(e) /\ e.type = "created" /\ e.ch = Len(written) + 1
    <3>1. Len(written) + 1 \in 1 .. N
      BY <1>2, <2>2
    <3> QED BY <2>1, <2>2, <2>3, <2>4, <3>1 DEF Events
  <2>6. Len(written) + 1 \in Written'
    BY <1>2, <2>3 DEF Written
  <2>7. LogOK'
    BY <1>2, <2>1, <2>2, <2>3, <2>5, <2>6, LogGrows
  <2>8. Numbered'
    <3>1. /\ Len(pending) \in Nat /\ DOMAIN pending = 1 .. Len(pending)
          /\ \A k \in DOMAIN pending : k \in DOMAIN pending' /\ pending'[k] = pending[k]
          /\ \A k \in DOMAIN pending' : k \in DOMAIN pending \/ k = Len(pending) + 1
          /\ Len(pending) + 1 \in DOMAIN pending' /\ pending'[Len(pending) + 1] = e
      BY <2>5, Appended
    <3>2. Created' = Created \cup {Len(pending) + 1}
      BY <2>5, <3>1 DEF Created
    <3>3. /\ \A k \in Created : pending'[k] = pending[k] /\ k < Len(pending) + 1 /\ k \in Nat
          /\ pending'[Len(pending) + 1].ch = Len(written) + 1
      BY <2>5, <3>1 DEF Created
    <3>4. Len(book') = Len(book) /\ Len(book) \in Nat /\ Len(book) <= Len(written)
      BY <1>1 DEF BookOK
    <3>5. \A k \in Created : pending[k].ch \in Len(book) + 1 .. Len(written)
      BY DEF Numbered
    <3>6. ASSUME NEW k \in Created' PROVE pending'[k].ch \in Len(book') + 1 .. Len(written')
      <4>1. CASE k \in Created
        BY <1>2, <2>3, <3>3, <3>4, <3>5, <4>1
      <4>2. CASE k = Len(pending) + 1
        BY <1>2, <2>3, <3>3, <3>4, <4>2
      <4> QED BY <3>2, <4>1, <4>2
    <3>7. ASSUME NEW j \in Created', NEW k \in Created', j < k PROVE pending'[j].ch < pending'[k].ch
      <4>1. CASE j \in Created /\ k \in Created
        BY <3>3, <3>7, <4>1 DEF Numbered
      <4>2. CASE j \in Created /\ k = Len(pending) + 1
        BY <1>2, <3>3, <3>4, <3>5, <4>2
      <4>3. j # Len(pending) + 1
        BY <3>1, <3>2, <3>3, <3>7
      <4> QED BY <3>2, <4>1, <4>2, <4>3
    <3>8. ASSUME NEW n \in Len(book') + 1 .. Len(written') PROVE \E k \in Created' : pending'[k].ch = n
      <4>1. n \in Len(book) + 1 .. Len(written) \/ n = Len(written) + 1
        BY <1>2, <2>3, <3>4
      <4>2. CASE n \in Len(book) + 1 .. Len(written)
        BY <3>2, <3>3, <4>2 DEF Numbered
      <4>3. CASE n = Len(written) + 1
        BY <3>2, <3>3, <4>3
      <4> QED BY <4>1, <4>2, <4>3
    <3> QED BY <3>6, <3>7, <3>8 DEF Numbered
  <2>9. SegmentsFollow'
    BY <1>1, <2>1, <2>5, FollowsBeside DEF IsAbout
  <2> QED BY <1>2, <1>4, <2>3, <2>7, <2>8, <2>9
<1> QED BY <1>5, <1>6

LEMMA StandsAuthorConsumes ==
  ASSUME IInv, AuthorConsumes
  PROVE  IInv'
<1> USE DEF IInv
<1>1. /\ UNCHANGED <<written, done>> /\ UNCHANGED model /\ UNCHANGED <<editor, work, mark, crew, faults>>
      /\ author.pc = "closing" /\ Append1([type |-> "consumed", id |-> Head(author.asked).id])
      /\ author' = IF Tail(author.asked) = <<>> THEN Idle ELSE [author EXCEPT !.asked = Tail(@)]
  BY DEF AuthorConsumes
<1>2. /\ author \in [pc : {"idle", "writing", "closing"}, asked : Seq(Signals)]
      /\ \A k \in DOMAIN author.asked : author.asked[k].ch \in Written
      /\ author.asked \in Seq(Signals) /\ author.asked # <<>>
  BY <1>1 DEF RunsOK
<1>3. PICK e : e = [type |-> "consumed", id |-> Head(author.asked).id]
  OBVIOUS
<1>4. e \in Events /\ Append1(e) /\ e.type = "consumed"
  <2>1. Head(author.asked) \in Signals
    BY <1>2
  <2> QED BY <1>1, <1>3, <2>1 DEF Events, Signals
<1>5. LogOK' /\ BookOK' /\ Numbered' /\ SegmentsFollow' /\ Written' = Written
  BY <1>1, <1>4, Told
<1>6. /\ Tail(author.asked) \in Seq(Signals)
      /\ \A k \in DOMAIN Tail(author.asked) : Tail(author.asked)[k].ch \in Written
  <2>1. ASSUME NEW k \in DOMAIN Tail(author.asked)
        PROVE  Tail(author.asked)[k] = author.asked[k + 1] /\ k + 1 \in DOMAIN author.asked
    BY <1>2, <2>1
  <2> QED BY <1>2, <2>1
<1>7. /\ author' \in [pc : {"idle", "writing", "closing"}, asked : Seq(Signals)]
      /\ \A k \in DOMAIN author'.asked : author'.asked[k].ch \in Written
      /\ author'.pc = "closing" => author'.asked # <<>>
  <2>1. CASE Tail(author.asked) = <<>>
    BY <1>1, <2>1 DEF Idle
  <2>2. CASE Tail(author.asked) # <<>>
    <3>1. author' = [author EXCEPT !.asked = Tail(author.asked)]
      BY <1>1, <2>2
    <3>2. author'.asked = Tail(author.asked) /\ author' \in [pc : {"idle", "writing", "closing"}, asked : Seq(Signals)]
      BY <1>2, <1>6, <3>1
    <3> QED BY <1>6, <2>2, <3>2
  <2> QED BY <2>1, <2>2
<1>8. RunsOK'
  BY <1>1, <1>5, <1>7 DEF RunsOK
<1> QED BY <1>5, <1>8

LEMMA StandsEditorPolls ==
  ASSUME IInv, EditorPolls
  PROVE  IInv'
<1> USE DEF IInv
<1>1. /\ UNCHANGED log /\ UNCHANGED model /\ UNCHANGED <<author, work, mark, crew, faults>>
      /\ Drafts # {}
      /\ editor' = LET c == CHOOSE c \in Drafts : \A d \in Drafts : c <= d IN [ch |-> c, record |-> book[c]]
  BY DEF EditorPolls
<1>2. LogOK' /\ BookOK' /\ Numbered' /\ SegmentsFollow' /\ Written' = Written
  BY <1>1, Beside
<1>3. PICK first : first = CHOOSE c \in Drafts : \A d \in Drafts : c <= d
  OBVIOUS
<1>4. /\ book \in Seq(Records) /\ Len(book) \in Nat /\ DOMAIN book = 1 .. Len(book)
      /\ Len(book) <= Len(written) /\ Len(written) <= N /\ Len(written) \in Nat
  BY DEF BookOK, LogOK
<1>5. first \in Drafts
  <2>1. Drafts \subseteq Nat
    BY <1>4 DEF Drafts
  <2> QED BY <1>1, <1>3, <2>1, LeastNatural
<1>6. first \in 1 .. Len(book) /\ first \in 1 .. N /\ first \in Written /\ book[first] \in Records
  BY <1>4, <1>5, Bounds DEF Drafts, Written
<1>7. editor' = [ch |-> first, record |-> book[first]]
  BY <1>1, <1>3
<1>8. editor' \in [ch : 1 .. N, record : Records] /\ editor'.ch \in Written
  BY <1>6, <1>7
<1>9. RunsOK'
  BY <1>1, <1>2, <1>8 DEF RunsOK
<1> QED BY <1>2, <1>9

LEMMA StandsEditorApproves ==
  ASSUME IInv, EditorApproves
  PROVE  IInv'
<1> USE DEF IInv
<1>1. /\ UNCHANGED <<written, done>> /\ UNCHANGED model
      /\ UNCHANGED <<author, work, mark, crew, faults>> /\ editor' = None
      /\ editor \in [ch : 1 .. N, record : Records] /\ editor.ch \in Written
  BY DEF EditorApproves, RunsOK
<1>2. PICK r : r = [editor.record EXCEPT !.status = "reviewed"]
  OBVIOUS
<1>3. r \in Records
  BY <1>1, <1>2 DEF Records
<1>4. PICK e : e = [type |-> "status", ch |-> editor.ch, record |-> r]
  OBVIOUS
<1>5. Append1(e)
  BY <1>2, <1>4 DEF EditorApproves
<1>6. e \in Events /\ e.type = "status" /\ e.ch \in Written
  BY <1>1, <1>3, <1>4 DEF Events
<1>7. LogOK' /\ BookOK' /\ Numbered' /\ SegmentsFollow' /\ Written' = Written
  BY <1>1, <1>5, <1>6, Told
<1>8. RunsOK'
  BY <1>1, <1>7 DEF RunsOK
<1> QED BY <1>7, <1>8

LEMMA StandsEditorSendsBack ==
  ASSUME IInv, EditorSendsBack
  PROVE  IInv'
<1> USE DEF IInv
<1>1. /\ UNCHANGED <<written, done>> /\ UNCHANGED model
      /\ UNCHANGED <<author, work, mark, crew, faults>> /\ editor' = None
      /\ editor \in [ch : 1 .. N, record : Records] /\ editor.ch \in Written
  BY DEF EditorSendsBack, RunsOK
<1>2. PICK free : free = (1 .. Goal[crew].signals) \ InUse
  OBVIOUS
<1>3. CASE free = {}
  <2>1. UNCHANGED log
    BY <1>1, <1>2, <1>3 DEF EditorSendsBack, log
  <2>2. LogOK' /\ BookOK' /\ Numbered' /\ SegmentsFollow' /\ Written' = Written
    BY <1>1, <2>1, Beside
  <2> QED BY <1>1, <2>2 DEF RunsOK
<1>4. CASE free # {}
  <2>1. PICK n : n = CHOOSE id \in free : \A o \in free : id <= o
    OBVIOUS
  <2>2. free \subseteq Nat /\ free \subseteq Ids
    BY <1>2, Crews, Bounds DEF Ids
  <2>3. n \in Ids
    BY <1>4, <2>1, <2>2, LeastNatural
  <2>4. PICK e : e = [type |-> "signal", ch |-> editor.ch, id |-> n]
    OBVIOUS
  <2>5. Append1(e)
    BY <1>2, <1>4, <2>1, <2>4 DEF EditorSendsBack
  <2>6. e \in Events /\ e.type = "signal" /\ e.ch \in Written
    BY <1>1, <2>3, <2>4 DEF Events
  <2>7. LogOK' /\ BookOK' /\ Numbered' /\ SegmentsFollow' /\ Written' = Written
    BY <1>1, <2>5, <2>6, Told
  <2> QED BY <1>1, <2>7 DEF RunsOK
<1> QED BY <1>3, <1>4

-----------------------------------------------------------------------------
LEMMA JobsLeft ==
  ASSUME NEW r \in Tasks, NEW c \in 1 .. N
  PROVE  /\ [r EXCEPT !.texts[c] = None] \in Tasks
         /\ [r EXCEPT !.mints = FALSE] \in Tasks
         /\ [r EXCEPT !.texts = NoText] \in Tasks
<1>1. [r EXCEPT !.texts[c] = None] \in Tasks
  <2>1. PICK f : f = [r.texts EXCEPT ![c] = None]
    OBVIOUS
  <2>2. f \in [1 .. N -> Texts \cup {None}]
    BY <2>1 DEF Tasks
  <2>3. [r EXCEPT !.texts = f] \in Tasks
    BY <2>2 DEF Tasks
  <2>4. [r EXCEPT !.texts[c] = None] = [r EXCEPT !.texts = f]
    BY <2>1
  <2> QED BY <2>3, <2>4
<1>2. [r EXCEPT !.mints = FALSE] \in Tasks
  BY DEF Tasks
<1>3. [r EXCEPT !.texts = NoText] \in Tasks
  <2>1. NoText \in [1 .. N -> Texts \cup {None}]
    BY DEF NoText
  <2> QED BY <2>1 DEF Tasks
<1> QED BY <1>1, <1>2, <1>3

LEMMA StandsWorkerPolls ==
  ASSUME IInv, NEW w \in crew, WorkerPolls(w)
  PROVE  IInv'
<1> USE DEF IInv
<1>1. /\ UNCHANGED log /\ UNCHANGED model /\ UNCHANGED <<author, editor, mark, crew, faults>>
      /\ w \in Workers
  BY Crews DEF WorkerPolls
<1>2. LogOK' /\ BookOK' /\ Numbered' /\ SegmentsFollow' /\ Written' = Written
  BY <1>1, Beside
<1>3. PICK chosen \in Selections(w) :
        work' = [work EXCEPT ![w] =
         [seen |-> Len(book),
          mints |-> w = "keeper" /\ (cast \/ chosen # {}),
          texts |-> [c \in 1 .. N |-> IF c \in chosen THEN book[c].text ELSE None]]]
  BY DEF WorkerPolls
<1>4. chosen \subseteq DOMAIN book
  BY <1>3 DEF Selections, Unworked
<1>5. /\ book \in Seq(Records) /\ Len(book) \in 0 .. N /\ \A c \in DOMAIN book : book[c].text \in Texts
  <2>1. book \in Seq(Records) /\ Len(book) \in Nat /\ Len(book) <= Len(written)
    BY DEF BookOK
  <2>2. Len(written) \in Nat /\ Len(written) <= N
    BY DEF LogOK
  <2>3. \A c \in DOMAIN book : book[c] \in Records
    BY <2>1
  <2> HIDE DEF IInv
  <2> QED BY <2>1, <2>2, <2>3, Bounds DEF Records
<1>6. PICK r : r = [seen |-> Len(book),
          mints |-> w = "keeper" /\ (cast \/ chosen # {}),
          texts |-> [c \in 1 .. N |-> IF c \in chosen THEN book[c].text ELSE None]]
  OBVIOUS
<1>7. r \in Tasks
  <2>1. (w = "keeper" /\ (cast \/ chosen # {})) \in BOOLEAN
    OBVIOUS
  <2>2. [c \in 1 .. N |-> IF c \in chosen THEN book[c].text ELSE None] \in [1 .. N -> Texts \cup {None}]
    BY <1>4, <1>5
  <2> HIDE DEF IInv
  <2> QED BY <1>5, <1>6, <2>1, <2>2 DEF Tasks
<1>8. work' = [work EXCEPT ![w] = r]
  BY <1>3, <1>6
<1>9. work' \in [Workers -> Tasks \cup {None}]
  BY <1>7, <1>8 DEF RunsOK
<1>10. RunsOK'
  BY <1>1, <1>2, <1>9 DEF RunsOK
<1> QED BY <1>2, <1>10

LEMMA StandsWorkerStamps ==
  ASSUME IInv, NEW w \in crew, NEW c \in 1 .. N, WorkerStamps(w, c)
  PROVE  IInv'
<1> USE DEF IInv
<1>1. /\ UNCHANGED <<written>> /\ UNCHANGED model
      /\ UNCHANGED <<book, notes, asked, cast>>
      /\ UNCHANGED <<author, editor, mark, crew, faults>>
      /\ done' = [done EXCEPT ![w] = @ \cup {c}]
      /\ w \in Workers /\ work[w] # None /\ work[w].texts[c] # None
      /\ work' = [work EXCEPT ![w].texts[c] = None, ![w].mints = FALSE]
  BY Crews DEF WorkerStamps, model
<1>2. /\ written \in Seq(1 .. MaxVersion) /\ Len(written) \in Nat /\ Len(written) <= N
      /\ done \in [Workers -> SUBSET (1 .. N)]
  BY DEF LogOK
<1>3. work \in [Workers -> Tasks \cup {None}] /\ work[w] \in Tasks
  BY <1>1 DEF RunsOK
<1>4. PICK t : t = [work[w].texts[c] EXCEPT !.marked = FALSE]
  OBVIOUS
<1>5. t \in Texts
  <2>1. work[w].texts[c] \in Texts
    BY <1>1, <1>3 DEF Tasks
  <2> QED BY <1>4, <2>1 DEF Texts
<1>6. PICK e : e = [type |-> "stamped", by |-> w, ch |-> c, text |-> t]
  OBVIOUS
<1>7. e \in Events /\ e.type = "stamped" /\ e.ch = c /\ e.by = w
  BY <1>1, <1>5, <1>6 DEF Events
<1>8. Append1(e)
  BY <1>4, <1>6 DEF WorkerStamps
<1>9. done' \in [Workers -> SUBSET (1 .. N)]
  BY <1>1, <1>2
<1>10. Written' = Written
  BY <1>1 DEF Written
<1>11. LogOK'
  <2>1. /\ written' \in Seq(1 .. MaxVersion) /\ Len(written') <= N /\ Len(written) <= Len(written')
        /\ e.type \in {"stamped", "consumed", "minted"}
    BY <1>1, <1>2, <1>7
  <2> QED BY <1>7, <1>8, <1>9, <2>1, LogGrows
<1>12. BookOK'
  BY <1>1, <1>10 DEF BookOK
<1>13. Numbered'
  BY <1>1, <1>7, <1>8, NumbersStay
<1>14. SegmentsFollow'
  <2> SUFFICES ASSUME "attributor" \in Workers, NEW d \in 1 .. N PROVE Follows(d)'
    BY DEF SegmentsFollow
  <2>1. IsAbout(e, d) <=> d = c /\ w = "attributor"
    BY <1>7 DEF IsAbout
  <2>2. d \in done'["attributor"] <=> (d \in done["attributor"] \/ (w = "attributor" /\ d = c))
    BY <1>1, <1>2
  <2>3. IsAbout(e, d) => (d \in done'["attributor"] <=> e.type = "stamped")
    BY <1>7, <2>1, <2>2
  <2>4. ~ IsAbout(e, d) => (d \in done'["attributor"] <=> d \in done["attributor"])
    BY <2>1, <2>2
  <2> QED BY <1>1, <1>7, <1>8, <2>3, <2>4, FollowsStep DEF SegmentsFollow
<1>15. work' \in [Workers -> Tasks \cup {None}]
  <2>1. PICK r : r = [work[w] EXCEPT !.texts[c] = None]
    OBVIOUS
  <2>2. PICK q : q = [r EXCEPT !.mints = FALSE]
    OBVIOUS
  <2>3. q \in Tasks
    BY <1>3, <2>1, <2>2, JobsLeft
  <2>4. work' = [work EXCEPT ![w] = q]
    BY <1>1, <1>3, <2>1, <2>2
  <2> QED BY <1>3, <2>3, <2>4
<1>16. RunsOK'
  BY <1>1, <1>10, <1>15 DEF RunsOK
<1> QED BY <1>11, <1>12, <1>13, <1>14, <1>16

LEMMA StandsWorkOnly ==
  ASSUME IInv, UNCHANGED log, UNCHANGED model, UNCHANGED <<author, editor, mark>>,
         crew' = crew, faults' \in 0 .. MaxFaults, work' \in [Workers -> Tasks \cup {None}]
  PROVE  IInv'
<1>1. LogOK' /\ BookOK' /\ Numbered' /\ SegmentsFollow' /\ Written' = Written
  BY Beside DEF IInv
<1>2. RunsOK'
  BY <1>1 DEF IInv, RunsOK
<1> QED BY <1>1, <1>2 DEF IInv

LEMMA StandsWorkerSkips ==
  ASSUME IInv, NEW w \in crew, NEW c \in 1 .. N, WorkerSkips(w, c)
  PROVE  IInv'
<1>1. /\ work[w] # None /\ work' = [work EXCEPT ![w].texts[c] = None]
      /\ UNCHANGED log /\ UNCHANGED model /\ UNCHANGED <<author, editor, mark>> /\ Fault
  BY DEF WorkerSkips
<1>2. w \in Workers /\ work \in [Workers -> Tasks \cup {None}] /\ work[w] \in Tasks
  BY <1>1, Crews DEF IInv, RunsOK
<1>3. PICK r : r = [work[w] EXCEPT !.texts[c] = None]
  OBVIOUS
<1>4. r \in Tasks /\ work' = [work EXCEPT ![w] = r]
  BY <1>1, <1>2, <1>3, JobsLeft
<1>5. work' \in [Workers -> Tasks \cup {None}]
  BY <1>2, <1>4
<1> QED BY <1>1, <1>5, FaultCounted, StandsWorkOnly DEF IInv

LEMMA StandsKeeperPasses ==
  ASSUME IInv, "keeper" \in crew, KeeperPasses
  PROVE  IInv'
<1>1. /\ work["keeper"] # None
      /\ work' = [work EXCEPT !["keeper"].mints = FALSE, !["keeper"].texts = NoText]
      /\ UNCHANGED log /\ UNCHANGED model /\ UNCHANGED <<author, editor, mark>> /\ Fault
  BY DEF KeeperPasses
<1>2. "keeper" \in Workers /\ work \in [Workers -> Tasks \cup {None}] /\ work["keeper"] \in Tasks
  BY <1>1, Crews DEF IInv, RunsOK
<1>3. PICK q : q = [work["keeper"] EXCEPT !.mints = FALSE]
  OBVIOUS
<1>4. PICK r : r = [q EXCEPT !.texts = NoText]
  OBVIOUS
<1>5. r \in Tasks
  <2>1. 1 \in 1 .. N
    BY Bounds
  <2>2. q \in Tasks
    BY <1>2, <1>3, <2>1, JobsLeft
  <2> QED BY <1>4, <2>1, <2>2, JobsLeft
<1>6. work' = [work EXCEPT !["keeper"] = r]
  BY <1>1, <1>2, <1>3, <1>4
<1>7. work' \in [Workers -> Tasks \cup {None}]
  BY <1>2, <1>5, <1>6
<1> QED BY <1>1, <1>7, FaultCounted, StandsWorkOnly DEF IInv

LEMMA StandsKeeperMints ==
  ASSUME IInv, "keeper" \in crew, KeeperMints
  PROVE  IInv'
<1> USE DEF IInv
<1>1. /\ work["keeper"] # None /\ Append1([type |-> "minted"])
      /\ work' = [work EXCEPT !["keeper"].mints = FALSE]
      /\ UNCHANGED <<written, done>> /\ UNCHANGED model /\ UNCHANGED <<author, editor, mark, crew, faults>>
  BY DEF KeeperMints
<1>2. "keeper" \in Workers /\ work \in [Workers -> Tasks \cup {None}] /\ work["keeper"] \in Tasks
  BY <1>1, Crews DEF RunsOK
<1>3. PICK q : q = [work["keeper"] EXCEPT !.mints = FALSE]
  OBVIOUS
<1>4. q \in Tasks /\ work' = [work EXCEPT !["keeper"] = q]
  <2>1. 1 \in 1 .. N
    BY Bounds
  <2>2. q \in Tasks
    BY <1>2, <1>3, <2>1, JobsLeft
  <2> QED BY <1>1, <1>2, <1>3, <2>2
<1>5. work' \in [Workers -> Tasks \cup {None}]
  BY <1>2, <1>4
<1>6. PICK e : e = [type |-> "minted"]
  OBVIOUS
<1>7. e \in Events /\ Append1(e) /\ e.type = "minted"
  BY <1>1, <1>6 DEF Events
<1>8. LogOK' /\ BookOK' /\ Numbered' /\ SegmentsFollow' /\ Written' = Written
  BY <1>1, <1>7, Told
<1>9. RunsOK'
  BY <1>1, <1>5, <1>8 DEF RunsOK
<1> QED BY <1>8, <1>9

LEMMA StandsWorkerEnds ==
  ASSUME IInv, NEW w \in crew, WorkerEnds(w)
  PROVE  IInv'
<1>1. /\ UNCHANGED log /\ UNCHANGED model /\ UNCHANGED <<author, editor, crew, faults>>
      /\ mark' = [mark EXCEPT ![w] = NewMark(w)] /\ work' = [work EXCEPT ![w] = None]
  BY DEF WorkerEnds
<1>2. LogOK' /\ BookOK' /\ Numbered' /\ SegmentsFollow' /\ Written' = Written
  BY <1>1, Beside DEF IInv
<1>3. /\ book \in Seq(Records) /\ Len(book) \in Nat /\ DOMAIN book = 1 .. Len(book)
      /\ Len(book) <= Len(written) /\ Len(written) <= N /\ Len(written) \in Nat /\ N \in Nat
  BY Bounds DEF IInv, BookOK, LogOK
<1>4. Cardinality(Unworked(w)) \in 0 .. N
  <2>1. Unworked(w) \subseteq 1 .. Len(book)
    BY <1>3 DEF Unworked
  <2>2. IsFiniteSet(1 .. Len(book)) /\ Cardinality(1 .. Len(book)) = Len(book)
    <3>1. PICK n : n = Len(book)
      OBVIOUS
    <3>2. n \in Nat /\ n \in Int /\ 1 \in Int
      BY <1>3, <3>1
    <3>3. IsFiniteSet(1 .. n) /\ Cardinality(1 .. n) = IF 1 > n THEN 0 ELSE n - 1 + 1
      BY ONLY <3>2, FS_Interval
    <3>4. Cardinality(1 .. n) = n
      BY <3>2, <3>3
    <3> QED BY <3>1, <3>3, <3>4
  <2>3. Cardinality(Unworked(w)) \in Nat /\ Cardinality(Unworked(w)) <= Len(book)
    BY <2>1, <2>2, FS_Subset, FS_CardinalityType
  <2> QED BY <1>3, <2>3
<1>5. NewMark(w) \in ((0 .. N) \X (0 .. N)) \cup {None}
  <2>1. Len(book) \in 0 .. N
    BY <1>3
  <2> QED BY <1>4, <2>1 DEF NewMark, Fingerprint
<1>6. /\ mark' \in [Workers -> ((0 .. N) \X (0 .. N)) \cup {None}]
      /\ work' \in [Workers -> Tasks \cup {None}]
  BY <1>1, <1>5, Crews DEF IInv, RunsOK
<1>7. RunsOK'
  BY <1>1, <1>2, <1>6 DEF IInv, RunsOK
<1> QED BY <1>2, <1>7 DEF IInv

-----------------------------------------------------------------------------
(* Chapters: the projector                                                 *)

LEMMA Replaced ==
  ASSUME NEW S, NEW q \in Seq(S), NEW c, NEW r, c \in DOMAIN q => r \in S
  PROVE  [q EXCEPT ![c] = r] \in Seq(S) /\ Len([q EXCEPT ![c] = r]) = Len(q)
<1>1. CASE c \in DOMAIN q
  BY <1>1
<1>2. CASE c \notin DOMAIN q
  <2>1. [q EXCEPT ![c] = r] = q
    BY <1>2
  <2> QED BY <2>1
<1> QED BY <1>1, <1>2

LEMMA WithoutKeeps ==
  ASSUME asked \in Seq(Signals), \A k \in DOMAIN asked : asked[k].ch \in Written, NEW id
  PROVE  /\ Without(id) \in Seq(Signals)
         /\ \A k \in DOMAIN Without(id) : Without(id)[k].ch \in Written
<1>1. CASE \A k \in DOMAIN asked : asked[k].id # id
  BY <1>1 DEF Without
<1>2. CASE ~ \A k \in DOMAIN asked : asked[k].id # id
  <2>1. PICK i : i = CHOOSE k \in DOMAIN asked : asked[k].id = id
    OBVIOUS
  <2>2. i \in 1 .. Len(asked) /\ Len(asked) \in Nat /\ DOMAIN asked = 1 .. Len(asked)
    BY <1>2, <2>1
  <2>3. PICK f : f = SubSeq(asked, 1, i - 1)
    OBVIOUS
  <2>4. PICK g : g = SubSeq(asked, i + 1, Len(asked))
    OBVIOUS
  <2>5. Without(id) = f \o g
    BY <1>2, <2>1, <2>3, <2>4 DEF Without
  <2>6. f \in Seq(Signals) /\ Len(f) = i - 1 /\ \A k \in 1 .. Len(f) : f[k] = asked[k] /\ k \in DOMAIN asked
    BY <2>2, <2>3
  <2>7. /\ g \in Seq(Signals) /\ Len(g) = Len(asked) - i
        /\ \A k \in 1 .. Len(g) : g[k] = asked[k + i] /\ k + i \in DOMAIN asked
    <3>1. PICK j : j = i + 1
      OBVIOUS
    <3>2. PICK n : n = Len(asked)
      OBVIOUS
    <3>3. j \in Int /\ n \in Int /\ g = SubSeq(asked, j, n) /\ \A k \in j .. n : asked[k] \in Signals
      BY <2>2, <2>4, <3>1, <3>2
    <3>4. /\ SubSeq(asked, j, n) \in Seq(Signals)
          /\ Len(SubSeq(asked, j, n)) = IF j <= n THEN n - j + 1 ELSE 0
          /\ \A k \in 1 .. n - j + 1 : SubSeq(asked, j, n)[k] = asked[j + k - 1]
      BY <3>3, SubSeqProperties
    <3>5. Len(g) = n - i
      <4>1. CASE j <= n
        BY <2>2, <3>1, <3>3, <3>4, <4>1
      <4>2. CASE ~ (j <= n)
        <5>1. i = n /\ n - i = 0
          <6>1. i \in 1 .. n /\ n \in Nat /\ j = i + 1 /\ ~ (j <= n)
            BY <2>2, <3>1, <3>2, <4>2
          <6> QED BY ONLY <6>1
        <5>2. Len(g) = 0
          BY <3>3, <3>4, <4>2
        <5> QED BY <5>1, <5>2
      <4> QED BY <4>1, <4>2
    <3>6. ASSUME NEW k \in 1 .. Len(g) PROVE g[k] = asked[k + i] /\ k + i \in DOMAIN asked
      <4>1. k \in 1 .. n - j + 1 /\ j + k - 1 = k + i /\ k + i \in DOMAIN asked
        <5>1. k \in 1 .. n - i /\ i \in 1 .. n /\ n \in Nat /\ j = i + 1 /\ DOMAIN asked = 1 .. n
          BY <2>2, <3>1, <3>2, <3>5
        <5>2. k \in 1 .. n - j + 1 /\ j + k - 1 = k + i /\ k + i \in 1 .. n
          BY ONLY <5>1
        <5> QED BY <5>1, <5>2
      <4>2. g[k] = asked[j + k - 1]
        BY <3>3, <3>4, <4>1
      <4>3. asked[j + k - 1] = asked[k + i]
        BY <4>1
      <4> QED BY <4>1, <4>2, <4>3
    <3> QED BY <3>2, <3>3, <3>4, <3>5, <3>6
  <2>8. f \o g \in Seq(Signals) /\ DOMAIN (f \o g) = 1 .. Len(f) + Len(g)
    BY <2>6, <2>7
  <2>9. ASSUME NEW k \in 1 .. Len(f) + Len(g)
        PROVE  (f \o g)[k].ch \in Written
    <3>1. CASE k <= Len(f)
      BY <2>6, <2>7, <3>1
    <3>2. CASE k > Len(f)
      <4>1. k - Len(f) \in 1 .. Len(g)
        BY <2>6, <2>7, <3>2
      <4>2. (f \o g)[k] = g[k - Len(f)]
        BY <2>6, <2>7, <3>2, ConcatProperties
      <4> QED BY <2>7, <4>1, <4>2
    <3> QED BY <2>2, <2>6, <3>1, <3>2
  <2> QED BY <2>5, <2>8, <2>9
<1> QED BY <1>1, <1>2

(* The oldest event is folded *)
LEMMA Folded ==
  ASSUME pending \in Seq(Events), pending # <<>>, pending' = Tail(pending)
  PROVE  /\ Len(pending) \in Nat /\ Len(pending) > 0 /\ DOMAIN pending = 1 .. Len(pending)
         /\ Head(pending) = pending[1] /\ 1 \in DOMAIN pending /\ pending[1] \in Events
         /\ pending' \in Seq(Events) /\ Len(pending') = Len(pending) - 1
         /\ DOMAIN pending' \subseteq Nat
         /\ \A k \in DOMAIN pending' : k + 1 \in DOMAIN pending /\ pending'[k] = pending[k + 1]
         /\ \A k \in DOMAIN pending : k = 1 \/ (k - 1 \in DOMAIN pending' /\ pending'[k - 1] = pending[k])
         /\ \A k \in DOMAIN pending : k \in Nat /\ k >= 1
<1>1. /\ Len(pending) \in Nat /\ Len(pending) > 0 /\ DOMAIN pending = 1 .. Len(pending)
      /\ Head(pending) = pending[1] /\ pending' \in Seq(Events) /\ Len(pending') = Len(pending) - 1
      /\ DOMAIN pending' = 1 .. Len(pending) - 1
  OBVIOUS
<1>2. \A k \in 1 .. Len(pending) - 1 : pending'[k] = pending[k + 1]
  BY <1>1
<1>3. 1 \in DOMAIN pending /\ pending[1] \in Events
  BY <1>1
<1>4. \A k \in 1 .. Len(pending) - 1 : k + 1 \in 1 .. Len(pending)
  BY <1>1
<1>5. ASSUME NEW k \in DOMAIN pending
      PROVE  k = 1 \/ (k - 1 \in DOMAIN pending' /\ pending'[k - 1] = pending[k])
  <2>1. CASE k # 1
    <3>1. k - 1 \in 1 .. Len(pending) - 1 /\ k = (k - 1) + 1
      BY <1>1, <2>1
    <3> QED BY <1>1, <1>2, <3>1
  <2> QED BY <2>1
<1> QED BY <1>1, <1>2, <1>3, <1>4, <1>5

LEMMA FollowsShift ==
  ASSUME pending \in Seq(Events), pending # <<>>, pending' = Tail(pending), done' = done,
         NEW c \in 1 .. N, Follows(c),
         IsAbout(pending[1], c) => (notes'["attributor"][c] # None <=> pending[1].type = "stamped"),
         ~ IsAbout(pending[1], c) => notes'["attributor"][c] = notes["attributor"][c]
  PROVE  Follows(c)'
<1>1. \A k \in About(c)' : k \in Nat /\ k + 1 \in About(c) /\ pending'[k] = pending[k + 1]
  BY Folded DEF About
<1>2. \A k \in About(c) : k \in Nat /\ k >= 1 /\ (k = 1 \/ k - 1 \in About(c)')
  BY Folded DEF About
<1>3. 1 \in About(c) <=> IsAbout(pending[1], c)
  BY Folded DEF About
<1>4. ASSUME About(c)' = {} PROVE c \in done'["attributor"] <=> notes'["attributor"][c] # None
  <2>1. CASE IsAbout(pending[1], c)
    <3>1. 1 \in About(c) /\ \A j \in About(c) : j <= 1
      BY <1>2, <1>3, <1>4, <2>1
    <3> QED BY <2>1, <3>1 DEF Follows
  <2>2. CASE ~ IsAbout(pending[1], c)
    <3>1. About(c) = {}
      BY <1>2, <1>3, <1>4, <2>2
    <3> QED BY <2>2, <3>1 DEF Follows
  <2> QED BY <2>1, <2>2
<1>5. ASSUME NEW k \in About(c)', \A j \in About(c)' : j <= k
      PROVE  c \in done'["attributor"] <=> pending'[k].type = "stamped"
  <2>1. k \in Nat /\ k + 1 \in About(c) /\ pending'[k] = pending[k + 1]
    BY <1>1, <1>5
  <2>2. ASSUME NEW j \in About(c) PROVE j <= k + 1
    <3>1. CASE j = 1
      BY <2>1, <3>1
    <3>2. CASE j # 1
      <4>1. j - 1 \in About(c)' /\ j \in Nat
        BY <1>2, <3>2
      <4> QED BY <1>5, <2>1, <4>1
    <3> QED BY <3>1, <3>2
  <2> QED BY <2>1, <2>2 DEF Follows
<1> QED BY <1>4, <1>5 DEF Follows

(* What a folded event leaves of the read model: typed, a chapter more if it
   creates one, and speakers as it says *)
LEMMA BookFolds ==
  ASSUME LogOK, BookOK, pending # <<>>, Project
  PROVE  /\ book' \in Seq(Records) /\ notes' \in [Workers -> [1 .. N -> Texts \cup {None}]]
         /\ asked' \in Seq(Signals) /\ \A k \in DOMAIN asked' : asked'[k].ch \in Written
         /\ cast' \in BOOLEAN
         /\ Len(book') = IF pending[1].type = "created" THEN Len(book) + 1 ELSE Len(book)
         /\ \A c \in 1 .. N : "attributor" \in Workers =>
              IF IsAbout(pending[1], c)
                THEN notes'["attributor"][c] # None <=> pending[1].type = "stamped"
                ELSE notes'["attributor"][c] = notes["attributor"][c]
<1> DEFINE Speaks(c) ==
      IF IsAbout(pending[1], c)
        THEN notes'["attributor"][c] # None <=> pending[1].type = "stamped"
        ELSE notes'["attributor"][c] = notes["attributor"][c]
<1>1. PICK e : e = pending[1]
  OBVIOUS
<1>2. /\ pending \in Seq(Events) /\ Head(pending) = e /\ e \in Events
      /\ e.type \notin {"stamped", "consumed", "minted"} => e.ch \in Written
  <2>1. pending \in Seq(Events) /\ 1 \in DOMAIN pending /\ Head(pending) = pending[1] /\ pending[1] \in Events
    BY DEF LogOK
  <2> QED BY <1>1, <2>1 DEF LogOK
<1>3. /\ book \in Seq(Records) /\ notes \in [Workers -> [1 .. N -> Texts \cup {None}]]
      /\ asked \in Seq(Signals) /\ \A k \in DOMAIN asked : asked[k].ch \in Written
      /\ cast \in BOOLEAN
  BY DEF BookOK
<1>4. /\ e.type \notin {"consumed", "minted"} => e.ch \in 1 .. N
      /\ e.type \in {"created", "revised"} => e.version \in 1 .. MaxVersion
      /\ e.type = "status" => e.record \in Records
      /\ e.type = "stamped" => e.by \in Workers /\ e.text \in Texts
      /\ e.type \in {"signal", "consumed"} => e.id \in Ids
  BY <1>2, EventFacts
<1>5. CASE e.type \in {"created", "status"} /\ ChapterWritten(e) /\ UNCHANGED <<asked, cast>>
  <2>1. notes' = notes /\ asked' = asked /\ cast' = cast
    BY <1>5 DEF ChapterWritten
  <2>2. \A c \in 1 .. N : Speaks(c)
    BY <1>1, <1>5, <2>1 DEF IsAbout
  <2>3. book' \in Seq(Records) /\ Len(book') = IF e.type = "created" THEN Len(book) + 1 ELSE Len(book)
    <3>1. CASE e.type = "created"
      <4>1. PICK r : r = [text |-> [version |-> e.version, marked |-> TRUE], status |-> "draft", revisions |-> 0]
        OBVIOUS
      <4>2. r \in Records
        <5>1. 0 \in 0 .. MaxRevisions + 1
          BY Bounds
        <5> QED BY <1>4, <3>1, <4>1, <5>1 DEF Records, Texts
      <4>3. book' = Append(book, r)
        BY <1>5, <3>1, <4>1 DEF ChapterWritten
      <4> QED BY <1>3, <3>1, <4>2, <4>3
    <3>2. CASE e.type = "status"
      <4>1. book' = [book EXCEPT ![e.ch] = e.record]
        BY <1>5, <3>2 DEF ChapterWritten
      <4> QED BY <1>3, <1>4, <3>2, <4>1, Replaced
    <3> QED BY <1>5, <3>1, <3>2
  <2> QED BY <1>1, <1>3, <2>1, <2>2, <2>3
<1>6. CASE e.type = "revised" /\ ChapterRevised(e) /\ UNCHANGED <<asked, cast>>
  <2>1. PICK r : r = [text |-> [version |-> e.version, marked |-> TRUE], status |-> "draft",
                      revisions |-> Least(book[e.ch].revisions + 1, MaxRevisions + 1)]
    OBVIOUS
  <2>2. ASSUME e.ch \in DOMAIN book PROVE r \in Records
    <3>1. book[e.ch] \in Records
      BY <1>3, <2>2
    <3>2. book[e.ch].revisions \in Nat
      BY <3>1, Bounds DEF Records
    <3>3. Least(book[e.ch].revisions + 1, MaxRevisions + 1) \in 0 .. MaxRevisions + 1
      <4>1. PICK n \in Nat : n = book[e.ch].revisions + 1
        BY <3>2
      <4>2. PICK m \in Nat : m = MaxRevisions + 1
        BY Bounds
      <4>3. Least(n, m) \in 0 .. m
        BY Least2
      <4> QED BY <4>1, <4>2, <4>3
    <3> QED BY <1>4, <1>6, <2>1, <3>3 DEF Records, Texts
  <2>3. book' = [book EXCEPT ![e.ch] = r]
    BY <1>6, <2>1 DEF ChapterRevised
  <2>4. book' \in Seq(Records) /\ Len(book') = Len(book)
    BY <1>3, <2>2, <2>3, Replaced
  <2>5. /\ notes' = [w \in Workers |-> IF w = "attributor" THEN [notes[w] EXCEPT ![e.ch] = None] ELSE notes[w]]
        /\ UNCHANGED <<asked, cast>>
    BY <1>6 DEF ChapterRevised
  <2>6. notes' \in [Workers -> [1 .. N -> Texts \cup {None}]]
    BY <1>3, <2>5
  <2>7. ASSUME NEW c \in 1 .. N, "attributor" \in Workers PROVE Speaks(c)
    <3>1. notes'["attributor"] = [notes["attributor"] EXCEPT ![e.ch] = None]
      BY <2>5, <2>7
    <3>2. notes'["attributor"][c] = IF c = e.ch THEN None ELSE notes["attributor"][c]
      BY <1>3, <2>7, <3>1
    <3>3. IsAbout(pending[1], c) <=> c = e.ch
      BY <1>1, <1>6 DEF IsAbout
    <3>4. pending[1].type # "stamped"
      BY <1>1, <1>6
    <3> QED BY <3>2, <3>3, <3>4
  <2> QED BY <1>1, <1>3, <1>6, <2>4, <2>5, <2>6, <2>7
<1>7. CASE e.type = "stamped" /\ ChapterStamped(e) /\ UNCHANGED <<asked, cast>>
  <2>1. book' \in Seq(Records) /\ Len(book') = Len(book)
    <3>1. CASE e.by = "attributor"
      <4>1. PICK r : r = [book[e.ch] EXCEPT !.text = e.text]
        OBVIOUS
      <4>2. e.ch \in DOMAIN book => r \in Records
        <5>1. ASSUME e.ch \in DOMAIN book PROVE book[e.ch] \in Records
          BY <1>3, <5>1
        <5> QED BY <1>4, <1>7, <4>1, <5>1 DEF Records
      <4>3. book' = [book EXCEPT ![e.ch].text = e.text]
        BY <1>7, <3>1 DEF ChapterStamped
      <4>4. book' = [book EXCEPT ![e.ch] = r]
        BY <4>1, <4>3
      <4> QED BY <1>3, <4>2, <4>4, Replaced
    <3>2. CASE e.by # "attributor"
      BY <1>3, <1>7, <3>2 DEF ChapterStamped
    <3> QED BY <3>1, <3>2
  <2>2. notes' = IF e.by \in {"miner", "keeper"} THEN notes ELSE [notes EXCEPT ![e.by][e.ch] = e.text]
    BY <1>7 DEF ChapterStamped
  <2>3. e.by \in Workers /\ e.text \in Texts /\ e.text # None /\ e.ch \in 1 .. N
    BY <1>4, <1>7, Bounds
  <2>4. notes' \in [Workers -> [1 .. N -> Texts \cup {None}]]
    <3>1. CASE e.by \in {"miner", "keeper"}
      BY <1>3, <2>2, <3>1
    <3>2. CASE e.by \notin {"miner", "keeper"}
      <4>1. PICK f : f = [notes[e.by] EXCEPT ![e.ch] = e.text]
        OBVIOUS
      <4>2. f \in [1 .. N -> Texts \cup {None}]
        BY <1>3, <2>3, <4>1
      <4>3. notes' = [notes EXCEPT ![e.by] = f]
        BY <2>2, <3>2, <4>1
      <4> QED BY <1>3, <4>2, <4>3
    <3> QED BY <3>1, <3>2
  <2>5. ASSUME NEW c \in 1 .. N, "attributor" \in Workers PROVE Speaks(c)
    <3>1. IsAbout(pending[1], c) <=> c = e.ch /\ e.by = "attributor"
      BY <1>1, <1>7 DEF IsAbout
    <3>2. CASE e.by = "attributor"
      <4>1. notes' = [notes EXCEPT !["attributor"][e.ch] = e.text]
        BY <2>2, <3>2
      <4>2. notes'["attributor"][c] = IF c = e.ch THEN e.text ELSE notes["attributor"][c]
        BY <1>3, <2>5, <4>1
      <4> QED BY <1>1, <1>7, <2>3, <3>1, <3>2, <4>2
    <3>3. CASE e.by # "attributor"
      <4>1. notes'["attributor"] = notes["attributor"]
        BY <1>3, <2>2, <2>3, <3>3
      <4> QED BY <3>1, <3>3, <4>1
    <3> QED BY <3>2, <3>3
  <2> QED BY <1>1, <1>3, <1>7, <2>1, <2>4, <2>5
<1>8. CASE e.type \in {"signal", "consumed"} /\ SignalWritten(e) /\ UNCHANGED <<book, notes, cast>>
  <2>1. asked' \in Seq(Signals) /\ \A k \in DOMAIN asked' : asked'[k].ch \in Written
    <3>1. CASE e.type = "signal"
      <4>1. PICK r : r = [id |-> e.id, ch |-> e.ch]
        OBVIOUS
      <4>2. r \in Signals /\ r.ch \in Written
        BY <1>2, <1>4, <3>1, <4>1 DEF Signals
      <4>3. asked' = Append(asked, r)
        BY <1>8, <3>1, <4>1 DEF SignalWritten
      <4>4. \A k \in DOMAIN asked' : k \in DOMAIN asked \/ k = Len(asked) + 1
        BY <1>3, <4>3
      <4> QED BY <1>3, <4>2, <4>3, <4>4
    <3>2. CASE e.type = "consumed"
      <4>1. asked' = Without(e.id)
        BY <1>8, <3>2 DEF SignalWritten
      <4> QED BY <1>3, <4>1, WithoutKeeps
    <3> QED BY <1>8, <3>1, <3>2
  <2>2. \A c \in 1 .. N : Speaks(c)
    BY <1>1, <1>8 DEF IsAbout
  <2> QED BY <1>1, <1>3, <1>8, <2>1, <2>2
<1>9. CASE e.type = "minted" /\ cast' = TRUE /\ UNCHANGED <<book, notes, asked>>
  BY <1>1, <1>3, <1>9 DEF IsAbout
<1> QED BY <1>2, <1>5, <1>6, <1>7, <1>8, <1>9 DEF Project

LEMMA StandsProject ==
  ASSUME IInv, Project
  PROVE  IInv'
<1> USE DEF IInv
<1>1. /\ pending # <<>> /\ pending' = Tail(pending)
      /\ UNCHANGED <<written, done, author, editor, work, mark, crew, faults>>
  BY DEF Project
<1>2. Written' = Written
  BY <1>1 DEF Written
<1>3. pending \in Seq(Events)
  BY DEF LogOK
<1>4. LogOK'
  <2>1. Len(pending') <= MaxPending
    BY <1>1, <1>3, Folded, Bounds DEF LogOK
  <2>2. \A k \in DOMAIN pending' : pending'[k].type \notin {"stamped", "consumed", "minted"} => pending'[k].ch \in Written
    BY <1>1, <1>3, Folded DEF LogOK
  <2>3. pending' \in Seq(Events)
    BY <1>1, <1>3, Folded
  <2> QED BY <1>1, <1>2, <2>1, <2>2, <2>3 DEF LogOK
<1>5. /\ Len(book) \in Nat /\ Len(written) \in Nat /\ Len(book) <= Len(written) /\ Len(written') = Len(written)
  BY <1>1 DEF BookOK, LogOK
<1>6. /\ \A k \in Created' : k \in Nat /\ k + 1 \in Created /\ pending'[k] = pending[k + 1]
      /\ \A k \in Created : k \in Nat /\ k >= 1
      /\ \A k \in Created : k = 1 \/ (k - 1 \in Created' /\ pending'[k - 1] = pending[k])
      /\ 1 \in Created <=> pending[1].type = "created"
  BY <1>1, <1>3, Folded DEF Created
<1>7. Len(book') = IF pending[1].type = "created" THEN Len(book) + 1 ELSE Len(book)
  BY <1>1, BookFolds
<1>8. /\ \A k \in Created : pending[k].ch \in Len(book) + 1 .. Len(written)
      /\ \A j, k \in Created : j < k => pending[j].ch < pending[k].ch
      /\ \A n \in Len(book) + 1 .. Len(written) : \E k \in Created : pending[k].ch = n
  BY DEF Numbered
<1>9. \A j, k \in Created' : j < k => pending'[j].ch < pending'[k].ch
  <2> SUFFICES ASSUME NEW j \in Created', NEW k \in Created', j < k PROVE pending'[j].ch < pending'[k].ch
    OBVIOUS
  <2>1. j + 1 < k + 1 /\ j + 1 \in Created /\ k + 1 \in Created
    BY <1>6
  <2> QED BY <1>6, <1>8, <2>1
<1>10. Numbered' /\ Len(book') <= Len(written)
  <2>1. CASE pending[1].type # "created"
    <3>1. Len(book') = Len(book) /\ 1 \notin Created
      BY <1>6, <1>7, <2>1
    <3>2. \A k \in Created' : pending'[k].ch \in Len(book) + 1 .. Len(written)
      BY <1>6, <1>8
    <3>3. \A n \in Len(book) + 1 .. Len(written) : \E k \in Created' : pending'[k].ch = n
      BY <1>6, <1>8, <3>1
    <3> QED BY <1>5, <1>9, <3>1, <3>2, <3>3 DEF Numbered
  <2>2. CASE pending[1].type = "created"
    <3>1. 1 \in Created /\ Len(book') = Len(book) + 1
      BY <1>6, <1>7, <2>2
    <3>2. pending[1].ch \in Len(book) + 1 .. Len(written)
      BY <1>8, <3>1
    <3>3. pending[1].ch = Len(book) + 1
      <4>1. Len(book) + 1 \in Len(book) + 1 .. Len(written)
        BY <1>5, <3>2
      <4>2. PICK k \in Created : pending[k].ch = Len(book) + 1
        BY <1>8, <4>1
      <4>3. k = 1
        <5>1. ASSUME k # 1 PROVE FALSE
          <6>1. 1 < k
            BY <1>6, <5>1
          <6>2. pending[1].ch < pending[k].ch
            BY <1>8, <3>1, <6>1
          <6> QED BY <1>5, <3>2, <4>2, <6>2
        <5> QED BY <5>1
      <4> QED BY <4>2, <4>3
    <3>4. ASSUME NEW k \in Created' PROVE pending'[k].ch \in Len(book') + 1 .. Len(written)
      <4>1. k + 1 \in Created /\ 1 < k + 1 /\ pending'[k] = pending[k + 1]
        <5>1. k \in Nat /\ k >= 1
          BY <1>1, <1>3, Folded DEF Created
        <5> QED BY <1>6, <5>1
      <4>2. pending[1].ch < pending[k + 1].ch /\ pending[k + 1].ch \in Len(book) + 1 .. Len(written)
        BY <1>8, <3>1, <4>1
      <4> QED BY <1>5, <3>1, <3>3, <4>1, <4>2
    <3>5. ASSUME NEW n \in Len(book') + 1 .. Len(written) PROVE \E k \in Created' : pending'[k].ch = n
      <4>1. n \in Len(book) + 1 .. Len(written) /\ n # Len(book) + 1
        BY <1>5, <3>1, <3>5
      <4>2. PICK k \in Created : pending[k].ch = n
        BY <1>8, <4>1
      <4>3. k # 1
        BY <3>3, <4>1, <4>2
      <4> QED BY <1>6, <4>2, <4>3
    <3>6. Len(book') <= Len(written)
      BY <1>5, <3>1, <3>2
    <3> QED BY <1>5, <1>9, <3>4, <3>5, <3>6 DEF Numbered
  <2> QED BY <2>1, <2>2
<1>11. BookOK'
  BY <1>1, <1>2, <1>5, <1>10, BookFolds DEF BookOK
<1>12. SegmentsFollow'
  <2> SUFFICES ASSUME "attributor" \in Workers, NEW c \in 1 .. N PROVE Follows(c)'
    BY DEF SegmentsFollow
  <2>1. IF IsAbout(pending[1], c)
          THEN notes'["attributor"][c] # None <=> pending[1].type = "stamped"
          ELSE notes'["attributor"][c] = notes["attributor"][c]
    BY <1>1, BookFolds
  <2>2. Follows(c)
    BY DEF SegmentsFollow
  <2> QED BY <1>1, <1>3, <2>1, <2>2, FollowsShift
<1>13. RunsOK'
  BY <1>1, <1>2 DEF RunsOK
<1> QED BY <1>4, <1>10, <1>11, <1>12, <1>13

-----------------------------------------------------------------------------
LEMMA Begins ==
  ASSUME Init
  PROVE  IInv
<1>1. /\ written = <<>> /\ pending = <<>> /\ book = <<>> /\ asked = <<>> /\ cast = FALSE
      /\ done = [w \in Workers |-> {}] /\ notes = [w \in Workers |-> NoText]
      /\ author = Idle /\ editor = None /\ faults = 0 /\ crew \in DOMAIN Goal
      /\ work = [w \in Workers |-> None] /\ mark = [w \in Workers |-> None]
  BY DEF Init
<1>2. LogOK
  BY <1>1, Bounds DEF LogOK
<1>3. BookOK
  <2>1. notes \in [Workers -> [1 .. N -> Texts \cup {None}]]
    BY <1>1 DEF NoText
  <2>2. book \in Seq(Records) /\ Len(book) <= Len(written) /\ asked \in Seq(Signals)
    BY <1>1
  <2>3. \A k \in DOMAIN asked : asked[k].ch \in Written
    BY <1>1
  <2>4. cast \in BOOLEAN
    BY <1>1
  <2> QED BY <2>1, <2>2, <2>3, <2>4 DEF BookOK
<1>4. RunsOK
  BY <1>1, Bounds DEF RunsOK, Idle
<1>5. Numbered
  BY <1>1 DEF Numbered, Created
<1>6. SegmentsFollow
  BY <1>1 DEF SegmentsFollow, Follows, About, NoText
<1> QED BY <1>2, <1>3, <1>4, <1>5, <1>6 DEF IInv

LEMMA Inductive ==
  ASSUME IInv, [Next]_vars
  PROVE  IInv'
<1>1. CASE UNCHANGED vars
  <2>1. /\ UNCHANGED log /\ UNCHANGED model
        /\ UNCHANGED <<author, editor, work, mark, crew, faults>>
    BY <1>1 DEF vars
  <2>2. LogOK' /\ BookOK' /\ Numbered' /\ SegmentsFollow' /\ Written' = Written
    BY <2>1, Beside DEF IInv
  <2>3. RunsOK'
    BY <2>1, <2>2 DEF IInv, RunsOK
  <2> QED BY <2>2, <2>3 DEF IInv
<1>2. CASE AuthorPolls \/ AuthorWrites \/ AuthorConsumes \/ AuthorFails
  BY <1>2, StandsAuthorPolls, StandsAuthorWrites, StandsAuthorConsumes, StandsFails
<1>3. CASE EditorPolls \/ EditorDecides \/ EditorFails
  BY <1>3, StandsEditorPolls, StandsEditorApproves, StandsEditorSendsBack, StandsFails DEF EditorDecides
<1>4. ASSUME NEW w \in crew, WorkerPolls(w) \/ WorkerEnds(w) \/ WorkerFails(w)
      PROVE  IInv'
  BY <1>4, StandsWorkerPolls, StandsWorkerEnds, StandsFails
<1>5. ASSUME NEW w \in crew, NEW c \in 1 .. N, WorkerStamps(w, c) \/ WorkerSkips(w, c)
      PROVE  IInv'
  BY <1>5, StandsWorkerStamps, StandsWorkerSkips
<1>6. CASE "keeper" \in crew /\ (KeeperMints \/ KeeperPasses)
  BY <1>6, StandsKeeperMints, StandsKeeperPasses
<1>7. CASE Project
  BY <1>7, StandsProject
<1> QED BY <1>1, <1>2, <1>3, <1>4, <1>5, <1>6, <1>7 DEF Next

LEMMA Always == Spec => []IInv
BY Begins, Inductive, PTL DEF Spec

(* The state has its type: who writes and who reads the chapters never leaves
   the bounds of the log, however far the read model is behind. *)
THEOREM TypeCorrect == Spec => []TypeOK
<1>1. IInv => TypeOK
  <2> SUFFICES ASSUME IInv PROVE TypeOK
    OBVIOUS
  <2>1. \A w \in Workers :
          /\ work[w] = None \/ work[w] \in [seen : 0 .. N, mints : BOOLEAN, texts : [1 .. N -> Texts \cup {None}]]
          /\ mark[w] = None \/ mark[w] \in (0 .. N) \X (0 .. N)
    BY DEF IInv, RunsOK, Tasks
  <2>2. /\ author \in [pc : {"idle", "writing", "closing"}, asked : Seq(Signals)]
        /\ editor = None \/ editor \in [ch : 1 .. N, record : Records]
        /\ crew \in DOMAIN Goal /\ faults \in 0 .. MaxFaults
    BY DEF IInv, RunsOK
  <2> QED BY <2>1, <2>2 DEF IInv, LogOK, BookOK, TypeOK
<1> QED BY <1>1, Always, PTL

(* A chapter shows speakers exactly as long as the log counts it as attributed,
   once everything is folded: for any crew, number of chapters and lag. *)
THEOREM SegmentsAreRight == Spec => []SegmentsFollowTheLog
<1>1. IInv => SegmentsFollowTheLog
  <2> SUFFICES ASSUME IInv, pending = <<>>, "attributor" \in crew
      PROVE done["attributor"] = {c \in 1 .. N : notes["attributor"][c] # None}
    BY DEF SegmentsFollowTheLog
  <2>1. "attributor" \in Workers
    BY Crews DEF IInv
  <2>2. \A c \in 1 .. N : c \in done["attributor"] <=> notes["attributor"][c] # None
    <3>1. \A c \in 1 .. N : About(c) = {}
      BY DEF About
    <3> QED BY <2>1, <3>1 DEF IInv, SegmentsFollow, Follows
  <2>3. done["attributor"] \subseteq 1 .. N
    BY <2>1 DEF IInv, LogOK
  <2> QED BY <2>2, <2>3
<1> QED BY <1>1, Always, PTL

-----------------------------------------------------------------------------
(* Research: the inductive invariant                                       *)

Past == {stream[j] : j \in 1 .. Len(stream)}

(* What waits to be appended may be appended, up to any of its events. *)
BatchRests(batch) ==
  \A k \in 1 .. Len(batch) : RestsOn(batch[k], Past \cup {batch[j] : j \in 1 .. k - 1})

RunStands(a, r) ==
  /\ r \in RunsOf(a)
  /\ r.pc # "idle" => up
  /\ r.pc = "apply" => seen <= r.snap
  /\ r.pc \in {"ready", "append"} => BatchRests(r.batch)
  /\ a = "verifier" /\ r.pc = "asked" => \E x \in Past : x.type = "proposed" /\ x.claim = r.item

StreamStands ==
  /\ stream \in Seq(Facts) /\ seen \in 0 .. Len(stream)
  /\ \A i \in 1 .. seen : stream[i].type # "junk"
  /\ CitationsHold

OneHolds == \A a, b \in Agents : Holds(runs[a].pc) /\ Holds(runs[b].pc) => a = b
RunsAreThere == runs \in [Agents -> RunsOf("extractor") \cup RunsOf("verifier")]

ResearchInv ==
  /\ job \in Jobs /\ StreamStands
  /\ results \in [1 .. 3 -> 0 .. Len(stream)]
  /\ up \in BOOLEAN /\ minted \in Nat /\ troubles \in Nat
  /\ RunsAreThere /\ \A a \in Agents : RunStands(a, runs[a])
  /\ OneHolds

(* A refresh reads as far as it can: up to the first event it cannot read. *)
LEMMA ReadsWhatItCan ==
  ASSUME NEW n \in Nat
  PROVE  /\ ReadableTo(n) \in 0 .. n
         /\ \A i \in 1 .. ReadableTo(n) : stream[i].type # "junk"
         /\ \A m \in 0 .. n : (\A i \in 1 .. m : stream[i].type # "junk") => m <= ReadableTo(n)
<1>1. PICK junk : junk = {i \in 1 .. n : stream[i].type = "junk"}
  OBVIOUS
<1>2. ReadableTo(n) = IF junk = {} THEN n ELSE Earliest(junk) - 1
  BY <1>1 DEF ReadableTo
<1>3. CASE junk = {}
  BY <1>1, <1>2, <1>3
<1>4. CASE junk # {}
  <2>1. Earliest(junk) \in junk /\ \A j \in junk : Earliest(junk) <= j
    <3>1. junk \subseteq Nat
      BY <1>1
    <3> QED BY <1>4, <3>1, LeastNatural DEF Earliest
  <2>2. PICK e : e = Earliest(junk)
    OBVIOUS
  <2>3. e \in 1 .. n /\ stream[e].type = "junk" /\ ReadableTo(n) = e - 1
    BY <1>1, <1>2, <1>4, <2>1, <2>2
  <2>4. \A i \in 1 .. e - 1 : stream[i].type # "junk"
    <3> SUFFICES ASSUME NEW i \in 1 .. e - 1, stream[i].type = "junk" PROVE FALSE
      OBVIOUS
    <3>1. i \in junk /\ i < e
      BY <1>1, <2>3
    <3> QED BY <2>1, <2>2, <2>3, <3>1
  <2>5. ASSUME NEW m \in 0 .. n, \A i \in 1 .. m : stream[i].type # "junk"
        PROVE  m <= e - 1
    BY <2>3, <2>5
  <2> QED BY <2>3, <2>4, <2>5
<1> QED BY <1>3, <1>4

LEMMA RestsMore ==
  ASSUME NEW e, NEW P, NEW Q, P \subseteq Q, RestsOn(e, P)
  PROVE  RestsOn(e, Q)
BY DEF RestsOn

(* The stream after one more event, and as it was *)
LEMMA StreamGrows ==
  ASSUME stream \in Seq(Facts), CitationsHold, NEW e \in Facts, UNCHANGED job,
         stream' = Append(stream, e), e.by = "agent" => RestsOn(e, Past)
  PROVE  /\ stream' \in Seq(Facts') /\ Len(stream) \in Nat /\ Len(stream') = Len(stream) + 1
         /\ \A i \in 1 .. Len(stream) : stream'[i] = stream[i]
         /\ Past' = Past \cup {e} /\ CitationsHold' /\ Facts' = Facts
<1>1. Facts' = Facts
  BY DEF Facts, Docs
<1>2. PICK n \in Nat : n = Len(stream)
  OBVIOUS
<1>3. /\ stream' \in Seq(Facts) /\ Len(stream') = n + 1
      /\ stream'[n + 1] = e /\ \A i \in 1 .. n : stream'[i] = stream[i]
  BY <1>2
<1>4. \A i \in 1 .. n + 1 : i \in 1 .. n \/ i = n + 1
  OBVIOUS
<1>5. 1 .. n \subseteq 1 .. n + 1 /\ n + 1 \in 1 .. n + 1
  OBVIOUS
<1>6. Past' = Past \cup {e}
  BY <1>2, <1>3, <1>4, <1>5 DEF Past
<1>7. \A k \in 0 .. n : EventsTo(k)' = EventsTo(k)
  <2> SUFFICES ASSUME NEW k \in 0 .. n PROVE EventsTo(k)' = EventsTo(k)
    OBVIOUS
  <2>1. \A j \in 1 .. k : stream'[j] = stream[j]
    BY <1>3
  <2> QED BY <2>1 DEF EventsTo
<1>8. EventsTo(n) = Past
  BY <1>2 DEF EventsTo, Past
<1>9. ASSUME NEW i \in 1 .. n + 1, stream'[i].by = "agent"
      PROVE  RestsOn(stream'[i], EventsTo(i - 1)')
  <2>1. CASE i \in 1 .. n
    <3>1. i - 1 \in 0 .. n
      BY <2>1
    <3> QED BY <1>2, <1>3, <1>7, <1>9, <2>1, <3>1 DEF CitationsHold
  <2>2. CASE i = n + 1
    <3>1. i - 1 = n /\ n \in 0 .. n
      BY <2>2
    <3> QED BY <1>3, <1>7, <1>8, <1>9, <2>2, <3>1
  <2> QED BY <1>4, <2>1, <2>2
<1>10. CitationsHold'
  BY <1>3, <1>9 DEF CitationsHold
<1> QED BY <1>1, <1>2, <1>3, <1>6, <1>10

LEMMA StreamStays ==
  ASSUME UNCHANGED <<job, stream>>
  PROVE  /\ Past' = Past /\ Facts' = Facts /\ CitationsHold' = CitationsHold
         /\ \A a : RunsOf(a)' = RunsOf(a)
BY DEF Past, Facts, Docs, CitationsHold, EventsTo, RunsOf

(* What an agent is at stays right while others go on. *)
LEMMA RunKept ==
  ASSUME NEW a \in Agents, NEW r, RunStands(a, r), UNCHANGED job,
         stream \in Seq(Facts), stream' \in Seq(Facts'), Len(stream) <= Len(stream'), Past \subseteq Past',
         r.pc # "idle" => up',
         r.pc = "apply" => seen' <= r.snap
  PROVE  RunStands(a, r)'
<1>1. Facts' = Facts /\ Docs' = Docs
  BY DEF Facts, Docs
<1>2. PICK m \in Nat, n \in Nat : m = Len(stream) /\ n = Len(stream')
  OBVIOUS
<1>3. 0 .. m \subseteq 0 .. n
  BY <1>2
<1>4. r \in RunsOf(a)'
  <2>1. r \in RunsOf(a)
    BY DEF RunStands
  <2>2. RunsOf(a) \subseteq RunsOf(a)'
    BY <1>1, <1>2, <1>3 DEF RunsOf
  <2> QED BY <2>1, <2>2
<1>5. r.pc \in {"ready", "append"} => BatchRests(r.batch)'
  <2> SUFFICES ASSUME r.pc \in {"ready", "append"}, NEW k \in 1 .. Len(r.batch)
               PROVE  RestsOn(r.batch[k], Past' \cup {r.batch[j] : j \in 1 .. k - 1})
    BY DEF BatchRests
  <2>1. RestsOn(r.batch[k], Past \cup {r.batch[j] : j \in 1 .. k - 1})
    BY DEF RunStands, BatchRests
  <2>2. Past \cup {r.batch[j] : j \in 1 .. k - 1} \subseteq Past' \cup {r.batch[j] : j \in 1 .. k - 1}
    OBVIOUS
  <2> QED BY <2>1, <2>2, RestsMore
<1>6. a = "verifier" /\ r.pc = "asked" => \E x \in Past' : x.type = "proposed" /\ x.claim = r.item
  BY DEF RunStands
<1> QED BY <1>4, <1>5, <1>6 DEF RunStands

LEMMA Types ==
  ASSUME NEW a \in Agents, NEW r \in RunsOf(a)
  PROVE  r \in RunsOf("extractor") \cup RunsOf("verifier")
BY DEF RunsOf, Agents

(* One agent goes on. *)
LEMMA Moves ==
  ASSUME ResearchInv, NEW a \in Agents, NEW r, Goes(a, r), UNCHANGED <<job, up>>,
         StreamStands', Len(stream) <= Len(stream'), Past \subseteq Past',
         results' \in [1 .. 3 -> 0 .. Len(stream')], minted' \in Nat, troubles' \in Nat,
         RunStands(a, r)',
         \A b \in Agents \ {a} : runs[b].pc = "apply" => seen' <= runs[b].snap,
         Holds(r.pc) => \A b \in Agents \ {a} : ~Holds(runs[b].pc)
  PROVE  ResearchInv'
<1>1. /\ RunsAreThere /\ runs' = [runs EXCEPT ![a] = r] /\ stream \in Seq(Facts) /\ stream' \in Seq(Facts')
      /\ OneHolds
  BY DEF ResearchInv, StreamStands, Goes
<1>2. DOMAIN runs = Agents /\ DOMAIN runs' = Agents /\ runs'[a] = r /\ \A b \in Agents \ {a} : runs'[b] = runs[b]
  BY <1>1 DEF RunsAreThere
<1>3. ASSUME NEW b \in Agents PROVE RunStands(b, runs[b])'
  <2>1. PICK q : q = runs[b]
    OBVIOUS
  <2>2. PICK q1 : q1 = runs'[b]
    OBVIOUS
  <2>3. CASE b = a
    BY <1>2, <2>2, <2>3
  <2>4. CASE b # a
    <3>1. RunStands(b, q)
      BY <2>1 DEF ResearchInv
    <3>2. q.pc # "idle" => up'
      BY <3>1 DEF RunStands
    <3>3. q.pc = "apply" => seen' <= q.snap
      BY <2>1, <2>4
    <3>4. RunStands(b, q)'
      BY <1>1, <3>1, <3>2, <3>3, RunKept
    <3> QED BY <1>2, <2>1, <2>4, <3>4
  <2> QED BY <2>3, <2>4
<1>4. RunsAreThere'
  <2>1. \A b \in Agents : runs'[b] \in RunsOf(b)'
    BY <1>3 DEF RunStands
  <2>2. \A b \in Agents : RunsOf(b)' \subseteq RunsOf("extractor")' \cup RunsOf("verifier")'
    BY DEF RunsOf, Agents
  <2>3. runs' = [b \in Agents |-> runs'[b]]
    BY <1>1, <1>2 DEF RunsAreThere
  <2> QED BY <2>1, <2>2, <2>3 DEF RunsAreThere
<1>5. OneHolds'
  BY <1>1, <1>2 DEF OneHolds
<1> QED BY <1>3, <1>4, <1>5 DEF ResearchInv

(* An agent goes on, and the stream is left as it was. *)
LEMMA GoesOn ==
  ASSUME ResearchInv, NEW a \in Agents, NEW r, Goes(a, r), UNCHANGED <<job, up, stream, results>>,
         seen' = seen, minted' \in Nat, troubles' \in Nat,
         RunStands(a, r),
         Holds(r.pc) => \A b \in Agents \ {a} : ~Holds(runs[b].pc)
  PROVE  ResearchInv'
<1>1. StreamStands'
  BY StreamStays DEF ResearchInv, StreamStands
<1>2. stream \in Seq(Facts) /\ stream' \in Seq(Facts') /\ Len(stream) <= Len(stream') /\ Past \subseteq Past'
  BY StreamStays DEF ResearchInv, StreamStands
<1>3. r.pc # "idle" => up'
  BY DEF RunStands
<1>4. r.pc = "apply" => seen' <= r.snap
  BY DEF RunStands
<1>5. RunStands(a, r)'
  BY <1>2, <1>3, <1>4, RunKept
<1>6. \A b \in Agents \ {a} : runs[b].pc = "apply" => seen' <= runs[b].snap
  BY DEF ResearchInv, RunStands
<1>7. results' \in [1 .. 3 -> 0 .. Len(stream')]
  BY DEF ResearchInv
<1> QED BY <1>1, <1>2, <1>5, <1>6, <1>7, Moves

LEMMA Resting ==
  ASSUME NEW a \in Agents
  PROVE  RunStands(a, AtRest) /\ AtRest.pc = "idle" /\ ~Holds(AtRest.pc)
<1>1. /\ AtRest.pc = "idle" /\ AtRest.item = Nil /\ AtRest.batch = <<>> /\ AtRest.snap = 0
      /\ AtRest = [pc |-> "idle", item |-> Nil, batch |-> <<>>, snap |-> 0]
  BY DEF AtRest, At
<1>2. <<>> \in Seq(Facts)
  OBVIOUS
<1> QED
  BY <1>1 DEF RunStands, RunsOf, Holds

LEMMA Stops ==
  ASSUME ResearchInv, NEW a \in Agents, Ends(a), UNCHANGED <<job, up, stream, results>>,
         seen' = seen, minted' \in Nat, troubles' \in Nat
  PROVE  ResearchInv'
BY GoesOn, Resting DEF Ends

(* What the lookups know was in the stream. *)
LEMMA KnownFacts ==
  ASSUME ResearchInv, NEW type, NEW i \in Known(type)
  PROVE  /\ stream[i] \in Facts /\ stream[i] \in Past /\ stream[i].type = type
         /\ stream[i].claim \in Nat \cup {Nil} /\ stream[i].target \in Nat \cup {Nil}
         /\ i \in Nat
<1>1. PICK n \in Nat : n = Len(stream)
  BY DEF ResearchInv, StreamStands
<1>2. i \in 1 .. seen /\ stream[i].type = type /\ seen \in 0 .. n /\ stream \in Seq(Facts)
  BY <1>1 DEF Known, ResearchInv, StreamStands
<1>3. i \in 1 .. n
  BY <1>2
<1>4. stream[i] \in Facts
  BY <1>1, <1>2, <1>3, ElementOfSeq
<1>5. stream[i] \in Past
  BY <1>1, <1>3 DEF Past
<1>6. stream[i].claim \in Nat \cup {Nil} /\ stream[i].target \in Nat \cup {Nil}
  BY <1>4 DEF Facts
<1> QED BY <1>2, <1>4, <1>5, <1>6

LEMMA FirstOf ==
  ASSUME NEW S, S \subseteq Nat, S # {}
  PROVE  Earliest(S) \in S /\ \A j \in S : Earliest(S) <= j
BY LeastNatural DEF Earliest

LEMMA StandsAsk ==
  ASSUME ResearchInv, NEW a \in Agents, Ask(a)
  PROVE  ResearchInv'
<1>1. PICK item : /\ item = ItemAt(a, Earliest(Workable(a))) /\ Workable(a) # {}
                  /\ Goes(a, At("asked", item, <<>>, 0))
  BY DEF Ask
<1>2. UNCHANGED <<job, up, stream, results, minted, troubles>> /\ seen' = seen /\ up
  BY DEF Ask, world
<1>3. item \in (IF a = "extractor" THEN Docs ELSE Nat \cup {Nil})
  <2>1. CASE a = "extractor"
    <3>1. Workable(a) = ExtractorWork
      BY <2>1 DEF Workable
    <3>2. ExtractorWork \subseteq DOMAIN job.corpus
      BY DEF ExtractorWork
    <3>3. DOMAIN job.corpus \subseteq Nat
      BY ResearchAssumption DEF ResearchInv
    <3>4. Earliest(Workable(a)) \in DOMAIN job.corpus
      BY <1>1, <3>1, <3>2, <3>3, FirstOf
    <3>5. item = job.corpus[Earliest(Workable(a))]
      BY <1>1, <2>1 DEF ItemAt
    <3> QED BY <2>1, <3>4, <3>5 DEF Docs, ToSet
  <2>2. CASE a = "verifier"
    <3>1. Workable(a) = VerifierWork /\ VerifierWork \subseteq Known("proposed")
      BY <2>2 DEF Workable, VerifierWork, ListClaims
    <3>2. Earliest(Workable(a)) \in Known("proposed")
      BY <1>1, <3>1, FirstOf, KnownFacts
    <3>3. item = stream[Earliest(Workable(a))].claim
      BY <1>1, <2>2 DEF ItemAt
    <3> QED BY <2>2, <3>2, <3>3, KnownFacts
  <2>3. CASE a = "retractor"
    <3>1. Workable(a) = RetractorWork /\ RetractorWork \subseteq Known("refuted")
      BY <2>3 DEF Workable, RetractorWork
    <3>2. Earliest(Workable(a)) \in Known("refuted")
      BY <1>1, <3>1, FirstOf, KnownFacts
    <3>3. item = stream[Earliest(Workable(a))].target
      BY <1>1, <2>3 DEF ItemAt
    <3> QED BY <2>3, <3>2, <3>3, KnownFacts
  <2> QED BY <2>1, <2>2, <2>3 DEF Agents
<1>4. a = "verifier" => \E x \in Past : x.type = "proposed" /\ x.claim = item
  <2> SUFFICES ASSUME a = "verifier" PROVE \E x \in Past : x.type = "proposed" /\ x.claim = item
    OBVIOUS
  <2>1. Workable(a) = VerifierWork /\ VerifierWork \subseteq Known("proposed")
    BY DEF Workable, VerifierWork, ListClaims
  <2>2. Earliest(Workable(a)) \in Known("proposed")
    BY <1>1, <2>1, FirstOf, KnownFacts
  <2>3. item = stream[Earliest(Workable(a))].claim
    BY <1>1 DEF ItemAt
  <2> QED BY <2>2, <2>3, KnownFacts
<1>5. PICK r : r = At("asked", item, <<>>, 0)
  OBVIOUS
<1>6. r = [pc |-> "asked", item |-> item, batch |-> <<>>, snap |-> 0]
  BY <1>5 DEF At
<1>7. r \in RunsOf(a)
  <2>1. <<>> \in Seq(Facts) /\ 0 \in 0 .. Len(stream)
    BY DEF ResearchInv, StreamStands
  <2>2. item \in IF a = "extractor" THEN Docs \cup {Nil} ELSE Nat \cup {Nil}
    BY <1>3
  <2> QED BY <1>6, <2>1, <2>2 DEF RunsOf
<1>8. RunStands(a, r) /\ ~Holds(r.pc)
  BY <1>2, <1>4, <1>6, <1>7 DEF RunStands, Holds
<1>9. minted' \in Nat /\ troubles' \in Nat
  BY <1>2 DEF ResearchInv
<1> QED BY <1>1, <1>2, <1>5, <1>8, <1>9, GoesOn

(* An answer that is in order may wait for the lock. *)
LEMMA StandsAnswers ==
  ASSUME ResearchInv, NEW a \in Agents, NEW batch \in Seq(Facts), runs[a].pc = "asked",
         BatchRests(batch), Answers(a, batch)
  PROVE  ResearchInv'
<1>1. UNCHANGED <<job, up, stream, results, troubles>> /\ seen' = seen /\ troubles' \in Nat /\ minted \in Nat
  BY DEF Answers, world, ResearchInv
<1>2. CASE batch = <<>>
  BY <1>1, <1>2, Stops DEF Answers
<1>3. CASE batch # <<>>
  <2>1. Goes(a, At("ready", runs[a].item, batch, 0)) /\ minted' = minted + Mints(batch)
    BY <1>3 DEF Answers
  <2>2. PICK n \in Nat : n = Len(batch)
    OBVIOUS
  <2>3. Mints(batch) \in Nat
    <3>1. IsFiniteSet(1 .. n)
      BY FS_Interval
    <3>2. {i \in DOMAIN batch : batch[i].type = "proposed"} \in SUBSET (1 .. n)
      BY <2>2
    <3> QED BY ONLY <3>1, <3>2, FS_Subset, FS_CardinalityType DEF Mints
  <2>4. PICK r : r = At("ready", runs[a].item, batch, 0)
    OBVIOUS
  <2>5. r = [pc |-> "ready", item |-> runs[a].item, batch |-> batch, snap |-> 0]
    BY <2>4 DEF At
  <2>6. r \in RunsOf(a)
    <3>1. runs[a] \in RunsOf(a) /\ 0 \in 0 .. Len(stream)
      BY DEF ResearchInv, RunStands, StreamStands
    <3> QED BY <2>5, <3>1 DEF RunsOf
  <2>7. RunStands(a, r) /\ ~Holds(r.pc)
    <3>1. up
      BY DEF ResearchInv, RunStands
    <3> QED BY <2>5, <2>6, <3>1 DEF RunStands, Holds
  <2> QED BY <1>1, <2>1, <2>3, <2>4, <2>7, GoesOn
<1> QED BY <1>2, <1>3

LEMMA Chosen ==
  ASSUME NEW S, NEW n \in Nat, NEW s \in BoundedSeq(S, n)
  PROVE  s \in Seq(S) /\ DOMAIN s = 1 .. Len(s) /\ Len(s) \in Nat
<1>1. PICK m \in 0 .. n : s \in [1 .. m -> S]
  BY DEF BoundedSeq, SeqOf
<1> QED BY <1>1

(* The events that the answers lead to *)
LEMMA MadeFacts ==
  ASSUME ResearchInv, NEW c \in Nat \cup {Nil}, NEW t \in Nat \cup {Nil}, NEW d \in Docs \cup {Nil}, NEW x \in job.texts
  PROVE  /\ Proposed(c, d, x, "extracted") \in Facts /\ Proposed(c, d, x, "verification") \in Facts
         /\ Corroborated(c, d) \in Facts /\ Refuted(c, t) \in Facts /\ Corrected(c, t) \in Facts
BY DEF Proposed, Corroborated, Refuted, Corrected, Event, Facts

LEMMA WhatTheySay ==
  ASSUME NEW c, NEW t, NEW d, NEW x, NEW o
  PROVE  /\ Proposed(c, d, x, o).type = "proposed" /\ Proposed(c, d, x, o).claim = c
         /\ Corroborated(c, d).type = "corroborated" /\ Corroborated(c, d).claim = c
         /\ Refuted(c, t).type = "refuted" /\ Refuted(c, t).claim = c /\ Refuted(c, t).target = t
         /\ Corrected(c, t).type = "corrected" /\ Corrected(c, t).claim = c /\ Corrected(c, t).target = t
BY DEF Proposed, Corroborated, Refuted, Corrected, Event

LEMMA StandsExtractor ==
  ASSUME ResearchInv, runs["extractor"].pc = "asked",
         NEW texts \in Distinct(NewTexts(runs["extractor"].item), job.drafts),
         Answers("extractor", ExtractorBatch(runs["extractor"].item, texts))
  PROVE  ResearchInv'
<1>1. PICK d : d = runs["extractor"].item
  OBVIOUS
<1>2. PICK batch : batch = ExtractorBatch(d, texts)
  OBVIOUS
<1>3. d \in Docs \cup {Nil} /\ minted \in Nat /\ job.drafts \in Nat /\ "extractor" \in Agents
  <2>1. runs["extractor"] \in RunsOf("extractor") /\ "extractor" \in Agents /\ minted \in Nat
    BY DEF ResearchInv, RunStands, Agents
  <2>2. job.drafts \in Nat
    BY ResearchAssumption DEF ResearchInv
  <2> QED BY <1>1, <2>1, <2>2 DEF RunsOf
<1>4. PICK n \in Nat : n = Len(texts) /\ DOMAIN texts = 1 .. n /\ \A i \in 1 .. n : texts[i] \in job.texts
  <2>1. texts \in Seq(NewTexts(d)) /\ DOMAIN texts = 1 .. Len(texts) /\ Len(texts) \in Nat
    BY <1>1, <1>3, Chosen DEF Distinct
  <2>2. NewTexts(d) \subseteq job.texts
    BY DEF NewTexts
  <2> QED BY <2>1, <2>2
<1>5. batch = [i \in 1 .. n |-> Proposed(minted + i, d, texts[i], "extracted")]
  BY <1>2, <1>4 DEF ExtractorBatch
<1>6. \A i \in 1 .. n : batch[i] \in Facts /\ batch[i].type = "proposed"
  <2> SUFFICES ASSUME NEW i \in 1 .. n PROVE batch[i] \in Facts /\ batch[i].type = "proposed"
    OBVIOUS
  <2>1. minted + i \in Nat \cup {Nil}
    BY <1>3
  <2>2. batch[i] = Proposed(minted + i, d, texts[i], "extracted")
    BY <1>5
  <2>3. Proposed(minted + i, d, texts[i], "extracted") \in Facts
    BY <1>3, <1>4, <2>1, MadeFacts
  <2>4. Proposed(minted + i, d, texts[i], "extracted").type = "proposed"
    BY WhatTheySay
  <2> QED BY <2>2, <2>3, <2>4
<1>7. batch \in Seq(Facts) /\ Len(batch) = n
  BY <1>5, <1>6
<1>8. BatchRests(batch)
  BY <1>6, <1>7 DEF BatchRests, RestsOn
<1> QED BY <1>1, <1>2, <1>3, <1>7, <1>8, StandsAnswers

LEMMA StandsRetractor ==
  ASSUME ResearchInv, runs["retractor"].pc = "asked",
         NEW picks \in BoundedSeq(Rivals(runs["retractor"].item), 2),
         Answers("retractor", RetractorBatch(runs["retractor"].item, picks))
  PROVE  ResearchInv'
<1>1. PICK c : c = runs["retractor"].item
  OBVIOUS
<1>2. PICK batch : batch = RetractorBatch(c, picks)
  OBVIOUS
<1>3. c \in Nat \cup {Nil} /\ "retractor" \in Agents
  <2>1. runs["retractor"] \in RunsOf("retractor") /\ "retractor" \in Agents
    BY DEF ResearchInv, RunStands, Agents
  <2> QED BY <1>1, <2>1 DEF RunsOf
<1>4. PICK n \in Nat : n = Len(picks) /\ DOMAIN picks = 1 .. n /\ \A i \in 1 .. n : picks[i] \in RefutersFor(c)
  <2>1. picks \in Seq(Rivals(c)) /\ DOMAIN picks = 1 .. Len(picks) /\ Len(picks) \in Nat
    BY <1>1, Chosen
  <2>2. Rivals(c) \subseteq RefutersFor(c)
    BY DEF Rivals
  <2> QED BY <2>1, <2>2
<1>5. batch = [i \in 1 .. n |-> Corrected(picks[i], c)]
  BY <1>2, <1>4 DEF RetractorBatch
<1>6. ASSUME NEW i \in 1 .. n PROVE batch[i] \in Facts /\ RestsOn(batch[i], Past)
  <2>1. PICK k \in Known("refuted") : stream[k].target = c /\ stream[k].claim = picks[i]
    BY <1>4 DEF RefutersFor
  <2>2. PICK x \in Past : x.type = "refuted" /\ x.target = c /\ x.claim = picks[i] /\ picks[i] \in Nat \cup {Nil}
    BY <2>1, KnownFacts
  <2>3. batch[i] = Corrected(picks[i], c)
    BY <1>5
  <2>4. Corrected(picks[i], c) \in Facts
    BY <1>3, <2>2 DEF Corrected, Event, Facts
  <2>5. RestsOn(batch[i], Past)
    BY <2>2, <2>3, WhatTheySay DEF RestsOn
  <2> QED BY <2>3, <2>4, <2>5
<1>7. batch \in Seq(Facts) /\ Len(batch) = n
  BY <1>5, <1>6
<1>8. BatchRests(batch)
  <2> SUFFICES ASSUME NEW k \in 1 .. n PROVE RestsOn(batch[k], Past \cup {batch[j] : j \in 1 .. k - 1})
    BY <1>7 DEF BatchRests
  <2>1. Past \subseteq Past \cup {batch[j] : j \in 1 .. k - 1}
    OBVIOUS
  <2> QED BY <1>6, <2>1, RestsMore
<1> QED BY <1>1, <1>2, <1>3, <1>7, <1>8, StandsAnswers

(* The counterclaim comes before the refutation that cites it. *)
LEMMA RefutationRests ==
  ASSUME ResearchInv, NEW c \in Nat \cup {Nil}, \E x \in Past : x.type = "proposed" /\ x.claim = c,
         NEW r \in {Nil} \cup (Docs \X job.texts)
  PROVE  RefutationEvents(c, r) \in Seq(Facts) /\ BatchRests(RefutationEvents(c, r))
<1>1. PICK same : same = {i \in ListClaims : <<stream[i].source, stream[i].text>> = r}
  OBVIOUS
<1>2. PICK known : known = stream[Earliest(same)].claim
  OBVIOUS
<1>3. RefutationEvents(c, r) =
        IF r = Nil THEN <<>>
        ELSE IF same = {} THEN Counterclaim(c, r)
        ELSE IF known \in RefutersFor(c) THEN <<>> ELSE <<Refuted(known, c)>>
  BY <1>1, <1>2 DEF RefutationEvents
<1>4. <<>> \in Seq(Facts) /\ BatchRests(<<>>)
  BY DEF BatchRests
<1>5. CASE r = Nil
  BY <1>3, <1>4, <1>5
<1>6. CASE r # Nil /\ same = {}
  <2>1. PICK d \in Docs, t \in job.texts : r = <<d, t>> /\ r[1] = d /\ r[2] = t
    BY <1>6
  <2>2. PICK n \in Nat : n = minted + 1
    BY DEF ResearchInv
  <2>3. PICK e1, e2 : e1 = Proposed(n, d, t, "verification") /\ e2 = Refuted(n, c)
    OBVIOUS
  <2>4. RefutationEvents(c, r) = <<e1, e2>>
    BY <1>3, <1>6, <2>1, <2>2, <2>3 DEF Counterclaim
  <2>5. e1 \in Facts /\ e2 \in Facts
    BY <2>3, MadeFacts
  <2>6. RestsOn(e1, Past \cup {})
    BY <2>3, WhatTheySay DEF RestsOn
  <2>7. RestsOn(e2, Past \cup {e1})
    BY <2>3, WhatTheySay DEF RestsOn
  <2>8. BatchRests(<<e1, e2>>)
    <3> SUFFICES ASSUME NEW k \in 1 .. 2
                 PROVE RestsOn(<<e1, e2>>[k], Past \cup {<<e1, e2>>[j] : j \in 1 .. k - 1})
      BY DEF BatchRests
    <3>1. CASE k = 1
      <4>1. {<<e1, e2>>[j] : j \in 1 .. k - 1} = {}
        BY <3>1
      <4> QED BY <2>6, <3>1, <4>1
    <3>2. CASE k = 2
      <4>1. {<<e1, e2>>[j] : j \in 1 .. k - 1} = {e1}
        <5>1. 1 .. k - 1 = {1}
          BY <3>2
        <5> QED BY <5>1
      <4> QED BY <2>7, <3>2, <4>1
    <3> QED BY <3>1, <3>2
  <2> QED BY <2>4, <2>5, <2>8
<1>7. CASE r # Nil /\ same # {} /\ known \in RefutersFor(c)
  BY <1>3, <1>4, <1>7
<1>8. CASE r # Nil /\ same # {} /\ known \notin RefutersFor(c)
  <2>1. same \subseteq Known("proposed") /\ same \subseteq Nat
    BY <1>1, KnownFacts DEF ListClaims
  <2>2. PICK i \in Known("proposed") : known = stream[i].claim
    BY <1>2, <1>8, <2>1, FirstOf
  <2>3. known \in Nat \cup {Nil} /\ \E x \in Past : x.type = "proposed" /\ x.claim = known
    BY <2>2, KnownFacts
  <2>4. PICK e : e = Refuted(known, c)
    OBVIOUS
  <2>5. e \in Facts
    BY <2>3, <2>4 DEF Refuted, Event, Facts
  <2>6. RestsOn(e, Past)
    BY <2>3, <2>4, WhatTheySay DEF RestsOn
  <2>7. RefutationEvents(c, r) = <<e>>
    BY <1>3, <1>8, <2>4
  <2>8. BatchRests(<<e>>)
    <3> SUFFICES ASSUME NEW k \in 1 .. 1
                 PROVE RestsOn(<<e>>[k], Past \cup {<<e>>[j] : j \in 1 .. k - 1})
      BY DEF BatchRests
    <3>1. <<e>>[k] = e /\ Past \subseteq Past \cup {<<e>>[j] : j \in 1 .. k - 1}
      OBVIOUS
    <3> QED BY <2>6, <3>1, RestsMore
  <2> QED BY <2>5, <2>7, <2>8
<1> QED BY <1>5, <1>6, <1>7, <1>8

LEMMA StandsVerifier ==
  ASSUME ResearchInv, runs["verifier"].pc = "asked",
         NEW support \in Distinct(NewSupport(runs["verifier"].item), Len(job.corpus)),
         NEW r \in {Nil} \cup (Docs \X job.texts),
         Answers("verifier", VerifierBatch(runs["verifier"].item, support, r))
  PROVE  ResearchInv'
<1>1. PICK c : c = runs["verifier"].item
  OBVIOUS
<1>2. PICK batch : batch = VerifierBatch(c, support, r)
  OBVIOUS
<1>3. /\ c \in Nat \cup {Nil} /\ "verifier" \in Agents /\ Len(job.corpus) \in Nat
      /\ \E x \in Past : x.type = "proposed" /\ x.claim = c
  <2>1. runs["verifier"] \in RunsOf("verifier") /\ "verifier" \in Agents
    BY DEF ResearchInv, RunStands, Agents
  <2>2. \E x \in Past : x.type = "proposed" /\ x.claim = c
    BY <1>1, <2>1 DEF ResearchInv, RunStands
  <2>3. Len(job.corpus) \in Nat
    BY ResearchAssumption DEF ResearchInv
  <2> QED BY <1>1, <2>1, <2>2, <2>3 DEF RunsOf
<1>4. PICK n \in Nat : n = Len(support) /\ DOMAIN support = 1 .. n /\ \A i \in 1 .. n : support[i] \in Docs
  <2>1. support \in Seq(NewSupport(c)) /\ DOMAIN support = 1 .. Len(support) /\ Len(support) \in Nat
    BY <1>1, <1>3, Chosen DEF Distinct
  <2>2. NewSupport(c) \subseteq Docs
    BY DEF NewSupport
  <2> QED BY <2>1, <2>2
<1>5. PICK first : first = [i \in 1 .. n |-> Corroborated(c, support[i])]
  OBVIOUS
<1>6. ASSUME NEW i \in 1 .. n PROVE first[i] \in Facts /\ RestsOn(first[i], Past)
  <2>1. first[i] = Corroborated(c, support[i])
    BY <1>5
  <2>2. Corroborated(c, support[i]) \in Facts
    BY <1>3, <1>4 DEF Corroborated, Event, Facts
  <2>3. RestsOn(first[i], Past)
    BY <1>3, <2>1, WhatTheySay DEF RestsOn
  <2> QED BY <2>1, <2>2, <2>3
<1>7. first \in Seq(Facts) /\ Len(first) = n
  BY <1>5, <1>6
<1>8. PICK last : last = RefutationEvents(c, r)
  OBVIOUS
<1>9. last \in Seq(Facts) /\ BatchRests(last)
  BY <1>3, <1>8, RefutationRests
<1>10. batch = first \o last
  BY <1>2, <1>4, <1>5, <1>8 DEF VerifierBatch
<1>11. PICK m \in Nat : m = Len(last)
  BY <1>9
<1>12. /\ batch \in Seq(Facts) /\ Len(batch) = n + m
       /\ \A i \in 1 .. n + m : batch[i] = IF i <= n THEN first[i] ELSE last[i - n]
  BY <1>7, <1>9, <1>10, <1>11, ConcatProperties
<1>13. BatchRests(batch)
  <2> SUFFICES ASSUME NEW k \in 1 .. n + m PROVE RestsOn(batch[k], Past \cup {batch[j] : j \in 1 .. k - 1})
    BY <1>12 DEF BatchRests
  <2>1. CASE k <= n
    <3>1. k \in 1 .. n /\ batch[k] = first[k]
      BY <1>12, <2>1
    <3>2. Past \subseteq Past \cup {batch[j] : j \in 1 .. k - 1}
      OBVIOUS
    <3> QED BY <1>6, <3>1, <3>2, RestsMore
  <2>2. CASE k > n
    <3>1. k - n \in 1 .. m /\ batch[k] = last[k - n]
      BY <1>12, <2>2
    <3>2. RestsOn(last[k - n], Past \cup {last[j] : j \in 1 .. (k - n) - 1})
      BY <1>9, <1>11, <3>1 DEF BatchRests
    <3>3. ASSUME NEW j \in 1 .. (k - n) - 1 PROVE last[j] \in {batch[i] : i \in 1 .. k - 1}
      <4>1. j + n \in 1 .. k - 1 /\ j + n \in 1 .. n + m /\ ~(j + n <= n) /\ (j + n) - n = j
        BY <3>3
      <4>2. batch[j + n] = last[j]
        BY <1>12, <4>1
      <4> QED BY <4>1, <4>2
    <3>4. Past \cup {last[j] : j \in 1 .. (k - n) - 1} \subseteq Past \cup {batch[j] : j \in 1 .. k - 1}
      BY <3>3
    <3> QED BY <3>1, <3>2, <3>4, RestsMore
  <2> QED BY <2>1, <2>2
<1> QED BY <1>1, <1>2, <1>3, <1>12, <1>13, StandsAnswers

LEMMA StandsAnswer ==
  ASSUME ResearchInv, NEW a \in Agents, Answer(a)
  PROVE  ResearchInv'
<1>1. CASE a = "extractor"
  BY <1>1, StandsExtractor DEF Answer
<1>2. CASE a = "verifier"
  BY <1>2, StandsVerifier DEF Answer
<1>3. CASE a = "retractor"
  BY <1>3, StandsRetractor DEF Answer
<1> QED BY <1>1, <1>2, <1>3 DEF Agents

(* Whoever is in the lock is alone there. *)
LEMMA Alone ==
  ASSUME ResearchInv, NEW a \in Agents, Holds(runs[a].pc)
  PROVE  \A b \in Agents \ {a} : ~Holds(runs[b].pc) /\ runs[b].pc # "apply"
BY DEF ResearchInv, OneHolds, Holds

LEMMA Numbers ==
  ASSUME ResearchInv
  PROVE  /\ stream \in Seq(Facts) /\ Len(stream) \in Nat /\ seen \in 0 .. Len(stream) /\ seen \in Nat
         /\ minted \in Nat /\ troubles \in Nat /\ results \in [1 .. 3 -> 0 .. Len(stream)]
BY DEF ResearchInv, StreamStands

LEMMA RunFields ==
  ASSUME ResearchInv, NEW a \in Agents
  PROVE  /\ runs[a] \in RunsOf(a) /\ runs[a].batch \in Seq(Facts) /\ runs[a].snap \in 0 .. Len(stream)
         /\ runs[a].item \in (IF a = "extractor" THEN Docs \cup {Nil} ELSE Nat \cup {Nil})
         /\ runs[a].pc # "idle" => up
         /\ runs[a].pc = "apply" => seen <= runs[a].snap
         /\ runs[a].pc \in {"ready", "append"} => BatchRests(runs[a].batch)
<1>1. RunStands(a, runs[a])
  BY DEF ResearchInv
<1>2. runs[a] \in RunsOf(a)
  BY <1>1 DEF RunStands
<1>3. /\ runs[a].batch \in Seq(Facts) /\ runs[a].snap \in 0 .. Len(stream)
      /\ runs[a].item \in (IF a = "extractor" THEN Docs \cup {Nil} ELSE Nat \cup {Nil})
  BY <1>2 DEF RunsOf
<1> QED BY <1>1, <1>2, <1>3 DEF RunStands

LEMMA StandsTakeLock ==
  ASSUME ResearchInv, NEW a \in Agents, TakeLock(a)
  PROVE  ResearchInv'
<1>1. PICK r : r = At("append", runs[a].item, runs[a].batch, 0)
  OBVIOUS
<1>2. /\ Goes(a, r) /\ runs[a].pc = "ready" /\ LockFree
      /\ UNCHANGED <<job, up, stream, results, minted, troubles>> /\ seen' = seen
  BY <1>1 DEF TakeLock, world
<1>3. r \in RunsOf(a) /\ r.pc = "append" /\ r.batch = runs[a].batch
  <2>1. 0 \in 0 .. Len(stream)
    BY Numbers
  <2>2. r = [pc |-> "append", item |-> runs[a].item, batch |-> runs[a].batch, snap |-> 0]
    BY <1>1 DEF At
  <2> QED BY <2>1, <2>2, RunFields DEF RunsOf
<1>4. RunStands(a, r)
  BY <1>2, <1>3, RunFields DEF RunStands
<1>5. \A b \in Agents \ {a} : ~Holds(runs[b].pc)
  BY <1>2 DEF LockFree, Locked
<1> QED BY <1>2, <1>4, <1>5, Numbers, GoesOn

LEMMA StandsReadStream ==
  ASSUME ResearchInv, NEW a \in Agents, ReadStream(a)
  PROVE  ResearchInv'
<1>1. PICK r : r = At("apply", runs[a].item, <<>>, Len(stream))
  OBVIOUS
<1>2. /\ Goes(a, r) /\ runs[a].pc = "read"
      /\ UNCHANGED <<job, up, stream, results, minted, troubles>> /\ seen' = seen
  BY <1>1 DEF ReadStream, world
<1>3. r \in RunsOf(a) /\ r.pc = "apply" /\ r.snap = Len(stream)
  <2>1. <<>> \in Seq(Facts) /\ Len(stream) \in 0 .. Len(stream)
    BY Numbers
  <2>2. r = [pc |-> "apply", item |-> runs[a].item, batch |-> <<>>, snap |-> Len(stream)]
    BY <1>1 DEF At
  <2> QED BY <2>1, <2>2, RunFields DEF RunsOf
<1>4. RunStands(a, r)
  <2>1. seen <= Len(stream)
    BY Numbers
  <2> QED BY <1>2, <1>3, <2>1, RunFields DEF RunStands
<1>5. \A b \in Agents \ {a} : ~Holds(runs[b].pc)
  BY <1>2, Alone DEF Holds
<1> QED BY <1>2, <1>4, <1>5, Numbers, GoesOn

LEMMA StandsFailsToCommit ==
  ASSUME ResearchInv, NEW a \in Agents, Fails(a)
  PROVE  ResearchInv'
<1>1. Ends(a) /\ UNCHANGED <<job, up, stream, results, minted>> /\ seen' = seen /\ troubles' = troubles + 1
  BY DEF Fails, Trouble
<1>2. minted' \in Nat /\ troubles' \in Nat
  BY <1>1, Numbers
<1> QED BY <1>1, <1>2, Stops

LEMMA StandsCatchUp ==
  ASSUME ResearchInv, NEW a \in Agents, CatchUp(a)
  PROVE  ResearchInv'
<1>1. /\ Goes(a, AtRest) /\ UNCHANGED <<job, up, stream, minted, troubles>> /\ seen' = seen
  BY DEF CatchUp, world, Ends
<1>2. results' \in [1 .. 3 -> 0 .. Len(stream')]
  <2>1. results' = [k \in 1 .. 3 |-> IF \A j \in 1 .. k : Complete(j) THEN seen ELSE results[k]]
    BY DEF CatchUp
  <2>2. \A k \in 1 .. 3 : (IF \A j \in 1 .. k : Complete(j) THEN seen ELSE results[k]) \in 0 .. Len(stream)
    BY Numbers
  <2>3. results' \in [1 .. 3 -> 0 .. Len(stream)]
    BY <2>1, <2>2
  <2> QED BY <1>1, <2>3
<1>3. PICK r : r = AtRest
  OBVIOUS
<1>4. StreamStands' /\ stream \in Seq(Facts) /\ stream' \in Seq(Facts') /\ Len(stream) <= Len(stream') /\ Past \subseteq Past'
  BY <1>1, StreamStays DEF ResearchInv, StreamStands
<1>5. RunStands(a, r)'
  <2>1. RunStands(a, r) /\ r.pc = "idle"
    BY <1>3, Resting
  <2> QED BY <1>1, <1>4, <2>1, RunKept
<1>6. ~Holds(r.pc)
  BY <1>3, Resting
<1>7. \A b \in Agents \ {a} : runs[b].pc = "apply" => seen' <= runs[b].snap
  BY <1>1, RunFields
<1> QED BY <1>1, <1>2, <1>3, <1>4, <1>5, <1>6, <1>7, Numbers, Moves

(* What was seen is read again, and what came after it. *)
LEMMA Rereads ==
  ASSUME ResearchInv, NEW a \in Agents, RefreshLookups(a)
  PROVE  /\ seen' \in 0 .. runs[a].snap /\ seen <= seen' /\ runs[a].snap \in 0 .. Len(stream)
         /\ \A i \in 1 .. seen' : stream[i].type # "junk"
<1>1. PICK n : n = runs[a].snap
  OBVIOUS
<1>2. n \in Nat /\ n \in 0 .. Len(stream) /\ seen \in 0 .. n /\ seen' = ReadableTo(n)
  BY <1>1, RunFields, Numbers DEF RefreshLookups
<1>3. \A i \in 1 .. seen : stream[i].type # "junk"
  BY DEF ResearchInv, StreamStands
<1>4. /\ ReadableTo(n) \in 0 .. n /\ \A i \in 1 .. ReadableTo(n) : stream[i].type # "junk"
      /\ seen <= ReadableTo(n)
  BY <1>2, <1>3, ReadsWhatItCan
<1> QED BY <1>1, <1>2, <1>4

LEMMA StandsRefresh ==
  ASSUME ResearchInv, NEW a \in Agents, RefreshLookups(a)
  PROVE  ResearchInv'
<1>1. UNCHANGED <<job, up, stream, results, minted, troubles>> /\ runs[a].pc = "apply"
  BY DEF RefreshLookups, world
<1>2. PICK n, r : n = seen' /\ Goes(a, r) /\ (r = At("project", runs[a].item, <<>>, n) \/ r = AtRest)
  BY DEF RefreshLookups, Ends
<1>3. /\ seen' \in 0 .. runs[a].snap /\ runs[a].snap \in 0 .. Len(stream) /\ seen' \in 0 .. Len(stream)
      /\ \A i \in 1 .. seen' : stream[i].type # "junk"
  BY Rereads, Numbers
<1>4. StreamStands'
  BY <1>1, <1>3, StreamStays DEF ResearchInv, StreamStands
<1>5. stream \in Seq(Facts) /\ stream' \in Seq(Facts') /\ Len(stream) <= Len(stream') /\ Past \subseteq Past'
  BY <1>1, StreamStays, Numbers
<1>6. RunStands(a, r) /\ (r.pc = "project" \/ r.pc = "idle")
  <2>1. CASE r = AtRest
    BY <2>1, Resting
  <2>2. CASE r = At("project", runs[a].item, <<>>, n)
    <3>1. <<>> \in Seq(Facts) /\ n \in 0 .. Len(stream)
      BY <1>2, <1>3
    <3>2. r \in RunsOf(a) /\ r.pc = "project"
      <4>1. r = [pc |-> "project", item |-> runs[a].item, batch |-> <<>>, snap |-> n]
        BY <2>2 DEF At
      <4> QED BY <3>1, <4>1, RunFields DEF RunsOf
    <3> QED BY <1>1, <3>2, RunFields DEF RunStands
  <2> QED BY <1>2, <2>1, <2>2
<1>7. RunStands(a, r)'
  <2>1. r.pc # "idle" => up'
    BY <1>1, <1>6 DEF RunStands
  <2> QED BY <1>1, <1>5, <1>6, <2>1, RunKept
<1>8. \A b \in Agents \ {a} : ~Holds(runs[b].pc) /\ runs[b].pc # "apply"
  BY <1>1, Alone DEF Holds
<1>9. results' \in [1 .. 3 -> 0 .. Len(stream')] /\ minted' \in Nat /\ troubles' \in Nat
  BY <1>1, Numbers
<1> QED BY <1>1, <1>2, <1>4, <1>5, <1>7, <1>8, <1>9, Moves

(* One more event of a waiting batch; the rest of it still rests on what is there. *)
LEMMA StandsAppendOne ==
  ASSUME ResearchInv, NEW a \in Agents, AppendOne(a)
  PROVE  ResearchInv'
<1>1. /\ runs[a].pc = "append" /\ runs[a].batch # <<>> /\ stream' = Append(stream, Head(runs[a].batch))
      /\ UNCHANGED <<job, up, results, minted, troubles>> /\ seen' = seen
  BY DEF AppendOne, world
<1>2. PICK batch \in Seq(Facts) : batch = runs[a].batch
  BY RunFields
<1>3. PICK e, rest : e = Head(batch) /\ rest = Tail(batch)
  OBVIOUS
<1>4. PICK m \in Nat : m = Len(rest)
  <2>1. rest \in Seq(Facts)
    BY <1>1, <1>2, <1>3, HeadTailProperties
  <2> QED BY <2>1
<1>5. /\ e \in Facts /\ e = batch[1] /\ rest \in Seq(Facts) /\ Len(batch) = m + 1
      /\ \A k \in 1 .. m : rest[k] = batch[k + 1]
  BY <1>1, <1>2, <1>3, <1>4, HeadTailProperties
<1>6. BatchRests(batch)
  BY <1>1, <1>2, RunFields
<1>7. RestsOn(e, Past)
  <2>1. 1 \in 1 .. Len(batch)
    BY <1>4, <1>5
  <2>2. RestsOn(batch[1], Past \cup {batch[j] : j \in 1 .. 1 - 1})
    BY <1>6, <2>1 DEF BatchRests
  <2>3. {batch[j] : j \in 1 .. 1 - 1} = {}
    OBVIOUS
  <2> QED BY <1>5, <2>2, <2>3
<1>8. /\ stream' \in Seq(Facts') /\ Len(stream) \in Nat /\ Len(stream') = Len(stream) + 1
      /\ \A i \in 1 .. Len(stream) : stream'[i] = stream[i]
      /\ Past' = Past \cup {e} /\ CitationsHold' /\ Facts' = Facts
  <2>1. stream \in Seq(Facts) /\ CitationsHold
    BY DEF ResearchInv, StreamStands
  <2> QED BY <1>1, <1>2, <1>3, <1>5, <1>7, <2>1, StreamGrows
<1>9. StreamStands'
  <2>1. seen \in 0 .. Len(stream) /\ \A i \in 1 .. seen : stream[i].type # "junk"
    BY DEF ResearchInv, StreamStands
  <2>2. \A i \in 1 .. seen : i \in 1 .. Len(stream)
    BY <1>8, <2>1
  <2>3. seen' \in 0 .. Len(stream') /\ \A i \in 1 .. seen' : stream'[i].type # "junk"
    BY <1>1, <1>8, <2>1, <2>2
  <2> QED BY <1>8, <2>3 DEF StreamStands
<1>10. PICK r : Goes(a, r) /\ r = At(IF rest = <<>> THEN "read" ELSE "append", runs[a].item, rest, 0)
  BY <1>2, <1>3 DEF AppendOne
<1>11. PICK pc \in {"read", "append"} : r = [pc |-> pc, item |-> runs[a].item, batch |-> rest, snap |-> 0]
  BY <1>10 DEF At
<1>12. r \in RunsOf(a)'
  <2>1. 0 \in 0 .. Len(stream') /\ Docs' = Docs
    BY <1>1, <1>8 DEF Docs
  <2> QED BY <1>5, <1>8, <1>11, <2>1, RunFields DEF RunsOf
<1>13. BatchRests(rest)'
  <2> SUFFICES ASSUME NEW k \in 1 .. m
               PROVE  RestsOn(rest[k], Past' \cup {rest[j] : j \in 1 .. k - 1})
    BY <1>4 DEF BatchRests
  <2>1. k + 1 \in 1 .. Len(batch) /\ (k + 1) - 1 = k
    BY <1>5
  <2>2. RestsOn(batch[k + 1], Past \cup {batch[j] : j \in 1 .. (k + 1) - 1})
    BY <1>6, <2>1 DEF BatchRests
  <2>3. ASSUME NEW j \in 1 .. k PROVE batch[j] \in {e} \cup {rest[i] : i \in 1 .. k - 1}
    <3>1. CASE j = 1
      BY <1>5, <3>1
    <3>2. CASE j # 1
      <4>1. j - 1 \in 1 .. k - 1 /\ j - 1 \in 1 .. m /\ (j - 1) + 1 = j
        BY <3>2
      <4>2. rest[j - 1] = batch[j]
        BY <1>5, <4>1
      <4> QED BY <4>1, <4>2
    <3> QED BY <3>1, <3>2
  <2>4. Past \cup {batch[j] : j \in 1 .. (k + 1) - 1} \subseteq Past' \cup {rest[j] : j \in 1 .. k - 1}
    BY <1>8, <2>1, <2>3
  <2>5. rest[k] = batch[k + 1]
    BY <1>5
  <2> QED BY <2>2, <2>4, <2>5, RestsMore
<1>14. RunStands(a, r)'
  <2>1. up'
    BY <1>1, RunFields
  <2>2. r.pc \in {"read", "append"} /\ r.batch = rest
    BY <1>11
  <2> QED BY <1>12, <1>13, <2>1, <2>2 DEF RunStands
<1>15. \A b \in Agents \ {a} : ~Holds(runs[b].pc) /\ runs[b].pc # "apply"
  BY <1>1, Alone DEF Holds
<1>16. results' \in [1 .. 3 -> 0 .. Len(stream')] /\ minted' \in Nat /\ troubles' \in Nat
  <2>1. 0 .. Len(stream) \subseteq 0 .. Len(stream')
    BY <1>8
  <2> QED BY <1>1, <2>1, Numbers
<1>17. Len(stream) <= Len(stream') /\ Past \subseteq Past' /\ UNCHANGED <<job, up>>
  BY <1>1, <1>8
<1> QED BY <1>9, <1>10, <1>14, <1>15, <1>16, <1>17, Moves

(* The agents stay where they are. *)
LEMMA OthersStay ==
  ASSUME ResearchInv, UNCHANGED <<job, runs>>, StreamStands', Len(stream) <= Len(stream'), Past \subseteq Past',
         results' \in [1 .. 3 -> 0 .. Len(stream')], minted' \in Nat, troubles' \in Nat, up' \in BOOLEAN,
         (up' = up /\ seen' = seen) \/ ~up
  PROVE  ResearchInv'
<1>1. ASSUME NEW a \in Agents PROVE RunStands(a, runs[a])'
  <2>1. PICK r : r = runs[a]
    OBVIOUS
  <2>2. RunStands(a, r) /\ (~up => r.pc = "idle")
    BY <2>1 DEF ResearchInv, RunStands
  <2>3. stream \in Seq(Facts) /\ stream' \in Seq(Facts')
    BY DEF ResearchInv, StreamStands
  <2>4. r.pc # "idle" => up'
    BY <2>2 DEF RunStands
  <2>5. r.pc = "apply" => seen' <= r.snap
    BY <2>2 DEF RunStands
  <2>6. RunStands(a, r)'
    BY <2>2, <2>3, <2>4, <2>5, RunKept
  <2> QED BY <2>1, <2>6
<1>2. RunsAreThere'
  <2>1. \A b \in Agents : runs'[b] \in RunsOf(b)'
    BY <1>1 DEF RunStands
  <2>2. \A b \in Agents : RunsOf(b)' \subseteq RunsOf("extractor")' \cup RunsOf("verifier")'
    BY DEF RunsOf, Agents
  <2>3. runs' = [b \in Agents |-> runs'[b]]
    BY DEF ResearchInv, RunsAreThere
  <2> QED BY <2>1, <2>2, <2>3 DEF RunsAreThere
<1>3. OneHolds'
  BY DEF ResearchInv, OneHolds
<1>4. job' \in Jobs
  BY DEF ResearchInv
<1> QED BY <1>1, <1>2, <1>3, <1>4 DEF ResearchInv

LEMMA StandsForeign ==
  ASSUME ResearchInv, AppendForeign
  PROVE  ResearchInv'
<1>1. UNCHANGED <<job, seen, results, up, runs>> /\ troubles' = troubles + 1
  BY DEF AppendForeign, Trouble
<1>2. \E e : e \in Facts /\ e.by = "cli" /\ stream' = Append(stream, e) /\ minted' \in Nat
  <2>1. CASE FromOutside(Event("junk", Nil, Nil, Nil, Nil, Nil)) /\ minted' = minted
    <3>1. PICK e : e = [type |-> "junk", claim |-> Nil, target |-> Nil, source |-> Nil, text |-> Nil,
                        origin |-> Nil, by |-> "cli"]
      OBVIOUS
    <3>2. [Event("junk", Nil, Nil, Nil, Nil, Nil) EXCEPT !.by = "cli"] = e
      BY <3>1 DEF Event
    <3>3. stream' = Append(stream, e)
      BY <2>1, <3>2 DEF FromOutside
    <3>4. e \in Facts /\ e.by = "cli"
      BY <3>1 DEF Facts
    <3> QED BY <2>1, <3>3, <3>4, Numbers
  <2>2. ASSUME NEW d \in Docs, NEW t \in job.texts, minted' = minted + 1,
               FromOutside(Proposed(minted + 1, d, t, "extracted"))
        PROVE  \E e : e \in Facts /\ e.by = "cli" /\ stream' = Append(stream, e) /\ minted' \in Nat
    <3>1. PICK e : e = [type |-> "proposed", claim |-> minted + 1, target |-> Nil, source |-> d, text |-> t,
                        origin |-> "extracted", by |-> "cli"]
      OBVIOUS
    <3>2. [Proposed(minted + 1, d, t, "extracted") EXCEPT !.by = "cli"] = e
      BY <3>1 DEF Proposed, Event
    <3>3. stream' = Append(stream, e)
      BY <2>2, <3>2 DEF FromOutside
    <3>4. minted + 1 \in Nat
      BY Numbers
    <3>5. e \in Facts /\ e.by = "cli"
      BY <3>1, <3>4 DEF Facts
    <3> QED BY <2>2, <3>3, <3>4, <3>5
  <2>3. ASSUME NEW i \in 1 .. Len(stream), NEW j \in 1 .. Len(stream), minted' = minted,
               \/ FromOutside(Refuted(stream[i].claim, stream[j].claim))
               \/ FromOutside(Corrected(stream[i].claim, stream[j].claim))
        PROVE  \E e : e \in Facts /\ e.by = "cli" /\ stream' = Append(stream, e) /\ minted' \in Nat
    <3>1. PICK c, t : c = stream[i].claim /\ t = stream[j].claim
      OBVIOUS
    <3>2. c \in Nat \cup {Nil} /\ t \in Nat \cup {Nil}
      <4>1. stream[i] \in Facts /\ stream[j] \in Facts
        BY Numbers, ElementOfSeq
      <4> QED BY <3>1, <4>1 DEF Facts
    <3>3. PICK kind : kind \in {"refuted", "corrected"} /\ FromOutside(Event(kind, c, t, Nil, Nil, Nil))
      BY <2>3, <3>1 DEF Refuted, Corrected
    <3>4. PICK e : e = [type |-> kind, claim |-> c, target |-> t, source |-> Nil, text |-> Nil,
                        origin |-> Nil, by |-> "cli"]
      OBVIOUS
    <3>5. [Event(kind, c, t, Nil, Nil, Nil) EXCEPT !.by = "cli"] = e
      BY <3>4 DEF Event
    <3>6. stream' = Append(stream, e)
      BY <3>3, <3>5 DEF FromOutside
    <3>7. e \in Facts /\ e.by = "cli"
      BY <3>2, <3>3, <3>4 DEF Facts
    <3> QED BY <2>3, <3>6, <3>7, Numbers
  <2>4. ASSUME NEW i \in 1 .. Len(stream), NEW d \in Docs, minted' = minted,
               FromOutside(Corroborated(stream[i].claim, d))
        PROVE  \E e : e \in Facts /\ e.by = "cli" /\ stream' = Append(stream, e) /\ minted' \in Nat
    <3>1. PICK c : c = stream[i].claim
      OBVIOUS
    <3>2. c \in Nat \cup {Nil}
      <4>1. stream[i] \in Facts
        BY Numbers, ElementOfSeq
      <4> QED BY <3>1, <4>1 DEF Facts
    <3>3. PICK e : e = [type |-> "corroborated", claim |-> c, target |-> Nil, source |-> d, text |-> Nil,
                        origin |-> Nil, by |-> "cli"]
      OBVIOUS
    <3>4. [Corroborated(c, d) EXCEPT !.by = "cli"] = e
      BY <3>3 DEF Corroborated, Event
    <3>5. stream' = Append(stream, e)
      BY <2>4, <3>1, <3>4 DEF FromOutside
    <3>6. e \in Facts /\ e.by = "cli"
      BY <3>2, <3>3 DEF Facts
    <3> QED BY <2>4, <3>5, <3>6, Numbers
  <2> QED BY <2>1, <2>2, <2>3, <2>4 DEF AppendForeign
<1>3. PICK e : e \in Facts /\ e.by = "cli" /\ stream' = Append(stream, e) /\ minted' \in Nat
  BY <1>2
<1>4. /\ stream' \in Seq(Facts') /\ Len(stream) \in Nat /\ Len(stream') = Len(stream) + 1
      /\ \A i \in 1 .. Len(stream) : stream'[i] = stream[i]
      /\ Past' = Past \cup {e} /\ CitationsHold'
  <2>1. stream \in Seq(Facts) /\ CitationsHold
    BY DEF ResearchInv, StreamStands
  <2> QED BY <1>1, <1>3, <2>1, StreamGrows
<1>5. StreamStands'
  <2>1. seen \in 0 .. Len(stream) /\ \A i \in 1 .. seen : stream[i].type # "junk"
    BY DEF ResearchInv, StreamStands
  <2>2. \A i \in 1 .. seen : i \in 1 .. Len(stream)
    BY <1>4, <2>1
  <2>3. seen' \in 0 .. Len(stream') /\ \A i \in 1 .. seen' : stream'[i].type # "junk"
    BY <1>1, <1>4, <2>1, <2>2
  <2> QED BY <1>4, <2>3 DEF StreamStands
<1>6. results' \in [1 .. 3 -> 0 .. Len(stream')] /\ troubles' \in Nat /\ up' \in BOOLEAN
  <2>1. 0 .. Len(stream) \subseteq 0 .. Len(stream')
    BY <1>4
  <2>2. up \in BOOLEAN
    BY DEF ResearchInv
  <2> QED BY <1>1, <2>1, <2>2, Numbers
<1>7. Len(stream) <= Len(stream') /\ Past \subseteq Past'
  BY <1>4
<1> QED BY <1>1, <1>3, <1>5, <1>6, <1>7, OthersStay

LEMMA StandsStart ==
  ASSUME ResearchInv, Start
  PROVE  ResearchInv'
<1>1. /\ UNCHANGED <<job, stream, runs, minted, troubles>> /\ ~up /\ up' = TRUE /\ seen' = Len(stream)
      /\ ReadableTo(Len(stream)) = Len(stream) /\ results' = [k \in 1 .. 3 |-> seen']
  BY DEF Start
<1>2. PICK n \in Nat : n = Len(stream)
  BY Numbers
<1>3. \A i \in 1 .. n : stream[i].type # "junk"
  BY <1>1, <1>2, ReadsWhatItCan
<1>4. StreamStands'
  BY <1>1, <1>2, <1>3, StreamStays DEF ResearchInv, StreamStands
<1>5. results' \in [1 .. 3 -> 0 .. Len(stream')]
  BY <1>1, <1>2
<1>6. Past' = Past /\ Len(stream) <= Len(stream')
  BY <1>1, <1>2, StreamStays
<1> QED BY <1>1, <1>4, <1>5, <1>6, Numbers, OthersStay

LEMMA StandsStop ==
  ASSUME ResearchInv, Stop
  PROVE  ResearchInv'
<1>1. /\ UNCHANGED <<job, stream, minted>> /\ up' = FALSE /\ seen' = 0 /\ results' = [k \in 1 .. 3 |-> 0]
      /\ runs' = [a \in Agents |-> AtRest] /\ troubles' = troubles + 1
  BY DEF Stop, Trouble
<1>2. PICK n \in Nat : n = Len(stream)
  BY Numbers
<1>3. StreamStands'
  BY <1>1, <1>2, StreamStays DEF ResearchInv, StreamStands
<1>4. results' \in [1 .. 3 -> 0 .. Len(stream')]
  BY <1>1, <1>2
<1>5. PICK r : r = AtRest
  OBVIOUS
<1>6. r.pc = "idle"
  BY <1>5 DEF AtRest, At
<1>7. \A a \in Agents : r \in RunsOf(a)' /\ RunStands(a, r)'
  <2> SUFFICES ASSUME NEW a \in Agents PROVE r \in RunsOf(a)' /\ RunStands(a, r)'
    OBVIOUS
  <2>1. r \in RunsOf(a)
    BY <1>5, Resting DEF RunStands
  <2>2. r \in RunsOf(a)'
    BY <1>1, <2>1, StreamStays
  <2> QED BY <1>6, <2>2 DEF RunStands
<1>8. runs' = [a \in Agents |-> r]
  BY <1>1, <1>5
<1>9. RunsAreThere'
  <2>1. \A b \in Agents : RunsOf(b)' \subseteq RunsOf("extractor")' \cup RunsOf("verifier")'
    BY DEF RunsOf, Agents
  <2> QED BY <1>7, <1>8, <2>1 DEF RunsAreThere
<1>10. OneHolds'
  BY <1>6, <1>8 DEF OneHolds, Holds
<1>11. \A a \in Agents : RunStands(a, runs[a])'
  BY <1>7, <1>8
<1>12. job' \in Jobs /\ minted' \in Nat /\ troubles' \in Nat /\ up' \in BOOLEAN
  <2>1. job \in Jobs /\ minted \in Nat /\ troubles \in Nat
    BY DEF ResearchInv
  <2>2. troubles + 1 \in Nat
    BY <2>1
  <2> QED BY <1>1, <2>1, <2>2
<1> QED BY <1>3, <1>4, <1>9, <1>10, <1>11, <1>12 DEF ResearchInv

LEMMA ResearchBegins == ResearchInit => ResearchInv
<1> SUFFICES ASSUME ResearchInit PROVE ResearchInv
  OBVIOUS
<1>1. /\ job \in Jobs /\ stream = <<>> /\ seen = 0 /\ results = [k \in 1 .. 3 |-> 0] /\ up = FALSE
      /\ runs = [a \in Agents |-> AtRest] /\ minted = 0 /\ troubles = 0
  BY DEF ResearchInit
<1>2. stream \in Seq(Facts) /\ Len(stream) = 0
  BY <1>1
<1>3. StreamStands
  BY <1>1, <1>2 DEF StreamStands, CitationsHold
<1>4. results \in [1 .. 3 -> 0 .. Len(stream)]
  BY <1>1, <1>2
<1>5. \A a \in Agents : RunStands(a, runs[a]) /\ ~Holds(runs[a].pc)
  BY <1>1, Resting
<1>6. RunsAreThere
  <2>1. \A a \in Agents : runs[a] \in RunsOf(a)
    BY <1>5 DEF RunStands
  <2>2. \A a \in Agents : runs[a] \in RunsOf("extractor") \cup RunsOf("verifier")
    BY <2>1, Types
  <2>3. runs = [a \in Agents |-> runs[a]]
    BY <1>1
  <2> QED BY <2>2, <2>3 DEF RunsAreThere
<1>7. OneHolds
  BY <1>5 DEF OneHolds
<1> QED BY <1>1, <1>3, <1>4, <1>5, <1>6, <1>7 DEF ResearchInv

LEMMA ResearchInductive ==
  ASSUME ResearchInv, [ResearchNext]_researchVars
  PROVE  ResearchInv'
<1>1. CASE UNCHANGED researchVars
  <2>1. UNCHANGED <<job, stream, seen, results, up, runs, minted, troubles>>
    BY <1>1 DEF researchVars
  <2>2. StreamStands'
    BY <2>1, StreamStays DEF ResearchInv, StreamStands
  <2>3. Len(stream) <= Len(stream') /\ Past \subseteq Past'
    BY <2>1, StreamStays, Numbers
  <2>4. results' \in [1 .. 3 -> 0 .. Len(stream')] /\ minted' \in Nat /\ troubles' \in Nat /\ up' \in BOOLEAN
    BY <2>1 DEF ResearchInv
  <2> QED BY <2>1, <2>2, <2>3, <2>4, OthersStay
<1>2. ASSUME NEW a \in Agents, Ask(a) \/ Answer(a) \/ TakeLock(a) \/ Commits(a) \/ Fails(a)
      PROVE  ResearchInv'
  BY <1>2, StandsAsk, StandsAnswer, StandsTakeLock, StandsAppendOne, StandsReadStream, StandsRefresh,
     StandsCatchUp, StandsFailsToCommit DEF Commits
<1>3. CASE AppendForeign \/ Start \/ Stop
  BY <1>3, StandsForeign, StandsStart, StandsStop
<1> QED BY <1>1, <1>2, <1>3 DEF ResearchNext

LEMMA ResearchAlways == ResearchSpec => []ResearchInv
BY ResearchBegins, ResearchInductive, PTL DEF ResearchSpec

(* Every event has its fields, and what the assistant has read of the stream is a part
   of the stream, for any corpus, claims and bounds. *)
THEOREM ResearchTypeCorrect == ResearchSpec => []ResearchTypeOK
<1>1. ResearchInv => ResearchTypeOK
  BY DEF ResearchInv, StreamStands, RunsAreThere, RunStands, ResearchTypeOK
<1> QED BY <1>1, ResearchAlways, PTL

(* Whatever the models answer, wherever a fault cuts a batch off and whatever other
   processes append: what an agent put into the stream cites what was there. *)
THEOREM CitationsAlwaysHold == ResearchSpec => []CitationsHold
<1>1. ResearchInv => CitationsHold
  BY DEF ResearchInv, StreamStands
<1> QED BY <1>1, ResearchAlways, PTL

(* Two refreshes never come together in an order that takes back what was seen. *)
THEOREM SeenOnlyGrows == ResearchSpec => SeenNeverGoesBack
<1>1. ASSUME ResearchInv, [ResearchNext]_researchVars
      PROVE  [up /\ up' => seen' >= seen]_researchVars
  <2>1. seen \in Nat
    BY <1>1, Numbers
  <2>2. CASE seen' = seen
    BY <2>1, <2>2
  <2>3. ASSUME NEW a \in Agents, RefreshLookups(a)
        PROVE  seen' >= seen
    <3>1. PICK n : n = runs[a].snap
      OBVIOUS
    <3>2. n \in 0 .. Len(stream) /\ seen' \in 0 .. n /\ seen <= seen'
      BY <1>1, <2>3, <3>1, Rereads
    <3> QED BY <1>1, <2>1, <3>2, Numbers
  <2>4. CASE ~up \/ ~up'
    BY <2>4
  <2>5. ASSUME ResearchNext
        PROVE  seen' = seen \/ (\E a \in Agents : RefreshLookups(a)) \/ ~up \/ ~up'
    BY <2>5 DEF ResearchNext, Ask, Answer, Answers, TakeLock, Commits, AppendOne, ReadStream, CatchUp, Fails,
      AppendForeign, Start, Stop
  <2>6. CASE UNCHANGED researchVars
    BY <2>6
  <2> QED BY <1>1, <2>2, <2>3, <2>4, <2>5, <2>6
<1> QED BY <1>1, ResearchAlways, PTL DEF ResearchSpec, SeenNeverGoesBack
=============================================================================
