------------------------------- MODULE Ledger -------------------------------
(* What the book owes its reader: threads, promises, secrets and who knows
   them, themes, and the hands of raw material the Muse deals.

   Agents commit intents against what they polled; the events are folded by a
   projector that is behind; and the handlers that fold them decide what each
   event still means.  Who may know a secret is a matter of the cast, which the
   Keeper makes: what it mints enters canon at once, or waits for the director.
   Several agents and the director do so at once, each on its own picture of the
   ledger.

   A run commits any of its intents in any order, at most desk.upto altogether.
   Notes, evidence, causal edges and the flags a miner files instead of a fact
   it cannot place or finds recorded for the chapter already are left out.  Of
   gating there is what it does to a character; a gated reveal is one that is
   appended late, and nothing else here is ever gated. *)
EXTENDS Naturals, Sequences

CONSTANTS
  Threads, Promises, Secrets, Themes,
  Hands,       \* the hands dealt, by number, in the order they are dealt
  Names,       \* the identifiers a character's name comes to
  FirstCast,   \* the characters there are at first
  Items,       \* raw material
  Dealt,       \* what each hand holds
  Windows,     \* the chapter windows a model may give
  Chapters,    \* bound: chapters drafted
  Desks,       \* bound: the agents and families of records tried together, and how
               \* many events they append
  MaxPending,  \* bound: events the projector is behind
  None

Agents == {"author", "editor", "plotter", "miner", "keeper", "muse", "director"}
Families == {"thread", "promise", "secret", "theme", "hand", "cast"}

NoWindow == <<0, 0>>

(* An invalid window is neither unset nor a range of chapters. *)
Sound(w) == w = NoWindow \/ (1 <= w[1] /\ w[1] <= w[2])

ASSUME LedgerAssumption ==
  /\ Windows \subseteq Nat \X Nat /\ NoWindow \in Windows
  /\ Hands \subseteq Nat /\ Dealt \in [Hands -> SUBSET Items]
  /\ MaxPending \in Nat /\ Chapters \in Nat
  /\ Desks \subseteq [agents : SUBSET Agents, families : SUBSET Families, upto : Nat]
  /\ FirstCast \subseteq Names
  /\ None \notin Threads \cup Hands \cup Names \cup (1 .. Chapters)

VARIABLES
  \* the read model
  threads, promises, secrets, themes, hands, knows, uses, uptake, cast,
  proposed, \* the characters that were put before the director
  pending,  \* the events the projector has not folded
  runs,     \* what each agent at work polled
  desk,
  drafted,  \* chapters the Author has drafted
  appended

rows == <<threads, promises, secrets, themes, hands, knows, uses, uptake, cast>>
ledgerVars == <<rows, proposed, pending, runs, desk, drafted, appended>>

LedgerInit ==
  /\ threads = [t \in Threads |-> [state |-> "none", touches |-> 0, window |-> NoWindow]]
  /\ promises = [p \in Promises |-> [state |-> "none", progress |-> 0, window |-> NoWindow,
                                     thread |-> None]]
  /\ secrets = [s \in Secrets |-> [state |-> "none", window |-> NoWindow]]
  /\ themes = [t \in Themes |-> [state |-> "none", touches |-> 0]]
  /\ hands = [h \in Hands |-> [state |-> "none", chapter |-> None]]
  /\ knows = {} /\ uses = {} /\ uptake = {}
  /\ cast = FirstCast /\ proposed = {}
  /\ pending = <<>> /\ runs = [a \in Agents |-> None]
  /\ desk \in Desks
  /\ drafted = 0 /\ appended = 0

-----------------------------------------------------------------------------
(* The handlers: what an event makes of the row it names *)
TERMINAL_STATES == {"paid_off", "abandoned"}
TERMINAL_PROMISE_STATES == {"paid", "released"}

ThreadPlanted(r) == IF r.state = "none" THEN [r EXCEPT !.state = "planted"] ELSE r

ThreadAdvanced(r, e) ==
  IF r.state \in TERMINAL_STATES \cup {"none"} THEN r
  ELSE [r EXCEPT !.state = e.type, !.touches = IF e.type = "touched" THEN r.touches + 1
                                               ELSE r.touches]

ThreadResolutionPlanned(r, e) ==
  IF r.state \in TERMINAL_STATES \cup {"none"} THEN r ELSE [r EXCEPT !.window = e.window]

(* mutant: a promise made again is made anew *)
PromiseMadeAnew(r, e) ==
  [r EXCEPT !.state = "open", !.window = e.window, !.thread = e.link]

PromiseMade(r, e) ==
  IF r.state = "none" THEN [r EXCEPT !.state = "open", !.window = e.window, !.thread = e.link]
  ELSE r

PromiseAdvanced(r, e) ==
  IF r.state \in TERMINAL_PROMISE_STATES \cup {"none"} THEN r
  ELSE [r EXCEPT !.state = IF e.type = "progressed" THEN "open" ELSE e.type,
                 !.progress = IF e.type = "progressed" THEN r.progress + 1
                              ELSE r.progress]

SecretCreated(r) == IF r.state = "none" THEN [r EXCEPT !.state = "hidden"] ELSE r

SecretRevealPlanned(r, e) ==
  IF r.state = "hidden" THEN [r EXCEPT !.window = e.window] ELSE r

SecretRevealed(r) == IF r.state = "hidden" THEN [r EXCEPT !.state = "revealed"] ELSE r

ThemeIntroduced(r) == IF r.state = "none" THEN [r EXCEPT !.state = "live"] ELSE r

ThemeDeveloped(r) == IF r.state = "live" THEN [r EXCEPT !.touches = @ + 1] ELSE r

InspirationDrawn(r) == IF r.state = "none" THEN [r EXCEPT !.state = "active"] ELSE r

InspirationHandClosed(r, e) ==
  IF r.state = "active" THEN [r EXCEPT !.state = e.type, !.chapter = e.chapter] ELSE r

ThreadRow(r, e) ==
  CASE e.type = "planted" -> ThreadPlanted(r)
    [] e.type = "planned" -> ThreadResolutionPlanned(r, e)
    [] OTHER -> ThreadAdvanced(r, e)

PromiseRow(r, e) == IF e.type = "made" THEN PromiseMade(r, e) ELSE PromiseAdvanced(r, e)

SecretRow(r, e) ==
  CASE e.type = "created" -> SecretCreated(r)
    [] e.type = "planned" -> SecretRevealPlanned(r, e)
    [] e.type = "revealed" -> SecretRevealed(r)
    [] OTHER -> r

ThemeRow(r, e) == IF e.type = "introduced" THEN ThemeIntroduced(r) ELSE ThemeDeveloped(r)

HandRow(r, e) ==
  CASE e.type = "drawn" -> InspirationDrawn(r)
    [] e.type = "uptake" -> r
    [] OTHER -> InspirationHandClosed(r, e)

(* Projector._apply: the first event is folded *)
ProjectEvent ==
  /\ pending # <<>> /\ pending' = Tail(pending)
  /\ LET e == Head(pending) IN
       /\ threads' = IF e.family = "thread"
                       THEN [threads EXCEPT ![e.id] = ThreadRow(@, e)] ELSE threads
       /\ promises' = IF e.family = "promise"
                        THEN [promises EXCEPT ![e.id] = PromiseRow(@, e)] ELSE promises
       /\ secrets' = IF e.family = "secret"
                       THEN [secrets EXCEPT ![e.id] = SecretRow(@, e)] ELSE secrets
       /\ themes' = IF e.family = "theme"
                      THEN [themes EXCEPT ![e.id] = ThemeRow(@, e)] ELSE themes
       /\ hands' = IF e.family = "hand"
                     THEN [hands EXCEPT ![e.id] = HandRow(@, e)] ELSE hands
       /\ knows' = IF e.family = "secret" /\ e.type = "learned"
                     THEN knows \cup {<<e.id, e.who>>} ELSE knows
       /\ uses' = IF e.family = "secret" /\ e.type = "referenced"
                    THEN uses \cup {<<e.id, e.who>>} ELSE uses
       /\ uptake' = IF e.family = "hand" /\ e.type = "uptake"
                      THEN uptake \cup {<<e.id, e.item, e.chapter>>} ELSE uptake
       /\ cast' = IF e.family = "cast" THEN cast \cup {e.id} ELSE cast
  /\ UNCHANGED <<proposed, runs, desk, drafted, appended>>

-----------------------------------------------------------------------------
(* What each agent polls *)
Known(row) == {i \in DOMAIN row : row[i].state # "none"}

ActiveThreads == {t \in Known(threads) : threads[t].state \notin TERMINAL_STATES}

ActivePromises == {p \in Known(promises) : promises[p].state \notin TERMINAL_PROMISE_STATES}

(* Of several active hands, the one in play was drawn last. *)
ActiveHands == {h \in Hands : hands[h].state = "active"}

HandInPlay == {h \in ActiveHands : \A g \in ActiveHands : g <= h}

ConsumedHands == {h \in Hands : hands[h].state = "consumed"}

(* The Plotter takes every thread and promise for an active one.  The Keeper
   does not go by the cast it polled. *)
View(a) ==
  [threads |-> IF a = "plotter" THEN Known(threads) ELSE ActiveThreads,
   promises |-> IF a = "plotter" THEN Known(promises) ELSE ActivePromises,
   secrets |-> IF a = "plotter" THEN {s \in Secrets : secrets[s].state = "hidden"}
               ELSE Known(secrets),
   themes |-> Known(themes),
   roster |-> IF a \in {"author", "editor", "miner"} THEN cast ELSE None,
   seen |-> IF a = "miner" THEN [knows |-> knows, uses |-> uses]
            ELSE [knows |-> {}, uses |-> {}],
   hands |-> CASE a \in {"miner", "keeper"} -> {<<h, hands[h].chapter>> : h \in ConsumedHands}
               [] a \in {"author", "muse", "director"} -> {<<h, None>> : h \in HandInPlay}
               [] OTHER -> {}]

Poll(a) ==
  /\ a \in desk.agents /\ runs[a] = None
  /\ runs' = [runs EXCEPT ![a] = View(a)]
  /\ UNCHANGED <<rows, proposed, pending, desk, drafted, appended>>

(* A run ends with its commit, or fails before it. *)
EndRun(a) ==
  /\ runs[a] # None /\ runs' = [runs EXCEPT ![a] = None]
  /\ UNCHANGED <<rows, proposed, pending, desk, drafted, appended>>

Commit(e) ==
  /\ e.family \in desk.families
  /\ Len(pending) < MaxPending /\ appended < desk.upto
  /\ pending' = Append(pending, e) /\ appended' = appended + 1
  /\ UNCHANGED <<rows, proposed, desk>>

-----------------------------------------------------------------------------
(* Threads.  What is planted under an active identifier is a touch. *)
ThreadEvent(type, t, w) == [family |-> "thread", type |-> type, id |-> t, window |-> w]

Plant(a, t) ==
  /\ a \in {"author", "editor"} /\ runs[a] # None
  /\ Commit(ThreadEvent(IF t \in runs[a].threads THEN "touched" ELSE "planted", t, NoWindow))
  /\ UNCHANGED <<runs, drafted>>

(* mutant: the model's identifier is taken as it is *)
CiteThreadUnchecked(a, t, type) ==
  /\ a \in {"author", "editor", "miner"} /\ runs[a] # None
  /\ a = "miner" => type # "abandoned"
  /\ Commit(ThreadEvent(type, t, NoWindow)) /\ UNCHANGED <<runs, drafted>>

CiteThread(a, t, type) ==
  /\ a \in {"author", "editor", "miner"} /\ runs[a] # None
  /\ a = "miner" => type # "abandoned"
  /\ t \in runs[a].threads
  /\ Commit(ThreadEvent(type, t, NoWindow)) /\ UNCHANGED <<runs, drafted>>

PlanResolution(a, t, w) ==
  /\ a = "plotter" /\ runs[a] # None
  /\ Sound(w) /\ t \in runs[a].threads
  /\ Commit(ThreadEvent("planned", t, w)) /\ UNCHANGED <<runs, drafted>>

(* The director's commands read the row and append at once. *)
DirectThread(t, w) ==
  /\ "director" \in desk.agents
  /\ t \in ActiveThreads /\ Sound(w)
  /\ Commit(ThreadEvent("planned", t, w)) /\ UNCHANGED <<runs, drafted>>

(* Promises.  A link to a thread that is not active is dropped, a window that
   is not sound is unset, and the promise is made all the same. *)
PromiseEvent(type, p, w, link) ==
  [family |-> "promise", type |-> type, id |-> p, window |-> w, link |-> link]

MakePromise(a, p, w, link) ==
  /\ a \in {"author", "editor", "plotter"} /\ runs[a] # None
  /\ IF p \in runs[a].promises THEN Commit(PromiseEvent("progressed", p, NoWindow, None))
     ELSE Commit(PromiseEvent("made", p, IF Sound(w) THEN w ELSE NoWindow,
                              IF link \in runs[a].threads THEN link ELSE None))
  /\ UNCHANGED <<runs, drafted>>

CitePromise(a, p, type) ==
  /\ a \in {"author", "editor", "plotter", "miner"} /\ runs[a] # None
  /\ a = "miner" => type = "progressed"
  /\ p \in runs[a].promises
  /\ Commit(PromiseEvent(type, p, NoWindow, None)) /\ UNCHANGED <<runs, drafted>>

(* Secrets *)
SecretEvent(type, s, w, who) ==
  [family |-> "secret", type |-> type, id |-> s, window |-> w, who |-> who]

PlantSecret(a, s) ==
  /\ a \in {"author", "editor"} /\ runs[a] # None
  /\ s \notin runs[a].secrets
  /\ Commit(SecretEvent("created", s, NoWindow, None)) /\ UNCHANGED <<runs, drafted>>

(* What each agent may say of a secret: a miner's or a keeper's reveal is
   never its own to commit. *)
Allowed(a) ==
  CASE a \in {"author", "editor"} -> {"learned", "referenced", "revealed"}
    [] a = "miner" -> {"learned", "referenced"}
    [] a = "keeper" -> {"learned"}
    [] OTHER -> {}

(* A miner passes over what its poll shows to be recorded already. *)
AlreadyRecorded(a, s, type, who) ==
  \/ type = "learned" /\ <<s, who>> \in runs[a].seen.knows
  \/ type = "referenced" /\ <<s, who>> \in runs[a].seen.uses

(* mutant: whoever the model names is in the cast *)
CiteSecretOfAnyone(a, s, type, who) ==
  /\ runs[a] # None /\ type \in Allowed(a)
  /\ s \in runs[a].secrets /\ runs[a].roster # None
  /\ type = "revealed" <=> who = None
  /\ ~ AlreadyRecorded(a, s, type, who)
  /\ Commit(SecretEvent(type, s, NoWindow, who)) /\ UNCHANGED <<runs, drafted>>

CiteSecret(a, s, type, who) ==
  /\ runs[a] # None /\ type \in Allowed(a)
  /\ s \in runs[a].secrets /\ runs[a].roster # None
  /\ IF type = "revealed" THEN who = None ELSE who \in runs[a].roster
  /\ ~ AlreadyRecorded(a, s, type, who)
  /\ Commit(SecretEvent(type, s, NoWindow, who)) /\ UNCHANGED <<runs, drafted>>

PlanReveal(a, s, w) ==
  /\ a = "plotter" /\ runs[a] # None
  /\ Sound(w) /\ s \in runs[a].secrets
  /\ Commit(SecretEvent("planned", s, w, None)) /\ UNCHANGED <<runs, drafted>>

DirectReveal(s, w) ==
  /\ "director" \in desk.agents
  /\ secrets[s].state = "hidden" /\ Sound(w)
  /\ Commit(SecretEvent("planned", s, w, None)) /\ UNCHANGED <<runs, drafted>>

(* The cast.  The Keeper looks at it again when its commit begins, and counts in
   what that commit mints, whether the event is appended or, canon being gated,
   only proposed.  A proposal may be approved at any time, also one that was
   refused (Proposals), or never. *)
CastEvent(n) == [family |-> "cast", type |-> "minted", id |-> n]

LookAgain ==
  /\ runs["keeper"] # None /\ runs["keeper"].roster = None
  /\ runs' = [runs EXCEPT !["keeper"].roster = cast]
  /\ UNCHANGED <<rows, proposed, pending, desk, drafted, appended>>

NewInRoster(n) ==
  /\ runs["keeper"] # None /\ runs["keeper"].roster # None
  /\ n \notin runs["keeper"].roster
  /\ runs' = [runs EXCEPT !["keeper"].roster = @ \cup {n}]

Mint(n) == NewInRoster(n) /\ Commit(CastEvent(n)) /\ UNCHANGED drafted

ProposeMint(n) ==
  /\ "cast" \in desk.families
  /\ NewInRoster(n) /\ proposed' = proposed \cup {n}
  /\ UNCHANGED <<rows, pending, desk, drafted, appended>>

ApproveMint(n) ==
  /\ n \in proposed
  /\ Commit(CastEvent(n)) /\ UNCHANGED <<runs, drafted>>

(* Themes, which never close *)
ThemeEvent(type, t) == [family |-> "theme", type |-> type, id |-> t]

Introduce(a, t) ==
  /\ a \in {"author", "editor"} /\ runs[a] # None
  /\ Commit(ThemeEvent(IF t \in runs[a].themes THEN "developed" ELSE "introduced", t))
  /\ UNCHANGED <<runs, drafted>>

CiteTheme(a, t) ==
  /\ a \in {"author", "editor"} /\ runs[a] # None /\ t \in runs[a].themes
  /\ Commit(ThemeEvent("developed", t)) /\ UNCHANGED <<runs, drafted>>

-----------------------------------------------------------------------------
(* Hands *)
HandEvent(type, h, chapter, item) ==
  [family |-> "hand", type |-> type, id |-> h, chapter |-> chapter, item |-> item]

Drawn ==
  Known(hands) \cup {pending[i].id : i \in {j \in DOMAIN pending : pending[j].family = "hand"}}

Fresh(h) == h \notin Drawn /\ \A g \in Hands : g < h => g \in Drawn

(* The Muse deals when it saw no hand in play. *)
Deal(h) ==
  /\ runs["muse"] # None /\ runs["muse"].hands = {}
  /\ Fresh(h) /\ Commit(HandEvent("drawn", h, None, None))
  /\ runs' = [runs EXCEPT !["muse"] = None] /\ UNCHANGED drafted

(* A reroll closes the hand it saw in play, then deals in any case. *)
RerollSupersede(h) ==
  /\ runs["director"] # None /\ <<h, None>> \in runs["director"].hands
  /\ Commit(HandEvent("superseded", h, None, None))
  /\ runs' = [runs EXCEPT !["director"].hands = {}] /\ UNCHANGED drafted

RerollDeal(h) ==
  /\ runs["director"] # None /\ runs["director"].hands = {}
  /\ Fresh(h) /\ Commit(HandEvent("drawn", h, None, None))
  /\ runs' = [runs EXCEPT !["director"] = None] /\ UNCHANGED drafted

(* A new chapter uses up the hand its Author held. *)
ConsumeHand(h) ==
  /\ runs["author"] # None /\ <<h, None>> \in runs["author"].hands
  /\ drafted < Chapters /\ drafted' = drafted + 1
  /\ Commit(HandEvent("consumed", h, drafted', None))
  /\ runs' = [runs EXCEPT !["author"].hands = {}]

(* What the prose of a chapter took up of the hand dealt for it *)
RecordUptake(a, h, chapter, item) ==
  /\ a \in {"miner", "keeper"} /\ runs[a] # None
  /\ <<h, chapter>> \in runs[a].hands /\ item \in Dealt[h]
  /\ Commit(HandEvent("uptake", h, chapter, item)) /\ UNCHANGED <<runs, drafted>>

-----------------------------------------------------------------------------
ThreadMoves ==
  \E t \in Threads :
    \/ \E a \in Agents :
         \/ Plant(a, t)
         \/ \E type \in {"touched", "paid_off", "abandoned"} : CiteThread(a, t, type)
         \/ \E w \in Windows : PlanResolution(a, t, w)
    \/ \E w \in Windows : DirectThread(t, w)

PromiseMoves ==
  \E a \in Agents, p \in Promises :
    \/ \E w \in Windows, link \in Threads \cup {None} : MakePromise(a, p, w, link)
    \/ \E type \in {"progressed", "paid", "released"} : CitePromise(a, p, type)

SecretMoves ==
  \E s \in Secrets :
    \/ \E a \in Agents :
         \/ PlantSecret(a, s)
         \/ \E type \in {"learned", "referenced", "revealed"},
               who \in Names \cup {None} : CiteSecret(a, s, type, who)
         \/ \E w \in Windows : PlanReveal(a, s, w)
    \/ \E w \in Windows : DirectReveal(s, w)

CastMoves == LookAgain \/ \E n \in Names : Mint(n) \/ ProposeMint(n) \/ ApproveMint(n)

ThemeMoves == \E a \in Agents, t \in Themes : Introduce(a, t) \/ CiteTheme(a, t)

HandMoves ==
  \E h \in Hands :
    \/ Deal(h) \/ RerollSupersede(h) \/ RerollDeal(h) \/ ConsumeHand(h)
    \/ \E a \in Agents, chapter \in 1 .. Chapters, item \in Items :
         RecordUptake(a, h, chapter, item)

LedgerNext ==
  \/ ProjectEvent
  \/ \E a \in Agents : Poll(a) \/ EndRun(a)
  \/ ThreadMoves \/ PromiseMoves \/ SecretMoves \/ CastMoves \/ ThemeMoves
  \/ HandMoves

LedgerSpec == LedgerInit /\ [][LedgerNext]_ledgerVars

-----------------------------------------------------------------------------
LinkOrNone == Threads \cup {None}
ChapterOrNone == (1 .. Chapters) \cup {None}

ThreadRecord ==
  [state : TERMINAL_STATES \cup {"none", "planted", "touched"}, touches : Nat, window : Windows]
PromiseRecord ==
  [state : TERMINAL_PROMISE_STATES \cup {"none", "open"}, progress : Nat, window : Windows,
   thread : LinkOrNone]
SecretRecord == [state : {"none", "hidden", "revealed"}, window : Windows]
ThemeRecord == [state : {"none", "live"}, touches : Nat]
InspirationHandRecord ==
  [state : {"none", "active", "consumed", "superseded"}, chapter : ChapterOrNone]

LedgerEvents ==
  [family : {"thread"}, type : {"planted", "touched", "paid_off", "abandoned", "planned"},
   id : Threads, window : Windows]
  \cup [family : {"promise"}, type : {"made", "progressed", "paid", "released"},
        id : Promises, window : Windows, link : LinkOrNone]
  \cup [family : {"secret"}, type : {"created", "learned", "referenced", "revealed", "planned"},
        id : Secrets, window : Windows, who : Names \cup {None}]
  \cup [family : {"theme"}, type : {"introduced", "developed"}, id : Themes]
  \cup [family : {"hand"}, type : {"drawn", "consumed", "superseded", "uptake"},
        id : Hands, chapter : ChapterOrNone, item : Items \cup {None}]
  \cup [family : {"cast"}, type : {"minted"}, id : Names]

Runs ==
  [threads : SUBSET Threads, promises : SUBSET Promises, secrets : SUBSET Secrets,
   themes : SUBSET Themes,
   roster : (SUBSET Names) \cup {None},
   seen : [knows : SUBSET (Secrets \X (Names \cup {None})),
           uses : SUBSET (Secrets \X (Names \cup {None}))],
   hands : SUBSET (Hands \X ChapterOrNone)]

(* Types: a row's state is one its record may have, whatever event is folded
   into it. *)
LedgerTypeOK ==
  /\ threads \in [Threads -> ThreadRecord]
  /\ promises \in [Promises -> PromiseRecord]
  /\ secrets \in [Secrets -> SecretRecord]
  /\ themes \in [Themes -> ThemeRecord]
  /\ hands \in [Hands -> InspirationHandRecord]
  /\ knows \subseteq Secrets \X (Names \cup {None})
  /\ uses \subseteq Secrets \X (Names \cup {None})
  /\ uptake \subseteq Hands \X (Items \cup {None}) \X ChapterOrNone
  /\ cast \subseteq Names /\ proposed \subseteq Names
  /\ pending \in Seq(LedgerEvents)
  /\ runs \in [Agents -> Runs \cup {None}]
  /\ desk \in Desks /\ drafted \in 0 .. Chapters /\ appended \in 0 .. desk.upto

(* An event that cites a record finds its row when it is folded: whatever the
   agents did meanwhile, the handlers' "shouldn't happen" branches do not. *)
Minting == {"planted", "made", "created", "introduced", "drawn", "minted"}

RowOf(e) ==
  CASE e.family = "thread" -> threads[e.id].state
    [] e.family = "promise" -> promises[e.id].state
    [] e.family = "secret" -> secrets[e.id].state
    [] e.family = "theme" -> themes[e.id].state
    [] OTHER -> hands[e.id].state

CitationsFindTheirRow ==
  \A i \in DOMAIN pending : pending[i].type \notin Minting => RowOf(pending[i]) # "none"

(* Whoever declares or plans a window, an unsound one never enters canon. *)
WindowsAreSound ==
  /\ \A t \in Threads : Sound(threads[t].window)
  /\ \A p \in Promises : Sound(promises[p].window)
  /\ \A s \in Secrets : Sound(secrets[s].window)

(* A promise is linked to a thread that was planted. *)
LinksHold ==
  \A p \in Promises : promises[p].thread # None => promises[p].thread \in Known(threads)

(* The cast uses secrets; who knows one is in the cast, or was put before the
   director by the Keeper that recorded it. *)
KnowersAreSomebody ==
  /\ uses \subseteq Known(secrets) \X cast
  /\ knows \subseteq Known(secrets) \X (cast \cup proposed)

(* What the ledger refers to is there.  secret_learned and secret_referenced
   look for nothing, so the knowledge matrix names no phantom only because who
   commits checks a roster first, and because the character a Keeper has just
   minted is appended ahead of what it learns.  Under gated canon that roster
   holds characters that are only proposed, learning is never gated, and one
   the director refuses stays in the matrix: Grounded says this much, and no
   more. *)
Grounded == CitationsFindTheirRow /\ LinksHold /\ KnowersAreSomebody

(* What a chapter is said to have taken from a hand was dealt in the hand that
   the same chapter used up. *)
UptakeWasDealt ==
  \A u \in uptake : /\ hands[u[1]].state = "consumed" /\ hands[u[1]].chapter = u[3]
                    /\ u[2] \in Dealt[u[1]]

(* The rows follow the life of an obligation: what is closed stays closed and
   as it was, what is opened again is not opened anew. *)
ThreadLife == INSTANCE Obligation WITH
  Items <- Threads, Ways <- TERMINAL_STATES,
  state <- [t \in Threads |-> IF threads[t].state \in {"planted", "touched"} THEN "open"
                              ELSE threads[t].state],
  worked <- [t \in Threads |-> threads[t].touches]

PromiseLife == INSTANCE Obligation WITH
  Items <- Promises, Ways <- TERMINAL_PROMISE_STATES,
  state <- [p \in Promises |-> promises[p].state],
  worked <- [p \in Promises |-> promises[p].progress]

SecretLife == INSTANCE Obligation WITH
  Items <- Secrets, Ways <- {"revealed"},
  state <- [s \in Secrets |-> IF secrets[s].state = "hidden" THEN "open" ELSE secrets[s].state],
  worked <- [s \in Secrets |-> 0]

HandLife == INSTANCE Obligation WITH
  Items <- Hands, Ways <- {"consumed", "superseded"},
  state <- [h \in Hands |-> IF hands[h].state = "active" THEN "open" ELSE hands[h].state],
  worked <- [h \in Hands |-> 0]

(* Threads: thread_planted and thread_advanced let none be planted anew, and
   none change once it is paid off or abandoned. *)
ThreadsRunTheirCourse == ThreadLife!OSpec

(* Promises: promise_made and promise_advanced let none be made anew, and none
   change once it is paid or released. *)
PromisesRunTheirCourse == PromiseLife!OSpec

(* Secrets: secret_created and secret_revealed reveal a secret once, for good. *)
SecretsRunTheirCourse == SecretLife!OSpec

(* Hands: inspiration_hand_closed lets the first to close a hand have it, be it
   a chapter or a reroll. *)
HandsRunTheirCourse == HandLife!OSpec

(* The four families live the life of an Obligation side by side. *)
ObligationsRunTheirCourse ==
  /\ ThreadsRunTheirCourse /\ PromisesRunTheirCourse
  /\ SecretsRunTheirCourse /\ HandsRunTheirCourse
=============================================================================
