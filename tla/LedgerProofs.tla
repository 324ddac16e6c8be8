---------------------------- MODULE LedgerProofs ----------------------------
(***************************************************************************)
(* What holds of Ledger for any records, agents, models and lengths of the *)
(* log: its types, that every citation finds its row, that no unsound      *)
(* window and no phantom enters canon, and that threads, promises, secrets  *)
(* and hands live the life of an Obligation.                               *)
(*                                                                         *)
(* All rests on what an event in the log brings with it (Proper): a row,   *)
(* once there, stays, so that what an agent had polled is still known when *)
(* it commits, and still when its event is folded.  Who learns a secret     *)
(* takes an argument of its own (HInv): its character is there, is proposed *)
(* or comes earlier in the log.                                            *)
(***************************************************************************)
EXTENDS Ledger, SequenceTheorems, TLAPS

(* How a row's life may move on in one event, from `now` to `next`: not at
   all, or as an obligation is opened, worked on or closed. *)
Moves(now, next, worked0, worked1, ways) ==
  \/ next = now /\ worked1 = worked0
  \/ now = "none" /\ next = "open" /\ worked1 = worked0
  \/ now = "open" /\ next = "open" /\ worked1 = worked0 + 1
  \/ now = "open" /\ next \in ways /\ worked1 = worked0

ThreadState(r) == IF r.state \in {"planted", "touched"} THEN "open" ELSE r.state
SecretState(r) == IF r.state = "hidden" THEN "open" ELSE r.state
HandState(r) == IF r.state = "active" THEN "open" ELSE r.state

-----------------------------------------------------------------------------
(* What folding an event makes of a row *)
LEMMA ThreadRowFacts ==
  ASSUME NEW r \in ThreadRecord, NEW e \in LedgerEvents, e.family = "thread"
  PROVE  /\ ThreadRow(r, e) \in ThreadRecord
         /\ r.state # "none" => ThreadRow(r, e).state # "none"
         /\ Sound(r.window) /\ Sound(e.window) => Sound(ThreadRow(r, e).window)
         /\ Moves(ThreadState(r), ThreadState(ThreadRow(r, e)),
                  r.touches, ThreadRow(r, e).touches, TERMINAL_STATES)
<1>1. /\ e.id \in Threads /\ e.window \in Windows
      /\ e.type \in {"planted", "touched", "paid_off", "abandoned", "planned"}
  BY DEF LedgerEvents
<1>2. /\ r = [state |-> r.state, touches |-> r.touches, window |-> r.window]
      /\ r.state \in TERMINAL_STATES \cup {"none", "planted", "touched"}
      /\ r.touches \in Nat /\ r.window \in Windows
  BY DEF ThreadRecord
<1>3. CASE e.type = "planted"
  <2>1. ThreadRow(r, e) = IF r.state = "none" THEN [r EXCEPT !.state = "planted"] ELSE r
    BY <1>3 DEF ThreadRow, ThreadPlanted
  <2> QED BY <1>2, <2>1 DEF ThreadRecord, Moves, ThreadState, TERMINAL_STATES
<1>4. CASE e.type = "planned"
  <2>1. ThreadRow(r, e) = IF r.state \in TERMINAL_STATES \cup {"none"} THEN r
                          ELSE [r EXCEPT !.window = e.window]
    BY <1>4 DEF ThreadRow, ThreadResolutionPlanned
  <2> QED BY <1>1, <1>2, <2>1 DEF ThreadRecord, Moves, ThreadState, TERMINAL_STATES
<1>5. CASE e.type = "touched"
  <2> DEFINE n == r.touches + 1
  <2>1. ThreadRow(r, e) = IF r.state \in TERMINAL_STATES \cup {"none"} THEN r
                          ELSE [r EXCEPT !.state = "touched", !.touches = n]
    BY <1>5 DEF ThreadRow, ThreadAdvanced
  <2>2. n \in Nat /\ n = r.touches + 1
    BY <1>2
  <2> HIDE DEF n
  <2> DEFINE q == [r EXCEPT !.state = "touched", !.touches = n]
  <2>3. q \in ThreadRecord /\ q.state = "touched" /\ q.touches = n /\ q.window = r.window
    BY <1>2, <2>2 DEF ThreadRecord
  <2> HIDE DEF q
  <2> QED BY <1>2, <2>1, <2>2, <2>3 DEF q, ThreadRecord, Moves, ThreadState, TERMINAL_STATES
<1>6. CASE e.type \in {"paid_off", "abandoned"}
  <2>1. ThreadRow(r, e) = IF r.state \in TERMINAL_STATES \cup {"none"} THEN r
                          ELSE [r EXCEPT !.state = e.type, !.touches = r.touches]
    BY <1>6 DEF ThreadRow, ThreadAdvanced
  <2> QED BY <1>2, <1>6, <2>1 DEF ThreadRecord, Moves, ThreadState, TERMINAL_STATES
<1> QED BY <1>1, <1>3, <1>4, <1>5, <1>6

LEMMA PromiseRowFacts ==
  ASSUME NEW r \in PromiseRecord, NEW e \in LedgerEvents, e.family = "promise"
  PROVE  /\ PromiseRow(r, e) \in PromiseRecord
         /\ r.state # "none" => PromiseRow(r, e).state # "none"
         /\ Sound(r.window) /\ Sound(e.window) => Sound(PromiseRow(r, e).window)
         /\ PromiseRow(r, e).thread \in {r.thread, e.link}
         /\ Moves(r.state, PromiseRow(r, e).state,
                  r.progress, PromiseRow(r, e).progress, TERMINAL_PROMISE_STATES)
<1>1. /\ e.id \in Promises /\ e.window \in Windows /\ e.link \in LinkOrNone
      /\ e.type \in {"made", "progressed", "paid", "released"}
  BY DEF LedgerEvents
<1>2. /\ r = [state |-> r.state, progress |-> r.progress, window |-> r.window,
              thread |-> r.thread]
      /\ r.state \in TERMINAL_PROMISE_STATES \cup {"none", "open"}
      /\ r.progress \in Nat /\ r.window \in Windows /\ r.thread \in LinkOrNone
  BY DEF PromiseRecord
<1>3. CASE e.type = "made"
  <2>1. PromiseRow(r, e) =
          IF r.state = "none"
            THEN [r EXCEPT !.state = "open", !.window = e.window, !.thread = e.link] ELSE r
    BY <1>3 DEF PromiseRow, PromiseMade
  <2> QED BY <1>1, <1>2, <2>1 DEF PromiseRecord, Moves, TERMINAL_PROMISE_STATES
<1>4. CASE e.type = "progressed"
  <2> DEFINE n == r.progress + 1
  <2>1. PromiseRow(r, e) = IF r.state \in TERMINAL_PROMISE_STATES \cup {"none"} THEN r
                           ELSE [r EXCEPT !.state = "open", !.progress = n]
    BY <1>4 DEF PromiseRow, PromiseAdvanced
  <2>2. n \in Nat /\ n = r.progress + 1
    BY <1>2
  <2> HIDE DEF n
  <2> DEFINE q == [r EXCEPT !.state = "open", !.progress = n]
  <2>3. /\ q \in PromiseRecord /\ q.state = "open" /\ q.progress = n
        /\ q.window = r.window /\ q.thread = r.thread
    BY <1>2, <2>2 DEF PromiseRecord
  <2> HIDE DEF q
  <2> QED BY <1>2, <2>1, <2>2, <2>3 DEF q, PromiseRecord, Moves, TERMINAL_PROMISE_STATES
<1>5. CASE e.type \in {"paid", "released"}
  <2>1. PromiseRow(r, e) = IF r.state \in TERMINAL_PROMISE_STATES \cup {"none"} THEN r
                           ELSE [r EXCEPT !.state = e.type, !.progress = r.progress]
    BY <1>5 DEF PromiseRow, PromiseAdvanced
  <2> QED BY <1>2, <1>5, <2>1 DEF PromiseRecord, Moves, TERMINAL_PROMISE_STATES
<1> QED BY <1>1, <1>3, <1>4, <1>5

LEMMA SecretRowFacts ==
  ASSUME NEW r \in SecretRecord, NEW e \in LedgerEvents, e.family = "secret"
  PROVE  /\ SecretRow(r, e) \in SecretRecord
         /\ r.state # "none" => SecretRow(r, e).state # "none"
         /\ Sound(r.window) /\ Sound(e.window) => Sound(SecretRow(r, e).window)
         /\ Moves(SecretState(r), SecretState(SecretRow(r, e)), 0, 0, {"revealed"})
<1>1. /\ e.id \in Secrets /\ e.window \in Windows
      /\ e.type \in {"created", "learned", "referenced", "revealed", "planned"}
  BY DEF LedgerEvents
<1>2. /\ r = [state |-> r.state, window |-> r.window]
      /\ r.state \in {"none", "hidden", "revealed"} /\ r.window \in Windows
  BY DEF SecretRecord
<1>3. CASE e.type = "created"
  BY <1>2, <1>3 DEF SecretRow, SecretCreated, SecretRecord, Moves, SecretState
<1>4. CASE e.type = "planned"
  BY <1>1, <1>2, <1>4 DEF SecretRow, SecretRevealPlanned, SecretRecord, Moves, SecretState
<1>5. CASE e.type = "revealed"
  BY <1>2, <1>5 DEF SecretRow, SecretRevealed, SecretRecord, Moves, SecretState
<1>6. CASE e.type \in {"learned", "referenced"}
  BY <1>2, <1>6 DEF SecretRow, SecretRecord, Moves, SecretState
<1> QED BY <1>1, <1>3, <1>4, <1>5, <1>6

LEMMA ThemeRowFacts ==
  ASSUME NEW r \in ThemeRecord, NEW e \in LedgerEvents, e.family = "theme"
  PROVE  /\ ThemeRow(r, e) \in ThemeRecord
         /\ r.state # "none" => ThemeRow(r, e).state # "none"
<1>1. /\ r = [state |-> r.state, touches |-> r.touches]
      /\ r.state \in {"none", "live"} /\ r.touches \in Nat
  BY DEF ThemeRecord
<1> QED BY <1>1 DEF ThemeRow, ThemeIntroduced, ThemeDeveloped, ThemeRecord

LEMMA HandRowFacts ==
  ASSUME NEW r \in InspirationHandRecord, NEW e \in LedgerEvents, e.family = "hand"
  PROVE  /\ HandRow(r, e) \in InspirationHandRecord
         /\ r.state # "none" => HandRow(r, e).state # "none"
         /\ r.state = "consumed" => HandRow(r, e) = r
         /\ Moves(HandState(r), HandState(HandRow(r, e)), 0, 0, {"consumed", "superseded"})
<1>1. /\ e.id \in Hands /\ e.chapter \in ChapterOrNone
      /\ e.type \in {"drawn", "consumed", "superseded", "uptake"}
  BY DEF LedgerEvents
<1>2. /\ r = [state |-> r.state, chapter |-> r.chapter]
      /\ r.state \in {"none", "active", "consumed", "superseded"} /\ r.chapter \in ChapterOrNone
  BY DEF InspirationHandRecord
<1>3. CASE e.type = "drawn"
  BY <1>2, <1>3 DEF HandRow, InspirationDrawn, InspirationHandRecord, Moves, HandState
<1>4. CASE e.type = "uptake"
  BY <1>2, <1>4 DEF HandRow, InspirationHandRecord, Moves, HandState
<1>5. CASE e.type \in {"consumed", "superseded"}
  <2>1. HandRow(r, e) = IF r.state = "active"
                          THEN [r EXCEPT !.state = e.type, !.chapter = e.chapter] ELSE r
    BY <1>5 DEF HandRow, InspirationHandClosed
  <2> QED BY <1>1, <1>2, <1>5, <2>1 DEF InspirationHandRecord, Moves, HandState
<1> QED BY <1>1, <1>3, <1>4, <1>5

-----------------------------------------------------------------------------
(* The inductive invariant: what a run polled is still there, and an event in
   the log brings with it what its handler relies on. *)
ConsumedBy(h, c) == hands[h].state = "consumed" /\ hands[h].chapter = c

RunKnows(v, a) ==
  /\ \A t \in v.threads : threads[t].state # "none"
  /\ \A p \in v.promises : promises[p].state # "none"
  /\ \A s \in v.secrets : secrets[s].state # "none"
  /\ \A t \in v.themes : themes[t].state # "none"
  /\ \A h \in Hands, c \in ChapterOrNone :
       <<h, c>> \in v.hands => /\ hands[h].state # "none"
                               /\ a \in {"miner", "keeper"} => ConsumedBy(h, c)
  /\ a # "keeper" /\ v.roster # None => v.roster \subseteq cast

RunsKnow == \A a \in Agents : runs[a] # None => RunKnows(runs[a], a)

Proper(e) ==
  /\ e.family \in {"thread", "promise", "secret"} => Sound(e.window)
  /\ e.type \notin Minting => RowOf(e) # "none"
  /\ e.family = "promise" /\ e.link # None => threads[e.link].state # "none"
  /\ e.type \in {"learned", "referenced"} => e.who \in Names
  /\ e.type = "referenced" => e.who \in cast
  /\ e.type = "uptake" => ConsumedBy(e.id, e.chapter) /\ e.item \in Dealt[e.id]

PendingProper == \A i \in DOMAIN pending : Proper(pending[i])

MatrixGrounded ==
  /\ uses \subseteq Known(secrets) \X cast
  /\ knows \subseteq Known(secrets) \X Names

IInv ==
  /\ LedgerTypeOK
  /\ RunsKnow /\ PendingProper
  /\ WindowsAreSound /\ LinksHold /\ MatrixGrounded /\ UptakeWasDealt

(* What every step leaves: a row that is there, and the chapter a hand went to *)
RowsKept ==
  /\ \A t \in Threads : threads[t].state # "none" => threads'[t].state # "none"
  /\ \A p \in Promises : promises[p].state # "none" => promises'[p].state # "none"
  /\ \A s \in Secrets : secrets[s].state # "none" => secrets'[s].state # "none"
  /\ \A t \in Themes : themes[t].state # "none" => themes'[t].state # "none"
  /\ \A h \in Hands : hands[h].state # "none" => hands'[h].state # "none"
  /\ \A h \in Hands : hands[h].state = "consumed" => hands'[h] = hands[h]
  /\ cast \subseteq cast'

LEMMA RowsKeptKeepRuns ==
  ASSUME LedgerTypeOK, RowsKept, NEW v \in Runs, NEW a \in Agents, RunKnows(v, a)
  PROVE  RunKnows(v, a)'
<1>1. /\ v.threads \subseteq Threads /\ v.promises \subseteq Promises
      /\ v.secrets \subseteq Secrets /\ v.themes \subseteq Themes
  BY DEF Runs
<1>2. ASSUME NEW h \in Hands, NEW c \in ChapterOrNone, ConsumedBy(h, c)
      PROVE  ConsumedBy(h, c)'
  BY <1>2 DEF RowsKept, ConsumedBy
<1>3. ASSUME NEW h \in Hands, NEW c \in ChapterOrNone, <<h, c>> \in v.hands
      PROVE  /\ hands'[h].state # "none"
             /\ a \in {"miner", "keeper"} => ConsumedBy(h, c)'
  BY <1>2, <1>3 DEF RunKnows, RowsKept
<1>4. /\ \A t \in v.threads : threads'[t].state # "none"
      /\ \A p \in v.promises : promises'[p].state # "none"
      /\ \A s \in v.secrets : secrets'[s].state # "none"
      /\ \A t \in v.themes : themes'[t].state # "none"
  BY <1>1 DEF RunKnows, RowsKept
<1>5. a # "keeper" /\ v.roster # None => v.roster \subseteq cast'
  BY DEF RunKnows, RowsKept
<1> QED BY <1>3, <1>4, <1>5 DEF RunKnows

LEMMA EventTypes ==
  ASSUME NEW e \in LedgerEvents
  PROVE  /\ e.family \in Families
         /\ e.family = "thread" => /\ e.id \in Threads /\ e.window \in Windows
                                   /\ e.type \in {"planted", "touched", "paid_off", "abandoned", "planned"}
         /\ e.family = "promise" => /\ e.id \in Promises /\ e.window \in Windows
                                    /\ e.link \in LinkOrNone
                                    /\ e.type \in {"made", "progressed", "paid", "released"}
         /\ e.family = "secret" => /\ e.id \in Secrets /\ e.window \in Windows
                                   /\ e.who \in Names \cup {None}
                                   /\ e.type \in {"created", "learned", "referenced", "revealed", "planned"}
         /\ e.family = "theme" => e.id \in Themes /\ e.type \in {"introduced", "developed"}
         /\ e.family = "hand" => /\ e.id \in Hands /\ e.chapter \in ChapterOrNone
                                 /\ e.item \in Items \cup {None}
                                 /\ e.type \in {"drawn", "consumed", "superseded", "uptake"}
         /\ e.family = "cast" => e.id \in Names /\ e.type = "minted"
BY DEF LedgerEvents, Families

LEMMA RowsKeptKeepProper ==
  ASSUME LedgerTypeOK, RowsKept, NEW e \in LedgerEvents, Proper(e)
  PROVE  Proper(e)'
<1> USE EventTypes
<1>1. Sound(e.window)' <=> Sound(e.window)
  BY DEF Sound, NoWindow
<1>2. e.type \notin Minting => RowOf(e)' # "none"
  BY DEF Proper, RowOf, RowsKept, Families, Minting
<1>3. e.family = "promise" /\ e.link # None => threads'[e.link].state # "none"
  BY DEF Proper, RowsKept, LinkOrNone
<1>4. e.type = "uptake" => ConsumedBy(e.id, e.chapter)'
  <2>1. e.type = "uptake" => e.family = "hand"
    BY DEF Families
  <2> QED BY <2>1 DEF Proper, ConsumedBy, RowsKept
<1>5. e.type = "referenced" => e.who \in cast'
  BY DEF Proper, RowsKept
<1> QED BY <1>1, <1>2, <1>3, <1>4, <1>5 DEF Proper, Minting

-----------------------------------------------------------------------------
(* Folding the first event: each row is as it was, or as its handler left it. *)
First == Head(pending)

LEMMA FirstEvent ==
  ASSUME LedgerTypeOK, PendingProper, ProjectEvent
  PROVE  /\ First \in LedgerEvents /\ Proper(First)
         /\ pending' = Tail(pending) /\ pending' \in Seq(LedgerEvents)
         /\ \A i \in DOMAIN pending' : i + 1 \in DOMAIN pending /\ pending'[i] = pending[i + 1]
<1>1. pending \in Seq(LedgerEvents) /\ pending # <<>> /\ pending' = Tail(pending)
  BY DEF LedgerTypeOK, ProjectEvent
<1>2. /\ Head(pending) = pending[1] /\ 1 \in DOMAIN pending /\ Head(pending) \in LedgerEvents
      /\ Tail(pending) \in Seq(LedgerEvents) /\ Len(Tail(pending)) = Len(pending) - 1
      /\ \A i \in 1 .. Len(Tail(pending)) : Tail(pending)[i] = pending[i + 1]
  BY <1>1, HeadTailProperties, EmptySeq
<1>3. DOMAIN pending' = 1 .. Len(pending) - 1 /\ DOMAIN pending = 1 .. Len(pending)
  BY <1>1, <1>2
<1> QED BY <1>1, <1>2, <1>3 DEF PendingProper, First

LEMMA FoldThreads ==
  ASSUME LedgerTypeOK, ProjectEvent, First \in LedgerEvents
  PROVE  /\ threads' \in [Threads -> ThreadRecord]
         /\ \A t \in Threads :
              \/ threads'[t] = threads[t]
              \/ First.family = "thread" /\ t = First.id /\ threads'[t] = ThreadRow(threads[t], First)
         /\ \/ threads' = threads
            \/ /\ First.family = "thread" /\ First.id \in Threads
               /\ threads' = [threads EXCEPT ![First.id] = ThreadRow(threads[First.id], First)]
<1>1. threads' = IF First.family = "thread"
                   THEN [threads EXCEPT ![First.id] = ThreadRow(threads[First.id], First)] ELSE threads
  BY DEF ProjectEvent, First
<1>2. threads \in [Threads -> ThreadRecord]
  BY DEF LedgerTypeOK
<1>3. CASE First.family = "thread"
  <2>1. First.id \in Threads
    BY <1>3, EventTypes
  <2>2. ThreadRow(threads[First.id], First) \in ThreadRecord
    BY <1>2, <1>3, <2>1, ThreadRowFacts
  <2> QED BY <1>1, <1>2, <1>3, <2>1, <2>2
<1> QED BY <1>1, <1>2, <1>3

LEMMA FoldPromises ==
  ASSUME LedgerTypeOK, ProjectEvent, First \in LedgerEvents
  PROVE  /\ promises' \in [Promises -> PromiseRecord]
         /\ \A p \in Promises :
              \/ promises'[p] = promises[p]
              \/ First.family = "promise" /\ p = First.id /\ promises'[p] = PromiseRow(promises[p], First)
         /\ \/ promises' = promises
            \/ /\ First.family = "promise" /\ First.id \in Promises
               /\ promises' = [promises EXCEPT ![First.id] = PromiseRow(promises[First.id], First)]
<1>1. promises' = IF First.family = "promise"
                    THEN [promises EXCEPT ![First.id] = PromiseRow(promises[First.id], First)] ELSE promises
  BY DEF ProjectEvent, First
<1>2. promises \in [Promises -> PromiseRecord]
  BY DEF LedgerTypeOK
<1>3. CASE First.family = "promise"
  <2>1. First.id \in Promises
    BY <1>3, EventTypes
  <2>2. PromiseRow(promises[First.id], First) \in PromiseRecord
    BY <1>2, <1>3, <2>1, PromiseRowFacts
  <2> QED BY <1>1, <1>2, <1>3, <2>1, <2>2
<1> QED BY <1>1, <1>2, <1>3

LEMMA FoldSecrets ==
  ASSUME LedgerTypeOK, ProjectEvent, First \in LedgerEvents
  PROVE  /\ secrets' \in [Secrets -> SecretRecord]
         /\ \A s \in Secrets :
              \/ secrets'[s] = secrets[s]
              \/ First.family = "secret" /\ s = First.id /\ secrets'[s] = SecretRow(secrets[s], First)
         /\ \/ secrets' = secrets
            \/ /\ First.family = "secret" /\ First.id \in Secrets
               /\ secrets' = [secrets EXCEPT ![First.id] = SecretRow(secrets[First.id], First)]
<1>1. secrets' = IF First.family = "secret"
                   THEN [secrets EXCEPT ![First.id] = SecretRow(secrets[First.id], First)] ELSE secrets
  BY DEF ProjectEvent, First
<1>2. secrets \in [Secrets -> SecretRecord]
  BY DEF LedgerTypeOK
<1>3. CASE First.family = "secret"
  <2>1. First.id \in Secrets
    BY <1>3, EventTypes
  <2>2. SecretRow(secrets[First.id], First) \in SecretRecord
    BY <1>2, <1>3, <2>1, SecretRowFacts
  <2> QED BY <1>1, <1>2, <1>3, <2>1, <2>2
<1> QED BY <1>1, <1>2, <1>3

LEMMA FoldThemes ==
  ASSUME LedgerTypeOK, ProjectEvent, First \in LedgerEvents
  PROVE  /\ themes' \in [Themes -> ThemeRecord]
         /\ \A t \in Themes :
              \/ themes'[t] = themes[t]
              \/ First.family = "theme" /\ t = First.id /\ themes'[t] = ThemeRow(themes[t], First)
<1>1. themes' = IF First.family = "theme"
                  THEN [themes EXCEPT ![First.id] = ThemeRow(themes[First.id], First)] ELSE themes
  BY DEF ProjectEvent, First
<1>2. themes \in [Themes -> ThemeRecord]
  BY DEF LedgerTypeOK
<1>3. CASE First.family = "theme"
  <2>1. First.id \in Themes
    BY <1>3, EventTypes
  <2>2. ThemeRow(themes[First.id], First) \in ThemeRecord
    BY <1>2, <1>3, <2>1, ThemeRowFacts
  <2> QED BY <1>1, <1>2, <1>3, <2>1, <2>2
<1> QED BY <1>1, <1>2, <1>3

LEMMA FoldHands ==
  ASSUME LedgerTypeOK, ProjectEvent, First \in LedgerEvents
  PROVE  /\ hands' \in [Hands -> InspirationHandRecord]
         /\ \A h \in Hands :
              \/ hands'[h] = hands[h]
              \/ First.family = "hand" /\ h = First.id /\ hands'[h] = HandRow(hands[h], First)
         /\ \/ hands' = hands
            \/ /\ First.family = "hand" /\ First.id \in Hands
               /\ hands' = [hands EXCEPT ![First.id] = HandRow(hands[First.id], First)]
<1>1. hands' = IF First.family = "hand"
                 THEN [hands EXCEPT ![First.id] = HandRow(hands[First.id], First)] ELSE hands
  BY DEF ProjectEvent, First
<1>2. hands \in [Hands -> InspirationHandRecord]
  BY DEF LedgerTypeOK
<1>3. CASE First.family = "hand"
  <2>1. First.id \in Hands
    BY <1>3, EventTypes
  <2>2. HandRow(hands[First.id], First) \in InspirationHandRecord
    BY <1>2, <1>3, <2>1, HandRowFacts
  <2> QED BY <1>1, <1>2, <1>3, <2>1, <2>2
<1> QED BY <1>1, <1>2, <1>3

LEMMA ProjectKeepsRows ==
  ASSUME LedgerTypeOK, PendingProper, ProjectEvent
  PROVE  RowsKept
<1>1. First \in LedgerEvents
  BY FirstEvent
<1>2. \A t \in Threads : threads[t].state # "none" => threads'[t].state # "none"
  BY <1>1, FoldThreads, ThreadRowFacts DEF LedgerTypeOK
<1>3. ASSUME NEW p \in Promises, promises[p].state # "none"
      PROVE  promises'[p].state # "none"
  <2>1. \/ promises'[p] = promises[p]
        \/ First.family = "promise" /\ promises'[p] = PromiseRow(promises[p], First)
    BY <1>1, FoldPromises
  <2>2. promises[p] \in PromiseRecord
    BY DEF LedgerTypeOK
  <2> QED BY <1>1, <1>3, <2>1, <2>2, PromiseRowFacts
<1>4. \A s \in Secrets : secrets[s].state # "none" => secrets'[s].state # "none"
  BY <1>1, FoldSecrets, SecretRowFacts DEF LedgerTypeOK
<1>5. ASSUME NEW t \in Themes, themes[t].state # "none"
      PROVE  themes'[t].state # "none"
  <2>1. \/ themes'[t] = themes[t]
        \/ First.family = "theme" /\ themes'[t] = ThemeRow(themes[t], First)
    BY <1>1, FoldThemes
  <2>2. themes[t] \in ThemeRecord
    BY DEF LedgerTypeOK
  <2> QED BY <1>1, <1>5, <2>1, <2>2, ThemeRowFacts
<1>6. \A h \in Hands : /\ hands[h].state # "none" => hands'[h].state # "none"
                       /\ hands[h].state = "consumed" => hands'[h] = hands[h]
  BY <1>1, FoldHands, HandRowFacts DEF LedgerTypeOK
<1>7. cast \subseteq cast'
  <2>1. cast' = IF First.family = "cast" THEN cast \cup {First.id} ELSE cast
    BY DEF ProjectEvent, First
  <2> QED BY <2>1
<1> QED BY <1>2, <1>3, <1>4, <1>5, <1>6, <1>7 DEF RowsKept

LEMMA ProjectTypeOK ==
  ASSUME LedgerTypeOK, PendingProper, ProjectEvent
  PROVE  LedgerTypeOK'
<1>1. First \in LedgerEvents /\ Proper(First) /\ pending' \in Seq(LedgerEvents)
  BY FirstEvent
<1>2. /\ threads' \in [Threads -> ThreadRecord] /\ promises' \in [Promises -> PromiseRecord]
      /\ secrets' \in [Secrets -> SecretRecord] /\ themes' \in [Themes -> ThemeRecord]
      /\ hands' \in [Hands -> InspirationHandRecord]
  BY <1>1, FoldThreads, FoldPromises, FoldSecrets, FoldThemes, FoldHands
<1>3. /\ \/ knows' = knows
         \/ First.family = "secret" /\ knows' = knows \cup {<<First.id, First.who>>}
      /\ \/ uses' = uses
         \/ First.family = "secret" /\ uses' = uses \cup {<<First.id, First.who>>}
      /\ \/ uptake' = uptake
         \/ First.family = "hand" /\ uptake' = uptake \cup {<<First.id, First.item, First.chapter>>}
  BY DEF ProjectEvent, First
<1>4. /\ knows' \subseteq Secrets \X (Names \cup {None})
      /\ uses' \subseteq Secrets \X (Names \cup {None})
      /\ uptake' \subseteq Hands \X (Items \cup {None}) \X ChapterOrNone
  <2>1. /\ First.family = "secret" =>
             <<First.id, First.who>> \in Secrets \X (Names \cup {None})
        /\ First.family = "hand" =>
             <<First.id, First.item, First.chapter>> \in Hands \X (Items \cup {None}) \X ChapterOrNone
    BY <1>1, EventTypes
  <2>2. /\ knows \subseteq Secrets \X (Names \cup {None})
        /\ uses \subseteq Secrets \X (Names \cup {None})
        /\ uptake \subseteq Hands \X (Items \cup {None}) \X ChapterOrNone
    BY DEF LedgerTypeOK
  <2> QED BY <1>3, <2>1, <2>2
<1>5. UNCHANGED <<proposed, runs, desk, drafted, appended>>
  BY DEF ProjectEvent
<1>6. cast' \subseteq Names
  <2>1. First.family = "cast" => First.id \in Names
    BY <1>1, EventTypes
  <2>2. cast' = IF First.family = "cast" THEN cast \cup {First.id} ELSE cast
    BY DEF ProjectEvent, First
  <2> QED BY <2>1, <2>2 DEF LedgerTypeOK
<1> QED BY <1>1, <1>2, <1>4, <1>5, <1>6 DEF LedgerTypeOK, Runs, ChapterOrNone

LEMMA ProjectKeeps ==
  ASSUME IInv, ProjectEvent
  PROVE  IInv'
<1> USE DEF IInv
<1>1. First \in LedgerEvents /\ Proper(First)
  BY FirstEvent
<1>2. RowsKept /\ LedgerTypeOK'
  BY ProjectKeepsRows, ProjectTypeOK
<1>3. RunsKnow'
  <2>1. runs' = runs /\ runs \in [Agents -> Runs \cup {None}]
    BY DEF ProjectEvent, LedgerTypeOK
  <2>2. ASSUME NEW a \in Agents, runs'[a] # None
        PROVE  RunKnows(runs[a], a)'
    <3>1. runs[a] \in Runs /\ RunKnows(runs[a], a)
      BY <2>1, <2>2 DEF RunsKnow
    <3>2. PICK v \in Runs : v = runs[a]
      BY <3>1
    <3>3. RunKnows(v, a)'
      BY <1>2, <3>1, <3>2, RowsKeptKeepRuns
    <3> QED BY <2>1, <3>2, <3>3 DEF RunKnows, ConsumedBy
  <2> QED BY <2>1, <2>2 DEF RunsKnow
<1>4. PendingProper'
  <2>1. ASSUME NEW i \in DOMAIN pending'
        PROVE  Proper(pending[i])'
    <3>1. pending'[i] = pending[i + 1] /\ i + 1 \in DOMAIN pending
      BY FirstEvent
    <3>2. pending[i + 1] \in LedgerEvents
      BY <3>1 DEF LedgerTypeOK
    <3>3. PICK e \in LedgerEvents : e = pending'[i] /\ Proper(e)
      BY <3>1, <3>2 DEF PendingProper
    <3>4. Proper(e)'
      BY <1>2, <3>3, RowsKeptKeepProper
    <3> QED BY <3>3, <3>4 DEF Proper, RowOf, ConsumedBy
  <2> QED BY <2>1 DEF PendingProper
<1>5. WindowsAreSound'
  <2>1. \A t \in Threads : Sound(threads'[t].window)
    BY <1>1, FoldThreads, ThreadRowFacts DEF LedgerTypeOK, WindowsAreSound, Proper
  <2>2. ASSUME NEW p \in Promises PROVE Sound(promises'[p].window)
    <3>1. promises[p] \in PromiseRecord /\ Sound(promises[p].window)
      BY DEF LedgerTypeOK, WindowsAreSound
    <3>2. First.family = "promise" => Sound(First.window)
      BY <1>1 DEF Proper
    <3>3. \/ promises'[p] = promises[p]
          \/ First.family = "promise" /\ promises'[p] = PromiseRow(promises[p], First)
      BY <1>1, FoldPromises
    <3> QED BY <1>1, <3>1, <3>2, <3>3, PromiseRowFacts
  <2>3. \A s \in Secrets : Sound(secrets'[s].window)
    BY <1>1, FoldSecrets, SecretRowFacts DEF LedgerTypeOK, WindowsAreSound, Proper
  <2> QED BY <2>1, <2>2, <2>3 DEF WindowsAreSound
<1>6. LinksHold' /\ MatrixGrounded'
  <2>1. ASSUME NEW p \in Promises, promises'[p].thread # None
        PROVE  promises'[p].thread \in Threads /\ threads'[promises'[p].thread].state # "none"
    <3>1. promises[p] \in PromiseRecord /\ promises'[p] \in PromiseRecord
      BY <1>2 DEF LedgerTypeOK
    <3>2. promises'[p].thread \in Threads
      BY <2>1, <3>1 DEF PromiseRecord, LinkOrNone
    <3>3. \/ promises'[p].thread = promises[p].thread
          \/ First.family = "promise" /\ promises'[p].thread = First.link
      BY <1>1, <3>1, FoldPromises, PromiseRowFacts
    <3>4. threads[promises'[p].thread].state # "none"
      BY <1>1, <2>1, <3>3 DEF LinksHold, Known, Proper
    <3> QED BY <1>2, <3>2, <3>4 DEF RowsKept
  <2>2. ASSUME NEW k \in knows' \cup uses'
        PROVE  /\ k \in Secrets \X Names /\ secrets'[k[1]].state # "none"
               /\ k \in uses' => k[2] \in cast'
    <3>1. \/ k \in knows \cup uses /\ (k \in uses' => k \in uses)
          \/ /\ First.family = "secret" /\ First.type \in {"learned", "referenced"}
             /\ k = <<First.id, First.who>>
             /\ k \in uses' => k \in uses \/ First.type = "referenced"
      BY <2>2 DEF ProjectEvent, First
    <3>2. k \in uses => k[2] \in cast
      BY DEF MatrixGrounded
    <3>3. CASE k \in knows \cup uses /\ (k \in uses' => k \in uses)
      <4>1. k \in Known(secrets) \X Names
        BY <3>3 DEF MatrixGrounded, LedgerTypeOK
      <4>2. Known(secrets) \subseteq Secrets /\ \A s \in Known(secrets) : secrets[s].state # "none"
        BY DEF Known, LedgerTypeOK
      <4> QED BY <1>2, <3>2, <3>3, <4>1, <4>2 DEF RowsKept
    <3>4. CASE /\ First.family = "secret" /\ First.type \in {"learned", "referenced"}
               /\ k = <<First.id, First.who>>
               /\ k \in uses' => k \in uses \/ First.type = "referenced"
      <4>1. First.id \in Secrets /\ First.who \in Names
        BY <1>1, <3>4, EventTypes DEF Proper
      <4>2. secrets[First.id].state # "none"
        BY <1>1, <3>4 DEF Proper, RowOf, Minting
      <4>3. First.type = "referenced" => First.who \in cast
        BY <1>1 DEF Proper
      <4> QED BY <1>2, <3>2, <3>4, <4>1, <4>2, <4>3 DEF RowsKept
    <3> QED BY <3>1, <3>3, <3>4
  <2>3. DOMAIN threads' = Threads /\ DOMAIN secrets' = Secrets
    BY <1>2 DEF LedgerTypeOK
  <2>4. knows' \subseteq Known(secrets)' \X Names /\ uses' \subseteq Known(secrets)' \X cast'
    BY <2>2, <2>3 DEF Known
  <2> QED BY <2>1, <2>3, <2>4 DEF LinksHold, MatrixGrounded, Known
<1>7. UptakeWasDealt'
  <2>1. ASSUME NEW u \in uptake'
        PROVE  /\ hands'[u[1]].state = "consumed" /\ hands'[u[1]].chapter = u[3]
               /\ u[2] \in Dealt[u[1]]
    <3>1. \/ u \in uptake
          \/ First.family = "hand" /\ First.type = "uptake" /\ u = <<First.id, First.item, First.chapter>>
      BY <2>1 DEF ProjectEvent, First
    <3>2. CASE u \in uptake
      <4>1. u[1] \in Hands
        BY <3>2 DEF LedgerTypeOK
      <4> QED BY <1>2, <3>2, <4>1 DEF UptakeWasDealt, RowsKept
    <3>3. CASE First.family = "hand" /\ First.type = "uptake" /\ u = <<First.id, First.item, First.chapter>>
      <4>1. First.id \in Hands
        BY <1>1, <3>3, EventTypes
      <4>2. ConsumedBy(First.id, First.chapter) /\ First.item \in Dealt[First.id]
        BY <1>1, <3>3 DEF Proper
      <4> QED BY <1>2, <3>3, <4>1, <4>2 DEF ConsumedBy, RowsKept
    <3> QED BY <3>1, <3>2, <3>3
  <2> QED BY <2>1 DEF UptakeWasDealt
<1> QED BY <1>2, <1>3, <1>4, <1>5, <1>6, <1>7

-----------------------------------------------------------------------------
(* Polling *)
LEMMA ViewKnows ==
  ASSUME LedgerTypeOK, NEW a \in Agents
  PROVE  View(a) \in Runs /\ RunKnows(View(a), a)
<1>1. /\ Known(threads) \subseteq Threads /\ Known(promises) \subseteq Promises
      /\ Known(secrets) \subseteq Secrets /\ Known(themes) \subseteq Themes
      /\ \A t \in Known(threads) : threads[t].state # "none"
      /\ \A p \in Known(promises) : promises[p].state # "none"
      /\ \A s \in Known(secrets) : secrets[s].state # "none"
      /\ \A t \in Known(themes) : themes[t].state # "none"
  BY DEF LedgerTypeOK, Known
<1>2. /\ ActiveThreads \subseteq Known(threads) /\ ActivePromises \subseteq Known(promises)
      /\ {s \in Secrets : secrets[s].state = "hidden"} \subseteq Known(secrets)
  BY DEF ActiveThreads, ActivePromises, Known, LedgerTypeOK
<1>3. /\ \A h \in ConsumedHands : h \in Hands /\ hands[h].state = "consumed"
      /\ \A h \in HandInPlay : h \in Hands /\ hands[h].state = "active"
      /\ \A h \in Hands : hands[h].chapter \in ChapterOrNone
  BY DEF ConsumedHands, HandInPlay, ActiveHands, LedgerTypeOK, InspirationHandRecord
<1>4. /\ View(a).threads \in SUBSET Known(threads) /\ View(a).promises \in SUBSET Known(promises)
      /\ View(a).secrets \in SUBSET Known(secrets) /\ View(a).themes = Known(themes)
  BY <1>2 DEF View
<1>5. View(a).seen \in [knows : SUBSET (Secrets \X (Names \cup {None})),
                       uses : SUBSET (Secrets \X (Names \cup {None}))]
  BY DEF View, LedgerTypeOK
<1>6. /\ View(a).hands \in SUBSET (Hands \X ChapterOrNone)
      /\ \A h \in Hands, c \in ChapterOrNone :
           <<h, c>> \in View(a).hands => /\ hands[h].state # "none"
                                         /\ a \in {"miner", "keeper"} => ConsumedBy(h, c)
  <2>1. CASE a \in {"miner", "keeper"}
    <3>1. View(a).hands = {<<h, hands[h].chapter>> : h \in ConsumedHands}
      BY <2>1 DEF View
    <3> QED BY <1>3, <3>1 DEF ConsumedBy
  <2>2. CASE a \in {"author", "muse", "director"}
    <3>1. View(a).hands = {<<h, None>> : h \in HandInPlay}
      BY <2>2 DEF View
    <3> QED BY <1>3, <2>2, <3>1 DEF ChapterOrNone
  <2>3. CASE a \notin {"miner", "keeper", "author", "muse", "director"}
    <3>1. View(a).hands = {}
      BY <2>3 DEF View
    <3> QED BY <3>1
  <2> QED BY <2>1, <2>2, <2>3
<1>7. /\ View(a).roster \in (SUBSET Names) \cup {None}
      /\ View(a).roster # None => View(a).roster = cast
  BY DEF View, LedgerTypeOK
<1>8. View(a) \in Runs
  <2>1. View(a) = [threads |-> View(a).threads, promises |-> View(a).promises,
                   secrets |-> View(a).secrets, themes |-> View(a).themes,
                   roster |-> View(a).roster, seen |-> View(a).seen, hands |-> View(a).hands]
    BY DEF View
  <2> QED BY <1>1, <1>4, <1>5, <1>6, <1>7, <2>1 DEF Runs
<1> QED BY <1>1, <1>4, <1>6, <1>7, <1>8 DEF RunKnows

(* What a step that folds nothing must show of the log and of the runs for the
   invariant to hold after it *)
Quietly ==
  /\ UNCHANGED <<rows, desk>> /\ proposed' \subseteq Names
  /\ drafted' \in 0 .. Chapters /\ appended' \in 0 .. desk.upto
  /\ runs' \in [Agents -> Runs \cup {None}]
  /\ \A a \in Agents : runs'[a] # None => RunKnows(runs'[a], a)

Adds(e) == e \in LedgerEvents /\ Proper(e) /\ pending' = Append(pending, e)

LEMMA QuietSteps ==
  ASSUME IInv, Quietly, pending' = pending \/ \E e \in LedgerEvents : Adds(e)
  PROVE  IInv'
<1> USE DEF IInv, Quietly, rows
<1>1. pending' \in Seq(LedgerEvents) /\ \A i \in DOMAIN pending' : Proper(pending'[i])
  <2>1. CASE pending' = pending
    BY <2>1 DEF LedgerTypeOK, PendingProper
  <2>2. CASE \E e \in LedgerEvents : Adds(e)
    <3>1. PICK e \in LedgerEvents : Proper(e) /\ pending' = Append(pending, e)
      BY <2>2 DEF Adds
    <3>2. pending \in Seq(LedgerEvents)
      BY DEF LedgerTypeOK
    <3>3. /\ pending' \in Seq(LedgerEvents) /\ DOMAIN pending' = 1 .. Len(pending) + 1
          /\ \A i \in 1 .. Len(pending) : pending'[i] = pending[i]
          /\ pending'[Len(pending) + 1] = e
      BY <3>1, <3>2, AppendProperties
    <3>4. ASSUME NEW i \in DOMAIN pending'
          PROVE  Proper(pending'[i])
      <4>1. CASE i = Len(pending) + 1
        BY <3>1, <3>3, <4>1
      <4>2. CASE i # Len(pending) + 1
        <5>1. i \in DOMAIN pending /\ pending'[i] = pending[i]
          BY <3>2, <3>3, <4>2
        <5> QED BY <5>1 DEF PendingProper
      <4> QED BY <4>1, <4>2
    <3> QED BY <3>3, <3>4
  <2> QED BY <2>1, <2>2
<1>2. LedgerTypeOK'
  BY <1>1 DEF LedgerTypeOK
<1>3. PendingProper'
  BY <1>1 DEF PendingProper, Proper, RowOf, ConsumedBy
<1>4. RunsKnow'
  BY DEF RunsKnow, RunKnows, ConsumedBy
<1>5. WindowsAreSound' /\ LinksHold' /\ MatrixGrounded' /\ UptakeWasDealt'
  BY DEF WindowsAreSound, LinksHold, MatrixGrounded, UptakeWasDealt, Known
<1> QED BY <1>2, <1>3, <1>4, <1>5

LEMMA InitIInv == LedgerInit => IInv
<1> SUFFICES ASSUME LedgerInit PROVE IInv
  OBVIOUS
<1> USE LedgerAssumption DEF LedgerInit
<1>1. LedgerTypeOK
  <2>1. /\ threads \in [Threads -> ThreadRecord] /\ promises \in [Promises -> PromiseRecord]
        /\ secrets \in [Secrets -> SecretRecord] /\ themes \in [Themes -> ThemeRecord]
        /\ hands \in [Hands -> InspirationHandRecord]
    BY DEF ThreadRecord, PromiseRecord, SecretRecord, ThemeRecord, InspirationHandRecord,
           LinkOrNone, ChapterOrNone
  <2>2. pending \in Seq(LedgerEvents)
    OBVIOUS
  <2>3. runs \in [Agents -> Runs \cup {None}] /\ drafted \in 0 .. Chapters /\ appended \in 0 .. desk.upto
    OBVIOUS
  <2> QED BY <2>1, <2>2, <2>3 DEF LedgerTypeOK
<1>2. RunsKnow /\ PendingProper /\ WindowsAreSound /\ LinksHold /\ MatrixGrounded /\ UptakeWasDealt
  BY DEF RunsKnow, PendingProper, WindowsAreSound, LinksHold, MatrixGrounded, UptakeWasDealt, Sound
<1> QED BY <1>1, <1>2 DEF IInv

-----------------------------------------------------------------------------
(* Commits *)
LEMMA SteadyCommit ==
  ASSUME IInv, NEW e \in LedgerEvents, Proper(e), Commit(e), UNCHANGED <<runs, drafted>>
  PROVE  IInv'
<1> USE LedgerAssumption
<1>1. /\ UNCHANGED <<rows, proposed, desk>> /\ pending' = Append(pending, e)
      /\ appended' \in 0 .. desk.upto
  BY DEF Commit, IInv, LedgerTypeOK
<1>2. Quietly
  BY <1>1 DEF Quietly, IInv, LedgerTypeOK, RunsKnow
<1>3. Adds(e)
  BY <1>1 DEF Adds
<1> QED BY <1>2, <1>3, QuietSteps

(* Who polled a record knows it; what the director reads is there. *)
LEMMA RunsAreRuns ==
  ASSUME IInv, NEW a \in Agents, runs[a] # None
  PROVE  runs[a] \in Runs /\ RunKnows(runs[a], a)
BY DEF IInv, LedgerTypeOK, RunsKnow

LEMMA ThreadMovesKeep ==
  ASSUME IInv, ThreadMoves
  PROVE  IInv'
<1> USE LedgerAssumption
<1>1. PICK t \in Threads :
        \/ \E a \in Agents :
             \/ Plant(a, t)
             \/ \E type \in {"touched", "paid_off", "abandoned"} : CiteThread(a, t, type)
             \/ \E w \in Windows : PlanResolution(a, t, w)
        \/ \E w \in Windows : DirectThread(t, w)
  BY DEF ThreadMoves
<1>2. ASSUME NEW type \in {"planted", "touched", "paid_off", "abandoned", "planned"},
             NEW w \in Windows, Sound(w), type = "planted" \/ threads[t].state # "none"
      PROVE  ThreadEvent(type, t, w) \in LedgerEvents /\ Proper(ThreadEvent(type, t, w))
  <2> DEFINE e == ThreadEvent(type, t, w)
  <2>1. e \in LedgerEvents /\ e.family = "thread" /\ e.type = type /\ e.id = t /\ e.window = w
    BY DEF ThreadEvent, LedgerEvents
  <2> HIDE DEF e
  <2> QED BY <1>2, <2>1 DEF Proper, RowOf, Minting, e
<1>3. Sound(NoWindow) /\ NoWindow \in Windows
  BY DEF Sound
<1>4. ASSUME NEW a \in Agents, Plant(a, t) PROVE IInv'
  <2>1. t \in runs[a].threads => threads[t].state # "none"
    BY <1>4, RunsAreRuns DEF Plant, RunKnows
  <2> QED BY <1>2, <1>3, <1>4, <2>1, SteadyCommit DEF Plant
<1>5. ASSUME NEW a \in Agents, NEW type \in {"touched", "paid_off", "abandoned"},
             CiteThread(a, t, type)
      PROVE  IInv'
  <2>1. threads[t].state # "none"
    BY <1>5, RunsAreRuns DEF CiteThread, RunKnows
  <2> QED BY <1>2, <1>3, <1>5, <2>1, SteadyCommit DEF CiteThread
<1>6. ASSUME NEW a \in Agents, NEW w \in Windows, PlanResolution(a, t, w) PROVE IInv'
  <2>1. threads[t].state # "none"
    BY <1>6, RunsAreRuns DEF PlanResolution, RunKnows
  <2> QED BY <1>2, <1>6, <2>1, SteadyCommit DEF PlanResolution
<1>7. ASSUME NEW w \in Windows, DirectThread(t, w) PROVE IInv'
  <2>1. threads[t].state # "none"
    BY <1>7 DEF DirectThread, ActiveThreads, Known
  <2> QED BY <1>2, <1>7, <2>1, SteadyCommit DEF DirectThread
<1> QED BY <1>1, <1>4, <1>5, <1>6, <1>7

LEMMA PromiseMovesKeep ==
  ASSUME IInv, PromiseMoves
  PROVE  IInv'
<1> USE LedgerAssumption
<1>1. PICK a \in Agents, p \in Promises :
        \/ \E w \in Windows, link \in Threads \cup {None} : MakePromise(a, p, w, link)
        \/ \E type \in {"progressed", "paid", "released"} : CitePromise(a, p, type)
  BY DEF PromiseMoves
<1>2. ASSUME NEW type \in {"made", "progressed", "paid", "released"},
             NEW w \in Windows, Sound(w), type = "made" \/ promises[p].state # "none",
             NEW link \in LinkOrNone, link # None => threads[link].state # "none"
      PROVE  PromiseEvent(type, p, w, link) \in LedgerEvents /\ Proper(PromiseEvent(type, p, w, link))
  <2> DEFINE e == PromiseEvent(type, p, w, link)
  <2>1. /\ e \in LedgerEvents /\ e.family = "promise" /\ e.type = type /\ e.id = p /\ e.window = w
        /\ e.link = link
    BY DEF PromiseEvent, LedgerEvents
  <2> HIDE DEF e
  <2> QED BY <1>2, <2>1 DEF Proper, RowOf, Minting, e
<1>3. Sound(NoWindow) /\ NoWindow \in Windows /\ None \in LinkOrNone
  BY DEF Sound, LinkOrNone
<1>4. ASSUME NEW w \in Windows, NEW link \in Threads \cup {None}, MakePromise(a, p, w, link)
      PROVE  IInv'
  <2>1. runs[a] \in Runs /\ RunKnows(runs[a], a) /\ UNCHANGED <<runs, drafted>>
    BY <1>4, RunsAreRuns DEF MakePromise
  <2>2. CASE p \in runs[a].promises
    <3>1. promises[p].state # "none"
      BY <2>1, <2>2 DEF RunKnows
    <3>2. Commit(PromiseEvent("progressed", p, NoWindow, None))
      BY <1>4, <2>2 DEF MakePromise
    <3> QED BY <1>2, <1>3, <2>1, <3>1, <3>2, SteadyCommit
  <2>3. CASE p \notin runs[a].promises
    <3> DEFINE u == IF Sound(w) THEN w ELSE NoWindow
               l == IF link \in runs[a].threads THEN link ELSE None
    <3>1. u \in Windows /\ Sound(u) /\ l \in LinkOrNone /\ (l # None => threads[l].state # "none")
      BY <1>3, <2>1 DEF RunKnows, LinkOrNone
    <3>2. Commit(PromiseEvent("made", p, u, l))
      BY <1>4, <2>3 DEF MakePromise
    <3> HIDE DEF u, l
    <3> QED BY <1>2, <2>1, <3>1, <3>2, SteadyCommit
  <2> QED BY <2>2, <2>3
<1>5. ASSUME NEW type \in {"progressed", "paid", "released"}, CitePromise(a, p, type)
      PROVE  IInv'
  <2>1. promises[p].state # "none"
    BY <1>5, RunsAreRuns DEF CitePromise, RunKnows
  <2> QED BY <1>2, <1>3, <1>5, <2>1, SteadyCommit DEF CitePromise
<1> QED BY <1>1, <1>4, <1>5

LEMMA SecretMovesKeep ==
  ASSUME IInv, SecretMoves
  PROVE  IInv'
<1> USE LedgerAssumption
<1>1. PICK s \in Secrets :
        \/ \E a \in Agents :
             \/ PlantSecret(a, s)
             \/ \E type \in {"learned", "referenced", "revealed"},
                   who \in Names \cup {None} : CiteSecret(a, s, type, who)
             \/ \E w \in Windows : PlanReveal(a, s, w)
        \/ \E w \in Windows : DirectReveal(s, w)
  BY DEF SecretMoves
<1>2. ASSUME NEW type \in {"created", "learned", "referenced", "revealed", "planned"},
             NEW w \in Windows, Sound(w), type = "created" \/ secrets[s].state # "none",
             NEW who \in Names \cup {None},
             type \in {"learned", "referenced"} => who \in Names,
             type = "referenced" => who \in cast
      PROVE  SecretEvent(type, s, w, who) \in LedgerEvents /\ Proper(SecretEvent(type, s, w, who))
  <2> DEFINE e == SecretEvent(type, s, w, who)
  <2>1. /\ e \in LedgerEvents /\ e.family = "secret" /\ e.type = type /\ e.id = s /\ e.window = w
        /\ e.who = who
    BY DEF SecretEvent, LedgerEvents
  <2> HIDE DEF e
  <2> QED BY <1>2, <2>1 DEF Proper, RowOf, Minting, e
<1>3. Sound(NoWindow) /\ NoWindow \in Windows
  BY DEF Sound
<1>4. ASSUME NEW a \in Agents, PlantSecret(a, s) PROVE IInv'
  BY <1>2, <1>3, <1>4, SteadyCommit DEF PlantSecret
<1>5. ASSUME NEW a \in Agents, NEW type \in {"learned", "referenced", "revealed"},
             NEW who \in Names \cup {None}, CiteSecret(a, s, type, who)
      PROVE  IInv'
  <2>1. secrets[s].state # "none"
    BY <1>5, RunsAreRuns DEF CiteSecret, RunKnows
  <2>2. /\ type \in {"learned", "referenced"} => who \in Names
        /\ type = "referenced" => who \in cast
    <3>1. runs[a] \in Runs /\ RunKnows(runs[a], a) /\ runs[a].roster # None
      BY <1>5, RunsAreRuns DEF CiteSecret
    <3>2. runs[a].roster \subseteq Names
      BY <3>1 DEF Runs
    <3>3. type \in {"learned", "referenced"} => who \in runs[a].roster
      BY <1>5 DEF CiteSecret
    <3>4. type = "referenced" => a # "keeper"
      BY <1>5 DEF CiteSecret, Allowed
    <3> QED BY <3>1, <3>2, <3>3, <3>4 DEF RunKnows
  <2>3. Commit(SecretEvent(type, s, NoWindow, who)) /\ UNCHANGED <<runs, drafted>>
    BY <1>5 DEF CiteSecret
  <2> QED BY <1>2, <1>3, <2>1, <2>2, <2>3, SteadyCommit
<1>6. ASSUME NEW a \in Agents, NEW w \in Windows, PlanReveal(a, s, w) PROVE IInv'
  <2>1. secrets[s].state # "none"
    BY <1>6, RunsAreRuns DEF PlanReveal, RunKnows
  <2> QED BY <1>2, <1>6, <2>1, SteadyCommit DEF PlanReveal
<1>7. ASSUME NEW w \in Windows, DirectReveal(s, w) PROVE IInv'
  BY <1>2, <1>7, SteadyCommit DEF DirectReveal
<1> QED BY <1>1, <1>4, <1>5, <1>6, <1>7

(* The Keeper's roster says nothing of what is there: it may take any name. *)
LEMMA RosterGrows ==
  ASSUME IInv, runs["keeper"] # None, NEW R \in SUBSET Names,
         runs' = [runs EXCEPT !["keeper"].roster = R]
  PROVE  /\ runs' \in [Agents -> Runs \cup {None}]
         /\ \A b \in Agents : runs'[b] # None => RunKnows(runs'[b], b)
<1>1. /\ runs \in [Agents -> Runs \cup {None}] /\ "keeper" \in Agents
      /\ \A b \in Agents : runs[b] # None => RunKnows(runs[b], b)
  BY DEF IInv, LedgerTypeOK, RunsKnow, Agents
<1> DEFINE v == [runs["keeper"] EXCEPT !.roster = R]
<1>2. runs["keeper"] \in Runs
  BY <1>1
<1>3. /\ v \in Runs /\ v.threads = runs["keeper"].threads
      /\ v.promises = runs["keeper"].promises /\ v.secrets = runs["keeper"].secrets
      /\ v.themes = runs["keeper"].themes /\ v.hands = runs["keeper"].hands
  BY <1>2 DEF Runs
<1>4. runs' = [runs EXCEPT !["keeper"] = v]
  OBVIOUS
<1> HIDE DEF v
<1>5. RunKnows(v, "keeper")
  BY <1>1, <1>3 DEF RunKnows
<1> QED BY <1>1, <1>3, <1>4, <1>5

LEMMA CastEvents ==
  ASSUME IInv, NEW n \in Names
  PROVE  CastEvent(n) \in LedgerEvents /\ Proper(CastEvent(n))
<1> DEFINE e == CastEvent(n)
<1>1. e \in LedgerEvents /\ e.family = "cast" /\ e.type = "minted" /\ e.id = n
  BY DEF CastEvent, LedgerEvents
<1> HIDE DEF e
<1> QED BY <1>1 DEF Proper, Minting, e

LEMMA CastMovesKeep ==
  ASSUME IInv, CastMoves
  PROVE  IInv'
<1> USE LedgerAssumption
<1>1. /\ cast \subseteq Names /\ proposed \subseteq Names /\ drafted \in 0 .. Chapters
      /\ appended \in 0 .. desk.upto /\ runs \in [Agents -> Runs \cup {None}] /\ "keeper" \in Agents
      /\ desk.upto \in Nat
  BY DEF IInv, LedgerTypeOK, Agents
<1>2. CASE LookAgain
  <2>1. Quietly /\ pending' = pending
    BY <1>1, <1>2, RosterGrows DEF LookAgain, Quietly
  <2> QED BY <2>1, QuietSteps
<1>3. ASSUME NEW n \in Names, NewInRoster(n)
      PROVE  /\ runs' \in [Agents -> Runs \cup {None}]
             /\ \A b \in Agents : runs'[b] # None => RunKnows(runs'[b], b)
  <2>1. runs["keeper"] \in Runs /\ runs["keeper"].roster # None
    BY <1>1, <1>3 DEF NewInRoster
  <2>2. PICK R \in SUBSET Names : R = runs["keeper"].roster \cup {n}
    BY <2>1 DEF Runs
  <2>3. runs' = [runs EXCEPT !["keeper"].roster = R] /\ runs["keeper"] # None
    BY <1>3, <2>2 DEF NewInRoster
  <2> QED BY <2>3, RosterGrows
<1>4. ASSUME NEW n \in Names, Mint(n) PROVE IInv'
  <2>1. /\ UNCHANGED <<rows, proposed, desk, drafted>> /\ appended' = appended + 1
        /\ appended < desk.upto
        /\ pending' = Append(pending, CastEvent(n)) /\ NewInRoster(n)
    BY <1>4 DEF Mint, Commit
  <2>2. Quietly
    <3>1. appended' \in 0 .. desk.upto
      BY <1>1, <2>1
    <3> QED BY <1>1, <1>3, <2>1, <3>1 DEF Quietly
  <2>3. Adds(CastEvent(n))
    BY <2>1, CastEvents DEF Adds
  <2> QED BY <2>2, <2>3, QuietSteps, CastEvents
<1>5. ASSUME NEW n \in Names, ProposeMint(n) PROVE IInv'
  <2>1. /\ UNCHANGED <<rows, desk, drafted, appended, pending>> /\ NewInRoster(n)
        /\ proposed' = proposed \cup {n}
    BY <1>5 DEF ProposeMint
  <2>2. Quietly
    BY <1>1, <1>3, <2>1 DEF Quietly
  <2> QED BY <2>1, <2>2, QuietSteps
<1>6. ASSUME NEW n \in Names, ApproveMint(n) PROVE IInv'
  BY <1>6, CastEvents, SteadyCommit DEF ApproveMint
<1> QED BY <1>2, <1>4, <1>5, <1>6 DEF CastMoves

LEMMA ThemeMovesKeep ==
  ASSUME IInv, ThemeMoves
  PROVE  IInv'
<1>1. PICK a \in Agents, t \in Themes : Introduce(a, t) \/ CiteTheme(a, t)
  BY DEF ThemeMoves
<1>2. ASSUME NEW type \in {"introduced", "developed"},
             type = "introduced" \/ themes[t].state # "none"
      PROVE  ThemeEvent(type, t) \in LedgerEvents /\ Proper(ThemeEvent(type, t))
  <2> DEFINE e == ThemeEvent(type, t)
  <2>1. e \in LedgerEvents /\ e.family = "theme" /\ e.type = type /\ e.id = t
    BY DEF ThemeEvent, LedgerEvents
  <2> HIDE DEF e
  <2> QED BY <1>2, <2>1 DEF Proper, RowOf, Minting, e
<1>3. t \in runs[a].themes => themes[t].state # "none"
  BY <1>1, RunsAreRuns DEF Introduce, CiteTheme, RunKnows
<1>4. CASE Introduce(a, t)
  BY <1>2, <1>3, <1>4, SteadyCommit DEF Introduce
<1>5. CASE CiteTheme(a, t)
  BY <1>2, <1>3, <1>5, SteadyCommit DEF CiteTheme
<1> QED BY <1>1, <1>4, <1>5

(* A run that ends, or lays down its hand, knows no less of the rest. *)
LEMMA Waning ==
  ASSUME IInv, NEW a \in Agents, runs[a] # None,
         \/ runs' = [runs EXCEPT ![a] = None]
         \/ runs' = [runs EXCEPT ![a].hands = {}]
  PROVE  /\ runs' \in [Agents -> Runs \cup {None}]
         /\ \A b \in Agents : runs'[b] # None => RunKnows(runs'[b], b)
<1>1. runs \in [Agents -> Runs \cup {None}] /\ \A b \in Agents : runs[b] # None => RunKnows(runs[b], b)
  BY DEF IInv, LedgerTypeOK, RunsKnow
<1>2. CASE runs' = [runs EXCEPT ![a] = None]
  BY <1>1, <1>2
<1>3. CASE runs' = [runs EXCEPT ![a].hands = {}]
  <2> DEFINE v == [runs[a] EXCEPT !.hands = {}]
  <2>1. runs[a] \in Runs
    BY <1>1
  <2>2. /\ v \in Runs /\ v.threads = runs[a].threads /\ v.promises = runs[a].promises
        /\ v.secrets = runs[a].secrets /\ v.themes = runs[a].themes
        /\ v.roster = runs[a].roster /\ v.hands = {}
    BY <2>1 DEF Runs
  <2>3. runs' = [runs EXCEPT ![a] = v]
    BY <1>3
  <2> HIDE DEF v
  <2>4. RunKnows(v, a)
    BY <1>1, <2>2 DEF RunKnows
  <2> QED BY <1>1, <2>2, <2>3, <2>4
<1> QED BY <1>2, <1>3

LEMMA HandCommit ==
  ASSUME IInv, NEW e \in LedgerEvents, Proper(e), Commit(e), drafted' \in 0 .. Chapters,
         NEW a \in Agents, runs[a] # None,
         \/ runs' = [runs EXCEPT ![a] = None]
         \/ runs' = [runs EXCEPT ![a].hands = {}]
  PROVE  IInv'
<1>1. /\ UNCHANGED <<rows, proposed, desk>> /\ pending' = Append(pending, e)
      /\ appended' \in 0 .. desk.upto
  BY LedgerAssumption DEF Commit, IInv, LedgerTypeOK
<1>2. Quietly
  BY <1>1, Waning DEF Quietly, IInv, LedgerTypeOK
<1>3. Adds(e)
  BY <1>1 DEF Adds
<1> QED BY <1>2, <1>3, QuietSteps

LEMMA HandMovesKeep ==
  ASSUME IInv, HandMoves
  PROVE  IInv'
<1> USE LedgerAssumption
<1>1. PICK h \in Hands :
        \/ Deal(h) \/ RerollSupersede(h) \/ RerollDeal(h) \/ ConsumeHand(h)
        \/ \E a \in Agents, chapter \in 1 .. Chapters, item \in Items :
             RecordUptake(a, h, chapter, item)
  BY DEF HandMoves
<1>2. ASSUME NEW type \in {"drawn", "consumed", "superseded", "uptake"},
             NEW c \in ChapterOrNone, NEW i \in Items \cup {None},
             type = "drawn" \/ hands[h].state # "none",
             type = "uptake" => ConsumedBy(h, c) /\ i \in Dealt[h]
      PROVE  HandEvent(type, h, c, i) \in LedgerEvents /\ Proper(HandEvent(type, h, c, i))
  <2> DEFINE e == HandEvent(type, h, c, i)
  <2>1. /\ e \in LedgerEvents /\ e.family = "hand" /\ e.type = type /\ e.id = h /\ e.chapter = c
        /\ e.item = i
    BY DEF HandEvent, LedgerEvents
  <2> HIDE DEF e
  <2> QED BY <1>2, <2>1 DEF Proper, RowOf, Minting, e
<1>3. None \in ChapterOrNone /\ None \in Items \cup {None} /\ drafted \in 0 .. Chapters
      /\ {"author", "muse", "director"} \subseteq Agents
  BY DEF ChapterOrNone, IInv, LedgerTypeOK, Agents
<1>4. CASE Deal(h)
  <2>1. HandEvent("drawn", h, None, None) \in LedgerEvents /\ Proper(HandEvent("drawn", h, None, None))
    BY <1>2, <1>3
  <2> QED BY <1>3, <1>4, <2>1, HandCommit DEF Deal
<1>5. CASE RerollDeal(h)
  <2>1. HandEvent("drawn", h, None, None) \in LedgerEvents /\ Proper(HandEvent("drawn", h, None, None))
    BY <1>2, <1>3
  <2> QED BY <1>3, <1>5, <2>1, HandCommit DEF RerollDeal
<1>6. CASE RerollSupersede(h)
  <2>1. hands[h].state # "none"
    BY <1>3, <1>6, RunsAreRuns DEF RerollSupersede, RunKnows
  <2>2. /\ HandEvent("superseded", h, None, None) \in LedgerEvents
        /\ Proper(HandEvent("superseded", h, None, None))
    BY <1>2, <1>3, <2>1
  <2> QED BY <1>3, <1>6, <2>2, HandCommit DEF RerollSupersede
<1>7. CASE ConsumeHand(h)
  <2>1. hands[h].state # "none"
    BY <1>3, <1>7, RunsAreRuns DEF ConsumeHand, RunKnows
  <2>2. drafted' \in 0 .. Chapters /\ drafted' \in ChapterOrNone
    BY <1>3, <1>7 DEF ConsumeHand, ChapterOrNone
  <2>3. PICK c \in ChapterOrNone : c = drafted'
    BY <2>2
  <2>4. HandEvent("consumed", h, c, None) \in LedgerEvents /\ Proper(HandEvent("consumed", h, c, None))
    BY <1>2, <1>3, <2>1
  <2>5. Commit(HandEvent("consumed", h, c, None))
    BY <1>7, <2>3 DEF ConsumeHand
  <2> QED BY <1>3, <1>7, <2>2, <2>4, <2>5, HandCommit DEF ConsumeHand
<1>8. ASSUME NEW a \in Agents, NEW chapter \in 1 .. Chapters, NEW item \in Items,
             RecordUptake(a, h, chapter, item)
      PROVE  IInv'
  <2>1. chapter \in ChapterOrNone
    BY DEF ChapterOrNone
  <2>2. hands[h].state # "none" /\ ConsumedBy(h, chapter) /\ item \in Dealt[h]
    BY <1>8, <2>1, RunsAreRuns DEF RecordUptake, RunKnows
  <2>3. /\ HandEvent("uptake", h, chapter, item) \in LedgerEvents
        /\ Proper(HandEvent("uptake", h, chapter, item))
    BY <1>2, <2>1, <2>2
  <2> QED BY <1>8, <2>3, SteadyCommit DEF RecordUptake
<1> QED BY <1>1, <1>4, <1>5, <1>6, <1>7, <1>8

LEMMA Inductive == IInv /\ [LedgerNext]_ledgerVars => IInv'
<1> SUFFICES ASSUME IInv, [LedgerNext]_ledgerVars PROVE IInv'
  OBVIOUS
<1>1. CASE ProjectEvent
  BY <1>1, ProjectKeeps
<1>2. ASSUME NEW a \in Agents, Poll(a) PROVE IInv'
  <2>1. View(a) \in Runs /\ RunKnows(View(a), a)
    BY ViewKnows DEF IInv
  <2>2. PICK v \in Runs : v = View(a)
    BY <2>1
  <2>3. /\ UNCHANGED <<rows, proposed, pending, desk, drafted, appended>>
        /\ runs' = [runs EXCEPT ![a] = v]
    BY <1>2, <2>2 DEF Poll
  <2>4. Quietly
    BY <2>1, <2>2, <2>3 DEF Quietly, IInv, LedgerTypeOK, RunsKnow
  <2> QED BY <2>3, <2>4, QuietSteps
<1>3. ASSUME NEW a \in Agents, EndRun(a) PROVE IInv'
  <2>1. Quietly
    BY <1>3, Waning DEF EndRun, Quietly, IInv, LedgerTypeOK
  <2> QED BY <1>3, <2>1, QuietSteps DEF EndRun
<1>4. CASE UNCHANGED ledgerVars
  <2>1. Quietly /\ pending' = pending
    BY <1>4 DEF ledgerVars, Quietly, IInv, LedgerTypeOK, RunsKnow
  <2> QED BY <2>1, QuietSteps
<1> QED
  BY <1>1, <1>2, <1>3, <1>4, ThreadMovesKeep, PromiseMovesKeep, SecretMovesKeep, CastMovesKeep,
     ThemeMovesKeep, HandMovesKeep DEF LedgerNext

-----------------------------------------------------------------------------
(* Who learns a secret.  A name is announced by an event of the log that makes
   it a character's; it is somebody's when it is in the cast, or before the
   director, or announced. *)
Announced(n, i) ==
  \E j \in DOMAIN pending : j < i /\ pending[j].family = "cast" /\ pending[j].id = n

Somebody(n, i) == n \in cast \cup proposed \/ Announced(n, i)

KnowersThere == \A k \in knows : k[2] \in cast \cup proposed

LearnersThere ==
  \A i \in DOMAIN pending : pending[i].type = "learned" => Somebody(pending[i].who, i)

KeeperRoster ==
  runs["keeper"] # None /\ runs["keeper"].roster # None =>
    \A n \in runs["keeper"].roster : Somebody(n, Len(pending) + 1)

HInv == KnowersThere /\ LearnersThere /\ KeeperRoster

(* The roster the Keeper goes by after a step is no other than before it. *)
RosterStill ==
  runs'["keeper"] # None /\ runs'["keeper"].roster # None =>
    runs["keeper"] # None /\ runs'["keeper"].roster = runs["keeper"].roster

LEMMA SomebodyStays ==
  ASSUME pending \in Seq(LedgerEvents), proposed \subseteq proposed', cast' = cast,
         pending' = pending \/ \E e : pending' = Append(pending, e),
         NEW n, NEW i, Somebody(n, i)
  PROVE  Somebody(n, i)'
<1>1. \A j \in DOMAIN pending : j \in DOMAIN pending' /\ pending'[j] = pending[j]
  OBVIOUS
<1> QED BY <1>1 DEF Somebody, Announced

(* A step that folds nothing: what it adds to the log is about somebody. *)
LEMMA AddingKeeps ==
  ASSUME IInv, HInv, UNCHANGED <<cast, knows>>, proposed \subseteq proposed',
         \/ pending' = pending
         \/ \E e : /\ pending' = Append(pending, e)
                   /\ e.type = "learned" => Somebody(e.who, Len(pending) + 1),
         KeeperRoster'
  PROVE  HInv'
<1>1. pending \in Seq(LedgerEvents)
  BY DEF IInv, LedgerTypeOK
<1>2. KnowersThere'
  BY DEF HInv, KnowersThere
<1>3. ASSUME NEW i \in DOMAIN pending', pending'[i].type = "learned",
             NEW n, n = pending'[i].who
      PROVE  Somebody(n, i)'
  <2>1. Somebody(n, i)
    <3>1. CASE i \in DOMAIN pending /\ pending'[i] = pending[i]
      BY <1>3, <3>1 DEF HInv, LearnersThere, Somebody, Announced
    <3>2. CASE ~ (i \in DOMAIN pending /\ pending'[i] = pending[i])
      <4>1. i = Len(pending) + 1 /\ Somebody(n, Len(pending) + 1)
        BY <1>1, <1>3, <3>2 DEF Somebody, Announced
      <4> QED BY <4>1
    <3> QED BY <3>1, <3>2
  <2> QED BY <1>1, <2>1, SomebodyStays
<1> QED BY <1>2, <1>3 DEF HInv, LearnersThere, Somebody, Announced

LEMMA KeeperRosterStays ==
  ASSUME IInv, HInv, cast' = cast, proposed \subseteq proposed', RosterStill,
         pending' = pending \/ \E e : pending' = Append(pending, e)
  PROVE  KeeperRoster'
<1>1. pending \in Seq(LedgerEvents)
  BY DEF IInv, LedgerTypeOK
<1> SUFFICES ASSUME runs'["keeper"] # None, runs'["keeper"].roster # None,
                    NEW n \in runs'["keeper"].roster
             PROVE  Somebody(n, Len(pending) + 1)'
  BY DEF KeeperRoster
<1>2. Somebody(n, Len(pending) + 1)
  BY DEF RosterStill, HInv, KeeperRoster
<1>3. Len(pending') \in Nat /\ Len(pending') >= Len(pending) /\ Len(pending) \in Nat
  BY <1>1
<1>4. \A j \in DOMAIN pending : /\ j \in DOMAIN pending' /\ pending'[j] = pending[j]
                                /\ j < Len(pending') + 1
  BY <1>1, <1>3
<1> QED BY <1>2, <1>4 DEF Somebody, Announced

(* Folding the first event moves the announcements up, and takes the first of
   them into the cast. *)
LEMMA FoldingKeeps ==
  ASSUME IInv, HInv, ProjectEvent
  PROVE  HInv'
<1>1. /\ First \in LedgerEvents /\ pending \in Seq(LedgerEvents) /\ pending' \in Seq(LedgerEvents)
      /\ \A i \in DOMAIN pending' : i + 1 \in DOMAIN pending /\ pending'[i] = pending[i + 1]
      /\ pending # <<>> /\ First = pending[1]
  BY FirstEvent, EmptySeq DEF IInv, LedgerTypeOK, First, ProjectEvent
<1>2. /\ cast' = IF First.family = "cast" THEN cast \cup {First.id} ELSE cast
      /\ proposed' = proposed /\ runs' = runs
  BY DEF ProjectEvent, First
<1>3. Len(pending') = Len(pending) - 1 /\ Len(pending) \in Nat \ {0}
  BY <1>1 DEF ProjectEvent
<1>4. ASSUME NEW n, NEW i \in 1 .. Len(pending) + 1, Somebody(n, i)
      PROVE  \/ n \in (cast \cup proposed)'
             \/ \E j \in DOMAIN pending' :
                  j + 1 < i /\ pending'[j].family = "cast" /\ pending'[j].id = n
  <2>1. CASE n \in cast \cup proposed
    BY <1>2, <2>1
  <2>2. CASE Announced(n, i)
    <3>1. PICK j \in DOMAIN pending : j < i /\ pending[j].family = "cast" /\ pending[j].id = n
      BY <2>2 DEF Announced
    <3>2. CASE j = 1
      BY <1>1, <1>2, <3>1, <3>2
    <3>3. CASE j # 1
      <4>1. j - 1 \in DOMAIN pending' /\ pending'[j - 1] = pending[j] /\ j - 1 + 1 < i
        BY <1>1, <1>3, <3>1, <3>3
      <4> QED BY <3>1, <4>1
    <3> QED BY <3>2, <3>3
  <2> QED BY <1>4, <2>1, <2>2 DEF Somebody
<1>5. KnowersThere'
  <2>1. ASSUME NEW k \in knows' PROVE k[2] \in (cast \cup proposed)'
    <3>1. \/ k \in knows
          \/ First.type = "learned" /\ k = <<First.id, First.who>>
      BY <2>1 DEF ProjectEvent, First
    <3>2. CASE k \in knows
      BY <1>2, <3>2 DEF HInv, KnowersThere
    <3>3. CASE First.type = "learned" /\ k = <<First.id, First.who>>
      <4>1. pending[1].type = "learned" /\ 1 \in DOMAIN pending
        BY <1>1, <3>3
      <4>2. \A j \in DOMAIN pending : ~ (j < 1)
        BY <1>1
      <4>3. First.who \in cast \cup proposed
        BY <1>1, <4>1, <4>2 DEF HInv, LearnersThere, Somebody, Announced
      <4> QED BY <1>2, <3>3, <4>3
    <3> QED BY <3>1, <3>2, <3>3
  <2> QED BY <2>1 DEF KnowersThere
<1>6. LearnersThere'
  <2>1. ASSUME NEW i \in DOMAIN pending', pending'[i].type = "learned"
        PROVE  Somebody(pending[i].who, i)'
    <3>1. /\ i + 1 \in 1 .. Len(pending) + 1 /\ i + 1 - 1 = i
          /\ pending'[i] = pending[i + 1] /\ i + 1 \in DOMAIN pending
      BY <1>1, <1>3, <2>1
    <3>2. PICK n : n = pending'[i].who /\ Somebody(n, i + 1)
      BY <2>1, <3>1 DEF HInv, LearnersThere, Somebody, Announced
    <3>3. \A j \in DOMAIN pending' : j + 1 < i + 1 => j < i
      BY <1>1, <1>3, <2>1
    <3> QED BY <1>4, <3>1, <3>2, <3>3 DEF Somebody, Announced
  <2> QED BY <2>1 DEF LearnersThere
<1>7. KeeperRoster'
  <2>1. SUFFICES ASSUME runs["keeper"] # None, runs["keeper"].roster # None,
                        NEW n \in runs["keeper"].roster
                 PROVE  Somebody(n, Len(pending) + 1)'
    BY <1>2 DEF KeeperRoster
  <2>2. Somebody(n, Len(pending) + 1) /\ Len(pending) + 1 \in 1 .. Len(pending) + 1
    BY <1>3, <2>1 DEF HInv, KeeperRoster, Somebody, Announced
  <2>3. \/ n \in (cast \cup proposed)'
        \/ \E j \in DOMAIN pending' : pending'[j].family = "cast" /\ pending'[j].id = n
    BY <1>4, <2>2
  <2>4. \A j \in DOMAIN pending' : j < Len(pending') + 1
    BY <1>1
  <2> QED BY <2>3, <2>4 DEF Somebody, Announced
<1> QED BY <1>5, <1>6, <1>7 DEF HInv

(* Most commits are of no learning, and leave the Keeper's roster alone. *)
LEMMA PlainCommit ==
  ASSUME IInv, HInv, NEW e, Commit(e), e.type # "learned", RosterStill
  PROVE  HInv'
<1>1. UNCHANGED <<cast, knows, proposed>> /\ pending' = Append(pending, e)
  BY DEF Commit, rows
<1>2. KeeperRoster'
  BY <1>1, KeeperRosterStays
<1> QED BY <1>1, <1>2, AddingKeeps

LEMMA SecretMovesKeepH ==
  ASSUME IInv, HInv, SecretMoves
  PROVE  HInv'
<1> USE DEF SecretEvent, RosterStill
<1>1. PICK s \in Secrets :
        \/ \E a \in Agents :
             \/ PlantSecret(a, s)
             \/ \E type \in {"learned", "referenced", "revealed"},
                   who \in Names \cup {None} : CiteSecret(a, s, type, who)
             \/ \E w \in Windows : PlanReveal(a, s, w)
        \/ \E w \in Windows : DirectReveal(s, w)
  BY DEF SecretMoves
<1>2. ASSUME NEW a \in Agents, PlantSecret(a, s) PROVE HInv'
  <2>1. Commit(SecretEvent("created", s, NoWindow, None)) /\ RosterStill
    BY <1>2 DEF PlantSecret
  <2> QED BY <2>1, PlainCommit
<1>3. ASSUME NEW a \in Agents, NEW w \in Windows, PlanReveal(a, s, w) PROVE HInv'
  <2>1. Commit(SecretEvent("planned", s, w, None)) /\ RosterStill
    BY <1>3 DEF PlanReveal
  <2> QED BY <2>1, PlainCommit
<1>4. ASSUME NEW w \in Windows, DirectReveal(s, w) PROVE HInv'
  <2>1. Commit(SecretEvent("planned", s, w, None)) /\ RosterStill
    BY <1>4 DEF DirectReveal
  <2> QED BY <2>1, PlainCommit
<1>5. ASSUME NEW a \in Agents, NEW type \in {"learned", "referenced", "revealed"},
             NEW who \in Names \cup {None}, CiteSecret(a, s, type, who)
      PROVE  HInv'
  <2>1. /\ Commit(SecretEvent(type, s, NoWindow, who)) /\ RosterStill
        /\ runs[a] # None /\ runs[a].roster # None
        /\ type = "learned" => who \in runs[a].roster
    BY <1>5 DEF CiteSecret
  <2>2. /\ UNCHANGED <<cast, knows, proposed>>
        /\ pending' = Append(pending, SecretEvent(type, s, NoWindow, who))
    BY <2>1 DEF Commit, rows
  <2>3. type = "learned" => Somebody(who, Len(pending) + 1)
    <3>1. CASE a = "keeper"
      BY <2>1, <3>1 DEF HInv, KeeperRoster
    <3>2. CASE a # "keeper"
      <4>1. runs[a].roster \subseteq cast
        BY <2>1, <3>2, RunsAreRuns DEF RunKnows
      <4> QED BY <2>1, <4>1 DEF Somebody
    <3> QED BY <3>1, <3>2
  <2>4. KeeperRoster'
    BY <2>1, <2>2, KeeperRosterStays
  <2> QED BY <2>2, <2>3, <2>4, AddingKeeps
<1> QED BY <1>1, <1>2, <1>3, <1>4, <1>5

LEMMA CastMovesKeepH ==
  ASSUME IInv, HInv, CastMoves
  PROVE  HInv'
<1>1. /\ pending \in Seq(LedgerEvents) /\ Len(pending) \in Nat /\ "keeper" \in Agents
      /\ runs \in [Agents -> Runs \cup {None}]
  BY DEF IInv, LedgerTypeOK, Agents
<1>2. CASE LookAgain
  <2>1. UNCHANGED <<cast, knows, proposed, pending>> /\ runs["keeper"] \in Runs
    BY <1>1, <1>2 DEF LookAgain, rows
  <2>2. runs'["keeper"].roster = cast
    BY <1>1, <1>2, <2>1 DEF LookAgain, Runs
  <2>3. KeeperRoster'
    BY <2>1, <2>2 DEF KeeperRoster, Somebody
  <2> QED BY <2>1, <2>3, AddingKeeps
<1>3. ASSUME NEW n \in Names, NewInRoster(n), cast' = cast, proposed \subseteq proposed',
             pending' = pending \/ \E e : pending' = Append(pending, e),
             Somebody(n, Len(pending) + 1)'
      PROVE  KeeperRoster'
  <2>1. /\ runs["keeper"] \in Runs /\ runs["keeper"] # None /\ runs["keeper"].roster # None
        /\ runs' = [runs EXCEPT !["keeper"].roster = @ \cup {n}]
    BY <1>1, <1>3 DEF NewInRoster
  <2>2. runs'["keeper"].roster = runs["keeper"].roster \cup {n}
    BY <1>1, <2>1 DEF Runs
  <2>3. ASSUME NEW m \in runs["keeper"].roster
        PROVE  Somebody(m, Len(pending) + 1)'
    <3>1. Somebody(m, Len(pending) + 1)
      BY <2>1, <2>3 DEF HInv, KeeperRoster
    <3>2. Len(pending') \in Nat /\ Len(pending') >= Len(pending)
      BY <1>1, <1>3
    <3>3. \A j \in DOMAIN pending : /\ j \in DOMAIN pending' /\ pending'[j] = pending[j]
                                    /\ j < Len(pending') + 1
      BY <1>1, <1>3, <3>2
    <3> QED BY <1>3, <3>1, <3>3 DEF Somebody, Announced
  <2> QED BY <1>3, <2>2, <2>3 DEF KeeperRoster
<1>4. ASSUME NEW n \in Names, Mint(n) PROVE HInv'
  <2>1. /\ UNCHANGED <<cast, knows, proposed>> /\ NewInRoster(n)
        /\ pending' = Append(pending, CastEvent(n))
    BY <1>4 DEF Mint, Commit, rows
  <2>2. /\ pending'[Len(pending) + 1] = CastEvent(n) /\ Len(pending) + 1 \in DOMAIN pending'
        /\ Len(pending) + 1 < Len(pending') + 1
    BY <1>1, <2>1
  <2>3. Somebody(n, Len(pending) + 1)'
    BY <2>2 DEF Somebody, Announced, CastEvent
  <2>4. KeeperRoster'
    BY <1>3, <2>1, <2>3
  <2> QED BY <2>1, <2>4, AddingKeeps DEF CastEvent
<1>5. ASSUME NEW n \in Names, ProposeMint(n) PROVE HInv'
  <2>1. /\ UNCHANGED <<cast, knows, pending>> /\ NewInRoster(n)
        /\ proposed' = proposed \cup {n}
    BY <1>5 DEF ProposeMint, rows
  <2>2. KeeperRoster'
    BY <1>3, <2>1 DEF Somebody
  <2> QED BY <2>1, <2>2, AddingKeeps
<1>6. ASSUME NEW n \in Names, ApproveMint(n) PROVE HInv'
  BY <1>6, PlainCommit DEF ApproveMint, CastEvent, RosterStill
<1> QED BY <1>2, <1>4, <1>5, <1>6 DEF CastMoves

LEMMA HandMovesKeepH ==
  ASSUME IInv, HInv, HandMoves
  PROVE  HInv'
<1>1. runs \in [Agents -> Runs \cup {None}] /\ {"keeper", "author", "muse", "director"} \subseteq Agents
  BY DEF IInv, LedgerTypeOK, Agents
<1>2. PICK h \in Hands :
        \/ Deal(h) \/ RerollSupersede(h) \/ RerollDeal(h) \/ ConsumeHand(h)
        \/ \E a \in Agents, chapter \in 1 .. Chapters, item \in Items :
             RecordUptake(a, h, chapter, item)
  BY DEF HandMoves
<1>3. RosterStill
  BY <1>1, <1>2
     DEF RosterStill, Deal, RerollSupersede, RerollDeal, ConsumeHand, RecordUptake
<1>4. \E e : Commit(e) /\ e.type # "learned"
  <2>1. CASE Deal(h) \/ RerollDeal(h)
    <3>1. Commit(HandEvent("drawn", h, None, None))
      BY <2>1 DEF Deal, RerollDeal
    <3> QED BY <3>1 DEF HandEvent
  <2>2. CASE RerollSupersede(h)
    BY <2>2 DEF RerollSupersede, HandEvent
  <2>3. CASE ConsumeHand(h)
    BY <2>3 DEF ConsumeHand, HandEvent
  <2>4. ASSUME NEW a \in Agents, NEW chapter \in 1 .. Chapters, NEW item \in Items,
               RecordUptake(a, h, chapter, item)
        PROVE  \E e : Commit(e) /\ e.type # "learned"
    BY <2>4 DEF RecordUptake, HandEvent
  <2> QED BY <1>2, <2>1, <2>2, <2>3, <2>4
<1> QED BY <1>3, <1>4, PlainCommit

LEMMA OtherMovesKeepH ==
  ASSUME IInv, HInv, ThreadMoves \/ PromiseMoves \/ ThemeMoves
  PROVE  HInv'
<1>1. CASE ThreadMoves
  BY <1>1, PlainCommit
     DEF ThreadMoves, Plant, CiteThread, PlanResolution, DirectThread, ThreadEvent, RosterStill
<1>2. CASE PromiseMoves
  <2>1. PICK a \in Agents, p \in Promises :
          \/ \E w \in Windows, link \in Threads \cup {None} : MakePromise(a, p, w, link)
          \/ \E type \in {"progressed", "paid", "released"} : CitePromise(a, p, type)
    BY <1>2 DEF PromiseMoves
  <2>2. PICK type \in {"made", "progressed", "paid", "released"},
            w \in Windows, link \in LinkOrNone :
          Commit(PromiseEvent(type, p, w, link)) /\ UNCHANGED runs
    BY <2>1, LedgerAssumption DEF MakePromise, CitePromise, LinkOrNone
  <2> QED BY <2>2, PlainCommit DEF PromiseEvent, RosterStill
<1>3. CASE ThemeMoves
  BY <1>3, PlainCommit DEF ThemeMoves, Introduce, CiteTheme, ThemeEvent, RosterStill
<1> QED BY <1>1, <1>2, <1>3

LEMMA HInductive == IInv /\ HInv /\ [LedgerNext]_ledgerVars => HInv'
<1> SUFFICES ASSUME IInv, HInv, [LedgerNext]_ledgerVars PROVE HInv'
  OBVIOUS
<1>1. ASSUME NEW a \in Agents, Poll(a) \/ EndRun(a) PROVE HInv'
  <2>1. UNCHANGED <<cast, knows, proposed, pending>>
    BY <1>1 DEF Poll, EndRun, rows
  <2>2. RosterStill
    <3>1. runs \in [Agents -> Runs \cup {None}] /\ "keeper" \in Agents
      BY DEF IInv, LedgerTypeOK, Agents
    <3>2. View("keeper").roster = None
      BY DEF View
    <3> QED BY <1>1, <3>1, <3>2 DEF Poll, EndRun, RosterStill
  <2>3. KeeperRoster'
    BY <2>1, <2>2, KeeperRosterStays
  <2> QED BY <2>1, <2>3, AddingKeeps
<1>2. CASE UNCHANGED ledgerVars
  BY <1>2, KeeperRosterStays, AddingKeeps DEF ledgerVars, rows, RosterStill
<1> QED
  BY <1>1, <1>2, FoldingKeeps, SecretMovesKeepH, CastMovesKeepH, HandMovesKeepH, OtherMovesKeepH
     DEF LedgerNext

-----------------------------------------------------------------------------
LEMMA Always == LedgerSpec => []IInv
BY InitIInv, Inductive, PTL DEF LedgerSpec

LEMMA KnowersAlwaysThere == LedgerSpec => []HInv
<1>1. LedgerInit => HInv
  BY DEF LedgerInit, HInv, KnowersThere, LearnersThere, KeeperRoster, Agents
<1> QED BY <1>1, HInductive, Always, PTL DEF LedgerSpec

(* The rows, the log and the runs keep their types. *)
THEOREM TypeCorrect == LedgerSpec => []LedgerTypeOK
BY Always, PTL DEF IInv

(* However far behind the projector is, and whatever the agents do, an event
   that cites a record finds its row when it is folded. *)
THEOREM CitationsAreProper == LedgerSpec => []CitationsFindTheirRow
<1>1. IInv => CitationsFindTheirRow
  BY DEF IInv, PendingProper, Proper, CitationsFindTheirRow
<1> QED BY <1>1, Always, PTL

(* No window a model makes up enters canon unless it is sound. *)
THEOREM WindowsStaySound == LedgerSpec => []WindowsAreSound
BY Always, PTL DEF IInv

(* What a citation names and what a promise is linked to is there; who uses a
   secret is of the cast, and who knows one is, or was put before the director. *)
THEOREM LedgerIsGrounded == LedgerSpec => []Grounded
<1>1. IInv => CitationsFindTheirRow /\ LinksHold
  BY DEF IInv, PendingProper, Proper, CitationsFindTheirRow
<1>2. IInv /\ HInv => KnowersAreSomebody
  BY DEF IInv, MatrixGrounded, HInv, KnowersThere, KnowersAreSomebody, LedgerTypeOK
<1> QED BY <1>1, <1>2, Always, KnowersAlwaysThere, PTL DEF Grounded

(* What a chapter took up was dealt in the hand that chapter used up. *)
THEOREM UptakeIsOfTheDeal == LedgerSpec => []UptakeWasDealt
BY Always, PTL DEF IInv

-----------------------------------------------------------------------------
(* The refinements: a step folds one event into one row, or leaves all rows. *)
LEMMA OneFold ==
  ASSUME IInv, [LedgerNext]_ledgerVars
  PROVE  /\ LedgerTypeOK'
         /\ (ProjectEvent /\ First \in LedgerEvents) \/ UNCHANGED rows
<1>1. [LedgerNext]_ledgerVars => ProjectEvent \/ UNCHANGED rows
  <2>1. ThreadMoves => UNCHANGED rows
    BY DEF ThreadMoves, Plant, CiteThread, PlanResolution, DirectThread, Commit
  <2>2. PromiseMoves => UNCHANGED rows
    BY DEF PromiseMoves, MakePromise, CitePromise, Commit
  <2>3. SecretMoves => UNCHANGED rows
    BY DEF SecretMoves, PlantSecret, CiteSecret, PlanReveal, DirectReveal, Commit
  <2>4. ThemeMoves \/ CastMoves => UNCHANGED rows
    BY DEF ThemeMoves, Introduce, CiteTheme, CastMoves, LookAgain, Mint, ProposeMint, ApproveMint,
           Commit
  <2>5. HandMoves => UNCHANGED rows
    BY DEF HandMoves, Deal, RerollSupersede, RerollDeal, ConsumeHand, RecordUptake, Commit
  <2>6. (\E a \in Agents : Poll(a) \/ EndRun(a)) => UNCHANGED rows
    BY DEF Poll, EndRun
  <2>7. UNCHANGED ledgerVars => UNCHANGED rows
    BY DEF ledgerVars
  <2> QED BY <2>1, <2>2, <2>3, <2>4, <2>5, <2>6, <2>7 DEF LedgerNext
<1>2. ProjectEvent => First \in LedgerEvents
  BY FirstEvent DEF IInv
<1>3. LedgerTypeOK'
  BY Inductive DEF IInv
<1> QED BY <1>1, <1>2, <1>3

(* Threads implement Obligation: none is planted anew, and none changes after
   it is paid off or abandoned. *)
THEOREM ThreadsImplementObligation == LedgerSpec => ThreadsRunTheirCourse
<1>1. LedgerInit => ThreadLife!OInit
  BY DEF LedgerInit, ThreadLife!OInit
<1>2. IInv /\ [LedgerNext]_ledgerVars => [ThreadLife!ONext]_(ThreadLife!ovars)
  <2> SUFFICES ASSUME IInv, [LedgerNext]_ledgerVars
               PROVE  ThreadLife!ONext \/ UNCHANGED ThreadLife!ovars
    BY DEF ThreadLife!ovars
  <2>1. LedgerTypeOK /\ LedgerTypeOK' /\ ((ProjectEvent /\ First \in LedgerEvents) \/ UNCHANGED rows)
    BY OneFold DEF IInv
  <2>2. CASE threads' = threads
    BY <2>2 DEF ThreadLife!ovars
  <2>3. CASE threads' # threads
    <3>1. ProjectEvent /\ First \in LedgerEvents
      BY <2>1, <2>3 DEF rows
    <3> DEFINE t == First.id
               q == ThreadRow(threads[t], First)
    <3>2. First.family = "thread" /\ t \in Threads /\ threads' = [threads EXCEPT ![t] = q]
      BY <2>1, <2>3, <3>1, FoldThreads
    <3>3. threads \in [Threads -> ThreadRecord] /\ q \in ThreadRecord
      BY <2>1, <3>1, <3>2, ThreadRowFacts DEF LedgerTypeOK
    <3>4. Moves(ThreadState(threads[t]), ThreadState(q), threads[t].touches, q.touches, TERMINAL_STATES)
      BY <3>1, <3>2, <3>3, ThreadRowFacts
    <3> HIDE DEF t, q
    <3> DEFINE S == [i \in Threads |-> ThreadState(threads[i])]
               W == [i \in Threads |-> threads[i].touches]
    <3>5. /\ S' = [S EXCEPT ![t] = ThreadState(q)] /\ W' = [W EXCEPT ![t] = q.touches]
          /\ S[t] = ThreadState(threads[t]) /\ W[t] = threads[t].touches
      BY <3>2, <3>3 DEF ThreadState
    <3>6. S \in [Threads -> {ThreadState(r) : r \in ThreadRecord}] /\ W \in [Threads -> Nat]
      BY <3>3 DEF ThreadRecord
    <3> HIDE DEF S, W
    <3>7. \/ S' = S /\ W' = W
          \/ S[t] = "none" /\ S' = [S EXCEPT ![t] = "open"] /\ W' = W
          \/ S[t] = "open" /\ W' = [W EXCEPT ![t] = @ + 1] /\ S' = S
          \/ \E way \in TERMINAL_STATES :
               S[t] = "open" /\ S' = [S EXCEPT ![t] = way] /\ W' = W
      BY <3>2, <3>4, <3>5, <3>6 DEF Moves
    <3> QED
      BY <3>2, <3>7 DEF S, W, ThreadState, ThreadLife!ONext, ThreadLife!Open, ThreadLife!Work,
        ThreadLife!Close, ThreadLife!ovars
  <2> QED BY <2>2, <2>3
<1> QED BY <1>1, <1>2, Always, PTL DEF LedgerSpec, ThreadLife!OSpec, ThreadsRunTheirCourse

(* Promises implement Obligation: none is made anew, and none changes after it
   is paid or released. *)
THEOREM PromisesImplementObligation == LedgerSpec => PromisesRunTheirCourse
<1>1. LedgerInit => PromiseLife!OInit
  BY DEF LedgerInit, PromiseLife!OInit
<1>2. IInv /\ [LedgerNext]_ledgerVars => [PromiseLife!ONext]_(PromiseLife!ovars)
  <2> SUFFICES ASSUME IInv, [LedgerNext]_ledgerVars
               PROVE  PromiseLife!ONext \/ UNCHANGED PromiseLife!ovars
    BY DEF PromiseLife!ovars
  <2>1. LedgerTypeOK /\ LedgerTypeOK' /\ ((ProjectEvent /\ First \in LedgerEvents) \/ UNCHANGED rows)
    BY OneFold DEF IInv
  <2>2. CASE promises' = promises
    BY <2>2 DEF PromiseLife!ovars
  <2>3. CASE promises' # promises
    <3>1. ProjectEvent /\ First \in LedgerEvents
      BY <2>1, <2>3 DEF rows
    <3> DEFINE t == First.id
               q == PromiseRow(promises[t], First)
    <3>2. First.family = "promise" /\ t \in Promises /\ promises' = [promises EXCEPT ![t] = q]
      BY <2>1, <2>3, <3>1, FoldPromises
    <3>3. promises \in [Promises -> PromiseRecord] /\ q \in PromiseRecord
      BY <2>1, <3>1, <3>2, PromiseRowFacts DEF LedgerTypeOK
    <3>4. Moves(promises[t].state, q.state, promises[t].progress, q.progress, TERMINAL_PROMISE_STATES)
      BY <3>1, <3>2, <3>3, PromiseRowFacts
    <3> HIDE DEF t, q
    <3> DEFINE S == [i \in Promises |-> promises[i].state]
               W == [i \in Promises |-> promises[i].progress]
    <3>5. /\ S' = [S EXCEPT ![t] = q.state] /\ W' = [W EXCEPT ![t] = q.progress]
          /\ S[t] = promises[t].state /\ W[t] = promises[t].progress
      BY <3>2, <3>3
    <3>6. S \in [Promises -> {r.state : r \in PromiseRecord}] /\ W \in [Promises -> Nat]
      BY <3>3 DEF PromiseRecord
    <3> HIDE DEF S, W
    <3>7. \/ S' = S /\ W' = W
          \/ S[t] = "none" /\ S' = [S EXCEPT ![t] = "open"] /\ W' = W
          \/ S[t] = "open" /\ W' = [W EXCEPT ![t] = @ + 1] /\ S' = S
          \/ \E way \in TERMINAL_PROMISE_STATES :
               S[t] = "open" /\ S' = [S EXCEPT ![t] = way] /\ W' = W
      BY <3>2, <3>4, <3>5, <3>6 DEF Moves
    <3> QED
      BY <3>2, <3>7 DEF S, W, PromiseLife!ONext, PromiseLife!Open, PromiseLife!Work,
        PromiseLife!Close, PromiseLife!ovars
  <2> QED BY <2>2, <2>3
<1> QED BY <1>1, <1>2, Always, PTL DEF LedgerSpec, PromiseLife!OSpec, PromisesRunTheirCourse

(* Secrets implement Obligation: one is revealed once, and for good. *)
THEOREM SecretsImplementObligation == LedgerSpec => SecretsRunTheirCourse
<1>1. LedgerInit => SecretLife!OInit
  BY DEF LedgerInit, SecretLife!OInit
<1>2. IInv /\ [LedgerNext]_ledgerVars => [SecretLife!ONext]_(SecretLife!ovars)
  <2> SUFFICES ASSUME IInv, [LedgerNext]_ledgerVars
               PROVE  SecretLife!ONext \/ UNCHANGED SecretLife!ovars
    BY DEF SecretLife!ovars
  <2>1. LedgerTypeOK /\ LedgerTypeOK' /\ ((ProjectEvent /\ First \in LedgerEvents) \/ UNCHANGED rows)
    BY OneFold DEF IInv
  <2>2. CASE secrets' = secrets
    BY <2>2 DEF SecretLife!ovars
  <2>3. CASE secrets' # secrets
    <3>1. ProjectEvent /\ First \in LedgerEvents
      BY <2>1, <2>3 DEF rows
    <3> DEFINE t == First.id
               q == SecretRow(secrets[t], First)
    <3>2. First.family = "secret" /\ t \in Secrets /\ secrets' = [secrets EXCEPT ![t] = q]
      BY <2>1, <2>3, <3>1, FoldSecrets
    <3>3. secrets \in [Secrets -> SecretRecord] /\ q \in SecretRecord
      BY <2>1, <3>1, <3>2, SecretRowFacts DEF LedgerTypeOK
    <3>4. Moves(SecretState(secrets[t]), SecretState(q), 0, 0, {"revealed"})
      BY <3>1, <3>2, <3>3, SecretRowFacts
    <3> HIDE DEF t, q
    <3> DEFINE S == [i \in Secrets |-> SecretState(secrets[i])]
               W == [i \in Secrets |-> 0]
    <3>5. /\ S' = [S EXCEPT ![t] = SecretState(q)] /\ W' = [W EXCEPT ![t] = 0]
          /\ S[t] = SecretState(secrets[t]) /\ W[t] = 0
      BY <3>2, <3>3 DEF SecretState
    <3>6. S \in [Secrets -> {SecretState(r) : r \in SecretRecord}] /\ W \in [Secrets -> Nat]
      BY <3>3 DEF SecretRecord
    <3> HIDE DEF S, W
    <3>7. \/ S' = S /\ W' = W
          \/ S[t] = "none" /\ S' = [S EXCEPT ![t] = "open"] /\ W' = W
          \/ S[t] = "open" /\ W' = [W EXCEPT ![t] = @ + 1] /\ S' = S
          \/ \E way \in {"revealed"} :
               S[t] = "open" /\ S' = [S EXCEPT ![t] = way] /\ W' = W
      BY <3>2, <3>4, <3>5, <3>6 DEF Moves
    <3> QED
      BY <3>2, <3>7 DEF S, W, SecretState, SecretLife!ONext, SecretLife!Open, SecretLife!Work,
        SecretLife!Close, SecretLife!ovars
  <2> QED BY <2>2, <2>3
<1> QED BY <1>1, <1>2, Always, PTL DEF LedgerSpec, SecretLife!OSpec, SecretsRunTheirCourse

(* Hands implement Obligation: the first to close a hand has it. *)
THEOREM HandsImplementObligation == LedgerSpec => HandsRunTheirCourse
<1>1. LedgerInit => HandLife!OInit
  BY DEF LedgerInit, HandLife!OInit
<1>2. IInv /\ [LedgerNext]_ledgerVars => [HandLife!ONext]_(HandLife!ovars)
  <2> SUFFICES ASSUME IInv, [LedgerNext]_ledgerVars
               PROVE  HandLife!ONext \/ UNCHANGED HandLife!ovars
    BY DEF HandLife!ovars
  <2>1. LedgerTypeOK /\ LedgerTypeOK' /\ ((ProjectEvent /\ First \in LedgerEvents) \/ UNCHANGED rows)
    BY OneFold DEF IInv
  <2>2. CASE hands' = hands
    BY <2>2 DEF HandLife!ovars
  <2>3. CASE hands' # hands
    <3>1. ProjectEvent /\ First \in LedgerEvents
      BY <2>1, <2>3 DEF rows
    <3> DEFINE t == First.id
               q == HandRow(hands[t], First)
    <3>2. First.family = "hand" /\ t \in Hands /\ hands' = [hands EXCEPT ![t] = q]
      BY <2>1, <2>3, <3>1, FoldHands
    <3>3. hands \in [Hands -> InspirationHandRecord] /\ q \in InspirationHandRecord
      BY <2>1, <3>1, <3>2, HandRowFacts DEF LedgerTypeOK
    <3>4. Moves(HandState(hands[t]), HandState(q), 0, 0, {"consumed", "superseded"})
      BY <3>1, <3>2, <3>3, HandRowFacts
    <3> HIDE DEF t, q
    <3> DEFINE S == [i \in Hands |-> HandState(hands[i])]
               W == [i \in Hands |-> 0]
    <3>5. /\ S' = [S EXCEPT ![t] = HandState(q)] /\ W' = [W EXCEPT ![t] = 0]
          /\ S[t] = HandState(hands[t]) /\ W[t] = 0
      BY <3>2, <3>3 DEF HandState
    <3>6. S \in [Hands -> {HandState(r) : r \in InspirationHandRecord}] /\ W \in [Hands -> Nat]
      BY <3>3 DEF InspirationHandRecord
    <3> HIDE DEF S, W
    <3>7. \/ S' = S /\ W' = W
          \/ S[t] = "none" /\ S' = [S EXCEPT ![t] = "open"] /\ W' = W
          \/ S[t] = "open" /\ W' = [W EXCEPT ![t] = @ + 1] /\ S' = S
          \/ \E way \in {"consumed", "superseded"} :
               S[t] = "open" /\ S' = [S EXCEPT ![t] = way] /\ W' = W
      BY <3>2, <3>4, <3>5, <3>6 DEF Moves
    <3> QED
      BY <3>2, <3>7 DEF S, W, HandState, HandLife!ONext, HandLife!Open, HandLife!Work,
        HandLife!Close, HandLife!ovars
  <2> QED BY <2>2, <2>3
<1> QED BY <1>1, <1>2, Always, PTL DEF LedgerSpec, HandLife!OSpec, HandsRunTheirCourse

(* The ledger implements Obligation four times over: every thread, promise,
   secret and hand is opened once, works only while it is open, and what the
   handlers close stays closed. *)
THEOREM LedgerImplementsObligation == LedgerSpec => ObligationsRunTheirCourse
BY ThreadsImplementObligation, PromisesImplementObligation, SecretsImplementObligation,
   HandsImplementObligation DEF ObligationsRunTheirCourse
=============================================================================
