------------------------------ MODULE CanonStore ------------------------------
(***************************************************************************)
(* world.db: the event store (canon/event_store.py) and the projector      *)
(* (canon/projector.py) of every process that has the story open, over one *)
(* SQLite file.                                                            *)
(*                                                                         *)
(* Each process has two writing connections, one for the event store and   *)
(* one for the projector, each guarded by an asyncio.Lock.  Coroutines of  *)
(* a process interleave at every await: "appenders" call EventStore.append,*)
(* "folders" call Projector.catch_up (the TUI's projector loop, the        *)
(* approval screen, a headless command at start).  SQLite lets one         *)
(* connection write at a time; a connection sees its own uncommitted       *)
(* writes, the others see only what is committed.                          *)
(***************************************************************************)
EXTENDS Naturals, Sequences

CONSTANTS
  Procs,           \* processes with the story open
  Appenders,       \* coroutines that call EventStore.append
  Folders,         \* coroutines that call Projector.catch_up
  Home,            \* the process of each coroutine
  Events,          \* the events that may be appended, each at most once
  Poison,          \* the events whose projection handler raises every time
  Attempts,        \* retry_locked's number of attempts
  BusyCommit,      \* may a COMMIT report "database is locked"?
  MayRebuild,      \* is the projector's _reset_state helper called?
  MaxFaults,       \* bound: crashes and rebuilds in a behaviour
  MaxFolded,       \* bound: no catch_up starts with a longer fold than this
  Free             \* the holder of a lock nobody holds

ASSUME StoreAssumption ==
  /\ Home \in [Appenders \cup Folders -> Procs]
  /\ Events # {} /\ Poison \subseteq Events
  /\ Attempts \in Nat \ {0}
  /\ BusyCommit \in BOOLEAN /\ MayRebuild \in BOOLEAN
  /\ MaxFaults \in Nat
  /\ MaxFolded \in Nat
  /\ Appenders \cap Folders = {}
  /\ Free \notin Appenders \cup Folders

VARIABLES
  log,     \* events: the committed rows, indexed by their sequence
  folded,  \* the events in the committed projection tables, in fold order
  cursor,  \* projector_state.last_sequence, committed
  \* the event store of each process
  issued,  \* events whose append has begun
  acked,   \* [seq, ev]: the appends that returned to their caller
  slock,   \* EventStore._write_lock of each process
  stx,     \* rows inserted and not committed on the store's connection
  sview,   \* what of the log that connection's reads show
  apc, aev, atry,          \* appender: control state, its event, attempt
  \* the projector of each process
  plock,   \* Projector._write_lock of each process
  ptx,     \* the open transaction on the projector's connection
  fpc, flast, fbatch, ftry,  \* folder: control state, last, events, attempt
  faults   \* crashes and rebuilds so far

storeVars == <<issued, acked, slock, stx, sview, apc, aev, atry>>
projVars == <<plock, ptx, fpc, flast, fbatch, ftry>>
vars == <<log, folded, cursor, storeVars, projVars, faults>>

(* A read on the store's connection shows the log as it is, unless a refused
   INSERT left a transaction "begun" there: the first read in it then pins
   what every later read shows, until the next append rolls it back. *)
Current == [kind |-> "current", len |-> 0]
Begun == [kind |-> "begun", len |-> 0]
Pin(view) ==
  IF view.kind = "begun" THEN [kind |-> "pinned", len |-> Len(log)] ELSE view

NoTxn == [open |-> FALSE, rows |-> <<>>, cur |-> 0]

(* SQLite's single writer: a connection may write when no other connection,
   of any process, is in a write transaction. *)
StoreMayWrite(p) ==
  \A q \in Procs : (q # p => stx[q] = <<>>) /\ ~ ptx[q].open

ProjectorMayWrite(p) ==
  \A q \in Procs : stx[q] = <<>> /\ (q # p => ~ ptx[q].open)

Init ==
  /\ log = <<>> /\ folded = <<>> /\ cursor = 0
  /\ issued = {} /\ acked = {} /\ faults = 0
  /\ slock = [p \in Procs |-> Free]
  /\ stx = [p \in Procs |-> <<>>]
  /\ sview = [p \in Procs |-> Current]
  /\ apc = [a \in Appenders |-> "idle"]
  /\ aev = [a \in Appenders |-> CHOOSE e \in Events : TRUE]
  /\ atry = [a \in Appenders |-> 1]
  /\ plock = [p \in Procs |-> Free]
  /\ ptx = [p \in Procs |-> NoTxn]
  /\ fpc = [f \in Folders |-> "idle"]
  /\ flast = [f \in Folders |-> 0]
  /\ fbatch = [f \in Folders |-> <<>>]
  /\ ftry = [f \in Folders |-> 1]

-----------------------------------------------------------------------------
(* EventStore._insert                                                      *)

(* mutant: append without its lock *)
StartAppendNoLock(a, e) ==
  /\ apc[a] = "idle" /\ e \notin issued
  /\ issued' = issued \cup {e}
  /\ slock' = [slock EXCEPT ![Home[a]] = a]
  /\ apc' = [apc EXCEPT ![a] = "enter"]
  /\ aev' = [aev EXCEPT ![a] = e]
  /\ atry' = [atry EXCEPT ![a] = 1]
  /\ UNCHANGED <<log, folded, cursor, acked, stx, sview, projVars, faults>>

(* async with self._write_lock *)
StartAppend(a, e) ==
  /\ apc[a] = "idle" /\ slock[Home[a]] = Free /\ e \notin issued
  /\ issued' = issued \cup {e}
  /\ slock' = [slock EXCEPT ![Home[a]] = a]
  /\ apc' = [apc EXCEPT ![a] = "enter"]
  /\ aev' = [aev EXCEPT ![a] = e]
  /\ atry' = [atry EXCEPT ![a] = 1]
  /\ UNCHANGED <<log, folded, cursor, acked, stx, sview, projVars, faults>>

(* txn(): roll back whatever an earlier attempt left open *)
EnterAppend(a) ==
  /\ apc[a] = "enter"
  /\ stx' = [stx EXCEPT ![Home[a]] = <<>>]
  /\ sview' = [sview EXCEPT ![Home[a]] = Current]
  /\ apc' = [apc EXCEPT ![a] = "insert"]
  /\ UNCHANGED <<log, folded, cursor, issued, acked, slock, aev, atry, projVars, faults>>

(* INSERT, which opens the transaction and takes SQLite's write lock *)
Insert(a) ==
  /\ apc[a] = "insert" /\ StoreMayWrite(Home[a])
  /\ stx' = [stx EXCEPT ![Home[a]] = Append(@, aev[a])]
  /\ apc' = [apc EXCEPT ![a] = "commit"]
  /\ UNCHANGED <<log, folded, cursor, issued, acked, slock, sview, aev, atry,
                 projVars, faults>>

(* COMMIT; the caller gets the StoredEvent with its sequence *)
CommitAppend(a) ==
  /\ apc[a] = "commit"
  /\ log' = log \o stx[Home[a]]
  /\ stx' = [stx EXCEPT ![Home[a]] = <<>>]
  /\ acked' = acked \cup {[seq |-> Len(log) + 1, ev |-> aev[a]]}
  /\ slock' = [slock EXCEPT ![Home[a]] = Free]
  /\ apc' = [apc EXCEPT ![a] = "idle"]
  /\ UNCHANGED <<folded, cursor, issued, sview, aev, atry, projVars, faults>>

(* retry_locked when "database is locked": enter txn() again, or raise to the
   caller once the attempts are used up, with the lock released.  The refused
   INSERT leaves the transaction it began open, a refused COMMIT its row. *)
RetryAppend(a) ==
  /\ \/ /\ apc[a] = "insert" /\ ~ StoreMayWrite(Home[a])
        /\ sview' = [sview EXCEPT ![Home[a]] = Begun]
     \/ apc[a] = "commit" /\ BusyCommit /\ UNCHANGED sview
  /\ \/ /\ atry[a] < Attempts
        /\ atry' = [atry EXCEPT ![a] = @ + 1]
        /\ apc' = [apc EXCEPT ![a] = "enter"]
        /\ UNCHANGED slock
     \/ /\ atry[a] = Attempts
        /\ apc' = [apc EXCEPT ![a] = "idle"]
        /\ slock' = [slock EXCEPT ![Home[a]] = Free]
        /\ UNCHANGED atry
  /\ UNCHANGED <<log, folded, cursor, issued, acked, stx, aev, projVars, faults>>

(* any other read on the store's connection, as the TUI's feed makes *)
FeedRead(p) ==
  /\ sview' = [sview EXCEPT ![p] = Pin(@)]
  /\ UNCHANGED <<log, folded, cursor, issued, acked, slock, stx, apc, aev, atry,
                 projVars, faults>>

-----------------------------------------------------------------------------
(* Projector.catch_up                                                      *)

(* mutant: catch_up without its lock *)
StartCatchUpNoLock(f) ==
  /\ fpc[f] = "idle"
  /\ Len(folded) <= MaxFolded
  /\ plock' = [plock EXCEPT ![Home[f]] = f]
  /\ fpc' = [fpc EXCEPT ![f] = "cursor"]
  /\ UNCHANGED <<log, folded, cursor, storeVars, ptx, flast, fbatch, ftry, faults>>

(* async with self._write_lock *)
StartCatchUp(f) ==
  /\ fpc[f] = "idle" /\ plock[Home[f]] = Free
  /\ Len(folded) <= MaxFolded
  /\ plock' = [plock EXCEPT ![Home[f]] = f]
  /\ fpc' = [fpc EXCEPT ![f] = "cursor"]
  /\ UNCHANGED <<log, folded, cursor, storeVars, ptx, flast, fbatch, ftry, faults>>

(* _last_sequence, outside any transaction of its own: a transaction left
   open on this connection is what it sees *)
ReadCursor(f) ==
  /\ fpc[f] = "cursor"
  /\ flast' = [flast EXCEPT ![f] =
                 IF ptx[Home[f]].open THEN ptx[Home[f]].cur ELSE cursor]
  /\ fpc' = [fpc EXCEPT ![f] = "events"]
  /\ UNCHANGED <<log, folded, cursor, storeVars, plock, ptx, fbatch, ftry, faults>>

(* events_since on the store's connection, which sees its own uncommitted row *)
Visible(p) ==
  IF sview[p].kind = "pinned" THEN SubSeq(log, 1, sview[p].len) ELSE log \o stx[p]

(* mutant: events_since starts one event too late *)
ReadEventsTooLate(f) ==
  LET rows == SubSeq(Visible(Home[f]), flast[f] + 2, Len(Visible(Home[f])))
  IN /\ fpc[f] = "events"
     /\ fbatch' = [fbatch EXCEPT ![f] = rows]
     /\ ftry' = [ftry EXCEPT ![f] = 1]
     /\ fpc' = [fpc EXCEPT ![f] = IF rows = <<>> THEN "idle" ELSE "enter"]
     /\ plock' = [plock EXCEPT ![Home[f]] = IF rows = <<>> THEN Free ELSE @]
     /\ UNCHANGED <<log, folded, cursor, storeVars, ptx, flast, faults>>

ReadEvents(f) ==
  LET rows == SubSeq(Visible(Home[f]), flast[f] + 1, Len(Visible(Home[f])))
  IN /\ fpc[f] = "events"
     /\ sview' = [sview EXCEPT ![Home[f]] = Pin(@)]
     /\ fbatch' = [fbatch EXCEPT ![f] = rows]
     /\ ftry' = [ftry EXCEPT ![f] = 1]
     /\ fpc' = [fpc EXCEPT ![f] = IF rows = <<>> THEN "idle" ELSE "enter"]
     /\ plock' = [plock EXCEPT ![Home[f]] = IF rows = <<>> THEN Free ELSE @]
     /\ UNCHANGED <<log, folded, cursor, issued, acked, slock, stx, apc, aev, atry,
                    ptx, flast, faults>>

(* _apply's txn(): ROLLBACK if in_transaction *)
EnterApply(f) ==
  /\ fpc[f] = "enter"
  /\ ptx' = [ptx EXCEPT ![Home[f]] = NoTxn]
  /\ fpc' = [fpc EXCEPT ![f] = "begin"]
  /\ UNCHANGED <<log, folded, cursor, storeVars, plock, flast, fbatch, ftry, faults>>

(* BEGIN IMMEDIATE *)
BeginApply(f) ==
  /\ fpc[f] = "begin" /\ ProjectorMayWrite(Home[f])
  /\ ptx' = [ptx EXCEPT ![Home[f]] = [open |-> TRUE, rows |-> <<>>, cur |-> cursor]]
  /\ fpc' = [fpc EXCEPT ![f] = "project"]
  /\ UNCHANGED <<log, folded, cursor, storeVars, plock, flast, fbatch, ftry, faults>>

(* _project, then UPDATE projector_state, both inside the transaction *)
Project(f) ==
  /\ fpc[f] = "project" /\ Head(fbatch[f]) \notin Poison
  /\ ptx' = [ptx EXCEPT ![Home[f]] =
               [open |-> TRUE, rows |-> <<Head(fbatch[f])>>, cur |-> flast[f] + 1]]
  /\ fpc' = [fpc EXCEPT ![f] = "commit"]
  /\ UNCHANGED <<log, folded, cursor, storeVars, plock, flast, fbatch, ftry, faults>>

(* the handler raises: catch_up raises, the transaction stays open *)
ProjectRaises(f) ==
  /\ fpc[f] = "project" /\ Head(fbatch[f]) \in Poison
  /\ fpc' = [fpc EXCEPT ![f] = "idle"]
  /\ plock' = [plock EXCEPT ![Home[f]] = Free]
  /\ UNCHANGED <<log, folded, cursor, storeVars, ptx, flast, fbatch, ftry, faults>>

(* mutant: the cursor is saved once, after the batch (a bug this code had) *)
CommitApplyWithoutCursor(f) ==
  /\ fpc[f] = "commit"
  /\ folded' = folded \o ptx[Home[f]].rows
  /\ ptx' = [ptx EXCEPT ![Home[f]] = NoTxn]
  /\ flast' = [flast EXCEPT ![f] = @ + 1]
  /\ fbatch' = [fbatch EXCEPT ![f] = Tail(@)]
  /\ ftry' = [ftry EXCEPT ![f] = 1]
  /\ cursor' = IF Tail(fbatch[f]) = <<>> THEN ptx[Home[f]].cur ELSE cursor
  /\ fpc' = [fpc EXCEPT ![f] = IF Tail(fbatch[f]) = <<>> THEN "idle" ELSE "enter"]
  /\ plock' = [plock EXCEPT ![Home[f]] = IF Tail(fbatch[f]) = <<>> THEN Free ELSE @]
  /\ UNCHANGED <<log, storeVars, faults>>

(* COMMIT, then the next event of the batch *)
CommitApply(f) ==
  /\ fpc[f] = "commit"
  /\ folded' = folded \o ptx[Home[f]].rows
  /\ cursor' = ptx[Home[f]].cur
  /\ ptx' = [ptx EXCEPT ![Home[f]] = NoTxn]
  /\ flast' = [flast EXCEPT ![f] = @ + 1]
  /\ fbatch' = [fbatch EXCEPT ![f] = Tail(@)]
  /\ ftry' = [ftry EXCEPT ![f] = 1]
  /\ fpc' = [fpc EXCEPT ![f] = IF Tail(fbatch[f]) = <<>> THEN "idle" ELSE "enter"]
  /\ plock' = [plock EXCEPT ![Home[f]] = IF Tail(fbatch[f]) = <<>> THEN Free ELSE @]
  /\ UNCHANGED <<log, storeVars, faults>>

(* retry_locked around _apply, as for an append *)
RetryApply(f) ==
  /\ \/ fpc[f] = "begin" /\ ~ ProjectorMayWrite(Home[f])
     \/ fpc[f] = "commit" /\ BusyCommit
  /\ \/ /\ ftry[f] < Attempts
        /\ ftry' = [ftry EXCEPT ![f] = @ + 1]
        /\ fpc' = [fpc EXCEPT ![f] = "enter"]
        /\ UNCHANGED plock
     \/ /\ ftry[f] = Attempts
        /\ fpc' = [fpc EXCEPT ![f] = "idle"]
        /\ plock' = [plock EXCEPT ![Home[f]] = Free]
        /\ UNCHANGED ftry
  /\ UNCHANGED <<log, folded, cursor, storeVars, ptx, flast, fbatch, faults>>

-----------------------------------------------------------------------------
(* _reset_state: every projection table emptied and the cursor put back to 0
   in one transaction, under the projector's lock *)
ResetState(p) ==
  /\ MayRebuild /\ faults < MaxFaults
  /\ plock[p] = Free
  /\ ProjectorMayWrite(p)
  /\ folded' = <<>>
  /\ cursor' = 0
  /\ ptx' = [ptx EXCEPT ![p] = NoTxn]
  /\ faults' = faults + 1
  /\ UNCHANGED <<log, storeVars, plock, fpc, flast, fbatch, ftry>>

(* A process ends, at any point: SQLite rolls back its open transactions and
   its coroutines are gone.  It may start again at once. *)
Crash(p) ==
  /\ faults < MaxFaults
  /\ faults' = faults + 1
  /\ slock' = [slock EXCEPT ![p] = Free]
  /\ plock' = [plock EXCEPT ![p] = Free]
  /\ stx' = [stx EXCEPT ![p] = <<>>]
  /\ sview' = [sview EXCEPT ![p] = Current]
  /\ ptx' = [ptx EXCEPT ![p] = NoTxn]
  /\ apc' = [a \in Appenders |-> IF Home[a] = p THEN "idle" ELSE apc[a]]
  /\ fpc' = [f \in Folders |-> IF Home[f] = p THEN "idle" ELSE fpc[f]]
  /\ UNCHANGED <<log, folded, cursor, issued, acked, aev, atry, flast, fbatch, ftry>>

Appending(a) == EnterAppend(a) \/ Insert(a) \/ CommitAppend(a) \/ RetryAppend(a)

Folding(f) ==
  \/ StartCatchUp(f) \/ ReadCursor(f) \/ ReadEvents(f) \/ EnterApply(f)
  \/ BeginApply(f) \/ Project(f) \/ ProjectRaises(f) \/ CommitApply(f)
  \/ RetryApply(f)

Next ==
  \/ \E a \in Appenders : \E e \in Events : StartAppend(a, e)
  \/ \E a \in Appenders : Appending(a)
  \/ \E f \in Folders : Folding(f)
  \/ \E p \in Procs : FeedRead(p) \/ ResetState(p) \/ Crash(p)

Spec == Init /\ [][Next]_vars

(* The event loop runs every coroutine that can run, and the TUI's projector
   loop calls catch_up again after each pass, whether it returned or raised.
   Nothing makes an agent append, a process die or a rebuild happen. *)
FairSpec ==
  /\ Spec
  /\ \A a \in Appenders : WF_vars(Appending(a))
  /\ \A f \in Folders : WF_vars(Folding(f))

-----------------------------------------------------------------------------
(* inside catch_up's loop over the events it read *)
InLoop(f) == fpc[f] \in {"enter", "begin", "project", "commit"}

(* Types, and: a coroutine inside the loop has an event at hand, a pinned read
   shows what was once the log. *)
TypeOK ==
  /\ log \in Seq(Events) /\ folded \in Seq(Events) /\ cursor \in Nat
  /\ issued \subseteq Events
  /\ acked \subseteq [seq : Nat, ev : Events]
  /\ slock \in [Procs -> Appenders \cup {Free}]
  /\ stx \in [Procs -> Seq(Events)]
  /\ sview \in [Procs -> [kind : {"current", "begun", "pinned"}, len : Nat]]
  /\ apc \in [Appenders -> {"idle", "enter", "insert", "commit"}]
  /\ aev \in [Appenders -> Events]
  /\ atry \in [Appenders -> 1 .. Attempts]
  /\ plock \in [Procs -> Folders \cup {Free}]
  /\ ptx \in [Procs -> [open : BOOLEAN, rows : Seq(Events), cur : Nat]]
  /\ fpc \in [Folders -> {"idle", "cursor", "events", "enter", "begin",
                          "project", "commit"}]
  /\ flast \in [Folders -> Nat]
  /\ fbatch \in [Folders -> Seq(Events)]
  /\ ftry \in [Folders -> 1 .. Attempts]
  /\ faults \in 0 .. MaxFaults
  /\ \A f \in Folders : InLoop(f) => fbatch[f] # <<>>
  /\ \A p \in Procs : sview[p].len <= Len(log)

(* The read model contains exactly the events up to the cursor, once each and
   in log order, whatever coroutines, retries, raising handlers, crashes and
   rebuilds did: "projection and position are one fact". *)
ExactFold ==
  /\ cursor <= Len(log)
  /\ folded = SubSeq(log, 1, cursor)

(* The cursor never claims an event the read model has not folded, with any
   number of processes projecting at once, where ExactFold speaks of one. *)
NoEventSkipped ==
  /\ cursor <= Len(log)
  /\ \A i \in 1 .. cursor : \E j \in DOMAIN folded : folded[j] = log[i]

(* An append that returned is in the log, at the sequence it returned, even
   when another coroutine's rollback or a crash came right after. *)
AckedIsDurable ==
  \A r \in acked : r.seq \in DOMAIN log /\ log[r.seq] = r.ev

(* Retrying an append whose COMMIT was refused never writes the event twice. *)
AppendedOnce ==
  \A i, j \in DOMAIN log : log[i] = log[j] => i = j

(* Every event that reaches the log with no unprojectable event at or before
   it is eventually in the read model. *)
ReachableInLog(e) ==
  \E i \in DOMAIN log : log[i] = e /\ \A k \in 1 .. i : log[k] \notin Poison

EveryEventFolded ==
  \A e \in Events :
     ReachableInLog(e) ~> (\E j \in DOMAIN folded : folded[j] = e)

(* No append waits forever: it returns or raises, even while a projector that
   keeps failing on one event holds SQLite's write lock between its passes. *)
AppendsSettle ==
  \A a \in Appenders : (apc[a] # "idle") ~> (apc[a] = "idle")

(* Both: neither the fold nor an append is held up for good. *)
EverythingSettles == EveryEventFolded /\ AppendsSettle

(* The abstract read model over this log and this fold. *)
RM == INSTANCE ReadModel WITH Events <- Events, Poison <- Poison,
                             log <- log, folded <- folded

(* With one process projecting, the store implements the abstract read model:
   the log grows at its end and the fold takes its next event or is emptied. *)
ImplementsReadModel == RM!RSpec

-----------------------------------------------------------------------------
(* The inductive invariant behind the properties above.                    *)

(* A coroutine holds its connection's lock exactly while it is at work; the
   store's open transaction is the holder's own single row. *)
StoreInv ==
  \A a \in Appenders :
    /\ apc[a] # "idle" <=> slock[Home[a]] = a
    /\ apc[a] = "insert" => stx[Home[a]] = <<>>
    /\ apc[a] = "commit" => stx[Home[a]] = <<aev[a]>>
    /\ apc[a] \in {"insert", "commit"} => sview[Home[a]].kind = "current"

(* A transaction a refused INSERT began holds no row. *)
ViewInv == \A p \in Procs : sview[p].kind # "current" => stx[p] = <<>>

(* An event at hand is in no other append's hands and not in the log yet. *)
OnceInv ==
  /\ AppendedOnce
  /\ \A i \in DOMAIN log : log[i] \in issued
  /\ \A a \in Appenders : apc[a] # "idle" =>
       /\ aev[a] \in issued
       /\ \A i \in DOMAIN log : log[i] # aev[a]
       /\ \A b \in Appenders \ {a} : apc[b] # "idle" => aev[b] # aev[a]

(* Where no COMMIT is refused, an append leaves no transaction behind. *)
NoLeftover ==
  \A p \in Procs :
    stx[p] # <<>> => \E a \in Appenders : Home[a] = p /\ apc[a] = "commit"

(* One write transaction at a time, over all connections. *)
OneWriter ==
  \A p, q \in Procs :
    /\ ptx[p].open => stx[q] = <<>>
    /\ p # q => /\ ~ (ptx[p].open /\ ptx[q].open)
                /\ stx[p] # <<>> => stx[q] = <<>>

(* A folder holds the projector's lock exactly while it is at work. *)
FolderLocks == \A f \in Folders : fpc[f] # "idle" <=> plock[Home[f]] = f

(* What the projector's transaction holds between BEGIN and COMMIT. *)
FolderTxn ==
  \A f \in Folders :
    /\ fpc[f] = "begin" => ~ ptx[Home[f]].open
    /\ fpc[f] \in {"project", "commit"} => ptx[Home[f]].open
    /\ fpc[f] = "commit" =>
         /\ ptx[Home[f]].rows = <<Head(fbatch[f])>>
         /\ ptx[Home[f]].cur = flast[f] + 1
         /\ Head(fbatch[f]) \notin Poison

(* Before Project, and after a handler raised, which leaves the transaction
   open, the cursor in it is the committed one. *)
OpenCursor ==
  \A p \in Procs :
    ptx[p].open => \/ ptx[p].cur = cursor
                   \/ \E f \in Folders : Home[f] = p /\ fpc[f] = "commit"

Exclusion == NoLeftover /\ OneWriter /\ FolderLocks /\ FolderTxn /\ OpenCursor

(* The batch a folder holds is what its store shows after flast, still. *)
BatchInv ==
  \A f \in Folders : InLoop(f) =>
    \A i \in 1 .. Len(fbatch[f]) :
      /\ flast[f] + i <= Len(Visible(Home[f]))
      /\ Visible(Home[f])[flast[f] + i] = fbatch[f][i]

(* One process: the cursor a folder read is the cursor until it commits. *)
AtCursor(f) == fpc[f] = "events" \/ InLoop(f)
SoleReader == \A f \in Folders : AtCursor(f) => flast[f] = cursor

(* Any processes: what a folder takes for the cursor has been folded. *)
Covered(n) ==
  /\ n <= Len(log)
  /\ \A i \in 1 .. n : \E j \in DOMAIN folded : folded[j] = log[i]
CoveredReaders == \A f \in Folders : AtCursor(f) => Covered(flast[f])
=============================================================================
