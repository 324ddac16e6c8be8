----------------------------- MODULE Telemetry -----------------------------
(* How the machinery records what agents do (novelizer/telemetry): a run is bracketed
   by a start and a terminal event, the calls and tools within it report through
   LangChain's callbacks, and streamed tokens are buffered until an event that ends a
   segment writes them out.  Every event goes to the telemetry log first and to the
   bus then, where the app's queue drops its oldest item when it is full.  Several
   tools or delegates of a run report at once; the appends wait for the store's lock
   in the order they were asked for.  A run that is cancelled, the process that dies
   and a store that refuses a write each leave something out. *)
EXTENDS Integers, Sequences, SequencesExt, FiniteSets

CONSTANTS
  Agents,
  None,
  FLUSH_CHARS, \* SEGMENT_FLUSH_CHARS, in tokens
  MAX_SIZE,    \* the bus queue of the app
  Scenes       \* what an instance has of everything, its bounds

(* cast: whose runs they are, in their order; inputs: what tools are called with; acts: calls and
   tools in all; said: the tokens of each run at most, of the kinds "flow"; ills: troubles;
   looks: how often the reader scrolls; up: whether the app is there before the first run *)
ASSUME TelemetryAssumption ==
  /\ FLUSH_CHARS \in Nat \ {0} /\ MAX_SIZE \in Nat \ {0}
  /\ \A s \in Scenes :
       /\ s.cast \in Seq(Agents) /\ None \notin s.inputs /\ s.flow \subseteq {"text", "thinking"}
       /\ {s.upto, s.said, s.ills, s.looks} \subseteq Nat /\ s.up \in BOOLEAN
  /\ None \notin [run : Nat, kind : {"text", "thinking"}, text : Seq(Nat)] \* it is no segment

VARIABLES
  scene,
  store,    \* the telemetry log
  queue,    \* the app's subscription to the bus, None before it is there
  runs,     \* [agent, st], in the order they were started
  acts,     \* their model calls and tool calls: [run, kind, call, st]
  segments, \* the open segment of each run, or None
  flushes,  \* segments of each run that wait to be written: [run, kind, text]
  open,     \* runs with a model call open, as the recorder tracks them
  counts,   \* model calls of each run, for call_index
  writing,  \* emits under way, in the order of their appends: [ev, segs]
  tokens,   \* tokens streamed of each run; a token is known by its number
  harmed,   \* history: runs of which the store may have missed something
  heard,    \* history: runs of which the app's queue took everything so far
  troubles

recorder == <<segments, flushes, open, counts>>
telemetryVars ==
  <<scene, store, queue, runs, acts, segments, flushes, open, counts, writing, tokens, harmed, heard, troubles>>

Runs == DOMAIN scene.cast
Kinds == scene.flow

-----------------------------------------------------------------------------
(* Events; "who" says which run or call it is whose callback waits for it *)
Ev(type, r, who, call) ==
  [type |-> type, run |-> r, who |-> who, call |-> call, text |-> <<>>, kind |-> "text"]
Segment(s) ==
  [type |-> "output_segment", run |-> s.run, who |-> 0, call |-> None, text |-> s.text, kind |-> s.kind]
Delta(r, n, kind) ==
  [type |-> "delta", run |-> r, who |-> 0, call |-> None, text |-> <<n>>, kind |-> kind, seq |-> 0]

RunEnds == {"run_finished", "run_failed", "run_cancelled"}
RunEvents == {"run_started"} \cup RunEnds
ActEnds == [call |-> {"call_finished", "call_failed"}, tool |-> {"tool_finished", "tool_failed"}]
Boundaries == {"call_finished", "call_failed", "tool_started"} \cup RunEnds

(* An event as it is published, with its number in the store, -1 if it is not there. *)
Item(e, n) ==
  [type |-> e.type, run |-> e.run, who |-> e.who, call |-> e.call, text |-> e.text, kind |-> e.kind, seq |-> n]

(* Publishing: a full queue loses its oldest item, and whom it was about is not heard
   whole any more *)
PublishLoss(q) == IF q # None /\ Len(q) = MAX_SIZE THEN {Head(q).run} ELSE {}
Push(q, item) ==
  IF q = None THEN None ELSE Append(IF Len(q) = MAX_SIZE THEN Tail(q) ELSE q, item)
Publish(item) ==
  /\ queue' = Push(queue, item)
  /\ heard' = (IF queue = None THEN heard \ {item.run}
               ELSE heard \cup (IF item.type = "run_started" THEN {item.run} ELSE {})) \ PublishLoss(queue)

-----------------------------------------------------------------------------
(* The recorder *)
TrackOpen(e) ==
  IF e.type = "call_started" THEN open \cup {e.run}
  ELSE IF e.type \in {"call_finished", "call_failed"} \cup RunEnds THEN open \ {e.run} ELSE open
TrackCounts(e) == IF e.type \in RunEnds THEN [counts EXCEPT ![e.run] = 0] ELSE counts

TakenWithoutQueued(r) == IF segments[r] = None THEN <<>> ELSE <<segments[r]>>
(* flush_segment takes all that is buffered of the run before it writes any of it *)
Taken(r) ==
  flushes[r] \o (IF segments[r] = None THEN <<>> ELSE <<segments[r]>>)

(* emit, as far as its first append: with segments to write, what the event means for
   the books is noted when the last of them is *)
EmitWith(e, others, newCounts) ==
  LET segs == IF e.type \in Boundaries THEN Taken(e.run) ELSE <<>> IN
  /\ writing' = Append(others, [ev |-> e, segs |-> segs])
  /\ IF e.type \in Boundaries
     THEN /\ flushes' = [flushes EXCEPT ![e.run] = <<>>]
          /\ segments' = [segments EXCEPT ![e.run] = None]
     ELSE UNCHANGED <<flushes, segments>>
  /\ IF segs = <<>>
     THEN open' = TrackOpen(e) /\ counts' = (IF e.type \in RunEnds THEN [newCounts EXCEPT ![e.run] = 0] ELSE newCounts)
     ELSE open' = open /\ counts' = newCounts
Emit(e) == EmitWith(e, writing, counts)

(* The first append that waits is done, and its event published; a refused one is
   published all the same.  The emit asks for its next append, or returns. *)
Returned(j) ==
  IF j.ev.who = 0
  THEN /\ runs' = [runs EXCEPT ![j.ev.run].st = IF @ = "starting" THEN "live" ELSE "over"]
       /\ acts' = acts
  ELSE /\ acts' = [acts EXCEPT ![j.ev.who].st = IF @ = "starting" THEN "open" ELSE "over"]
       /\ runs' = runs

Write(stored) ==
  /\ writing # <<>>
  /\ LET j == Head(writing)
         e == IF j.segs = <<>> THEN j.ev ELSE Segment(Head(j.segs))
     IN /\ store' = IF stored THEN Append(store, e) ELSE store
        /\ Publish(Item(e, IF stored THEN Len(store) + 1 ELSE -1))
        /\ IF j.segs = <<>>
           THEN writing' = Tail(writing) /\ Returned(j) /\ UNCHANGED <<open, counts>>
           ELSE /\ writing' = Append(Tail(writing), [j EXCEPT !.segs = Tail(@)])
                /\ IF Len(j.segs) = 1 THEN open' = TrackOpen(j.ev) /\ counts' = TrackCounts(j.ev)
                   ELSE UNCHANGED <<open, counts>>
                /\ UNCHANGED <<runs, acts>>
        /\ harmed' = IF stored THEN harmed ELSE harmed \cup {e.run}
  /\ UNCHANGED <<scene, segments, flushes, tokens>>
Store == Write(TRUE) /\ UNCHANGED troubles

Trouble == troubles < scene.ills /\ troubles' = troubles + 1
StoreRefuses == Trouble /\ Write(FALSE)

(* A token: to the bus at once, and into the segment of its kind *)
Buffered(r, kind, n) ==
  LET cur == segments[r]
      same == cur # None /\ cur.kind = kind
      seg == [run |-> r, kind |-> kind, text |-> IF same THEN Append(cur.text, n) ELSE <<n>>]
      full == Len(seg.text) >= FLUSH_CHARS
  IN [flushes |-> flushes[r] \o (IF cur # None /\ ~same THEN <<cur>> ELSE <<>>)
                             \o (IF full THEN <<seg>> ELSE <<>>),
      segment |-> IF full THEN None ELSE seg]
Token(a, kind) ==
  LET r == acts[a].run
      n == tokens[r] + 1
      b == Buffered(r, kind, n)
  IN /\ acts[a].kind = "call" /\ acts[a].st = "open" /\ n <= scene.said
     /\ Publish(Delta(r, n, kind))
     /\ tokens' = [tokens EXCEPT ![r] = n]
     /\ flushes' = [flushes EXCEPT ![r] = b.flushes] /\ segments' = [segments EXCEPT ![r] = b.segment]
     /\ UNCHANGED <<scene, store, runs, acts, open, counts, writing, harmed, troubles>>

-----------------------------------------------------------------------------
(* Runs, and the calls in them; the scheduler runs an agent once at a time *)
Active(r) == {a \in DOMAIN acts : acts[a].run = r /\ acts[a].st # "over" /\ acts[a].st # "cut"}

StartRun(x) ==
  /\ Len(runs) < Len(scene.cast) /\ scene.cast[Len(runs) + 1] = x
  /\ \A r \in DOMAIN runs : runs[r].agent = x => runs[r].st \in {"over", "gone"}
  /\ runs' = Append(runs, [agent |-> x, st |-> "starting", how |-> None])
  /\ Emit(Ev("run_started", Len(runs) + 1, 0, None))
  /\ UNCHANGED <<scene, store, queue, acts, tokens, harmed, heard, troubles>>

StartAct(r, kind, call) ==
  /\ runs[r].st = "live" /\ Len(acts) < scene.upto
  /\ acts' = Append(acts, [run |-> r, kind |-> kind, call |-> call, st |-> "starting"])
  /\ IF kind = "call"
     THEN EmitWith(Ev("call_started", r, Len(acts) + 1, call), writing, [counts EXCEPT ![r] = @ + 1])
     ELSE Emit(Ev("tool_started", r, Len(acts) + 1, call))
  /\ UNCHANGED <<scene, store, queue, runs, tokens, harmed, heard, troubles>>

EndAct(a, type) ==
  /\ acts[a].st = "open" /\ type \in ActEnds[acts[a].kind]
  /\ acts' = [acts EXCEPT ![a].st = "ending"]
  /\ Emit(Ev(type, acts[a].run, a, acts[a].call))
  /\ UNCHANGED <<scene, store, queue, runs, tokens, harmed, heard, troubles>>

(* The block of the run is left.  The code does not look whether a call or a tool of
   the run is still at work; that none is, is LangGraph's word, also when a model or a
   tool raised. *)
EndRun(r, how) ==
  /\ runs[r].st = "live" /\ Active(r) = {}
  /\ runs' = [runs EXCEPT ![r] = [agent |-> @.agent, st |-> "ending", how |-> how]]
  /\ Emit(Ev(how, r, 0, None))
  /\ UNCHANGED <<scene, store, queue, acts, tokens, harmed, heard, troubles>>

(* The emits of every run but r *)
Without(r, emits) ==
  LET kept[n \in 0 .. Len(emits)] ==
        IF n = 0 THEN <<>>
        ELSE IF emits[n].ev.run = r THEN kept[n - 1] ELSE Append(kept[n - 1], emits[n])
  IN kept[Len(emits)]

(* A cancellation: the emits of the run that wait come to nothing, its event at the
   head perhaps to a row that is never published, and its calls are cut off.  The run
   reports it, unless it was reporting its start or its end. *)
CancelRun(r) ==
  /\ Trouble /\ runs[r].st \in {"starting", "live", "ending"}
  /\ \E kept \in BOOLEAN :
       LET own == writing # <<>> /\ Head(writing).ev.run = r
           e == IF Head(writing).segs = <<>> THEN Head(writing).ev ELSE Segment(Head(Head(writing).segs))
       IN store' = IF own /\ kept THEN Append(store, e) ELSE store
  /\ acts' = [a \in DOMAIN acts |-> IF a \in Active(r) THEN [acts[a] EXCEPT !.st = "cut"] ELSE acts[a]]
  /\ LET others == Without(r, writing)
     IN IF runs[r].st = "live"
        THEN /\ EmitWith(Ev("run_cancelled", r, 0, None), others, counts)
             /\ runs' = [runs EXCEPT ![r] = [agent |-> @.agent, st |-> "ending", how |-> "run_cancelled"]]
        ELSE /\ writing' = others /\ runs' = [runs EXCEPT ![r].st = "gone"]
             /\ UNCHANGED recorder
  /\ harmed' = harmed \cup {r}
  /\ UNCHANGED <<scene, queue, tokens, heard>>

(* The process dies and comes back *)
Die ==
  /\ Trouble
  /\ runs' = [r \in DOMAIN runs |-> IF runs[r].st = "over" THEN runs[r] ELSE [runs[r] EXCEPT !.st = "gone"]]
  /\ acts' = [a \in DOMAIN acts |-> IF acts[a].st = "over" THEN acts[a] ELSE [acts[a] EXCEPT !.st = "cut"]]
  /\ segments' = [r \in Runs |-> None] /\ flushes' = [r \in Runs |-> <<>>] /\ open' = {} /\ counts' = [r \in Runs |-> 0]
  /\ writing' = <<>> /\ queue' = None
  /\ harmed' = harmed \cup {r \in DOMAIN runs : runs[r].st # "over"} /\ heard' = {}
  /\ UNCHANGED <<scene, store, tokens>>

-----------------------------------------------------------------------------
TelemetryInit ==
  /\ scene \in Scenes /\ store = <<>> /\ queue = (IF scene.up THEN <<>> ELSE None) /\ runs = <<>> /\ acts = <<>> /\ writing = <<>>
  /\ segments = [r \in Runs |-> None] /\ flushes = [r \in Runs |-> <<>>] /\ open = {} /\ counts = [r \in Runs |-> 0]
  /\ tokens = [r \in Runs |-> 0] /\ harmed = {} /\ heard = {} /\ troubles = 0

Machinery ==
  \/ \E x \in Agents : StartRun(x)
  \/ \E r \in DOMAIN runs :
       \/ StartAct(r, "call", None) \/ \E i \in scene.inputs : StartAct(r, "tool", i)
       \/ EndRun(r, "run_finished") \/ EndRun(r, "run_failed") \/ CancelRun(r)
  \/ \E a \in DOMAIN acts :
       (\E type \in UNION {ActEnds[k] : k \in DOMAIN ActEnds} : EndAct(a, type)) \/ \E kind \in Kinds : Token(a, kind)
  \/ Store \/ StoreRefuses

-----------------------------------------------------------------------------
(* What the variables hold.  A run and a call have begun ("starting", "ending") as long
   as the event of it waits for the store; a run that could not tell its end is "gone",
   and a call that was cut off is "cut". *)
Calls == {None} \cup UNION {s.inputs : s \in Scenes}
Types == RunEvents \cup {"call_started", "tool_started", "output_segment"} \cup ActEnds["call"] \cup ActEnds["tool"]
AgentEvents == [type : Types, run : Runs, who : Nat, call : Calls, text : Seq(Nat), kind : {"text", "thinking"}]
Items ==
  [type : Types \cup {"delta"}, run : Runs, who : Nat, call : Calls, text : Seq(Nat), kind : {"text", "thinking"},
   seq : Int]
Segments == [run : Runs, kind : {"text", "thinking"}, text : Seq(Nat)]
Emits == [ev : AgentEvents, segs : Seq(Segments)]
RunRecords == [agent : Agents, st : {"starting", "live", "ending", "over", "gone"}, how : RunEnds \cup {None}]
ActRecords == [run : Runs, kind : {"call", "tool"}, call : Calls, st : {"starting", "open", "ending", "over", "cut"}]
TelemetryTypeOK ==
  /\ scene \in Scenes
  /\ store \in Seq(AgentEvents) /\ (queue = None \/ queue \in Seq(Items))
  /\ runs \in Seq(RunRecords) /\ Len(runs) <= Len(scene.cast) /\ acts \in Seq(ActRecords)
  /\ segments \in [Runs -> Segments \cup {None}] /\ flushes \in [Runs -> Seq(Segments)]
  /\ writing \in Seq(Emits)
  /\ open \subseteq Runs /\ counts \in [Runs -> Nat] /\ tokens \in [Runs -> Nat]
  /\ harmed \subseteq Runs /\ heard \subseteq Runs /\ troubles \in Nat

(* The transcript of a run loses nothing and repeats nothing on its way into the store,
   however its calls and tools report at once: each token streamed is in one segment,
   written or on its way, and all are written when the run is over; only a cut or a
   write that was refused takes some away. *)
Texts(segs) == FlattenSeq([i \in DOMAIN segs |-> segs[i].text])
Written(r) ==
  FlattenSeq([i \in DOMAIN store |->
                IF store[i].type = "output_segment" /\ store[i].run = r THEN store[i].text ELSE <<>>])
OnItsWay(r) ==
  FlattenSeq([i \in DOMAIN writing |-> IF writing[i].ev.run = r THEN Texts(writing[i].segs) ELSE <<>>])
  \o Texts(flushes[r])
  \o (IF segments[r] = None THEN <<>> ELSE segments[r].text)
TranscriptKept ==
  \A r \in DOMAIN runs \ harmed :
    LET all == Written(r) \o OnItsWay(r)
    IN /\ Len(all) = tokens[r] /\ ToSet(all) = 1 .. tokens[r]
       /\ runs[r].st = "over" => OnItsWay(r) = <<>>

(* Once a run has told its end, whichever end it was, the recorder keeps nothing of it *)
NothingLeftBehind ==
  \A r \in DOMAIN runs : runs[r].st = "over" =>
    r \notin open /\ counts[r] = 0 /\ segments[r] = None /\ flushes[r] = <<>>

(* Both: a run's tokens end up in the store and nowhere else. *)
RecorderKeepsFaith == TranscriptKept /\ NothingLeftBehind
=============================================================================
