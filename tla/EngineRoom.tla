----------------------------- MODULE EngineRoom -----------------------------
(* What the Engine Room shows of Telemetry (tui_kit/{run_model,fleet_model,
   stream_model}.py and its widgets, driven by tui/app.py): the app seeds its fleet from
   the end of the store, subscribes to the bus, and folds item after item into the state
   of each agent's run and into one list of blocks for all of them; the stream's window
   keeps the last of these mounted, and counts what comes while its reader is away. *)
EXTENDS Telemetry

CONSTANTS
  SEED_TAIL,   \* events the fleet is seeded from
  WINDOW_CAP   \* blocks that stay mounted

ASSUME EngineRoomAssumption == SEED_TAIL \in Nat \ {0} /\ WINDOW_CAP \in Nat \ {0}

VARIABLES
  app,     \* what the app's bus loop is at
  seed,    \* what it read of the store
  fleet,   \* [states: the run of each agent, entries: the blocks of all]
  stream,  \* the StreamView: [base, blocks, follow, unseen, forwarded]
  left,    \* history: how long the stream was when the reader left its end
  scrolls

viewVars == <<app, seed, fleet, stream, left, scrolls>>
liveVars == <<telemetryVars, viewVars>>

-----------------------------------------------------------------------------
(* Blocks, and the state of one run *)
Block(kind, text, call, status) ==
  [kind |-> kind, text |-> text, call |-> call, status |-> status, repeat |-> 1, seq |-> 0]
Restated(b, status, repeat, seq) ==
  [kind |-> b.kind, text |-> b.text, call |-> b.call, status |-> status, repeat |-> repeat, seq |-> seq]
NewState(status, r) == [status |-> status, run |-> r, blocks |-> <<>>, attached |-> TRUE]
IdleState == NewState("idle", 0)

WithText(state, item) ==
  LET kind == IF item.kind = "thinking" THEN "thinking" ELSE "prose"
      n == Len(state.blocks)
  IN IF n > 0 /\ state.blocks[n].kind = kind
     THEN [state EXCEPT !.blocks[n].text = @ \o item.text]
     ELSE [state EXCEPT !.blocks = Append(@, Block(kind, item.text, None, "done"))]

(* The tools of a run have one name and no delegates: a call is known by its input,
   and is the same again if its input is. *)
WithTool(state, item) ==
  LET n == Len(state.blocks)
      again == n > 0 /\ state.blocks[n].kind = "tool" /\ state.blocks[n].call = item.call
                     /\ state.blocks[n].status # "running"
  IN IF again THEN [state EXCEPT !.blocks[n] = Restated(@, "running", @.repeat + 1, @.seq)]
     ELSE [state EXCEPT !.blocks = Append(@, Block("tool", <<>>, item.call, "running"))]

(* The result of a tool goes to the last block of a call like it that is running, or of
   any call of the tool if none is *)
RunningTools(state) == {i \in DOMAIN state.blocks : state.blocks[i].kind = "tool" /\ state.blocks[i].status = "running"}
MatchedAny(state, item) == RunningTools(state)
Matched(state, item) ==
  LET exact == {i \in RunningTools(state) : state.blocks[i].call = item.call}
  IN IF exact = {} THEN RunningTools(state) ELSE exact
WithResult(state, item) ==
  LET found == Matched(state, item)
      i == CHOOSE k \in found : \A j \in found : j <= k
  IN IF found = {} THEN state
     ELSE [state EXCEPT !.blocks[i] =
             Restated(@, IF item.type = "tool_failed" THEN "failed" ELSE "done", @.repeat, item.seq)]

WithCallDone(state) ==
  LET n == Len(state.blocks) IN
  IF n > 0 /\ state.blocks[n].kind = "call" THEN [state EXCEPT !.blocks[n].status = "done"] ELSE state

(* to_contract_event: what there is no translation for is nothing to the view, and a
   written segment is a token again *)
Contract ==
  {"run_started", "run_finished", "run_failed", "run_cancelled", "call_started", "call_finished",
   "tool_started", "tool_finished", "tool_failed", "delta", "output_segment"}
Shown(item) == item.type \in Contract
IsText(item) == item.type \in {"delta", "output_segment"}
EndStatus(item) == IF item.type = "run_finished" THEN "finished" ELSE "failed"
ApplyBusItem(state, item) ==
  IF IsText(item)
  THEN IF state.status = "running" /\ item.run = state.run THEN WithText(state, item) ELSE state
  ELSE IF item.type = "run_started" THEN NewState("running", item.run)
  ELSE IF item.run # state.run THEN state
  ELSE IF item.type = "call_started"
       THEN [state EXCEPT !.blocks = Append(@, Block("call", <<>>, None, "running"))]
  ELSE IF item.type = "call_finished" THEN WithCallDone(state)
  ELSE IF item.type = "tool_started" THEN WithTool(state, item)
  ELSE IF item.type \in {"tool_finished", "tool_failed"} THEN WithResult(state, item)
  ELSE IF item.type \in RunEnds THEN [state EXCEPT !.status = EndStatus(item)]
  ELSE state

-----------------------------------------------------------------------------
(* The fleet: blocks that an agent's run had are replaced where they are, new ones go
   to the end *)
OwnPlaceByAgent(e, x, r) == e.agent = x
OwnPlace(e, x, r) == e.agent = x /\ e.run = r
Place(entries, x, r, j) == Cardinality({i \in 1 .. j : OwnPlace(entries[i], x, r)})
Kept(entries, x, state) ==
  LET at(j) == Place(entries, x, state.run, j) IN
  [j \in DOMAIN entries |->
     IF OwnPlace(entries[j], x, state.run) /\ at(j) <= Len(state.blocks)
     THEN [entries[j] EXCEPT !.block = state.blocks[at(j)]] ELSE entries[j]]
Added(entries, x, state) ==
  LET had == Place(entries, x, state.run, Len(entries)) IN
  [i \in 1 .. Len(state.blocks) - had |->
     [agent |-> x, run |-> state.run, block |-> state.blocks[had + i]]]
SetRunState(f, x, state) ==
  [states |-> [f.states EXCEPT ![x] = state],
   entries |-> Kept(f.entries, x, state) \o Added(f.entries, x, state)]
ApplyFleet(f, item) ==
  LET x == scene.cast[item.run] IN
  IF Shown(item) THEN SetRunState(f, x, ApplyBusItem(f.states[x], item)) ELSE f

EmptyFleet == [states |-> [x \in Agents |-> IdleState], entries |-> <<>>]
Replay(recent) ==
  LET seen[n \in 0 .. Len(recent)] ==
        IF n = 0 THEN EmptyFleet ELSE ApplyFleet(seen[n - 1], recent[n])
  IN seen
SeedFleet(recent) ==
  LET f == Replay(recent)[Len(recent)]
      detached(state) == IF state.status = "running" THEN [state EXCEPT !.attached = FALSE] ELSE state
  IN [states |-> [x \in Agents |-> detached(f.states[x])], entries |-> f.entries]

-----------------------------------------------------------------------------
(* The stream's window over the fleet's blocks *)
EmptyStream == [base |-> 0, blocks |-> <<>>, follow |-> TRUE, unseen |-> 0, forwarded |-> 0]
Total(v) == v.base + Len(v.blocks)
Trim(v) ==
  LET over == Len(v.blocks) - WINDOW_CAP IN
  IF over <= 0 THEN v
  ELSE [v EXCEPT !.base = @ + over, !.blocks = SubSeq(@, over + 1, Len(@))]

(* The whole stream is stated again from "start" on; what was trimmed of it is dropped *)
BeyondClamped(v, blocks, start) == blocks
Beyond(v, blocks, start) ==
  IF start < v.base THEN SubSeq(blocks, v.base - start + 1, Len(blocks)) ELSE blocks
SyncFrom(v, blocks, start) ==
  LET from == IF start < v.base THEN v.base ELSE start
      now == SubSeq(v.blocks, 1, from - v.base) \o Beyond(v, blocks, start)
      added == v.base + Len(now) - Total(v)
  IN Trim([v EXCEPT !.blocks = now,
                    !.unseen = IF ~v.follow /\ added > 0 THEN @ + added ELSE @])
SyncTail(v, blocks, replacing) ==
  SyncFrom(v, blocks, IF replacing >= Total(v) THEN 0 ELSE Total(v) - replacing)

(* The loop that renders twice a second renders what is rendered already, and is no
   step; nor are the summaries a model writes onto tool blocks, which change no text. *)
RenderLive(f) ==
  LET merged == [i \in DOMAIN f.entries |-> f.entries[i].block] IN
  stream' = [SyncTail(stream, merged, stream.forwarded) EXCEPT !.forwarded = Len(merged)]

(* The reader scrolls to the end of the stream or away from it *)
Scroll(atBottom) ==
  /\ app = "on" /\ scrolls < scene.looks /\ scrolls' = scrolls + 1
  /\ stream' = IF atBottom THEN [stream EXCEPT !.follow = TRUE, !.unseen = 0]
               ELSE [stream EXCEPT !.follow = FALSE]
  /\ left' = IF stream.follow /\ ~atBottom THEN Total(stream) ELSE left
  /\ UNCHANGED <<telemetryVars, app, seed, fleet>>

-----------------------------------------------------------------------------
(* _telemetry_bus_loop: the read of the store, the subscription after it, the items *)
Numbered == [i \in DOMAIN store |-> Item(store[i], i)]
ReadTail ==
  /\ app = "off" /\ app' = "read"
  /\ seed' = SubSeq(Numbered, IF Len(store) > SEED_TAIL THEN Len(store) - SEED_TAIL + 1 ELSE 1, Len(store))
  /\ UNCHANGED <<telemetryVars, fleet, stream, left, scrolls>>

Subscribe ==
  /\ app = "read" /\ app' = "on"
  /\ fleet' = SeedFleet(seed) /\ RenderLive(SeedFleet(seed)) /\ seed' = <<>>
  /\ queue' = <<>>
  /\ UNCHANGED <<scene, store, runs, acts, segments, flushes, open, counts, writing, tokens, harmed, heard, troubles, left, scrolls>>

TakeItem ==
  /\ app = "on" /\ queue # <<>>
  /\ fleet' = ApplyFleet(fleet, Head(queue)) /\ RenderLive(ApplyFleet(fleet, Head(queue)))
  /\ queue' = Tail(queue)
  /\ UNCHANGED <<scene, store, runs, acts, segments, flushes, open, counts, writing, tokens, harmed, heard, troubles, app, seed, left, scrolls>>

LiveInit ==
  /\ TelemetryInit
  /\ app = (IF scene.up THEN "on" ELSE "off") /\ seed = <<>> /\ fleet = EmptyFleet /\ stream = EmptyStream
  /\ left = 0 /\ scrolls = 0

Restart ==
  /\ Die
  /\ app' = "off" /\ seed' = <<>> /\ fleet' = EmptyFleet /\ stream' = EmptyStream /\ left' = 0
  /\ UNCHANGED scrolls

LiveNext ==
  \/ Machinery /\ UNCHANGED viewVars
  \/ Restart \/ ReadTail \/ Subscribe \/ TakeItem
  \/ Scroll(TRUE) \/ Scroll(FALSE)
LiveSpec == LiveInit /\ [][LiveNext]_liveVars

-----------------------------------------------------------------------------
Blocks ==
  [kind : {"prose", "thinking", "tool", "call"}, text : Seq(Nat), call : Calls, status : {"done", "running", "failed"},
   repeat : Nat, seq : Int]
RunViews ==
  [status : {"idle", "running", "finished", "failed"}, run : Nat, blocks : Seq(Blocks), attached : BOOLEAN]
Entries == [agent : Agents, run : Nat, block : Blocks]
Fleets == [states : [Agents -> RunViews], entries : Seq(Entries)]
Windows == [base : Nat, blocks : Seq(Blocks), follow : BOOLEAN, unseen : Nat, forwarded : Nat]
LiveTypeOK ==
  /\ TelemetryTypeOK
  /\ app \in {"off", "read", "on"} /\ (app = "on" => queue \in Seq(Items))
  /\ seed \in Seq(Items) /\ fleet \in Fleets /\ stream \in Windows
  /\ left \in Nat /\ scrolls \in Nat

(* When everything that was published has been taken, an agent's run whose items all
   arrived is shown as it is: running until it has told its end and with the end it had,
   one block or repeat for each tool called, running for each that has not returned, a
   finished one with the handle to a result of this run's call with the same input, and
   every token that was streamed. *)
Newest(x) == CHOOSE r \in DOMAIN runs : runs[r].agent = x /\ \A q \in DOMAIN runs : runs[q].agent = x => q <= r
StatusRight(state, r) ==
  runs[r].st # "gone" =>
    state.status = (IF runs[r].st = "over" THEN IF runs[r].how = "run_finished" THEN "finished" ELSE "failed"
                    ELSE "running")
Tools(r, i, sts) == {a \in DOMAIN acts : acts[a].run = r /\ acts[a].kind = "tool" /\ acts[a].call = i /\ acts[a].st \in sts}
CallsShown(state, i) ==
  UNION {{k} \X (1 .. state.blocks[k].repeat) : k \in {k \in DOMAIN state.blocks :
                                                        state.blocks[k].kind = "tool" /\ state.blocks[k].call = i}}
ToolsRight(state, r) ==
  \A i \in scene.inputs :
    /\ Cardinality(CallsShown(state, i)) = Cardinality(Tools(r, i, {"open", "over"}))
    /\ Cardinality({k \in RunningTools(state) : state.blocks[k].call = i}) = Cardinality(Tools(r, i, {"open"}))
OutputsRight(state, r) ==
  \A b \in ToSet(state.blocks) : b.kind = "tool" /\ b.seq > 0 =>
    store[b.seq].run = r /\ store[b.seq].call = b.call /\ store[b.seq].type \in ActEnds["tool"]
TextRight(state, r) ==
  UNION {ToSet(state.blocks[i].text) : i \in DOMAIN state.blocks} = 1 .. tokens[r]
ViewIsRight ==
  app = "on" /\ queue = <<>> /\ writing = <<>> =>
    \A x \in {runs[r].agent : r \in DOMAIN runs} :
      LET r == Newest(x)
          state == fleet.states[x]
      IN r \in heard =>
           /\ state.run = r /\ StatusRight(state, r) /\ OutputsRight(state, r)
           /\ r \notin harmed => ToolsRight(state, r) /\ TextRight(state, r)

(* A block keeps its place and its kind in the stream of all agents as long as the app
   lives, and new ones only come at its end: its index is what its widget is known by. *)
PlacesKept ==
  [][app' # "off" =>
       \A i \in DOMAIN fleet.entries :
         /\ i \in DOMAIN fleet'.entries /\ fleet'.entries[i].run = fleet.entries[i].run
         /\ fleet'.entries[i].block.kind = fleet.entries[i].block.kind]_liveVars

(* The window is the end of the stream as it is now, no matter how much was trimmed, and
   a reader who is away is told how many blocks have come since. *)
WindowIsTail ==
  app = "on" =>
    /\ Total(stream) = Len(fleet.entries)
    /\ \A i \in DOMAIN stream.blocks : stream.blocks[i] = fleet.entries[stream.base + i].block
    /\ stream.unseen = IF stream.follow THEN 0 ELSE Total(stream) - left

=============================================================================
