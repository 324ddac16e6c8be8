-------------------------------- MODULE MCRoom --------------------------------
(* The room for TLC: Scheduler, of which one agent outbids the other whenever it bids,
   and AdaptivePool with more clients than its smaller size admits.  They share nothing
   but the code's permits, so each moves while the other is at rest: a room paused by
   name, a pool nobody has entered. *)
EXTENDS Scheduler, AdaptivePool, TLC

CONSTANTS author, muse, agent1, agent2, worker1, worker2

VARIABLE stage

Scores == author :> {0, 2} @@ muse :> {1}

MCInit ==
  /\ RoomInit /\ Init /\ stage \in {"room", "pool"}
  /\ stage = "room" => size = Max(Sizes)
  /\ stage = "pool" => solo = Agents /\ cap = Max(Caps) /\ override = Nobody

MCNext ==
  \/ stage = "room" /\ RoomNext /\ UNCHANGED <<vars, stage>>
  \/ stage = "pool" /\ Next /\ UNCHANGED <<roomVars, stage>>

(* the fairness of RoomFairSpec for the room that moves, and FairSpec's *)
MCSpec ==
  /\ MCInit /\ [][MCNext]_<<vars, roomVars, stage>>
  /\ WF_roomVars(stage = "room" /\ Ticking) /\ WF_roomVars(stage = "room" /\ BackgroundDone)
  /\ \A a \in Agents : SF_roomVars(StartRun(a)) /\ WF_roomVars(EndRun(a))
  /\ WF_vars(Wake) /\ \A c \in Clients : WF_vars(Finish(c)) /\ WF_vars(Release(c))
=============================================================================
