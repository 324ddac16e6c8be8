---------------------------- MODULE MCEngineRoom ----------------------------
EXTENDS EngineRoom
Scene(whose, calledWith, total, perRun, sorts, faults, views) ==
  [cast |-> whose, inputs |-> calledWith, upto |-> total, said |-> perRun, flow |-> sorts,
   ills |-> faults, looks |-> views, up |-> faults = 0]
MCScenes ==
  {Scene(<<"author">>, {"p", "q"}, 3, 0, {}, 0, 0),              \* tools at once
   Scene(<<"author">>, {"p"}, 2, 2, {"text", "thinking"}, 0, 0), \* a transcript
   Scene(<<"author">>, {"p"}, 2, 1, {"text"}, 1, 0),             \* trouble
   Scene(<<"author", "author">>, {"p"}, 2, 0, {}, 0, 0),         \* one run after another
   Scene(<<"author", "editor">>, {}, 2, 0, {}, 0, 0),            \* two at once
   Scene(<<"author">>, {"p"}, 2, 1, {"text"}, 0, 1)}             \* a reader
=============================================================================
