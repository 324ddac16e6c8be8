-------------------------------- MODULE MCLog --------------------------------
(* What is made of the event log, for TLC: canon's read model, folded by two coroutines
   of one process (the TUI) while two append; the cursor of the index drain, over a
   chapter whose operation fails now and then, a character that never projects and
   is always rejected, and a healthy thread; and the ledgers, where few agents and
   families meet at a time, so that every pair that writes the same rows does.  Each
   has a log of its own shape and moves while the others are at rest. *)
EXTENDS CanonStore, Drain, Ledger

CONSTANTS tui, a1, a2, f1, f2, chapter, character, thread

VARIABLE stage

OneHome == [c \in Appenders \cup Folders |-> tui]

Desk(agents, families, upto) == [agents |-> agents, families |-> families, upto |-> upto]
TheDesks ==
  {Desk(as, families, 3 + IF Cardinality(families) = 1 THEN 1 ELSE 0) :
      as \in {{"author", "plotter"}, {"miner", "editor"}, {"director", "author"}},
      families \in {{"thread"}, {"promise"}, {"thread", "promise"}}}
    \cup {Desk(as, {"secret"}, 5) : as \in {{"author", "miner"}, {"author", "editor"}, {"editor", "plotter", "director"}}}
    \cup {Desk({"editor", "keeper"}, {"secret", "cast"}, 5), Desk({"author", "editor"}, {"theme"}, 5)}
    \cup {Desk({"author", "muse", by}, {"hand"}, 5) : by \in {"director", "miner", "keeper"}}

TheWindows == {<<0, 0>>, <<1, 2>>, <<2, 1>>}
TheHands == 1 .. 2
TheDeal == [h \in TheHands |-> {"i1"}]

MCInit ==
  /\ Init /\ DrainInit /\ LedgerInit /\ stage \in {"canon", "index", "ledger"}
  /\ stage # "ledger" => desk = CHOOSE d \in Desks : TRUE
MCNext ==
  /\ \/ stage = "canon" /\ Next /\ UNCHANGED <<drainVars, ledgerVars>>
     \/ stage = "index" /\ DrainNext /\ UNCHANGED <<vars, ledgerVars>>
     \/ stage = "ledger" /\ LedgerNext /\ UNCHANGED <<vars, drainVars>>
  /\ UNCHANGED stage

(* the fairness of FairSpec and of FairDrainSpec, for what moves *)
MCSpec ==
  /\ MCInit /\ [][MCNext]_<<vars, drainVars, ledgerVars, stage>>
  /\ \A a \in Appenders : WF_vars(stage = "canon" /\ Appending(a))
  /\ \A f \in Folders : WF_vars(stage = "canon" /\ Folding(f))
  /\ WF_drainVars(stage = "index" /\ Stepping)
=============================================================================
