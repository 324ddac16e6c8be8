----------------------------- MODULE MCResearch -----------------------------
EXTENDS Research
CONSTANTS d1, d2, bad, t1, t2
Job(docs, says, upto, ills) ==
  [corpus |-> docs, texts |-> says, drafts |-> upto, troubles |-> ills]
MCJobs == {Job(<<d1, bad>>, {t1, t2}, 2, 1), Job(<<d1, d2>>, {t1}, 1, 1)}
=============================================================================
