------------------------------ MODULE ReadModel ------------------------------
(***************************************************************************)
(* What the canon promises its readers, with SQLite, connections, locks    *)
(* and processes left out: an append-only log, and a read model that is    *)
(* the fold of a prefix of that log, in log order, each event once.        *)
(* CanonStore is shown to implement this module when a single process owns *)
(* the projector.                                                          *)
(***************************************************************************)
EXTENDS Naturals, Sequences

CONSTANTS
  Events,   \* the events that may be appended
  Poison    \* those whose projection handler raises every time

VARIABLES
  log,      \* the events table, in sequence order
  folded    \* the events the read model contains, in the order of folding

rvars == <<log, folded>>

RInit ==
  /\ log = <<>>
  /\ folded = <<>>

(* The log only ever grows at its end. *)
AppendEvent(e) ==
  /\ log' = Append(log, e)
  /\ UNCHANGED folded

(* The next unfolded event, and only that one, may enter the read model. An
   event whose handler raises never does, nor does anything behind it. *)
FoldNext ==
  /\ Len(folded) < Len(log)
  /\ log[Len(folded) + 1] \notin Poison
  /\ folded' = Append(folded, log[Len(folded) + 1])
  /\ UNCHANGED log

(* The read model is a disposable cache: it may be emptied and refolded. *)
Rebuild ==
  /\ folded' = <<>>
  /\ UNCHANGED log

RNext ==
  \/ \E e \in Events : AppendEvent(e)
  \/ FoldNext
  \/ Rebuild

RSpec == RInit /\ [][RNext]_rvars
=============================================================================
