----------------------------- MODULE Obligation -----------------------------
(* What a reader is promised of anything a book opens, be it a thread, a
   promise, a secret or a hand of raw material: it is opened once, it is worked on while it is
   open, it is closed in one of its ways, and from then on it is as it was. *)
EXTENDS Naturals

CONSTANTS
  Items,
  Ways    \* how one is closed; neither "none" nor "open" is among them

VARIABLES state, worked

ovars == <<state, worked>>

OInit == state = [i \in Items |-> "none"] /\ worked = [i \in Items |-> 0]

Open(i) ==
  /\ state[i] = "none" /\ state' = [state EXCEPT ![i] = "open"] /\ UNCHANGED worked

Work(i) ==
  /\ state[i] = "open" /\ worked' = [worked EXCEPT ![i] = @ + 1] /\ UNCHANGED state

Close(i, way) ==
  /\ state[i] = "open" /\ state' = [state EXCEPT ![i] = way] /\ UNCHANGED worked

ONext == \E i \in Items : Open(i) \/ Work(i) \/ \E way \in Ways : Close(i, way)

OSpec == OInit /\ [][ONext]_ovars
=============================================================================
