----------------------------- MODULE OutlineProofs -----------------------------
(***************************************************************************)
(* What holds of Outline for any blueprints, arcs, lengths and bounds: its *)
(* types, that there is one shape and one active arc of a character, that  *)
(* a book is only complete when its shape was met, and that briefs and     *)
(* arcs live the life of an Obligation.                                    *)
(***************************************************************************)
EXTENDS Outline, FiniteSetTheorems, SequenceTheorems, WellFoundedInduction, TLAPS

EventTypes ==
  {"adopted", "open", "decided", "retargeted", "completed", "beat", "drafted", "superseded",
   "fulfilled", "declared", "pivot", "resolved", "chapter", "promise"}

Events ==
  {e \in [type : EventTypes,
          id : Blueprints \cup Beats \cup BriefIds \cup Arcs \cup Ordinals \cup {None},
          arg : Targets \cup Chapter \cup Ordinals \cup Cast \cup Beats \cup BOOLEAN] :
     EventOK(e)}

PlotRecord ==
  [stage : {"beats", "briefs", "promises", "proposals", "arcs", "reap", "plan"},
   chapters : Chapter, blueprint : Blueprints \cup {None},
   target : Targets \cup {0}, ended : BOOLEAN, beats : SUBSET Beats, open : SUBSET BriefIds,
   latest : [Ordinals -> {0} \cup BriefIds], stale : SUBSET BriefIds, complete : BOOLEAN,
   asked : BOOLEAN, redraft : {0} \cup Ordinals]

-----------------------------------------------------------------------------
(* The inductive invariant                                                 *)

ShapeTyped ==
  /\ blueprints \in [DOMAIN blueprints -> BlueprintRecord] /\ DOMAIN blueprints \subseteq Blueprints
  /\ beats \in [DOMAIN beats -> Chapter] /\ DOMAIN beats \subseteq Beats
  /\ met \subseteq Beats /\ anew \subseteq DOMAIN blueprints

ArcsTyped ==
  /\ arcs \in [DOMAIN arcs -> ArcRecord] /\ DOMAIN arcs \subseteq Arcs
  /\ \A a \in DOMAIN arcs : IsFiniteSet(arcs[a].pivots)

RowsOK ==
  /\ ShapeTyped /\ ArcsTyped
  /\ briefs \in Seq(ChapterBriefRecord)
  /\ proposals \in [DOMAIN proposals -> {"open", "decided"}] /\ DOMAIN proposals \subseteq Blueprints
  /\ chapters \in Nat /\ owed \in BOOLEAN

PendingOK == pending \in Seq(Events) /\ Len(pending) <= MaxPending

PlotTyped ==
  plot = None \/ (plot \in PlotRecord /\ (plot.blueprint = None => plot.ended /\ ~ plot.complete))

DraftTyped ==
  \/ draft = None
  \/ /\ draft \in [brief : {0} \cup BriefIds, chapter : Chapter]
     /\ draft.chapter = 0 => written < MaxChapters
     /\ draft.chapter # 0 => draft.brief # 0

KeepTyped == keep = None \/ keep \in [beats : SUBSET Beats, arcs : (SUBSET Arcs) \cup {None}]

CountsTyped ==
  /\ minted \subseteq Blueprints \cup Arcs /\ drafted \in 0 .. MaxBriefs /\ written \in Chapter
  /\ desk \in Desks /\ faults \in 0 .. MaxFaults

(* The events of a type in q are numbered from n + 1 to m, in their order. *)
Numbered(q, type, n, m) ==
  /\ n <= m
  /\ \A i \in DOMAIN q : q[i].type = type => q[i].id \in n + 1 .. m
  /\ \A i, j \in DOMAIN q :
       i < j /\ q[i].type = type /\ q[j].type = type => q[i].id < q[j].id
  /\ \A k \in n + 1 .. m : \E i \in DOMAIN q : q[i].type = type /\ q[i].id = k

BriefsNumbered == Numbered(pending, "drafted", Len(briefs), drafted)
ChaptersNumbered == Numbered(pending, "chapter", chapters, written)

(* One blueprint is active, and the beats are its own. *)
Shape(b) ==
  /\ b \in DOMAIN blueprints /\ blueprints[b].active
  /\ \A c \in DOMAIN blueprints : c # b => ~ blueprints[c].active
  /\ DOMAIN beats = {b} \X Slots

Shaped ==
  /\ (DOMAIN blueprints = {} /\ DOMAIN beats = {}) \/ \E b \in Blueprints : Shape(b)
  /\ \A x \in DOMAIN beats : beats[x] # 0 => x \in met

Earned(b) == {b} \X Slots \subseteq met

(* Who says that b is complete may be late, but then b is not active. *)
Claim(b) == b \in DOMAIN blueprints /\ (Earned(b) \/ ~ blueprints[b].active \/ b \in anew)

ClaimsHold ==
  /\ CompletionIsEarned
  /\ \A i \in DOMAIN pending : pending[i].type = "completed" => Claim(pending[i].id)

PlotClaims ==
  plot # None => /\ plot.blueprint # None => plot.blueprint \in DOMAIN blueprints
                 /\ plot.complete => Claim(plot.blueprint)

(* The story told so far, and those who are at work on it *)
Book ==
  /\ RowsOK /\ PendingOK
  /\ BriefsNumbered /\ ChaptersNumbered
  /\ Shaped /\ OneActiveArc /\ ClaimsHold

AtWork == PlotTyped /\ DraftTyped /\ KeepTyped /\ CountsTyped /\ PlotClaims

IInv == Book /\ AtWork

-----------------------------------------------------------------------------
(* Numbers, and sequences of events                                        *)

LEMMA LeastNatural ==
  ASSUME NEW T, T \subseteq Nat, T # {}
  PROVE  \E x \in T : \A y \in T : x <= y
<1> DEFINE R == {ss \in Nat \X Nat : ss[1] < ss[2]}
<1>1. IsWellFoundedOn(R, Nat)
  BY NatLessThanWellFounded DEF OpToRel
<1>2. PICK x \in T : \A y \in T : <<y, x>> \notin R
  BY <1>1, WFMin
<1>3. \A y \in T : ~(y < x)
  BY <1>2
<1> QED BY <1>3

LEMMA GreatestNatural ==
  ASSUME NEW n \in Nat, NEW T, T \subseteq 0 .. n, T # {}
  PROVE  \E x \in T : \A y \in T : y <= x
<1> DEFINE U == {m \in 0 .. n : n - m \in T}
<1>1. PICK y \in T : TRUE
  OBVIOUS
<1>2. n - y \in U
  BY <1>1
<1>3. U \subseteq Nat
  OBVIOUS
<1>4. \E m \in U : \A k \in U : m <= k
  <2> HIDE DEF U
  <2>1. U # {}
    BY <1>2
  <2> QED BY <1>3, <2>1, LeastNatural
<1>5. PICK m \in U : \A k \in U : m <= k
  BY <1>4
<1>6. \A z \in T : n - z \in U
  OBVIOUS
<1>7. n - m \in T /\ \A z \in T : z <= n - m
  BY <1>5, <1>6
<1> QED BY <1>7

LEMMA EventFields ==
  ASSUME NEW e \in Events
  PROVE  /\ e = [type |-> e.type, id |-> e.id, arg |-> e.arg]
         /\ e.type \in EventTypes /\ EventOK(e)
BY DEF Events

(* The numbers an event has, by its type *)
LEMMA AppendFacts ==
  ASSUME NEW q \in Seq(Events), NEW e \in Events
  PROVE  /\ Append(q, e) \in Seq(Events) /\ Len(Append(q, e)) = Len(q) + 1
         /\ DOMAIN Append(q, e) = 1 .. Len(q) + 1 /\ DOMAIN q = 1 .. Len(q) /\ Len(q) \in Nat
         /\ Append(q, e)[Len(q) + 1] = e
         /\ \A i \in 1 .. Len(q) : Append(q, e)[i] = q[i]
  OBVIOUS

LEMMA TailFacts ==
  ASSUME NEW q \in Seq(Events), q # <<>>
  PROVE  /\ Head(q) = q[1] /\ 1 \in DOMAIN q /\ Head(q) \in Events
         /\ Tail(q) \in Seq(Events) /\ Len(Tail(q)) = Len(q) - 1 /\ Len(q) \in Nat
         /\ DOMAIN q = 1 .. Len(q) /\ DOMAIN Tail(q) = 1 .. Len(q) - 1
         /\ \A i \in 1 .. Len(q) - 1 : Tail(q)[i] = q[i + 1] /\ i + 1 \in DOMAIN q
<1>1. /\ Head(q) = q[1] /\ 1 \in DOMAIN q /\ Head(q) \in Events
      /\ Tail(q) \in Seq(Events) /\ Len(Tail(q)) = Len(q) - 1
      /\ \A i \in 1 .. Len(Tail(q)) : Tail(q)[i] = q[i + 1]
  BY HeadTailProperties, EmptySeq
<1>2. Len(q) \in Nat /\ DOMAIN q = 1 .. Len(q) /\ DOMAIN Tail(q) = 1 .. Len(q) - 1
  BY <1>1
<1> QED BY <1>1, <1>2

LEMMA NumberedSame ==
  ASSUME NEW q \in Seq(Events), NEW e \in Events, NEW type, NEW n \in Nat, NEW m \in Nat,
         Numbered(q, type, n, m), e.type # type
  PROVE  Numbered(Append(q, e), type, n, m)
<1> DEFINE p == Append(q, e)
           l == Len(q)
<1>1. /\ DOMAIN p = 1 .. l + 1 /\ DOMAIN q = 1 .. l /\ l \in Nat /\ p[l + 1] = e
      /\ \A i \in 1 .. l : p[i] = q[i]
  BY AppendFacts
<1> HIDE DEF p, l
<1>2. \A i \in DOMAIN p : p[i].type = type => i \in DOMAIN q /\ p[i] = q[i]
  <2> SUFFICES ASSUME NEW i \in DOMAIN p, p[i].type = type PROVE i \in DOMAIN q /\ p[i] = q[i]
    OBVIOUS
  <2>1. i = l + 1 \/ i \in 1 .. l
    BY <1>1
  <2> QED BY <1>1, <2>1
<1>3. \A i \in DOMAIN q : i \in DOMAIN p /\ p[i] = q[i]
  BY <1>1
<1> QED BY <1>2, <1>3 DEF Numbered, p

LEMMA NumberedNext ==
  ASSUME NEW q \in Seq(Events), NEW e \in Events, NEW type, NEW n \in Nat, NEW m \in Nat,
         Numbered(q, type, n, m), e.type = type, e.id = m + 1
  PROVE  Numbered(Append(q, e), type, n, m + 1)
<1> DEFINE p == Append(q, e)
           l == Len(q)
<1>1. /\ DOMAIN p = 1 .. l + 1 /\ DOMAIN q = 1 .. l /\ l \in Nat /\ p[l + 1] = e
      /\ \A i \in 1 .. l : p[i] = q[i]
  BY AppendFacts
<1> HIDE DEF p, l
<1>2. \A i \in DOMAIN p : i = l + 1 \/ (i \in DOMAIN q /\ p[i] = q[i])
  <2> SUFFICES ASSUME NEW i \in DOMAIN p PROVE i = l + 1 \/ (i \in DOMAIN q /\ p[i] = q[i])
    OBVIOUS
  <2>1. i = l + 1 \/ i \in 1 .. l
    BY <1>1
  <2> QED BY <1>1, <2>1
<1>3. \A i \in DOMAIN q : i \in DOMAIN p /\ p[i] = q[i] /\ i < l + 1
  BY <1>1
<1>4. n <= m /\ \A i \in DOMAIN q : q[i].type = type => q[i].id \in n + 1 .. m
  BY DEF Numbered
<1>5. n <= m + 1 /\ \A i \in DOMAIN p : p[i].type = type => p[i].id \in n + 1 .. m + 1
  BY <1>1, <1>2, <1>4
<1>6. \A i, j \in DOMAIN p :
        i < j /\ p[i].type = type /\ p[j].type = type => p[i].id < p[j].id
  <2> SUFFICES ASSUME NEW i \in DOMAIN p, NEW j \in DOMAIN p, i < j, p[i].type = type,
                      p[j].type = type
               PROVE  p[i].id < p[j].id
    OBVIOUS
  <2>1. i \in DOMAIN q /\ p[i] = q[i]
    BY <1>1, <1>2
  <2>2. CASE j = l + 1
    BY <1>1, <1>4, <2>1, <2>2
  <2>3. CASE j \in DOMAIN q /\ p[j] = q[j]
    BY <2>1, <2>3 DEF Numbered
  <2> QED BY <1>2, <2>2, <2>3
<1>7. \A k \in n + 1 .. m + 1 : \E i \in DOMAIN p : p[i].type = type /\ p[i].id = k
  <2> SUFFICES ASSUME NEW k \in n + 1 .. m + 1
               PROVE  \E i \in DOMAIN p : p[i].type = type /\ p[i].id = k
    OBVIOUS
  <2>1. CASE k = m + 1
    <3>1. l + 1 \in DOMAIN p
      BY <1>1
    <3> QED BY <1>1, <2>1, <3>1
  <2>2. CASE k \in n + 1 .. m
    BY <1>3, <2>2 DEF Numbered
  <2> QED BY <2>1, <2>2
<1> QED BY <1>5, <1>6, <1>7 DEF Numbered, p

LEMMA NumberedPast ==
  ASSUME NEW q \in Seq(Events), q # <<>>, NEW type, NEW n \in Nat, NEW m \in Nat,
         Numbered(q, type, n, m), Head(q).type # type
  PROVE  Numbered(Tail(q), type, n, m)
<1> DEFINE p == Tail(q)
           l == Len(q)
<1>1. /\ DOMAIN q = 1 .. l /\ l \in Nat /\ DOMAIN p = 1 .. l - 1 /\ Head(q) = q[1]
      /\ \A i \in DOMAIN p : p[i] = q[i + 1] /\ i + 1 \in DOMAIN q
  BY TailFacts
<1> HIDE DEF p, l
<1>2. \A i \in DOMAIN q : q[i].type = type => i - 1 \in DOMAIN p /\ p[i - 1] = q[i]
  <2> SUFFICES ASSUME NEW i \in DOMAIN q, q[i].type = type
               PROVE  i - 1 \in DOMAIN p /\ p[i - 1] = q[i]
    OBVIOUS
  <2>1. i # 1
    BY <1>1
  <2>2. i - 1 \in DOMAIN p /\ (i - 1) + 1 = i
    BY <1>1, <2>1
  <2> QED BY <1>1, <2>2
<1>3. \A i \in DOMAIN p : i \in Nat
  BY <1>1
<1>4. \A i, j \in DOMAIN p :
        i < j /\ p[i].type = type /\ p[j].type = type => p[i].id < p[j].id
  <2> SUFFICES ASSUME NEW i \in DOMAIN p, NEW j \in DOMAIN p, i < j, p[i].type = type,
                      p[j].type = type
               PROVE  p[i].id < p[j].id
    OBVIOUS
  <2>1. i + 1 < j + 1
    BY <1>3
  <2> QED BY <1>1, <2>1 DEF Numbered
<1>5. n <= m /\ \A i \in DOMAIN p : p[i].type = type => p[i].id \in n + 1 .. m
  BY <1>1 DEF Numbered
<1>6. \A k \in n + 1 .. m : \E i \in DOMAIN p : p[i].type = type /\ p[i].id = k
  BY <1>2 DEF Numbered
<1> QED BY <1>4, <1>5, <1>6 DEF Numbered, p

LEMMA NumberedTaken ==
  ASSUME NEW q \in Seq(Events), q # <<>>, NEW type, NEW n \in Nat, NEW m \in Nat,
         Numbered(q, type, n, m), Head(q).type = type
  PROVE  Numbered(Tail(q), type, n + 1, m) /\ Head(q).id = n + 1
<1> DEFINE p == Tail(q)
           l == Len(q)
<1>1. /\ DOMAIN q = 1 .. l /\ l \in Nat /\ DOMAIN p = 1 .. l - 1 /\ Head(q) = q[1] /\ 1 \in DOMAIN q
      /\ \A i \in DOMAIN p : p[i] = q[i + 1] /\ i + 1 \in DOMAIN q
  BY TailFacts
<1> HIDE DEF p, l
<1>2. n <= m /\ \A i \in DOMAIN q : q[i].type = type => q[i].id \in n + 1 .. m
  BY DEF Numbered
<1>3. q[1].id \in n + 1 .. m /\ q[1].type = type
  BY <1>1, <1>2
<1>4. PICK i \in DOMAIN q : q[i].type = type /\ q[i].id = n + 1
  BY <1>3 DEF Numbered
<1>5. i = 1
  <2> SUFFICES ASSUME i # 1 PROVE FALSE
    OBVIOUS
  <2>1. 1 < i
    BY <1>1
  <2>2. q[1].id < q[i].id
    BY <1>1, <1>3, <1>4, <2>1 DEF Numbered
  <2> QED BY <1>3, <1>4, <2>2
<1>6. q[1].id = n + 1 /\ n + 1 <= m
  BY <1>3, <1>4, <1>5
<1>7. \A j \in DOMAIN p : j \in Nat /\ 1 < j + 1
  BY <1>1
<1>8. \A j \in DOMAIN p : p[j].type = type => p[j].id \in n + 2 .. m
  <2> SUFFICES ASSUME NEW j \in DOMAIN p, p[j].type = type PROVE p[j].id \in n + 2 .. m
    OBVIOUS
  <2>1. p[j].id \in n + 1 .. m /\ j + 1 \in DOMAIN q /\ q[j + 1] = p[j]
    BY <1>1, <1>2
  <2>2. q[1].id < q[j + 1].id
    BY <1>1, <1>3, <1>7, <2>1 DEF Numbered
  <2> QED BY <1>6, <2>1, <2>2
<1>9. \A j, k \in DOMAIN p :
        j < k /\ p[j].type = type /\ p[k].type = type => p[j].id < p[k].id
  <2> SUFFICES ASSUME NEW j \in DOMAIN p, NEW k \in DOMAIN p, j < k, p[j].type = type,
                      p[k].type = type
               PROVE  p[j].id < p[k].id
    OBVIOUS
  <2>1. j + 1 < k + 1
    BY <1>7
  <2> QED BY <1>1, <2>1 DEF Numbered
<1>10. \A k \in n + 2 .. m : \E j \in DOMAIN p : p[j].type = type /\ p[j].id = k
  <2> SUFFICES ASSUME NEW k \in n + 2 .. m
               PROVE  \E j \in DOMAIN p : p[j].type = type /\ p[j].id = k
    OBVIOUS
  <2>1. k \in n + 1 .. m /\ k # n + 1
    OBVIOUS
  <2>2. PICK j \in DOMAIN q : q[j].type = type /\ q[j].id = k
    BY <2>1 DEF Numbered
  <2>3. j # 1
    BY <1>6, <2>1, <2>2
  <2>4. j - 1 \in DOMAIN p /\ (j - 1) + 1 = j
    BY <1>1, <2>3
  <2> QED BY <1>1, <2>2, <2>4
<1>11. (n + 1) + 1 = n + 2
  OBVIOUS
<1> QED BY <1>1, <1>6, <1>8, <1>9, <1>10, <1>11 DEF Numbered, p

-----------------------------------------------------------------------------
(* What the handlers make of the blueprints and their beats                *)

LEMMA AdoptKeeps ==
  ASSUME ShapeTyped, Shaped, CompletionIsEarned, NEW e \in Events, e.type = "adopted",
         BlueprintAdopted(e)
  PROVE  /\ ShapeTyped' /\ Shaped' /\ CompletionIsEarned'
         /\ \A b \in Blueprints : Claim(b) => Claim(b)'
<1>1. e.id \in Blueprints /\ Length[e.id] \in Targets
  BY OutlineAssumption DEF Events, EventOK
<1> DEFINE f == e.id
           r == [active |-> TRUE, target |-> Length[f], completed |-> None]
<1>2. r \in BlueprintRecord /\ r.active /\ r.completed = None
  BY <1>1 DEF BlueprintRecord
<1>3. /\ DOMAIN Superseded = DOMAIN blueprints
      /\ \A b \in DOMAIN blueprints :
           /\ Superseded[b] \in BlueprintRecord /\ ~ Superseded[b].active
           /\ Superseded[b].completed = blueprints[b].completed
  BY DEF Superseded, ShapeTyped, BlueprintRecord
<1>4. blueprints' = Upsert(Superseded, f, r)
  BY DEF BlueprintAdopted
<1> HIDE DEF r, f
<1>5. /\ DOMAIN blueprints' = DOMAIN blueprints \cup {f} /\ blueprints'[f] = r
      /\ \A b \in DOMAIN blueprints \ {f} : blueprints'[b] = Superseded[b]
      /\ blueprints' = [z \in DOMAIN blueprints' |-> blueprints'[z]]
  <2> DEFINE u == Upsert(Superseded, f, r)
  <2>1. /\ DOMAIN u = DOMAIN Superseded \cup {f} /\ u[f] = r
        /\ \A z \in DOMAIN Superseded \ {f} : u[z] = Superseded[z]
        /\ u = [z \in DOMAIN u |-> u[z]]
    BY DEF Upsert
  <2>2. blueprints' = u
    BY <1>4
  <2> HIDE DEF u
  <2> QED BY <1>3, <2>1, <2>2
<1>6. \A b \in DOMAIN blueprints' : blueprints'[b] \in BlueprintRecord
  BY <1>2, <1>3, <1>5
<1>7. /\ DOMAIN beats' = {f} \X Slots /\ beats' = [x \in {f} \X Slots |-> 0] /\ met' = met
      /\ anew' = IF f \in DOMAIN blueprints THEN anew \cup {f} ELSE anew
  BY DEF BlueprintAdopted, f
<1>8. f \in Blueprints
  BY <1>1 DEF f
<1>9. ShapeTyped'
  <2>1. blueprints' \in [DOMAIN blueprints' -> BlueprintRecord] /\ (DOMAIN blueprints)' \subseteq Blueprints
    BY <1>5, <1>6, <1>8 DEF ShapeTyped
  <2>2. beats' \in [DOMAIN beats' -> Chapter] /\ (DOMAIN beats)' \subseteq Beats
    BY <1>7, <1>8, OutlineAssumption DEF Beats, Chapter
  <2>3. met' \subseteq Beats /\ anew' \subseteq DOMAIN blueprints'
    BY <1>5, <1>7 DEF ShapeTyped
  <2> QED BY <2>1, <2>2, <2>3 DEF ShapeTyped
<1>10. Shaped'
  <2>1. Shape(f)'
    BY <1>2, <1>3, <1>5, <1>7 DEF Shape
  <2>2. \A x \in DOMAIN beats' : beats'[x] = 0
    BY <1>7
  <2> QED BY <1>8, <2>1, <2>2 DEF Shaped
<1>11. CompletionIsEarned'
  BY <1>2, <1>3, <1>5, <1>7 DEF CompletionIsEarned, ShapeTyped
<1>12. \A b \in Blueprints : Claim(b) => Claim(b)'
  BY <1>2, <1>3, <1>5, <1>7 DEF Claim, Earned
<1> QED BY <1>9, <1>10, <1>11, <1>12

(* A handler that leaves which blueprint is active alone keeps the shape. *)
LEMMA RetargetKeeps ==
  ASSUME ShapeTyped, Shaped, CompletionIsEarned, NEW e \in Events, e.type = "retargeted",
         BlueprintRetargeted(e)
  PROVE  /\ ShapeTyped' /\ Shaped' /\ CompletionIsEarned'
         /\ \A b \in Blueprints : Claim(b) => Claim(b)'
<1>1. e.id \in Blueprints /\ e.arg \in Targets
  BY DEF Events, EventOK
<1>2. UNCHANGED <<beats, met, anew>>
  BY DEF BlueprintRetargeted
<1> DEFINE f == e.id
           r == [blueprints[f] EXCEPT !.target = e.arg]
<1>3. CASE Active(e.id)
  <2>1. f \in DOMAIN blueprints /\ blueprints' = [blueprints EXCEPT ![f] = r]
    BY <1>3 DEF BlueprintRetargeted, Active
  <2>2. /\ r \in BlueprintRecord /\ r.active = blueprints[f].active
        /\ r.completed = blueprints[f].completed
    BY <1>1, <2>1 DEF ShapeTyped, BlueprintRecord
  <2> HIDE DEF r, f
  <2>3. /\ DOMAIN blueprints' = DOMAIN blueprints
        /\ \A b \in DOMAIN blueprints : /\ blueprints'[b].active = blueprints[b].active
                                        /\ blueprints'[b].completed = blueprints[b].completed
    BY <2>1, <2>2 DEF ShapeTyped
  <2>4. ShapeTyped'
    BY <1>2, <2>1, <2>2 DEF ShapeTyped
  <2>5. \A b : Shape(b) => Shape(b)'
    BY <1>2, <2>3 DEF Shape
  <2>6. Shaped'
    BY <1>2, <2>3, <2>5 DEF Shaped
  <2>7. CompletionIsEarned' /\ \A b \in Blueprints : Claim(b) => Claim(b)'
    BY <1>2, <2>3 DEF CompletionIsEarned, Claim, Earned
  <2> QED BY <2>4, <2>6, <2>7
<1>4. CASE ~ Active(e.id)
  <2>1. UNCHANGED <<blueprints, beats, met, anew>>
    BY <1>2, <1>4 DEF BlueprintRetargeted
  <2> QED BY <2>1 DEF ShapeTyped, Shaped, Shape, CompletionIsEarned, Claim, Earned
<1> QED BY <1>3, <1>4

LEMMA CompleteKeeps ==
  ASSUME ShapeTyped, Shaped, CompletionIsEarned, NEW e \in Events, e.type = "completed",
         BookCompleted(e), Claim(e.id)
  PROVE  /\ ShapeTyped' /\ Shaped' /\ CompletionIsEarned'
         /\ \A b \in Blueprints : Claim(b) => Claim(b)'
<1>1. e.id \in Blueprints /\ e.arg \in Chapter
  BY DEF Events, EventOK
<1>2. UNCHANGED <<beats, met, anew>>
  BY DEF BookCompleted
<1> DEFINE f == e.id
           r == [blueprints[f] EXCEPT !.completed = e.arg]
<1>3. CASE Active(e.id) /\ blueprints[e.id].completed = None
  <2>1. f \in DOMAIN blueprints /\ blueprints[f].active /\ blueprints' = [blueprints EXCEPT ![f] = r]
    BY <1>3 DEF BookCompleted, Active
  <2>2. r \in BlueprintRecord /\ r.active = blueprints[f].active
    BY <1>1, <2>1 DEF ShapeTyped, BlueprintRecord
  <2>3. Earned(f) \/ f \in anew
    BY <2>1 DEF Claim
  <2> HIDE DEF r, f
  <2>4. /\ DOMAIN blueprints' = DOMAIN blueprints
        /\ \A b \in DOMAIN blueprints : /\ blueprints'[b].active = blueprints[b].active
                                        /\ b # f => blueprints'[b] = blueprints[b]
    BY <2>1, <2>2 DEF ShapeTyped
  <2>5. ShapeTyped'
    BY <1>2, <2>1, <2>2 DEF ShapeTyped
  <2>6. \A b : Shape(b) => Shape(b)'
    BY <1>2, <2>4 DEF Shape
  <2>7. Shaped'
    BY <1>2, <2>4, <2>6 DEF Shaped
  <2>8. CompletionIsEarned'
    BY <1>2, <2>3, <2>4 DEF CompletionIsEarned, Earned
  <2>9. \A b \in Blueprints : Claim(b) => Claim(b)'
    BY <1>2, <2>4 DEF Claim, Earned
  <2> QED BY <2>5, <2>7, <2>8, <2>9
<1>4. CASE ~ (Active(e.id) /\ blueprints[e.id].completed = None)
  <2>1. UNCHANGED <<blueprints, beats, met, anew>>
    BY <1>2, <1>4 DEF BookCompleted
  <2> QED BY <2>1 DEF ShapeTyped, Shaped, Shape, CompletionIsEarned, Claim, Earned
<1> QED BY <1>3, <1>4

LEMMA BeatKeeps ==
  ASSUME ShapeTyped, Shaped, CompletionIsEarned, NEW e \in Events, e.type = "beat",
         BeatFulfilled(e)
  PROVE  /\ ShapeTyped' /\ Shaped' /\ CompletionIsEarned'
         /\ \A b \in Blueprints : Claim(b) => Claim(b)'
<1>1. e.id \in Beats /\ e.arg \in Chapter
  BY DEF Events, EventOK
<1>2. UNCHANGED <<blueprints, anew>>
  BY DEF BeatFulfilled
<1>3. /\ met \subseteq met' /\ met' \subseteq Beats
      /\ e.id \in DOMAIN beats /\ e.arg # 0 => e.id \in met'
  BY <1>1 DEF BeatFulfilled, ShapeTyped
<1>4. /\ DOMAIN beats' = DOMAIN beats /\ beats' \in [DOMAIN beats -> Chapter]
      /\ \A x \in DOMAIN beats : \/ beats'[x] = beats[x]
                                 \/ x = e.id /\ beats'[x] = e.arg
  BY <1>1 DEF BeatFulfilled, ShapeTyped
<1>5. ShapeTyped'
  BY <1>2, <1>3, <1>4 DEF ShapeTyped
<1>6. \A b : Shape(b) => Shape(b)'
  BY <1>2, <1>4 DEF Shape
<1>7. Shaped'
  <2>1. \A x \in DOMAIN beats' : beats'[x] # 0 => x \in met'
    BY <1>3, <1>4 DEF Shaped
  <2> QED BY <1>2, <1>4, <1>6, <2>1 DEF Shaped
<1>8. CompletionIsEarned' /\ \A b \in Blueprints : Claim(b) => Claim(b)'
  BY <1>2, <1>3 DEF CompletionIsEarned, Claim, Earned
<1> QED BY <1>5, <1>7, <1>8

-----------------------------------------------------------------------------
(* ... and of the briefs and the arcs                                      *)

LEMMA BriefsKept ==
  ASSUME briefs \in Seq(ChapterBriefRecord), NEW e \in Events,
         \/ e.type = "drafted" /\ ChapterBriefDrafted(e)
         \/ e.type \in {"superseded", "fulfilled"} /\ ChapterBriefClosed(e)
  PROVE  /\ briefs' \in Seq(ChapterBriefRecord)
         /\ e.type = "drafted" => Len(briefs') = Len(briefs) + 1
         /\ e.type # "drafted" => Len(briefs') = Len(briefs)
<1>1. CASE e.type = "drafted" /\ ChapterBriefDrafted(e)
  <2>1. e.arg \in Ordinals
    BY <1>1 DEF Events, EventOK
  <2> DEFINE r == [ordinal |-> e.arg, state |-> "open", chapter |-> 0]
  <2>2. r \in ChapterBriefRecord
    BY <2>1, OutlineAssumption DEF ChapterBriefRecord, BriefStatus, Chapter
  <2>3. briefs' = Append(briefs, r)
    BY <1>1 DEF ChapterBriefDrafted
  <2> HIDE DEF r
  <2> QED BY <1>1, <2>2, <2>3
<1>2. CASE e.type \in {"superseded", "fulfilled"} /\ ChapterBriefClosed(e)
  <2>1. e.arg \in Chapter /\ e.type \in BriefStatus
    BY <1>2 DEF Events, EventOK, BriefStatus
  <2>2. CASE e.id \in DOMAIN briefs /\ briefs[e.id].state = "open"
    <3> DEFINE i == e.id
               r == [briefs[i] EXCEPT !.state = e.type]
               q == [r EXCEPT !.chapter = e.arg]
    <3>1. briefs[i] \in ChapterBriefRecord
      BY <2>2
    <3>2. q \in ChapterBriefRecord
      BY <2>1, <3>1 DEF ChapterBriefRecord
    <3>3. briefs' = [briefs EXCEPT ![i] = q]
      BY <1>2, <2>2 DEF ChapterBriefClosed
    <3> HIDE DEF q
    <3> QED BY <1>2, <2>2, <3>2, <3>3
  <2>3. CASE ~ (e.id \in DOMAIN briefs /\ briefs[e.id].state = "open")
    BY <1>2, <2>3 DEF ChapterBriefClosed
  <2> QED BY <2>2, <2>3
<1> QED BY <1>1, <1>2

LEMMA OneMore ==
  ASSUME NEW S, IsFiniteSet(S), NEW x
  PROVE  /\ IsFiniteSet(S \cup {x}) /\ Cardinality(S) \in Nat
         /\ Cardinality(S \cup {x}) \in {Cardinality(S), Cardinality(S) + 1}
<1>1. CASE x \in S
  <2>1. S \cup {x} = S
    BY <1>1
  <2> QED BY <2>1, FS_CardinalityType
<1>2. CASE x \notin S
  BY <1>2, FS_AddElement, FS_CardinalityType
<1> QED BY <1>1, <1>2

LEMMA ArcsKept ==
  ASSUME ArcsTyped, OneActiveArc, NEW e \in Events,
         \/ e.type = "declared" /\ ArcDeclared(e)
         \/ e.type = "pivot" /\ ArcPivotPlanned(e)
         \/ e.type = "resolved" /\ ArcResolved(e)
  PROVE  ArcsTyped' /\ OneActiveArc'
<1>1. CASE e.type = "declared" /\ ArcDeclared(e) /\ e.id \notin DOMAIN arcs
  <2> DEFINE a == e.id
             r == [of |-> e.arg, active |-> TRUE, resolved |-> FALSE, pivots |-> {}]
             A == [x \in DOMAIN arcs |->
                     IF arcs[x].of = e.arg THEN [arcs[x] EXCEPT !.active = FALSE] ELSE arcs[x]]
  <2>1. a \in Arcs /\ e.arg \in Cast
    BY <1>1 DEF Events, EventOK
  <2>2. r \in ArcRecord /\ r.of = e.arg /\ r.active /\ IsFiniteSet(r.pivots)
    BY <2>1, FS_EmptySet DEF ArcRecord
  <2>3. \A x \in DOMAIN arcs :
          /\ A[x] \in ArcRecord /\ A[x].of = arcs[x].of /\ A[x].pivots = arcs[x].pivots
          /\ A[x].active = (arcs[x].active /\ arcs[x].of # e.arg)
    BY DEF ArcsTyped, ArcRecord
  <2>4. arcs' = Upsert(A, a, r)
    BY <1>1 DEF ArcDeclared
  <2>5. DOMAIN A = DOMAIN arcs
    OBVIOUS
  <2> HIDE DEF r, A
  <2>6. /\ DOMAIN arcs' = DOMAIN arcs \cup {a} /\ arcs'[a] = r
        /\ \A x \in DOMAIN arcs : x # a /\ arcs'[x] = A[x]
        /\ arcs' = [x \in DOMAIN arcs' |-> arcs'[x]]
    <3> DEFINE u == Upsert(A, a, r)
    <3>1. /\ DOMAIN u = DOMAIN A \cup {a} /\ u[a] = r
          /\ \A z \in DOMAIN A \ {a} : u[z] = A[z]
          /\ u = [z \in DOMAIN u |-> u[z]]
      BY DEF Upsert
    <3>2. arcs' = u
      BY <2>4
    <3> HIDE DEF u
    <3> QED BY <1>1, <2>5, <3>1, <3>2
  <2> HIDE DEF a
  <2>7. \A x \in DOMAIN arcs' : arcs'[x] \in ArcRecord /\ IsFiniteSet(arcs'[x].pivots)
    BY <2>2, <2>3, <2>6 DEF ArcsTyped
  <2>8. ArcsTyped'
    BY <2>1, <2>6, <2>7 DEF ArcsTyped
  <2>9. OneActiveArc'
    <3> SUFFICES ASSUME NEW x \in DOMAIN arcs'
                 PROVE  \E y \in DOMAIN arcs' :
                          /\ arcs'[y].of = arcs'[x].of /\ arcs'[y].active
                          /\ \A z \in DOMAIN arcs' \ {y} : arcs'[z].of = arcs'[x].of => ~ arcs'[z].active
      BY DEF OneActiveArc
    <3>1. CASE arcs'[x].of = e.arg
      <4>1. a \in DOMAIN arcs' /\ arcs'[a].of = arcs'[x].of /\ arcs'[a].active
        BY <2>2, <2>6, <3>1
      <4>2. \A z \in DOMAIN arcs' \ {a} : arcs'[z].of = arcs'[x].of => ~ arcs'[z].active
        BY <2>3, <2>6, <3>1
      <4> QED BY <4>1, <4>2
    <3>2. CASE arcs'[x].of # e.arg
      <4>1. x \in DOMAIN arcs /\ arcs'[x].of = arcs[x].of
        BY <2>2, <2>3, <2>6, <3>2
      <4>2. PICK y \in DOMAIN arcs :
              /\ arcs[y].of = arcs[x].of /\ arcs[y].active
              /\ \A z \in DOMAIN arcs \ {y} : arcs[z].of = arcs[x].of => ~ arcs[z].active
        BY <4>1 DEF OneActiveArc
      <4>3. y \in DOMAIN arcs' /\ arcs'[y].of = arcs'[x].of /\ arcs'[y].active
        BY <2>3, <2>6, <3>2, <4>1, <4>2
      <4>4. \A z \in DOMAIN arcs' \ {y} : arcs'[z].of = arcs'[x].of => ~ arcs'[z].active
        <5> SUFFICES ASSUME NEW z \in DOMAIN arcs' \ {y}, arcs'[z].of = arcs'[x].of
                     PROVE  ~ arcs'[z].active
          OBVIOUS
        <5>1. z # a
          BY <2>2, <2>6, <3>2
        <5>2. z \in DOMAIN arcs /\ arcs'[z] = A[z] /\ arcs[z].of = arcs[x].of
          BY <2>3, <2>6, <4>1, <5>1
        <5> QED BY <2>3, <4>2, <5>2
      <4> QED BY <4>3, <4>4
    <3> QED BY <3>1, <3>2
  <2> QED BY <2>8, <2>9
<1>2. CASE e.type \in {"pivot", "resolved"} /\ e.id \in DOMAIN arcs
           /\ \E q \in ArcRecord : /\ arcs' = [arcs EXCEPT ![e.id] = q]
                                   /\ q.of = arcs[e.id].of /\ q.active = arcs[e.id].active
                                   /\ IsFiniteSet(q.pivots)
  <2>1. PICK q \in ArcRecord : /\ arcs' = [arcs EXCEPT ![e.id] = q]
                               /\ q.of = arcs[e.id].of /\ q.active = arcs[e.id].active
                               /\ IsFiniteSet(q.pivots)
    BY <1>2
  <2>2. DOMAIN arcs' = DOMAIN arcs
        /\ \A x \in DOMAIN arcs : /\ arcs'[x].of = arcs[x].of /\ arcs'[x].active = arcs[x].active
                                  /\ IsFiniteSet(arcs'[x].pivots)
    BY <1>2, <2>1 DEF ArcsTyped
  <2>3. ArcsTyped'
    BY <2>1, <2>2 DEF ArcsTyped
  <2>4. OneActiveArc'
    BY <2>2 DEF OneActiveArc
  <2> QED BY <2>3, <2>4
<1>3. CASE arcs' = arcs
  BY <1>3 DEF ArcsTyped, OneActiveArc
<1>4. CASE e.type = "declared" /\ ArcDeclared(e) /\ e.id \in DOMAIN arcs
  BY <1>3, <1>4 DEF ArcDeclared
<1>5. CASE e.type = "pivot" /\ ArcPivotPlanned(e)
  <2>1. CASE Unresolved(e.id)
    <3> DEFINE a == e.id
               P == arcs[a].pivots
               q == [arcs[a] EXCEPT !.pivots = P \cup {e.arg}]
    <3>1. a \in DOMAIN arcs /\ e.arg \in Beats
      BY <1>5, <2>1 DEF Unresolved, Events, EventOK
    <3>2. arcs' = [arcs EXCEPT ![a] = q]
      BY <1>5, <2>1 DEF ArcPivotPlanned
    <3>3. IsFiniteSet(P \cup {e.arg})
      BY <3>1, OneMore DEF ArcsTyped
    <3>4. /\ q \in ArcRecord /\ q.of = arcs[a].of /\ q.active = arcs[a].active
          /\ q.pivots = P \cup {e.arg}
      BY <3>1 DEF ArcsTyped, ArcRecord
    <3> HIDE DEF q
    <3> QED BY <1>2, <1>5, <3>1, <3>2, <3>3, <3>4
  <2> QED BY <1>3, <1>5, <2>1 DEF ArcPivotPlanned
<1>6. CASE e.type = "resolved" /\ ArcResolved(e)
  <2>1. CASE Unresolved(e.id)
    <3> DEFINE a == e.id
               q == [arcs[a] EXCEPT !.resolved = TRUE]
    <3>1. a \in DOMAIN arcs
      BY <2>1 DEF Unresolved
    <3>2. arcs' = [arcs EXCEPT ![a] = q]
      BY <1>6, <2>1 DEF ArcResolved
    <3>3. /\ q \in ArcRecord /\ q.of = arcs[a].of /\ q.active = arcs[a].active
          /\ q.pivots = arcs[a].pivots
      BY <3>1 DEF ArcsTyped, ArcRecord
    <3>4. IsFiniteSet(q.pivots)
      BY <3>1, <3>3 DEF ArcsTyped
    <3> HIDE DEF q
    <3> QED BY <1>2, <1>6, <3>1, <3>2, <3>3, <3>4
  <2> QED BY <1>3, <1>6, <2>1 DEF ArcResolved
<1> QED BY <1>1, <1>4, <1>5, <1>6

-----------------------------------------------------------------------------
(* The steps, on the story: folding the next event, adding one to those that
   wait, and neither                                                        *)

LEMMA FoldTakes ==
  ASSUME IInv, Fold
  PROVE  /\ Head(pending) \in Events /\ pending # <<>> /\ pending \in Seq(Events)
         /\ PendingOK' /\ pending' = Tail(pending)
         /\ \A i \in DOMAIN pending' : \E j \in DOMAIN pending : pending'[i] = pending[j]
         /\ Head(pending).type = "completed" => Claim(Head(pending).id)
<1>1. pending \in Seq(Events) /\ Len(pending) <= MaxPending
  BY DEF IInv, Book, PendingOK
<1>2. pending # <<>> /\ pending' = Tail(pending)
  BY DEF Fold
<1>3. /\ Head(pending) = pending[1] /\ 1 \in DOMAIN pending /\ Head(pending) \in Events
      /\ Tail(pending) \in Seq(Events) /\ Len(Tail(pending)) = Len(pending) - 1 /\ Len(pending) \in Nat
      /\ DOMAIN Tail(pending) = 1 .. Len(pending) - 1
      /\ \A i \in 1 .. Len(pending) - 1 : Tail(pending)[i] = pending[i + 1] /\ i + 1 \in DOMAIN pending
  BY <1>1, <1>2, TailFacts
<1>4. PendingOK'
  BY <1>1, <1>2, <1>3, OutlineAssumption DEF PendingOK
<1>5. \A i \in DOMAIN pending' : \E j \in DOMAIN pending : pending'[i] = pending[j]
  BY <1>2, <1>3
<1>6. Head(pending).type = "completed" => Claim(Head(pending).id)
  BY <1>3 DEF IInv, Book, ClaimsHold
<1> QED BY <1>1, <1>2, <1>3, <1>4, <1>5, <1>6

(* What an event does to the rows depends on what it is about. *)
ShapeFold(e) ==
  /\ \/ e.type = "adopted" /\ BlueprintAdopted(e)
     \/ e.type = "retargeted" /\ BlueprintRetargeted(e)
     \/ e.type = "completed" /\ BookCompleted(e)
     \/ e.type = "beat" /\ BeatFulfilled(e)
  /\ UNCHANGED <<briefs, arcs, proposals, chapters, owed>>

BriefFold(e) ==
  /\ \/ e.type = "drafted" /\ ChapterBriefDrafted(e)
     \/ e.type \in {"superseded", "fulfilled"} /\ ChapterBriefClosed(e)
  /\ UNCHANGED <<blueprints, beats, arcs, proposals, chapters, owed, met, anew>>

ArcFold(e) ==
  /\ \/ e.type = "declared" /\ ArcDeclared(e)
     \/ e.type = "pivot" /\ ArcPivotPlanned(e)
     \/ e.type = "resolved" /\ ArcResolved(e)
  /\ UNCHANGED <<blueprints, beats, briefs, proposals, chapters, owed, met, anew>>

OtherFold(e) ==
  /\ \/ /\ e.type \in {"open", "decided"} /\ proposals' = Upsert(proposals, e.id, e.type)
        /\ UNCHANGED <<chapters, owed>>
     \/ e.type = "chapter" /\ chapters' = chapters + 1 /\ UNCHANGED <<proposals, owed>>
     \/ e.type = "promise" /\ owed' = e.arg /\ UNCHANGED <<proposals, chapters>>
  /\ UNCHANGED <<blueprints, beats, briefs, arcs, met, anew>>

LEMMA FoldKinds ==
  ASSUME Fold
  PROVE  \/ ShapeFold(Head(pending)) \/ BriefFold(Head(pending))
         \/ ArcFold(Head(pending)) \/ OtherFold(Head(pending))
<1> DEFINE e == Head(pending)
<1>1. CASE /\ \/ e.type = "adopted" /\ BlueprintAdopted(e)
              \/ e.type = "retargeted" /\ BlueprintRetargeted(e)
              \/ e.type = "completed" /\ BookCompleted(e)
              \/ e.type = "beat" /\ BeatFulfilled(e)
           /\ UNCHANGED <<briefs, arcs, proposals, chapters, owed>>
  BY <1>1 DEF ShapeFold
<1>2. CASE BriefFold(e)
  BY <1>2
<1>3. CASE ArcFold(e)
  BY <1>3
<1>4. CASE OtherFold(e)
  BY <1>4
<1> QED BY <1>1, <1>2, <1>3, <1>4, Zenon DEF Fold, BriefFold, ArcFold, OtherFold

(* Of the shape, an event about anything else changes nothing. *)
LEMMA ShapeStays ==
  ASSUME ShapeTyped, Shaped, CompletionIsEarned, UNCHANGED <<blueprints, beats, met, anew>>
  PROVE  /\ ShapeTyped' /\ Shaped' /\ CompletionIsEarned'
         /\ DOMAIN blueprints \subseteq DOMAIN blueprints'
         /\ \A b \in Blueprints : Claim(b) => Claim(b)'
BY DEF ShapeTyped, Shaped, Shape, CompletionIsEarned, Claim, Earned

LEMMA ShapeFolds ==
  ASSUME ShapeTyped, Shaped, CompletionIsEarned, NEW e \in Events, ShapeFold(e),
         e.type = "completed" => Claim(e.id)
  PROVE  /\ ShapeTyped' /\ Shaped' /\ CompletionIsEarned'
         /\ DOMAIN blueprints \subseteq DOMAIN blueprints'
         /\ \A b \in Blueprints : Claim(b) => Claim(b)'
<1>1. CASE e.type = "adopted" /\ BlueprintAdopted(e)
  <2>1. DOMAIN blueprints \subseteq DOMAIN blueprints'
    BY <1>1 DEF BlueprintAdopted, Upsert, Superseded
  <2> QED BY <1>1, <2>1, AdoptKeeps
<1>2. CASE e.type = "retargeted" /\ BlueprintRetargeted(e)
  <2>1. DOMAIN blueprints \subseteq DOMAIN blueprints'
    BY <1>2 DEF BlueprintRetargeted, ShapeTyped
  <2> QED BY <1>2, <2>1, RetargetKeeps
<1>3. CASE e.type = "completed" /\ BookCompleted(e)
  <2>1. DOMAIN blueprints \subseteq DOMAIN blueprints'
    BY <1>3 DEF BookCompleted, ShapeTyped
  <2> QED BY <1>3, <2>1, CompleteKeeps
<1>4. CASE e.type = "beat" /\ BeatFulfilled(e)
  <2>1. DOMAIN blueprints \subseteq DOMAIN blueprints'
    BY <1>4 DEF BeatFulfilled
  <2> QED BY <1>4, <2>1, BeatKeeps
<1> QED BY <1>1, <1>2, <1>3, <1>4 DEF ShapeFold

LEMMA FoldKeepsRows ==
  ASSUME IInv, Fold
  PROVE  /\ RowsOK' /\ Shaped' /\ OneActiveArc' /\ CompletionIsEarned'
         /\ BriefsNumbered' /\ ChaptersNumbered'
         /\ DOMAIN blueprints \subseteq DOMAIN blueprints'
         /\ \A b \in Blueprints : Claim(b) => Claim(b)'
<1> DEFINE e == Head(pending)
<1>1. /\ e \in Events /\ pending # <<>> /\ pending \in Seq(Events) /\ pending' = Tail(pending)
      /\ e.type = "completed" => Claim(e.id)
  BY FoldTakes
<1>2. /\ ShapeTyped /\ ArcsTyped /\ briefs \in Seq(ChapterBriefRecord)
      /\ proposals \in [DOMAIN proposals -> {"open", "decided"}] /\ DOMAIN proposals \subseteq Blueprints
      /\ chapters \in Nat /\ owed \in BOOLEAN
      /\ Shaped /\ OneActiveArc /\ CompletionIsEarned
  BY DEF IInv, Book, RowsOK, ClaimsHold
<1>3. /\ drafted' = drafted /\ written' = written /\ drafted \in Nat /\ written \in Nat
      /\ Len(briefs) \in Nat
      /\ Numbered(pending, "drafted", Len(briefs), drafted)
      /\ Numbered(pending, "chapter", chapters, written)
  BY <1>2, OutlineAssumption DEF IInv, Book, AtWork, CountsTyped, Chapter, BriefsNumbered,
     ChaptersNumbered, Fold
<1> HIDE DEF e
<1>4. /\ e.type # "drafted" => Numbered(Tail(pending), "drafted", Len(briefs), drafted)
      /\ e.type = "drafted" => Numbered(Tail(pending), "drafted", Len(briefs) + 1, drafted)
      /\ e.type # "chapter" => Numbered(Tail(pending), "chapter", chapters, written)
      /\ e.type = "chapter" => Numbered(Tail(pending), "chapter", chapters + 1, written)
  BY <1>1, <1>2, <1>3, NumberedPast, NumberedTaken DEF e
<1>5. ASSUME NEW n \in Nat, NEW c \in Nat, Len(briefs') = n, chapters' = c,
             Numbered(Tail(pending), "drafted", n, drafted), Numbered(Tail(pending), "chapter", c, written)
      PROVE  BriefsNumbered' /\ ChaptersNumbered'
  BY <1>1, <1>3, <1>5 DEF BriefsNumbered, ChaptersNumbered
<1>6. CASE ShapeFold(e)
  <2>1. UNCHANGED <<briefs, arcs, proposals, chapters, owed>> /\ e.type \notin {"drafted", "chapter"}
    BY <1>6 DEF ShapeFold
  <2>2. /\ ShapeTyped' /\ Shaped' /\ CompletionIsEarned'
        /\ DOMAIN blueprints \subseteq DOMAIN blueprints'
        /\ \A b \in Blueprints : Claim(b) => Claim(b)'
    BY <1>1, <1>2, <1>6, ShapeFolds
  <2>3. ArcsTyped' /\ OneActiveArc'
    BY <1>2, <2>1 DEF ArcsTyped, OneActiveArc
  <2>4. RowsOK'
    BY <1>2, <2>1, <2>2, <2>3 DEF RowsOK
  <2>5. BriefsNumbered' /\ ChaptersNumbered'
    BY <1>2, <1>3, <1>4, <1>5, <2>1
  <2> QED BY <2>2, <2>3, <2>4, <2>5
<1>7. CASE BriefFold(e)
  <2>1. UNCHANGED <<blueprints, beats, arcs, proposals, chapters, owed, met, anew>> /\ e.type # "chapter"
    BY <1>7 DEF BriefFold
  <2>2. /\ ShapeTyped' /\ Shaped' /\ CompletionIsEarned'
        /\ DOMAIN blueprints \subseteq DOMAIN blueprints'
        /\ \A b \in Blueprints : Claim(b) => Claim(b)'
    BY <1>2, <2>1, ShapeStays
  <2>3. ArcsTyped' /\ OneActiveArc'
    BY <1>2, <2>1 DEF ArcsTyped, OneActiveArc
  <2>4. /\ briefs' \in Seq(ChapterBriefRecord)
        /\ e.type = "drafted" => Len(briefs') = Len(briefs) + 1
        /\ e.type # "drafted" => Len(briefs') = Len(briefs)
    BY <1>1, <1>2, <1>7, BriefsKept DEF BriefFold
  <2>5. RowsOK'
    BY <1>2, <2>1, <2>2, <2>3, <2>4 DEF RowsOK
  <2>6. BriefsNumbered' /\ ChaptersNumbered'
    <3>1. CASE e.type = "drafted"
      BY <1>2, <1>3, <1>4, <1>5, <2>1, <2>4, <3>1
    <3>2. CASE e.type # "drafted"
      BY <1>2, <1>3, <1>4, <1>5, <2>1, <2>4, <3>2
    <3> QED BY <3>1, <3>2
  <2> QED BY <2>2, <2>3, <2>5, <2>6
<1>8. CASE ArcFold(e)
  <2>1. /\ UNCHANGED <<blueprints, beats, briefs, proposals, chapters, owed, met, anew>>
        /\ e.type \notin {"drafted", "chapter"}
    BY <1>8 DEF ArcFold
  <2>2. /\ ShapeTyped' /\ Shaped' /\ CompletionIsEarned'
        /\ DOMAIN blueprints \subseteq DOMAIN blueprints'
        /\ \A b \in Blueprints : Claim(b) => Claim(b)'
    BY <1>2, <2>1, ShapeStays
  <2>3. ArcsTyped' /\ OneActiveArc'
    BY <1>1, <1>2, <1>8, ArcsKept DEF ArcFold
  <2>4. RowsOK'
    BY <1>2, <2>1, <2>2, <2>3 DEF RowsOK
  <2>5. BriefsNumbered' /\ ChaptersNumbered'
    BY <1>2, <1>3, <1>4, <1>5, <2>1
  <2> QED BY <2>2, <2>3, <2>4, <2>5
<1>9. CASE OtherFold(e)
  <2>1. UNCHANGED <<blueprints, beats, briefs, arcs, met, anew>>
    BY <1>9 DEF OtherFold
  <2>2. /\ ShapeTyped' /\ Shaped' /\ CompletionIsEarned'
        /\ DOMAIN blueprints \subseteq DOMAIN blueprints'
        /\ \A b \in Blueprints : Claim(b) => Claim(b)'
    BY <1>2, <2>1, ShapeStays
  <2>3. ArcsTyped' /\ OneActiveArc'
    BY <1>2, <2>1 DEF ArcsTyped, OneActiveArc
  <2>4. CASE e.type \in {"open", "decided"} /\ proposals' = Upsert(proposals, e.id, e.type)
             /\ UNCHANGED <<chapters, owed>>
    <3>1. e.id \in Blueprints
      BY <1>1, <2>4 DEF Events, EventOK
    <3>2. proposals' \in [DOMAIN proposals' -> {"open", "decided"}] /\ DOMAIN proposals' \subseteq Blueprints
      BY <1>2, <2>4, <3>1 DEF Upsert
    <3>3. RowsOK'
      BY <1>2, <2>1, <2>2, <2>3, <2>4, <3>2 DEF RowsOK
    <3>4. BriefsNumbered' /\ ChaptersNumbered'
      BY <1>2, <1>3, <1>4, <1>5, <2>1, <2>4
    <3> QED BY <2>2, <2>3, <3>3, <3>4
  <2>5. CASE e.type = "chapter" /\ chapters' = chapters + 1 /\ UNCHANGED <<proposals, owed>>
    <3>1. RowsOK'
      BY <1>2, <2>1, <2>2, <2>3, <2>5 DEF RowsOK
    <3>2. BriefsNumbered' /\ ChaptersNumbered'
      BY <1>2, <1>3, <1>4, <1>5, <2>1, <2>5
    <3> QED BY <2>2, <2>3, <3>1, <3>2
  <2>6. CASE e.type = "promise" /\ owed' = e.arg /\ UNCHANGED <<proposals, chapters>>
    <3>1. e.arg \in BOOLEAN
      BY <1>1, <2>6 DEF Events, EventOK
    <3>2. RowsOK'
      BY <1>2, <2>1, <2>2, <2>3, <2>6, <3>1 DEF RowsOK
    <3>3. BriefsNumbered' /\ ChaptersNumbered'
      BY <1>2, <1>3, <1>4, <1>5, <2>1, <2>6
    <3> QED BY <2>2, <2>3, <3>2, <3>3
  <2> QED BY <1>9, <2>4, <2>5, <2>6 DEF OtherFold
<1> QED BY <1>6, <1>7, <1>8, <1>9, FoldKinds DEF e

(* The events that wait may name a blueprint complete if there is a claim. *)
ClaimsIn(q) == \A i \in DOMAIN q : q[i].type = "completed" => Claim(q[i].id)

LEMMA FoldKeepsBook ==
  ASSUME IInv, Fold
  PROVE  /\ Book'
         /\ DOMAIN blueprints \subseteq DOMAIN blueprints'
         /\ \A b \in Blueprints : Claim(b) => Claim(b)'
<1>1. /\ RowsOK' /\ Shaped' /\ OneActiveArc' /\ CompletionIsEarned'
      /\ BriefsNumbered' /\ ChaptersNumbered'
      /\ DOMAIN blueprints \subseteq DOMAIN blueprints'
      /\ \A b \in Blueprints : Claim(b) => Claim(b)'
  BY FoldKeepsRows
<1>2. PendingOK' /\ \A i \in DOMAIN pending' : \E j \in DOMAIN pending : pending'[i] = pending[j]
  BY FoldTakes
<1>3. ClaimsHold'
  <2>1. PICK p : p = pending'
    OBVIOUS
  <2>2. ASSUME NEW i \in DOMAIN p, p[i].type = "completed" PROVE Claim(p[i].id)'
    <3>1. PICK j \in DOMAIN pending : p[i] = pending[j]
      BY <1>2, <2>1
    <3>2. p[i] \in Events /\ Claim(p[i].id)
      BY <2>2, <3>1 DEF IInv, Book, PendingOK, ClaimsHold
    <3>3. p[i].id \in Blueprints
      BY <2>2, <3>2 DEF Events, EventOK
    <3> QED BY <1>1, <3>2, <3>3
  <2> QED BY <1>1, <2>1, <2>2 DEF ClaimsHold
<1> QED BY <1>1, <1>2, <1>3 DEF Book

LEMMA ClaimsAppend ==
  ASSUME NEW q \in Seq(Events), NEW e \in Events, ClaimsIn(q), e.type = "completed" => Claim(e.id)
  PROVE  ClaimsIn(Append(q, e))
<1> DEFINE p == Append(q, e)
           l == Len(q)
<1>1. /\ DOMAIN p = 1 .. l + 1 /\ DOMAIN q = 1 .. l /\ l \in Nat /\ p[l + 1] = e
      /\ \A i \in 1 .. l : p[i] = q[i]
  BY AppendFacts
<1> HIDE DEF p, l
<1>2. \A i \in DOMAIN p : p[i].type = "completed" => Claim(p[i].id)
  <2> SUFFICES ASSUME NEW i \in DOMAIN p, p[i].type = "completed" PROVE Claim(p[i].id)
    OBVIOUS
  <2>1. i = l + 1 \/ i \in DOMAIN q
    BY <1>1
  <2> QED BY <1>1, <2>1 DEF ClaimsIn
<1> QED BY <1>2 DEF ClaimsIn, p

LEMMA StillRows ==
  ASSUME IInv, UNCHANGED rows
  PROVE  /\ RowsOK' /\ Shaped' /\ OneActiveArc' /\ CompletionIsEarned'
         /\ DOMAIN blueprints' = DOMAIN blueprints
         /\ \A b : Claim(b) => Claim(b)'
         /\ \A q : ClaimsIn(q) => ClaimsIn(q)'
<1>1. /\ blueprints' = blueprints /\ beats' = beats /\ briefs' = briefs /\ arcs' = arcs
      /\ proposals' = proposals /\ chapters' = chapters /\ owed' = owed /\ met' = met /\ anew' = anew
  BY DEF rows
<1>2. RowsOK'
  BY <1>1 DEF IInv, Book, RowsOK, ShapeTyped, ArcsTyped
<1>3. Shaped' /\ OneActiveArc' /\ CompletionIsEarned'
  <2>1. Shaped'
    BY <1>1 DEF IInv, Book, Shaped, Shape
  <2>2. OneActiveArc'
    BY <1>1 DEF IInv, Book, OneActiveArc
  <2>3. CompletionIsEarned'
    BY <1>1 DEF IInv, Book, ClaimsHold, CompletionIsEarned
  <2> QED BY <2>1, <2>2, <2>3
<1>4. \A b : Claim(b) => Claim(b)'
  BY <1>1 DEF Claim, Earned
<1>5. \A q : ClaimsIn(q) => ClaimsIn(q)'
  BY <1>4 DEF ClaimsIn
<1> QED BY <1>1, <1>2, <1>3, <1>4, <1>5

(* A run that only reads or ends leaves the story as it was. *)
LEMMA StillKeeps ==
  ASSUME IInv, UNCHANGED <<rows, pending, drafted, written>>
  PROVE  /\ Book' /\ DOMAIN blueprints' = DOMAIN blueprints
         /\ \A b : Claim(b) => Claim(b)'
<1>1. /\ RowsOK' /\ Shaped' /\ OneActiveArc' /\ CompletionIsEarned'
      /\ DOMAIN blueprints' = DOMAIN blueprints
      /\ \A b : Claim(b) => Claim(b)'
  BY StillRows
<1>2. pending' = pending /\ briefs' = briefs /\ chapters' = chapters
      /\ drafted' = drafted /\ written' = written
  BY DEF rows
<1>3. PendingOK' /\ BriefsNumbered' /\ ChaptersNumbered'
  BY <1>2 DEF IInv, Book, PendingOK, BriefsNumbered, ChaptersNumbered, Numbered
<1>4. ClaimsHold'
  BY <1>1, <1>2 DEF IInv, Book, ClaimsHold
<1> QED BY <1>1, <1>3, <1>4 DEF Book

LEMMA CommitKeeps ==
  ASSUME IInv, UNCHANGED rows, NEW e \in Events,
         Len(pending) < MaxPending, pending' = Append(pending, e),
         e.type = "completed" => Claim(e.id),
         \/ e.type \notin {"drafted", "chapter"} /\ UNCHANGED <<drafted, written>>
         \/ e.type = "drafted" /\ e.id = drafted + 1 /\ drafted' = drafted + 1 /\ UNCHANGED written
         \/ e.type = "chapter" /\ e.id = written + 1 /\ written' = written + 1 /\ UNCHANGED drafted
  PROVE  /\ Book' /\ DOMAIN blueprints' = DOMAIN blueprints
         /\ \A b : Claim(b) => Claim(b)'
<1>1. /\ RowsOK' /\ Shaped' /\ OneActiveArc' /\ CompletionIsEarned'
      /\ DOMAIN blueprints' = DOMAIN blueprints
      /\ \A b : Claim(b) => Claim(b)'
      /\ \A q : ClaimsIn(q) => ClaimsIn(q)'
  BY StillRows
<1>2. briefs' = briefs /\ chapters' = chapters
  BY DEF rows
<1>3. pending \in Seq(Events) /\ Len(pending) <= MaxPending
  BY DEF IInv, Book, PendingOK
<1>4. PendingOK'
  <2>1. Append(pending, e) \in Seq(Events) /\ Len(Append(pending, e)) = Len(pending) + 1
        /\ Len(pending) \in Nat
    BY <1>3, AppendFacts
  <2> QED BY <2>1, OutlineAssumption DEF PendingOK
<1>5. /\ drafted \in Nat /\ written \in Nat /\ Len(briefs) \in Nat /\ chapters \in Nat
      /\ Numbered(pending, "drafted", Len(briefs), drafted)
      /\ Numbered(pending, "chapter", chapters, written)
  BY OutlineAssumption DEF IInv, Book, AtWork, CountsTyped, Chapter, RowsOK, BriefsNumbered,
     ChaptersNumbered
<1>9. BriefsNumbered' /\ ChaptersNumbered'
  <2>1. CASE e.type \notin {"drafted", "chapter"} /\ UNCHANGED <<drafted, written>>
    <3>1. /\ Numbered(Append(pending, e), "drafted", Len(briefs), drafted)
          /\ Numbered(Append(pending, e), "chapter", chapters, written)
      BY <1>3, <1>5, <2>1, NumberedSame
    <3> QED BY <1>2, <2>1, <3>1 DEF BriefsNumbered, ChaptersNumbered
  <2>2. CASE e.type = "drafted" /\ e.id = drafted + 1 /\ drafted' = drafted + 1 /\ UNCHANGED written
    <3>1. Numbered(Append(pending, e), "drafted", Len(briefs), drafted + 1)
      BY <1>3, <1>5, <2>2, NumberedNext
    <3>2. Numbered(Append(pending, e), "chapter", chapters, written)
      BY <1>3, <1>5, <2>2, NumberedSame
    <3> QED BY <1>2, <2>2, <3>1, <3>2 DEF BriefsNumbered, ChaptersNumbered
  <2>3. CASE e.type = "chapter" /\ e.id = written + 1 /\ written' = written + 1 /\ UNCHANGED drafted
    <3>1. Numbered(Append(pending, e), "drafted", Len(briefs), drafted)
      BY <1>3, <1>5, <2>3, NumberedSame
    <3>2. Numbered(Append(pending, e), "chapter", chapters, written + 1)
      BY <1>3, <1>5, <2>3, NumberedNext
    <3> QED BY <1>2, <2>3, <3>1, <3>2 DEF BriefsNumbered, ChaptersNumbered
  <2> QED BY <2>1, <2>2, <2>3
<1>10. ClaimsHold'
  <2>1. ClaimsIn(pending)
    BY DEF IInv, Book, ClaimsHold, ClaimsIn
  <2> DEFINE q == Append(pending, e)
  <2>2. ClaimsIn(q)
    BY <1>3, <2>1, ClaimsAppend
  <2>3. PICK p : p = q
    OBVIOUS
  <2>4. ClaimsIn(p)' /\ pending' = p
    BY <1>1, <2>2, <2>3
  <2> QED BY <1>1, <2>4 DEF ClaimsHold, ClaimsIn
<1> QED BY <1>1, <1>4, <1>9, <1>10 DEF Book

(* Two events at once: only the director's approval adds them. *)
LEMMA CommitTwoKeeps ==
  ASSUME IInv, UNCHANGED <<rows, drafted, written>>, NEW d \in Events, NEW e \in Events,
         Len(pending) + 2 <= MaxPending, pending' = pending \o <<d, e>>,
         d.type \notin {"drafted", "chapter", "completed"},
         e.type \notin {"drafted", "chapter", "completed"}
  PROVE  /\ Book' /\ DOMAIN blueprints' = DOMAIN blueprints
         /\ \A b : Claim(b) => Claim(b)'
<1>1. /\ RowsOK' /\ Shaped' /\ OneActiveArc' /\ CompletionIsEarned'
      /\ DOMAIN blueprints' = DOMAIN blueprints
      /\ \A b : Claim(b) => Claim(b)'
      /\ \A q : ClaimsIn(q) => ClaimsIn(q)'
  BY StillRows
<1>2. briefs' = briefs /\ chapters' = chapters /\ drafted' = drafted /\ written' = written
  BY DEF rows
<1>3. pending \in Seq(Events) /\ Len(pending) <= MaxPending
  BY DEF IInv, Book, PendingOK
<1> DEFINE q == Append(pending, d)
           p == Append(q, e)
<1>4. q \in Seq(Events) /\ Len(q) = Len(pending) + 1 /\ Len(pending) \in Nat
  BY <1>3, AppendFacts
<1>5. pending' = p
  BY <1>3
<1>6. /\ drafted \in Nat /\ written \in Nat /\ Len(briefs) \in Nat /\ chapters \in Nat
      /\ Numbered(pending, "drafted", Len(briefs), drafted)
      /\ Numbered(pending, "chapter", chapters, written)
  BY OutlineAssumption DEF IInv, Book, AtWork, CountsTyped, Chapter, RowsOK, BriefsNumbered,
     ChaptersNumbered
<1>7. Numbered(q, "drafted", Len(briefs), drafted) /\ Numbered(q, "chapter", chapters, written)
  BY <1>3, <1>6, NumberedSame
<1>8. ClaimsIn(q)
  BY <1>3, ClaimsAppend DEF IInv, Book, ClaimsHold, ClaimsIn
<1> HIDE DEF q
<1>9. Numbered(p, "drafted", Len(briefs), drafted) /\ Numbered(p, "chapter", chapters, written)
  BY <1>4, <1>6, <1>7, NumberedSame
<1>10. ClaimsIn(p)
  BY <1>4, <1>8, ClaimsAppend
<1>11. p \in Seq(Events) /\ Len(p) = Len(q) + 1
  BY <1>4, AppendFacts
<1> HIDE DEF p
<1>12. PendingOK'
  <2>1. Len(p) = Len(pending) + 2
    BY <1>4, <1>11
  <2>2. Len(p) <= MaxPending
    BY <2>1
  <2> QED BY <1>5, <1>11, <2>2 DEF PendingOK
<1>13. BriefsNumbered' /\ ChaptersNumbered'
  BY <1>2, <1>5, <1>9 DEF BriefsNumbered, ChaptersNumbered
<1>14. ClaimsHold'
  <2>1. PICK r : r = p
    OBVIOUS
  <2>2. ClaimsIn(r)' /\ pending' = r
    BY <1>1, <1>5, <1>10, <2>1
  <2> QED BY <1>1, <2>2 DEF ClaimsHold, ClaimsIn
<1> QED BY <1>1, <1>12, <1>13, <1>14 DEF Book

(* An agent's or the director's event joins those that wait. *)
LEMMA Joins ==
  ASSUME IInv, UNCHANGED rows, NEW type, NEW id, NEW arg, Commit(type, id, arg),
         Event(type, id, arg) \in Events, type = "completed" => Claim(id),
         \/ type \notin {"drafted", "chapter"} /\ UNCHANGED <<drafted, written>>
         \/ type = "drafted" /\ id = drafted + 1 /\ drafted' = drafted + 1 /\ UNCHANGED written
         \/ type = "chapter" /\ id = written + 1 /\ written' = written + 1 /\ UNCHANGED drafted
  PROVE  /\ Book' /\ DOMAIN blueprints \subseteq DOMAIN blueprints'
         /\ \A b \in Blueprints : Claim(b) => Claim(b)'
<1> DEFINE e == Event(type, id, arg)
<1>1. e.type = type /\ e.id = id
  BY DEF Event
<1>2. e \in Events
  OBVIOUS
<1>3. Len(pending) < MaxPending /\ pending' = Append(pending, e)
  BY DEF Commit, Room
<1> HIDE DEF e
<1>4. \/ e.type \notin {"drafted", "chapter"} /\ UNCHANGED <<drafted, written>>
      \/ e.type = "drafted" /\ e.id = drafted + 1 /\ drafted' = drafted + 1 /\ UNCHANGED written
      \/ e.type = "chapter" /\ e.id = written + 1 /\ written' = written + 1 /\ UNCHANGED drafted
  BY <1>1
<1> QED BY <1>1, <1>2, <1>3, <1>4, CommitKeeps

-----------------------------------------------------------------------------
(* The steps, on those at work                                             *)

LEMMA PlotStays ==
  ASSUME IInv, plot' = plot, DOMAIN blueprints \subseteq DOMAIN blueprints',
         \A b \in Blueprints : Claim(b) => Claim(b)'
  PROVE  PlotTyped' /\ PlotClaims'
<1>1. PlotTyped /\ PlotClaims
  BY DEF IInv, AtWork
<1>2. PlotTyped'
  BY <1>1 DEF PlotTyped
<1>3. PICK p : p = plot
  OBVIOUS
<1>4. CASE p = None
  <2>1. plot' = None
    BY <1>3, <1>4
  <2>2. (plot # None => FALSE)'
    BY <2>1
  <2>3. PlotClaims'
    BY <2>2, Zenon DEF PlotClaims
  <2> QED BY <1>2, <2>3
<1>5. CASE p # None
  <2>1. p.complete => p.blueprint \in Blueprints /\ Claim(p.blueprint)
    BY <1>1, <1>3, <1>5 DEF PlotTyped, PlotClaims, PlotRecord
  <2>2. p.complete => Claim(p.blueprint)'
    BY <2>1
  <2>3. p.blueprint # None => p.blueprint \in DOMAIN blueprints'
    BY <1>1, <1>3, <1>5 DEF PlotClaims
  <2> QED BY <1>2, <1>3, <2>2, <2>3 DEF PlotClaims
<1> QED BY <1>4, <1>5

LEMMA PlotMoves ==
  ASSUME IInv, plot # None, NEW q \in PlotRecord, plot' = q, q.blueprint = plot.blueprint,
         q.ended = plot.ended, q.complete = plot.complete,
         DOMAIN blueprints \subseteq DOMAIN blueprints',
         \A b \in Blueprints : Claim(b) => Claim(b)'
  PROVE  PlotTyped' /\ PlotClaims'
<1>1. PlotTyped /\ PlotClaims
  BY DEF IInv, AtWork
<1>2. PlotTyped'
  BY <1>1 DEF PlotTyped
<1>3. q.complete => q.blueprint \in Blueprints /\ Claim(q.blueprint)
  BY <1>1 DEF PlotTyped, PlotClaims, PlotRecord
<1>4. q.complete => Claim(q.blueprint)'
  BY <1>3
<1>5. q.blueprint # None => q.blueprint \in DOMAIN blueprints'
  BY <1>1 DEF PlotClaims
<1> QED BY <1>2, <1>4, <1>5 DEF PlotClaims

LEMMA OthersStay ==
  ASSUME IInv
  PROVE  /\ draft' = draft /\ written' = written => DraftTyped'
         /\ keep' = keep => KeepTyped'
         /\ UNCHANGED <<minted, drafted, written, desk, faults>> => CountsTyped'
<1>1. DraftTyped /\ KeepTyped /\ CountsTyped
  BY DEF IInv, AtWork
<1>2. draft' = draft /\ written' = written => DraftTyped'
  BY <1>1 DEF DraftTyped
<1>3. keep' = keep => KeepTyped'
  BY <1>1 DEF KeepTyped
<1>4. UNCHANGED <<minted, drafted, written, desk, faults>> => CountsTyped'
  BY <1>1 DEF CountsTyped
<1> QED BY <1>2, <1>3, <1>4

LEMMA Typed ==
  ASSUME IInv
  PROVE  /\ plot # None => plot \in PlotRecord
         /\ draft # None => draft \in [brief : {0} \cup BriefIds, chapter : Chapter]
         /\ keep # None => keep \in [beats : SUBSET Beats, arcs : (SUBSET Arcs) \cup {None}]
         /\ minted \subseteq Blueprints \cup Arcs /\ drafted \in 0 .. MaxBriefs /\ written \in Chapter
         /\ desk \in Desks /\ faults \in 0 .. MaxFaults
         /\ ShapeTyped /\ ArcsTyped /\ briefs \in Seq(ChapterBriefRecord)
         /\ DOMAIN proposals \subseteq Blueprints
         /\ chapters \in Chapter /\ DOMAIN briefs \subseteq BriefIds /\ Len(briefs) <= drafted
<1>1. /\ PlotTyped /\ DraftTyped /\ KeepTyped /\ CountsTyped /\ RowsOK /\ BriefsNumbered /\ ChaptersNumbered
  BY DEF IInv, Book, AtWork
<1>2. /\ Len(briefs) <= drafted /\ chapters <= written /\ chapters \in Nat
      /\ drafted \in 0 .. MaxBriefs /\ written \in Chapter
      /\ Len(briefs) \in Nat /\ DOMAIN briefs = 1 .. Len(briefs)
  BY <1>1 DEF RowsOK, BriefsNumbered, ChaptersNumbered, Numbered, CountsTyped
<1>3. chapters \in Chapter /\ DOMAIN briefs \subseteq BriefIds
  BY <1>2, OutlineAssumption DEF Chapter, BriefIds
<1> QED BY <1>1, <1>2, <1>3 DEF PlotTyped, DraftTyped, KeepTyped, CountsTyped, RowsOK

LEMMA BriefsFound ==
  ASSUME IInv, NEW o
  PROVE  /\ OpenBriefs \subseteq BriefIds /\ LatestFor(o) \in {0} \cup BriefIds
         /\ BriefFor(o) \in {0} \cup BriefIds
<1> DEFINE S == {i \in OpenBriefs : briefs[i].ordinal = o}
<1>1. DOMAIN briefs \subseteq BriefIds
  BY Typed
<1>2. OpenBriefs \subseteq BriefIds /\ S \subseteq BriefIds
  BY <1>1 DEF OpenBriefs
<1>3. S \subseteq 0 .. MaxBriefs /\ MaxBriefs \in Nat /\ S \subseteq Nat
  BY <1>2, OutlineAssumption DEF BriefIds
<1>4. LatestFor(o) = (IF S = {} THEN 0 ELSE CHOOSE i \in S : \A j \in S : j <= i)
  BY DEF LatestFor
<1>5. BriefFor(o) = (IF S = {} THEN 0 ELSE CHOOSE i \in S : \A j \in S : i <= j)
  BY DEF BriefFor
<1> HIDE DEF S
<1>6. S # {} => \E x \in S : \A y \in S : y <= x
  BY <1>3, GreatestNatural
<1>7. S # {} => \E x \in S : \A y \in S : x <= y
  BY <1>3, LeastNatural
<1> QED BY <1>2, <1>4, <1>5, <1>6, <1>7

LEMMA FoldKeeps == ASSUME IInv, Fold PROVE IInv'
<1>1. /\ Book' /\ DOMAIN blueprints \subseteq DOMAIN blueprints'
      /\ \A b \in Blueprints : Claim(b) => Claim(b)'
  BY FoldKeepsBook
<1>2. UNCHANGED <<plot, draft, keep, minted, drafted, written, desk, faults>>
  BY DEF Fold
<1> QED BY <1>1, <1>2, PlotStays, OthersStay DEF IInv, AtWork

LEMMA PlotterPollKeeps == ASSUME IInv, PlotterPoll PROVE IInv'
<1>1. UNCHANGED <<rows, pending, draft, keep, minted, drafted, written, desk, faults>>
  BY DEF PlotterPoll
<1>2. Book' /\ DOMAIN blueprints' = DOMAIN blueprints
  BY <1>1, StillKeeps
<1>3. DraftTyped' /\ KeepTyped' /\ CountsTyped'
  BY <1>1, OthersStay
<1>4. PICK b \in (IF HasBlueprint THEN {x \in DOMAIN blueprints : blueprints[x].active} ELSE {None}) :
        plot' = [stage |-> "beats", chapters |-> chapters, blueprint |-> b,
                 target |-> IF b = None THEN 0 ELSE blueprints[b].target,
                 ended |-> IF b = None THEN TRUE ELSE blueprints[b].completed # None,
                 beats |-> {}, open |-> {}, latest |-> [o \in Ordinals |-> 0],
                 stale |-> {}, complete |-> FALSE, asked |-> FALSE, redraft |-> 0]
  BY DEF PlotterPoll
<1>5. ShapeTyped /\ chapters \in Chapter
  BY Typed
<1>6. b # None => b \in DOMAIN blueprints /\ b \in Blueprints /\ blueprints[b].target \in Targets
  BY <1>4, <1>5 DEF ShapeTyped, BlueprintRecord
<1>7. /\ (IF b = None THEN 0 ELSE blueprints[b].target) \in Targets \cup {0}
      /\ (IF b = None THEN TRUE ELSE blueprints[b].completed # None) \in BOOLEAN
  BY <1>6
<1>8. plot' \in PlotRecord
  BY <1>4, <1>5, <1>6, <1>7 DEF PlotRecord
<1>9. PlotTyped'
  BY <1>4, <1>8 DEF PlotTyped
<1>10. PlotClaims'
  BY <1>2, <1>4, <1>6 DEF PlotClaims
<1> QED BY <1>2, <1>3, <1>9, <1>10 DEF IInv, AtWork

(* The heart of it: all beats of the blueprint that is active now are met. If
   the one polled is not, it is late, and stays so unless adopted anew. *)
LEMMA BeatsRead ==
  ASSUME IInv, plot # None, ~ plot.ended, Realised(beats)
  PROVE  Claim(plot.blueprint)
<1>1. PlotTyped /\ PlotClaims /\ Shaped
  BY DEF IInv, AtWork, Book
<1> DEFINE b == plot.blueprint
<1>2. b \in DOMAIN blueprints
  BY <1>1 DEF PlotTyped, PlotClaims
<1>3. CASE ~ blueprints[b].active
  BY <1>2, <1>3 DEF Claim
<1>4. CASE blueprints[b].active
  <2>1. PICK c \in Blueprints : Shape(c)
    BY <1>1, <1>2 DEF Shaped
  <2>2. b = c /\ DOMAIN beats = {b} \X Slots
    BY <1>2, <1>4, <2>1 DEF Shape
  <2>3. \A x \in DOMAIN beats : beats[x] # 0
    BY DEF Realised
  <2>4. \A x \in DOMAIN beats : beats[x] # 0 => x \in met
    BY <1>1 DEF Shaped
  <2> QED BY <1>2, <2>2, <2>3, <2>4 DEF Claim, Earned
<1> QED BY <1>3, <1>4

(* A read makes a claim only of the beats; the later ones give it up or keep it. *)
LEMMA PlotRead ==
  ASSUME IInv, plot # None, NEW q \in PlotRecord, plot' = q,
         UNCHANGED <<rows, pending, draft, keep, minted, drafted, written, desk, faults>>,
         q.blueprint = plot.blueprint, q.ended = plot.ended,
         q.complete => plot.complete \/ (~ plot.ended /\ Realised(beats))
  PROVE  IInv'
<1>1. Book' /\ DOMAIN blueprints' = DOMAIN blueprints /\ \A b : Claim(b) => Claim(b)'
  BY StillKeeps
<1>2. DraftTyped' /\ KeepTyped' /\ CountsTyped'
  BY OthersStay
<1>3. PlotTyped /\ PlotClaims
  BY DEF IInv, AtWork
<1>4. PlotTyped'
  BY <1>3 DEF PlotTyped
<1>5. q.complete => Claim(q.blueprint)
  BY <1>3, BeatsRead DEF PlotClaims
<1>6. q.complete => Claim(q.blueprint)'
  BY <1>1, <1>5
<1>7. q.blueprint # None => q.blueprint \in DOMAIN blueprints'
  BY <1>1, <1>3 DEF PlotClaims
<1>8. PlotClaims'
  BY <1>6, <1>7 DEF PlotClaims
<1> QED BY <1>1, <1>2, <1>4, <1>8 DEF IInv, AtWork

LEMMA PlotterReadsKeeps == ASSUME IInv, PlotterReads PROVE IInv'
<1>1. UNCHANGED <<rows, pending, draft, keep, minted, drafted, written, desk, faults>> /\ plot # None
  BY DEF PlotterReads
<1>2. plot \in PlotRecord /\ ShapeTyped
  BY <1>1, Typed
<1>3. CASE /\ plot.stage = "beats"
           /\ plot' = [plot EXCEPT !.stage = "briefs", !.beats = DOMAIN beats,
                         !.complete = ~ plot.ended /\ Realised(beats)]
  <2>1. DOMAIN beats \subseteq Beats /\ (~ plot.ended /\ Realised(beats)) \in BOOLEAN
    BY <1>2 DEF ShapeTyped
  <2>2. /\ plot' \in PlotRecord /\ plot'.blueprint = plot.blueprint /\ plot'.ended = plot.ended
        /\ plot'.complete = (~ plot.ended /\ Realised(beats))
    BY <1>2, <1>3, <2>1 DEF PlotRecord
  <2> QED BY <1>1, <2>2, PlotRead
<1>4. CASE /\ plot.stage = "briefs"
           /\ plot' = [plot EXCEPT !.stage = "promises", !.open = OpenBriefs,
                         !.latest = [o \in Ordinals |-> LatestFor(o)],
                         !.stale = Stale(plot.chapters)]
  <2>1. OpenBriefs \subseteq BriefIds
        /\ [o \in Ordinals |-> LatestFor(o)] \in [Ordinals -> {0} \cup BriefIds]
    BY BriefsFound
  <2>2. Stale(plot.chapters) \subseteq BriefIds
    BY <2>1 DEF Stale
  <2>3. /\ plot' \in PlotRecord /\ plot'.blueprint = plot.blueprint /\ plot'.ended = plot.ended
        /\ plot'.complete = plot.complete
    BY <1>2, <1>4, <2>1, <2>2 DEF PlotRecord
  <2> QED BY <1>1, <2>3, PlotRead
<1>5. CASE /\ plot.stage = "promises"
           /\ plot' = [plot EXCEPT !.stage = "proposals", !.complete = @ /\ ~ owed]
  <2>1. /\ plot' \in PlotRecord /\ plot'.blueprint = plot.blueprint /\ plot'.ended = plot.ended
        /\ plot'.complete => plot.complete
    BY <1>2, <1>5 DEF PlotRecord
  <2> QED BY <1>1, <2>1, PlotRead
<1>6. CASE /\ plot.stage = "proposals"
           /\ plot' = [plot EXCEPT !.stage = "arcs",
                         !.asked = \E b \in DOMAIN proposals : proposals[b] = "open"]
  <2>1. /\ plot' \in PlotRecord /\ plot'.blueprint = plot.blueprint /\ plot'.ended = plot.ended
        /\ plot'.complete = plot.complete
    BY <1>2, <1>6 DEF PlotRecord
  <2> QED BY <1>1, <2>1, PlotRead
<1>7. CASE /\ plot.stage = "arcs"
           /\ plot' = [plot EXCEPT !.stage = "reap", !.complete = @ /\ ArcsResolved]
  <2>1. /\ plot' \in PlotRecord /\ plot'.blueprint = plot.blueprint /\ plot'.ended = plot.ended
        /\ plot'.complete => plot.complete
    BY <1>2, <1>7 DEF PlotRecord
  <2> QED BY <1>1, <2>1, PlotRead
<1> QED BY <1>3, <1>4, <1>5, <1>6, <1>7 DEF PlotterReads

LEMMA EventsMade ==
  /\ \A b \in Blueprints :
       /\ Event("adopted", b, 0) \in Events /\ Event("open", b, 0) \in Events
       /\ Event("decided", b, 0) \in Events
       /\ \A t \in Targets : Event("retargeted", b, t) \in Events
       /\ \A c \in Chapter : Event("completed", b, c) \in Events
  /\ \A x \in Beats, c \in Chapter : Event("beat", x, c) \in Events
  /\ \A i \in BriefIds : /\ \A o \in Ordinals : Event("drafted", i, o) \in Events
                         /\ \A c \in Chapter : /\ Event("superseded", i, c) \in Events
                                               /\ Event("fulfilled", i, c) \in Events
  /\ \A a \in Arcs : /\ \A c \in Cast : Event("declared", a, c) \in Events
                     /\ \A x \in Beats : Event("pivot", a, x) \in Events
                     /\ Event("resolved", a, 0) \in Events
  /\ \A o \in Ordinals : Event("chapter", o, 0) \in Events
  /\ \A v \in BOOLEAN : Event("promise", None, v) \in Events
  /\ 0 \in Chapter
<1>1. 0 \in Chapter
  BY OutlineAssumption DEF Chapter
<1>2. \A b \in Blueprints :
        /\ Event("adopted", b, 0) \in Events /\ Event("open", b, 0) \in Events
        /\ Event("decided", b, 0) \in Events
        /\ \A t \in Targets : Event("retargeted", b, t) \in Events
        /\ \A c \in Chapter : Event("completed", b, c) \in Events
  BY <1>1 DEF Event, Events, EventOK, EventTypes
<1>3. \A x \in Beats, c \in Chapter : Event("beat", x, c) \in Events
  BY DEF Event, Events, EventOK, EventTypes
<1>4. \A i \in BriefIds : /\ \A o \in Ordinals : Event("drafted", i, o) \in Events
                          /\ \A c \in Chapter : /\ Event("superseded", i, c) \in Events
                                                /\ Event("fulfilled", i, c) \in Events
  BY DEF Event, Events, EventOK, EventTypes
<1>5. \A a \in Arcs : /\ \A c \in Cast : Event("declared", a, c) \in Events
                      /\ \A x \in Beats : Event("pivot", a, x) \in Events
                      /\ Event("resolved", a, 0) \in Events
  BY <1>1 DEF Event, Events, EventOK, EventTypes
<1>6. \A o \in Ordinals : Event("chapter", o, 0) \in Events
  BY <1>1 DEF Event, Events, EventOK, EventTypes
<1>7. \A v \in BOOLEAN : Event("promise", None, v) \in Events
  BY DEF Event, Events, EventOK, EventTypes
<1> QED BY <1>1, <1>2, <1>3, <1>4, <1>5, <1>6, <1>7

(* The Plotter's commits that leave all else alone *)
LEMMA PlotterCommitsKeep ==
  ASSUME IInv, plot # None, UNCHANGED <<rows, draft, keep, desk, faults>>,
         NEW q \in PlotRecord, plot' = q \/ plot' = plot, q.blueprint = plot.blueprint,
         q.ended = plot.ended, q.complete = plot.complete,
         NEW type \in EventTypes \ {"chapter"}, NEW id, NEW arg, Commit(type, id, arg),
         Event(type, id, arg) \in Events, type = "completed" => Claim(id),
         \/ type # "drafted" /\ UNCHANGED drafted
         \/ type = "drafted" /\ id = drafted + 1 /\ drafted' = drafted + 1 /\ drafted < MaxBriefs,
         minted' \subseteq Blueprints \cup Arcs, UNCHANGED written
  PROVE  IInv'
<1>1. /\ Book' /\ DOMAIN blueprints \subseteq DOMAIN blueprints'
      /\ \A b \in Blueprints : Claim(b) => Claim(b)'
  BY Joins
<1>2. PlotTyped' /\ PlotClaims'
  <2>1. CASE plot' = q
    BY <1>1, <2>1, PlotMoves
  <2>2. CASE plot' = plot
    BY <1>1, <2>2, PlotStays
  <2> QED BY <2>1, <2>2
<1>3. DraftTyped' /\ KeepTyped'
  BY OthersStay
<1>4. drafted' \in 0 .. MaxBriefs
  BY Typed, OutlineAssumption
<1>5. CountsTyped'
  BY <1>4, Typed DEF CountsTyped
<1> QED BY <1>1, <1>2, <1>3, <1>5 DEF IInv, AtWork

LEMMA PlotterReapsKeeps == ASSUME IInv, PlotterReaps PROVE IInv'
<1>1. plot # None /\ UNCHANGED <<rows, draft, keep, minted, drafted, written, desk, faults>>
  BY DEF PlotterReaps
<1>2. PICK i \in plot.stale : /\ Commit("superseded", i, 0)
                              /\ plot' = [plot EXCEPT !.stale = plot.stale \ {i}]
  BY DEF PlotterReaps
<1>3. plot \in PlotRecord /\ i \in BriefIds /\ minted \subseteq Blueprints \cup Arcs
  BY <1>1, <1>2, Typed DEF PlotRecord
<1>4. PICK q : q = [plot EXCEPT !.stale = plot.stale \ {i}]
  OBVIOUS
<1>5. /\ q \in PlotRecord /\ q.blueprint = plot.blueprint /\ q.ended = plot.ended
      /\ q.complete = plot.complete
  BY <1>3, <1>4 DEF PlotRecord
<1>6. Event("superseded", i, 0) \in Events /\ "superseded" \in EventTypes
  BY <1>3, EventsMade DEF EventTypes
<1>7. plot' = q /\ minted' \subseteq Blueprints \cup Arcs
  BY <1>1, <1>2, <1>3, <1>4
<1> QED BY <1>1, <1>2, <1>5, <1>6, <1>7, PlotterCommitsKeep

LEMMA PlotterDeclaresKeeps == ASSUME IInv, PlotterDeclares PROVE IInv'
<1>1. /\ plot # None /\ UNCHANGED <<rows, draft, keep, minted, drafted, written, desk, faults>>
      /\ plot' = [plot EXCEPT !.stage = "plan"]
  BY DEF PlotterDeclares
<1>2. plot \in PlotRecord /\ minted \subseteq Blueprints \cup Arcs
  BY <1>1, Typed
<1>3. PICK q : q = [plot EXCEPT !.stage = "plan"]
  OBVIOUS
<1>4. /\ q \in PlotRecord /\ q.blueprint = plot.blueprint /\ q.ended = plot.ended
      /\ q.complete = plot.complete
  BY <1>2, <1>3 DEF PlotRecord
<1>5. plot' = q /\ minted' \subseteq Blueprints \cup Arcs
  BY <1>1, <1>2, <1>3
<1>6. CASE plot.complete
  <2>1. Commit("completed", plot.blueprint, plot.chapters)
    BY <1>6 DEF PlotterDeclares
  <2>2. Claim(plot.blueprint) /\ plot.blueprint \in Blueprints
    BY <1>1, <1>2, <1>6 DEF IInv, AtWork, PlotClaims, PlotTyped, PlotRecord
  <2>3. PICK b \in Blueprints, c \in Chapter : b = plot.blueprint /\ c = plot.chapters
    BY <1>2, <2>2 DEF PlotRecord
  <2>4. Commit("completed", b, c) /\ Claim(b)
    BY <2>1, <2>2, <2>3
  <2>5. Event("completed", b, c) \in Events /\ "completed" \in EventTypes
    BY EventsMade DEF EventTypes
  <2> QED BY <1>1, <1>4, <1>5, <2>4, <2>5, PlotterCommitsKeep
<1>7. CASE ~ plot.complete
  <2>1. pending' = pending
    BY <1>7 DEF PlotterDeclares
  <2>2. Book' /\ DOMAIN blueprints' = DOMAIN blueprints /\ \A b : Claim(b) => Claim(b)'
    BY <1>1, <2>1, StillKeeps
  <2>3. PlotTyped' /\ PlotClaims'
    BY <1>1, <1>4, <1>5, <2>2, PlotMoves
  <2>4. DraftTyped' /\ KeepTyped' /\ CountsTyped'
    BY <1>1, OthersStay
  <2> QED BY <2>2, <2>3, <2>4 DEF IInv, AtWork
<1> QED BY <1>6, <1>7

LEMMA PlotterProposesKeeps == ASSUME IInv, NEW b \in Blueprints, PlotterProposes(b) PROVE IInv'
<1>1. /\ plot # None /\ UNCHANGED <<rows, draft, keep, drafted, written, desk, faults>>
      /\ plot' = [plot EXCEPT !.asked = TRUE] /\ Commit("open", b, 0) /\ minted' = minted \cup {b}
  BY DEF PlotterProposes, Planning
<1>2. plot \in PlotRecord /\ minted \subseteq Blueprints \cup Arcs
  BY <1>1, Typed
<1>3. PICK q : q = [plot EXCEPT !.asked = TRUE]
  OBVIOUS
<1>4. /\ q \in PlotRecord /\ q.blueprint = plot.blueprint /\ q.ended = plot.ended
      /\ q.complete = plot.complete
  BY <1>2, <1>3 DEF PlotRecord
<1>5. plot' = q /\ minted' \subseteq Blueprints \cup Arcs
  BY <1>1, <1>2, <1>3
<1>6. Event("open", b, 0) \in Events /\ "open" \in EventTypes
  BY EventsMade DEF EventTypes
<1> QED BY <1>1, <1>4, <1>5, <1>6, PlotterCommitsKeep

LEMMA PlotterRetargetsKeeps == ASSUME IInv, NEW t \in Targets, PlotterRetargets(t) PROVE IInv'
<1>1. /\ plot # None /\ UNCHANGED <<rows, plot, draft, keep, minted, drafted, written, desk, faults>>
      /\ Commit("retargeted", plot.blueprint, t) /\ plot.blueprint # None
  BY DEF PlotterRetargets, Planning
<1>2. plot \in PlotRecord /\ minted \subseteq Blueprints \cup Arcs
  BY <1>1, Typed
<1>3. PICK b \in Blueprints : b = plot.blueprint
  BY <1>1, <1>2 DEF PlotRecord
<1>4. Event("retargeted", b, t) \in Events /\ "retargeted" \in EventTypes
  BY EventsMade DEF EventTypes
<1>5. PICK q : q = plot
  OBVIOUS
<1>6. /\ q \in PlotRecord /\ q.blueprint = plot.blueprint /\ q.ended = plot.ended
      /\ q.complete = plot.complete
  BY <1>2, <1>5
<1>7. Commit("retargeted", b, t) /\ minted' \subseteq Blueprints \cup Arcs /\ plot' = plot
  BY <1>1, <1>2, <1>3
<1> QED BY <1>1, <1>4, <1>6, <1>7, PlotterCommitsKeep

LEMMA PlotterReplacesKeeps == ASSUME IInv, NEW o \in Ordinals, PlotterReplaces(o) PROVE IInv'
<1>1. /\ plot # None /\ UNCHANGED <<rows, draft, keep, minted, drafted, written, desk, faults>>
      /\ plot' = [plot EXCEPT !.latest[o] = 0, !.redraft = o]
      /\ Commit("superseded", plot.latest[o], 0) /\ plot.latest[o] # 0
  BY DEF PlotterReplaces, Planning
<1>2. plot \in PlotRecord /\ minted \subseteq Blueprints \cup Arcs
  BY <1>1, Typed
<1>3. PICK i \in BriefIds : i = plot.latest[o]
  BY <1>1, <1>2 DEF PlotRecord
<1>4. Event("superseded", i, 0) \in Events /\ "superseded" \in EventTypes
  BY EventsMade DEF EventTypes
<1> DEFINE l == [plot.latest EXCEPT ![o] = 0]
           r == [plot EXCEPT !.latest = l]
<1>5. l \in [Ordinals -> {0} \cup BriefIds]
  BY <1>2 DEF PlotRecord
<1>6. PICK q : q = [r EXCEPT !.redraft = o]
  OBVIOUS
<1>7. plot' = q
  BY <1>1, <1>2, <1>6 DEF PlotRecord
<1> HIDE DEF l
<1>8. /\ q \in PlotRecord /\ q.blueprint = plot.blueprint /\ q.ended = plot.ended
      /\ q.complete = plot.complete
  BY <1>2, <1>5, <1>6 DEF PlotRecord
<1>9. Commit("superseded", i, 0) /\ minted' \subseteq Blueprints \cup Arcs
  BY <1>1, <1>2, <1>3
<1> HIDE DEF r
<1> QED BY <1>1, <1>4, <1>7, <1>8, <1>9, PlotterCommitsKeep

LEMMA PlotterDraftsKeeps == ASSUME IInv, NEW o \in Ordinals, PlotterDrafts(o) PROVE IInv'
<1>1. /\ plot # None /\ UNCHANGED <<rows, draft, keep, minted, written, desk, faults>>
      /\ drafted < MaxBriefs /\ drafted' = drafted + 1
      /\ plot' = [plot EXCEPT !.latest[o] = drafted + 1, !.redraft = 0]
      /\ Commit("drafted", drafted + 1, o)
  BY DEF PlotterDrafts, Planning
<1>2. plot \in PlotRecord /\ minted \subseteq Blueprints \cup Arcs /\ drafted \in 0 .. MaxBriefs
  BY <1>1, Typed
<1>3. PICK i \in BriefIds : i = drafted + 1
  BY <1>1, <1>2, OutlineAssumption DEF BriefIds
<1>4. Event("drafted", i, o) \in Events /\ "drafted" \in EventTypes
  BY EventsMade DEF EventTypes
<1> DEFINE l == [plot.latest EXCEPT ![o] = i]
           r == [plot EXCEPT !.latest = l]
<1>5. l \in [Ordinals -> {0} \cup BriefIds]
  BY <1>2 DEF PlotRecord
<1>6. PICK q : q = [r EXCEPT !.redraft = 0]
  OBVIOUS
<1>7. plot' = q
  BY <1>1, <1>2, <1>3, <1>6 DEF PlotRecord
<1> HIDE DEF l
<1>8. /\ q \in PlotRecord /\ q.blueprint = plot.blueprint /\ q.ended = plot.ended
      /\ q.complete = plot.complete
  BY <1>2, <1>5, <1>6 DEF PlotRecord
<1>9. Commit("drafted", i, o) /\ i = drafted + 1 /\ minted' \subseteq Blueprints \cup Arcs
  BY <1>1, <1>2, <1>3
<1> HIDE DEF r
<1> QED BY <1>1, <1>4, <1>7, <1>8, <1>9, PlotterCommitsKeep

LEMMA PlotterSupersedesKeeps == ASSUME IInv, NEW i, PlotterSupersedes(i) PROVE IInv'
<1>1. /\ plot # None /\ UNCHANGED <<rows, plot, draft, keep, minted, drafted, written, desk, faults>>
      /\ Commit("superseded", i, 0) /\ i \in plot.open
  BY DEF PlotterSupersedes, Planning
<1>2. plot \in PlotRecord /\ minted \subseteq Blueprints \cup Arcs /\ i \in BriefIds
  BY <1>1, Typed DEF PlotRecord
<1>3. Event("superseded", i, 0) \in Events /\ "superseded" \in EventTypes
  BY <1>2, EventsMade DEF EventTypes
<1>4. PICK q : q = plot
  OBVIOUS
<1>5. /\ q \in PlotRecord /\ q.blueprint = plot.blueprint /\ q.ended = plot.ended
      /\ q.complete = plot.complete
  BY <1>2, <1>4
<1>6. minted' \subseteq Blueprints \cup Arcs /\ plot' = plot
  BY <1>1, <1>2
<1> QED BY <1>1, <1>3, <1>5, <1>6, PlotterCommitsKeep

LEMMA PlotterFulfilsKeeps ==
  ASSUME IInv, NEW x, NEW c \in Chapter, PlotterFulfils(x, c) PROVE IInv'
<1>1. /\ plot # None /\ UNCHANGED <<rows, plot, draft, keep, minted, drafted, written, desk, faults>>
      /\ Commit("beat", x, c) /\ x \in plot.beats
  BY DEF PlotterFulfils, Planning
<1>2. plot \in PlotRecord /\ minted \subseteq Blueprints \cup Arcs /\ x \in Beats
  BY <1>1, Typed DEF PlotRecord
<1>3. Event("beat", x, c) \in Events /\ "beat" \in EventTypes
  BY <1>2, EventsMade DEF EventTypes
<1>4. PICK q : q = plot
  OBVIOUS
<1>5. /\ q \in PlotRecord /\ q.blueprint = plot.blueprint /\ q.ended = plot.ended
      /\ q.complete = plot.complete
  BY <1>2, <1>4
<1>6. minted' \subseteq Blueprints \cup Arcs /\ plot' = plot
  BY <1>1, <1>2
<1> QED BY <1>1, <1>3, <1>5, <1>6, PlotterCommitsKeep

(* Runs that end or fail *)
LEMMA EndsKeep ==
  ASSUME IInv, UNCHANGED <<rows, pending, minted, drafted, written, desk>>,
         plot' \in {plot, None}, draft' \in {draft, None}, keep' \in {keep, None},
         faults' \in 0 .. MaxFaults
  PROVE  IInv'
<1>1. Book' /\ DOMAIN blueprints' = DOMAIN blueprints /\ \A b : Claim(b) => Claim(b)'
  BY StillKeeps
<1>2. PlotTyped' /\ PlotClaims'
  <2>1. CASE plot' = plot
    BY <1>1, <2>1, PlotStays
  <2>2. CASE plot' = None
    <3>1. (plot # None => FALSE)'
      BY <2>2
    <3>2. PlotClaims'
      BY <3>1, Zenon DEF PlotClaims
    <3> QED BY <2>2, <3>2 DEF PlotTyped
  <2> QED BY <2>1, <2>2
<1>3. DraftTyped' /\ KeepTyped'
  BY OthersStay DEF DraftTyped, KeepTyped
<1>4. CountsTyped'
  BY Typed DEF CountsTyped
<1> QED BY <1>1, <1>2, <1>3, <1>4 DEF IInv, AtWork

(* What the others commit, and what they hold then *)
LEMMA OthersCommit ==
  ASSUME IInv, UNCHANGED <<rows, plot, drafted, desk, faults>>,
         NEW type \in EventTypes \ {"drafted", "completed"}, NEW id, NEW arg, Commit(type, id, arg),
         Event(type, id, arg) \in Events,
         \/ type # "chapter" /\ UNCHANGED written
         \/ type = "chapter" /\ id = written + 1 /\ written' = written + 1 /\ written < MaxChapters,
         DraftTyped', KeepTyped', minted' \subseteq Blueprints \cup Arcs
  PROVE  IInv'
<1>1. /\ Book' /\ DOMAIN blueprints \subseteq DOMAIN blueprints'
      /\ \A b \in Blueprints : Claim(b) => Claim(b)'
  BY Joins
<1>2. PlotTyped' /\ PlotClaims'
  BY <1>1, PlotStays
<1>3. written' \in Chapter
  BY Typed, OutlineAssumption DEF Chapter
<1>4. CountsTyped'
  BY <1>3, Typed DEF CountsTyped
<1> QED BY <1>1, <1>2, <1>4 DEF IInv, AtWork

LEMMA AuthorKeeps == ASSUME IInv, AuthorSteps PROVE IInv'
<1>1. CASE AuthorPoll
  <2>1. /\ UNCHANGED <<rows, pending, plot, keep, minted, drafted, written, desk, faults>>
        /\ written < MaxChapters /\ draft' = [brief |-> BriefFor(chapters + 1), chapter |-> 0]
    BY <1>1 DEF AuthorPoll
  <2>2. BriefFor(chapters + 1) \in {0} \cup BriefIds /\ 0 \in Chapter
    BY BriefsFound, EventsMade
  <2>3. DraftTyped'
    BY <2>1, <2>2 DEF DraftTyped
  <2>4. Book' /\ DOMAIN blueprints' = DOMAIN blueprints /\ \A b : Claim(b) => Claim(b)'
    BY <2>1, StillKeeps
  <2>5. PlotTyped' /\ PlotClaims' /\ KeepTyped' /\ CountsTyped'
    BY <2>1, <2>4, PlotStays, OthersStay
  <2> QED BY <2>3, <2>4, <2>5 DEF IInv, AtWork
<1>2. CASE AuthorWrites
  <2>1. /\ UNCHANGED <<rows, plot, keep, minted, drafted, desk, faults>>
        /\ draft # None /\ draft.chapter = 0 /\ written' = written + 1
        /\ draft' = IF draft.brief = 0 THEN None ELSE [draft EXCEPT !.chapter = written + 1]
        /\ Commit("chapter", written + 1, 0)
    BY <1>2 DEF AuthorWrites
  <2>2. /\ draft \in [brief : {0} \cup BriefIds, chapter : Chapter] /\ written \in Chapter
        /\ minted \subseteq Blueprints \cup Arcs
    BY <2>1, Typed
  <2>3. written < MaxChapters
    BY <2>1 DEF IInv, AtWork, DraftTyped
  <2>4. written + 1 \in Ordinals /\ written + 1 \in Chapter /\ written + 1 # 0
    BY <2>2, <2>3, OutlineAssumption DEF Chapter, Ordinals
  <2>5. PICK n \in Ordinals : n = written + 1
    BY <2>4
  <2>6. Event("chapter", n, 0) \in Events /\ "chapter" \in EventTypes
    BY EventsMade DEF EventTypes
  <2>7. DraftTyped'
    <3>1. CASE draft.brief = 0
      BY <2>1, <3>1 DEF DraftTyped
    <3>2. CASE draft.brief # 0
      BY <2>1, <2>2, <2>4, <3>2 DEF DraftTyped
    <3> QED BY <3>1, <3>2
  <2>8. KeepTyped'
    BY <2>1, OthersStay
  <2>9. Commit("chapter", n, 0) /\ n = written + 1 /\ minted' \subseteq Blueprints \cup Arcs
    BY <2>1, <2>2, <2>5
  <2> QED BY <2>1, <2>3, <2>6, <2>7, <2>8, <2>9, OthersCommit
<1>3. CASE AuthorFulfils
  <2>1. /\ UNCHANGED <<rows, plot, keep, minted, drafted, written, desk, faults>>
        /\ draft # None /\ draft.chapter # 0 /\ draft' = None
        /\ Commit("fulfilled", draft.brief, draft.chapter)
    BY <1>3 DEF AuthorFulfils
  <2>2. draft.brief \in BriefIds /\ draft.chapter \in Chapter /\ minted \subseteq Blueprints \cup Arcs
    BY <2>1, Typed DEF IInv, AtWork, DraftTyped
  <2>3. PICK i \in BriefIds, c \in Chapter : i = draft.brief /\ c = draft.chapter
    BY <2>2
  <2>4. Event("fulfilled", i, c) \in Events /\ "fulfilled" \in EventTypes
    BY EventsMade DEF EventTypes
  <2>5. DraftTyped' /\ KeepTyped'
    BY <2>1, OthersStay DEF DraftTyped
  <2>6. Commit("fulfilled", i, c) /\ minted' \subseteq Blueprints \cup Arcs
    BY <2>1, <2>2, <2>3
  <2> QED BY <2>1, <2>4, <2>5, <2>6, OthersCommit
<1> QED BY <1>1, <1>2, <1>3 DEF AuthorSteps

LEMMA KeeperKeeps == ASSUME IInv, KeeperPoll \/ KeeperReads \/ KeeperCommits PROVE IInv'
<1>1. CASE KeeperPoll \/ KeeperReads
  <2>1. UNCHANGED <<rows, pending, plot, draft, minted, drafted, written, desk, faults>>
    BY <1>1 DEF KeeperPoll, KeeperReads
  <2>2. DOMAIN beats \subseteq Beats /\ ActiveArcs \subseteq Arcs
    BY Typed DEF ShapeTyped, ArcsTyped, ActiveArcs
  <2>3. KeepTyped'
    <3>1. CASE KeeperPoll
      BY <2>2, <3>1 DEF KeeperPoll, KeepTyped
    <3>2. CASE KeeperReads
      BY <2>2, <3>2, Typed DEF KeeperReads, KeepTyped
    <3> QED BY <1>1, <3>1, <3>2
  <2>4. Book' /\ DOMAIN blueprints' = DOMAIN blueprints /\ \A b : Claim(b) => Claim(b)'
    BY <2>1, StillKeeps
  <2>5. PlotTyped' /\ PlotClaims' /\ DraftTyped' /\ CountsTyped'
    BY <2>1, <2>4, PlotStays, OthersStay
  <2> QED BY <2>3, <2>4, <2>5 DEF IInv, AtWork
<1>2. CASE KeeperCommits
  <2>1. /\ UNCHANGED <<rows, plot, draft, keep, drafted, written, desk, faults>>
        /\ keep # None /\ keep.arcs # None
    BY <1>2 DEF KeeperCommits
  <2>2. /\ keep.beats \subseteq Beats /\ keep.arcs \subseteq Arcs
        /\ minted \subseteq Blueprints \cup Arcs
    BY <2>1, Typed
  <2>3. DraftTyped' /\ KeepTyped'
    BY <2>1, OthersStay
  <2>4. CASE \E a \in Arcs \ minted, c \in Cast : Commit("declared", a, c) /\ minted' = minted \cup {a}
    <3>1. PICK a \in Arcs, c \in Cast : Commit("declared", a, c) /\ minted' = minted \cup {a}
      BY <2>4
    <3>2. Event("declared", a, c) \in Events /\ "declared" \in EventTypes
      BY EventsMade DEF EventTypes
    <3>3. minted' \subseteq Blueprints \cup Arcs
      BY <2>2, <3>1
    <3> QED BY <2>1, <2>3, <3>1, <3>2, <3>3, OthersCommit
  <2>5. CASE /\ \E a \in keep.arcs, x \in keep.beats : Commit("pivot", a, x)
             /\ minted' = minted
    <3>1. PICK a \in Arcs, x \in Beats : Commit("pivot", a, x)
      BY <2>2, <2>5
    <3>2. Event("pivot", a, x) \in Events /\ "pivot" \in EventTypes
      BY EventsMade DEF EventTypes
    <3>3. minted' \subseteq Blueprints \cup Arcs
      BY <2>2, <2>5
    <3> QED BY <2>1, <2>3, <3>1, <3>2, <3>3, OthersCommit
  <2>6. CASE (\E a \in keep.arcs : Commit("resolved", a, 0)) /\ minted' = minted
    <3>1. PICK a \in Arcs : Commit("resolved", a, 0)
      BY <2>2, <2>6
    <3>2. Event("resolved", a, 0) \in Events /\ "resolved" \in EventTypes
      BY EventsMade DEF EventTypes
    <3>3. minted' \subseteq Blueprints \cup Arcs
      BY <2>2, <2>6
    <3> QED BY <2>1, <2>3, <3>1, <3>2, <3>3, OthersCommit
  <2> QED BY <1>2, <2>4, <2>5, <2>6 DEF KeeperCommits
<1> QED BY <1>1, <1>2

LEMMA DirectorKeeps ==
  ASSUME IInv,
         \/ \E b \in Blueprints : Approve(b) \/ Reject(b)
         \/ \E t \in Targets : Retarget(t)
         \/ PromiseMoves
  PROVE  IInv'
<1>1. minted \subseteq Blueprints \cup Arcs /\ owed \in BOOLEAN /\ ShapeTyped
  BY Typed DEF IInv, Book, RowsOK
<1>2. ASSUME NEW b \in Blueprints, Approve(b) PROVE IInv'
  <2>1. /\ UNCHANGED <<rows, plot, draft, keep, minted, drafted, written, desk, faults>>
        /\ Len(pending) + 2 <= MaxPending
        /\ pending' = pending \o <<Event("adopted", b, 0), Event("decided", b, 0)>>
    BY <1>2 DEF Approve
  <2>2. PICK d \in Events, e \in Events : d = Event("adopted", b, 0) /\ e = Event("decided", b, 0)
    BY EventsMade
  <2>3. d.type = "adopted" /\ e.type = "decided" /\ pending' = pending \o <<d, e>>
    BY <2>1, <2>2 DEF Event
  <2>4. Book' /\ DOMAIN blueprints' = DOMAIN blueprints /\ \A x : Claim(x) => Claim(x)'
    BY <2>1, <2>3, CommitTwoKeeps
  <2>5. PlotTyped' /\ PlotClaims' /\ DraftTyped' /\ KeepTyped' /\ CountsTyped'
    BY <2>1, <2>4, PlotStays, OthersStay
  <2> QED BY <2>4, <2>5 DEF IInv, AtWork
<1>3. ASSUME NEW b \in Blueprints, Reject(b) PROVE IInv'
  <2>1. /\ UNCHANGED <<rows, plot, draft, keep, minted, drafted, written, desk, faults>>
        /\ Commit("decided", b, 0)
    BY <1>3 DEF Reject
  <2>2. Event("decided", b, 0) \in Events /\ "decided" \in EventTypes
    BY EventsMade DEF EventTypes
  <2>3. DraftTyped' /\ KeepTyped' /\ minted' \subseteq Blueprints \cup Arcs
    BY <1>1, <2>1, OthersStay
  <2> QED BY <2>1, <2>2, <2>3, OthersCommit
<1>4. ASSUME NEW t \in Targets, Retarget(t) PROVE IInv'
  <2>1. UNCHANGED <<rows, plot, draft, keep, minted, drafted, written, desk, faults>>
    BY <1>4 DEF Retarget
  <2>2. PICK b \in Blueprints : Commit("retargeted", b, t)
    BY <1>1, <1>4 DEF Retarget, ShapeTyped
  <2>3. Event("retargeted", b, t) \in Events /\ "retargeted" \in EventTypes
    BY EventsMade DEF EventTypes
  <2>4. DraftTyped' /\ KeepTyped' /\ minted' \subseteq Blueprints \cup Arcs
    BY <1>1, <2>1, OthersStay
  <2> QED BY <2>1, <2>2, <2>3, <2>4, OthersCommit
<1>5. ASSUME PromiseMoves PROVE IInv'
  <2>1. UNCHANGED <<rows, plot, draft, keep, minted, drafted, written, desk, faults>>
    BY <1>5 DEF PromiseMoves
  <2>2. PICK v \in BOOLEAN : Commit("promise", None, v)
    <3>1. Commit("promise", None, ~ owed) /\ (~ owed) \in BOOLEAN
      BY <1>1, <1>5 DEF PromiseMoves
    <3> QED BY <3>1
  <2>3. Event("promise", None, v) \in Events /\ "promise" \in EventTypes
    BY EventsMade DEF EventTypes
  <2>4. DraftTyped' /\ KeepTyped' /\ minted' \subseteq Blueprints \cup Arcs
    BY <1>1, <2>1, OthersStay
  <2> QED BY <2>1, <2>2, <2>3, <2>4, OthersCommit
<1> QED BY <1>2, <1>3, <1>4, <1>5

LEMMA Inductive == IInv /\ [Next]_vars => IInv'
<1> SUFFICES ASSUME IInv, [Next]_vars PROVE IInv'
  OBVIOUS
<1>1. CASE Fold
  BY <1>1, FoldKeeps
<1>2. CASE PlotterSteps
  <2>1. ASSUME PlotterEnds PROVE IInv'
    BY <2>1, Typed, EndsKeep DEF PlotterEnds
  <2>2. ASSUME NEW o \in Ordinals, PlotterDrafts(o) PROVE IInv'
    BY <2>2, PlotterDraftsKeeps
  <2> QED BY <1>2, <2>1, <2>2, PlotterPollKeeps, PlotterReadsKeeps, PlotterReapsKeeps,
             PlotterDeclaresKeeps DEF PlotterSteps
<1>3. CASE AuthorSteps
  BY <1>3, AuthorKeeps
<1>4. ASSUME NEW b \in Blueprints, PlotterProposes(b) PROVE IInv'
  BY <1>4, PlotterProposesKeeps
<1>5. ASSUME NEW t \in Targets, PlotterRetargets(t) PROVE IInv'
  BY <1>5, PlotterRetargetsKeeps
<1>6. ASSUME NEW o \in Ordinals, PlotterReplaces(o) \/ PlotterDrafts(o) PROVE IInv'
  BY <1>6, PlotterReplacesKeeps, PlotterDraftsKeeps
<1>7. ASSUME NEW i, PlotterSupersedes(i) PROVE IInv'
  BY <1>7, PlotterSupersedesKeeps
<1>8. ASSUME NEW x \in Beats, NEW c \in 0 .. MaxChapters, PlotterFulfils(x, c) PROVE IInv'
  <2>1. c \in Chapter
    BY DEF Chapter
  <2> QED BY <1>8, <2>1, PlotterFulfilsKeeps
<1>9. CASE \/ \E b \in Blueprints : Approve(b) \/ Reject(b)
           \/ \E t \in Targets : Retarget(t)
           \/ PromiseMoves
  BY <1>9, DirectorKeeps
<1>10. CASE KeeperPoll \/ KeeperReads \/ KeeperCommits
  BY <1>10, KeeperKeeps
<1>11. CASE KeeperEnds
  BY <1>11, Typed, EndsKeep DEF KeeperEnds
<1>12. CASE Fail
  <2>1. faults' \in 0 .. MaxFaults
    BY <1>12, Typed, OutlineAssumption DEF Fail
  <2> QED BY <1>12, <2>1, EndsKeep DEF Fail
<1>13. CASE UNCHANGED vars
  <2>1. /\ UNCHANGED <<rows, pending, minted, drafted, written, desk, faults>>
        /\ plot' = plot /\ draft' = draft /\ keep' = keep
    BY <1>13 DEF vars
  <2> QED BY <2>1, Typed, EndsKeep
<1> QED BY <1>1, <1>2, <1>3, <1>4, <1>5, <1>6, <1>7, <1>8, <1>9, <1>10, <1>11, <1>12, <1>13 DEF Next

LEMMA InitIInv == Init => IInv
<1> SUFFICES ASSUME Init PROVE IInv
  OBVIOUS
<1>1. /\ blueprints = Blank /\ beats = Blank /\ briefs = <<>> /\ arcs = Blank /\ proposals = Blank
      /\ chapters = 0 /\ owed = FALSE /\ met = {} /\ anew = {}
      /\ plot = None /\ draft = None /\ keep = None /\ drafted = 0 /\ written = 0
      /\ desk \in Desks /\ faults = 0
  BY DEF Init
<1>2. DOMAIN Blank = {} /\ \A S : Blank \in [{} -> S]
  BY DEF Blank
<1>3. RowsOK
  <2>1. ShapeTyped
    BY <1>1, <1>2 DEF ShapeTyped
  <2>2. ArcsTyped
    BY <1>1, <1>2 DEF ArcsTyped
  <2>3. briefs \in Seq(ChapterBriefRecord)
    BY <1>1
  <2>4. proposals \in [DOMAIN proposals -> {"open", "decided"}] /\ DOMAIN proposals \subseteq Blueprints
    BY <1>1, <1>2
  <2> QED BY <1>1, <2>1, <2>2, <2>3, <2>4 DEF RowsOK
<1>4. Shaped /\ OneActiveArc /\ CompletionIsEarned
  <2>1. Shaped
    BY <1>1, <1>2 DEF Shaped
  <2>2. OneActiveArc
    BY <1>1, <1>2 DEF OneActiveArc
  <2>3. CompletionIsEarned
    BY <1>1, <1>2 DEF CompletionIsEarned
  <2> QED BY <2>1, <2>2, <2>3
<1>5. PlotTyped /\ DraftTyped /\ KeepTyped /\ PlotClaims
  BY <1>1 DEF PlotTyped, DraftTyped, KeepTyped, PlotClaims
<1>6. /\ pending \in Seq(Events) /\ minted \subseteq Blueprints
      /\ \A i \in DOMAIN pending : pending[i].type = "adopted"
  <2>1. CASE pending = <<>> /\ minted = {}
    BY <2>1
  <2>2. CASE \E b \in Blueprints : pending = <<Event("adopted", b, 0)>> /\ minted = {b}
    <3>1. PICK b \in Blueprints : pending = <<Event("adopted", b, 0)>> /\ minted = {b}
      BY <2>2
    <3>2. PICK e \in Events : e = Event("adopted", b, 0)
      BY EventsMade
    <3>3. e.type = "adopted"
      BY <3>2 DEF Event
    <3> QED BY <3>1, <3>2, <3>3
  <2> QED BY <2>1, <2>2 DEF Init
<1>7. Len(pending) <= MaxPending
  <2>1. Len(pending) = 0 \/ Len(pending) = 1
    BY DEF Init
  <2>2. 0 <= MaxPending /\ 1 <= MaxPending
    BY OutlineAssumption
  <2> QED BY <2>1, <2>2
<1>8. CountsTyped
  BY <1>1, <1>6, OutlineAssumption DEF CountsTyped, Chapter
<1>9. BriefsNumbered /\ ChaptersNumbered
  BY <1>1, <1>6 DEF BriefsNumbered, ChaptersNumbered, Numbered
<1>10. ClaimsHold
  BY <1>4, <1>6 DEF ClaimsHold
<1> QED BY <1>3, <1>4, <1>5, <1>6, <1>7, <1>8, <1>9, <1>10 DEF IInv, Book, AtWork, PendingOK

LEMMA Always == Spec => []IInv
BY InitIInv, Inductive, PTL DEF Spec

-----------------------------------------------------------------------------
(* The theorems                                                            *)

(* Every variable keeps its type: a brief's number is that of the event that
   drafted it, so that no brief, and no chapter, is beyond those counted. *)
THEOREM TypeCorrect == Spec => []TypeOK
<1>1. IInv => TypeOK
  <2> SUFFICES ASSUME IInv PROVE TypeOK
    OBVIOUS
  <2>1. /\ ShapeTyped /\ ArcsTyped /\ briefs \in Seq(ChapterBriefRecord) /\ Len(briefs) <= drafted
        /\ minted \subseteq Blueprints \cup Arcs /\ drafted \in 0 .. MaxBriefs /\ written \in Chapter
        /\ desk \in Desks /\ faults \in 0 .. MaxFaults /\ chapters \in Chapter
        /\ DOMAIN proposals \subseteq Blueprints
    BY Typed
  <2>2. /\ proposals \in [DOMAIN proposals -> {"open", "decided"}] /\ owed \in BOOLEAN
        /\ chapters <= written
    BY DEF IInv, Book, RowsOK, ChaptersNumbered, Numbered
  <2>3. Len(pending) <= MaxPending /\ \A i \in DOMAIN pending : EventOK(pending[i])
    <3>1. pending \in Seq(Events) /\ Len(pending) <= MaxPending
      BY DEF IInv, Book, PendingOK
    <3>2. \A i \in DOMAIN pending : pending[i] \in Events
      BY <3>1
    <3> QED BY <3>1, <3>2 DEF Events
  <2>4. plot = None \/ PlotOK(plot)
    BY DEF IInv, AtWork, PlotTyped, PlotRecord, PlotOK
  <2>5. draft = None \/ (draft.brief \in {0} \cup BriefIds /\ draft.chapter \in Chapter)
    BY Typed
  <2>6. keep = None \/ (keep.beats \subseteq Beats /\ (keep.arcs = None \/ keep.arcs \subseteq Arcs))
    BY Typed
  <2>7. /\ DOMAIN blueprints \subseteq Blueprints
        /\ \A b \in DOMAIN blueprints : blueprints[b] \in BlueprintRecord
        /\ DOMAIN beats \subseteq Beats /\ \A x \in DOMAIN beats : beats[x] \in Chapter
        /\ met \subseteq Beats /\ anew \subseteq DOMAIN blueprints
    BY <2>1 DEF ShapeTyped
  <2>8. DOMAIN arcs \subseteq Arcs /\ \A a \in DOMAIN arcs : arcs[a] \in ArcRecord
    BY <2>1 DEF ArcsTyped
  <2>9. \A b \in DOMAIN proposals : proposals[b] \in {"open", "decided"}
    BY <2>2
  <2> QED BY <2>1, <2>2, <2>3, <2>4, <2>5, <2>6, <2>7, <2>8, <2>9 DEF TypeOK
<1> QED BY <1>1, Always, PTL

(* The outline is one, however many blueprints and arcs are proposed, adopted
   and retargeted on however old a poll; and a book that is declared complete
   has had its shape met. *)
THEOREM OutlineStaysOne == Spec => []OneOutline
<1>1. IInv => OneOutline
  <2> SUFFICES ASSUME IInv PROVE OneOutline
    OBVIOUS
  <2>1. Shaped /\ OneActiveArc /\ CompletionIsEarned /\ ShapeTyped
    BY DEF IInv, Book, ClaimsHold, RowsOK
  <2>2. OneShape
    <3>1. Blank = [x \in {} |-> 0] /\ DOMAIN Blank = {}
      BY DEF Blank
    <3>2. CASE DOMAIN blueprints = {} /\ DOMAIN beats = {}
      <4>1. blueprints = Blank /\ beats = Blank
        BY <2>1, <3>1, <3>2 DEF ShapeTyped
      <4> QED BY <4>1 DEF OneShape
    <3>3. CASE \E b \in Blueprints : Shape(b)
      <4>1. PICK b \in Blueprints : Shape(b)
        BY <3>3
      <4>2. blueprints # Blank
        BY <3>1, <4>1 DEF Shape
      <4>3. /\ b \in DOMAIN blueprints /\ blueprints[b].active
            /\ \A c \in DOMAIN blueprints \ {b} : ~ blueprints[c].active
            /\ DOMAIN beats = {b} \X Slots
        BY <4>1 DEF Shape
      <4> QED BY <4>2, <4>3 DEF OneShape
    <3> QED BY <2>1, <3>2, <3>3 DEF Shaped
  <2> QED BY <2>1, <2>2 DEF OneOutline
<1> QED BY <1>1, Always, PTL

(* Only the projector changes the rows. *)
LEMMA OnlyFold == [Next]_vars => Fold \/ UNCHANGED rows
<1> SUFFICES ASSUME [Next]_vars PROVE Fold \/ UNCHANGED rows
  OBVIOUS
<1>1. CASE PlotterSteps
  BY <1>1 DEF PlotterSteps, PlotterPoll, PlotterReads, PlotterReaps, PlotterDeclares,
    PlotterEnds, PlotterDrafts
<1>2. CASE AuthorSteps
  BY <1>2 DEF AuthorSteps, AuthorPoll, AuthorWrites, AuthorFulfils
<1>3. CASE \/ \E b \in Blueprints : PlotterProposes(b) \/ Approve(b) \/ Reject(b)
           \/ \E t \in Targets : PlotterRetargets(t) \/ Retarget(t)
  BY <1>3 DEF PlotterProposes, Approve, Reject, PlotterRetargets, Retarget
<1>4. CASE \/ \E o \in Ordinals : PlotterReplaces(o) \/ PlotterDrafts(o)
           \/ \E i \in 1 .. MaxBriefs : PlotterSupersedes(i)
           \/ \E x \in Beats, c \in 0 .. MaxChapters : PlotterFulfils(x, c)
  BY <1>4 DEF PlotterReplaces, PlotterDrafts, PlotterSupersedes, PlotterFulfils
<1>5. CASE KeeperPoll \/ KeeperReads \/ KeeperCommits \/ KeeperEnds \/ PromiseMoves \/ Fail
  BY <1>5 DEF KeeperPoll, KeeperReads, KeeperCommits, KeeperEnds, PromiseMoves, Fail
<1>6. CASE UNCHANGED vars
  BY <1>6 DEF vars
<1> QED BY <1>1, <1>2, <1>3, <1>4, <1>5, <1>6 DEF Next

(* A book ends once: only adopting its blueprint anew takes the end back. *)
THEOREM CompletionStands == Spec => CompletedOnce
<1> DEFINE Stands ==
      \A b \in DOMAIN blueprints :
        blueprints[b].completed \notin {None, blueprints'[b].completed} =>
          Head(pending).type = "adopted" /\ Head(pending).id = b
<1>1. IInv /\ [Next]_vars => Stands
  <2> SUFFICES ASSUME IInv, [Next]_vars, NEW b \in DOMAIN blueprints,
                      blueprints[b].completed \notin {None, blueprints'[b].completed}
               PROVE  Head(pending).type = "adopted" /\ Head(pending).id = b
    OBVIOUS
  <2>1. ShapeTyped
    BY Typed
  <2>2. blueprints' # blueprints
    OBVIOUS
  <2>3. Fold
    BY <2>2, OnlyFold DEF rows
  <2> DEFINE e == Head(pending)
  <2>4. /\ \/ e.type = "adopted" /\ BlueprintAdopted(e)
           \/ e.type = "retargeted" /\ BlueprintRetargeted(e)
           \/ e.type = "completed" /\ BookCompleted(e)
           \/ e.type = "beat" /\ BeatFulfilled(e)
    BY <2>2, <2>3, FoldKinds DEF ShapeFold, BriefFold, ArcFold, OtherFold
  <2> HIDE DEF e
  <2>5. CASE e.type = "adopted" /\ BlueprintAdopted(e)
    <3>1. CASE b = e.id
      BY <2>5, <3>1 DEF e
    <3>2. CASE b # e.id
      <4>1. blueprints'[b] = [blueprints[b] EXCEPT !.active = FALSE]
        BY <2>5, <3>2 DEF BlueprintAdopted, Upsert, Superseded
      <4>2. blueprints'[b].completed = blueprints[b].completed
        BY <2>1, <4>1 DEF ShapeTyped, BlueprintRecord
      <4> QED BY <4>2
    <3> QED BY <3>1, <3>2
  <2>6. CASE e.type = "retargeted" /\ BlueprintRetargeted(e)
    <3> DEFINE r == [blueprints[e.id] EXCEPT !.target = e.arg]
    <3>1. Active(e.id) /\ blueprints' = [blueprints EXCEPT ![e.id] = r]
      BY <2>2, <2>6 DEF BlueprintRetargeted
    <3>2. r.completed = blueprints[e.id].completed
      BY <2>1, <3>1 DEF Active, ShapeTyped, BlueprintRecord
    <3> HIDE DEF r
    <3>3. blueprints'[b].completed = blueprints[b].completed
      BY <2>1, <3>1, <3>2 DEF ShapeTyped
    <3> QED BY <3>3
  <2>7. CASE e.type = "completed" /\ BookCompleted(e)
    <3>1. /\ blueprints[e.id].completed = None
          /\ \E r : blueprints' = [blueprints EXCEPT ![e.id] = r]
      BY <2>2, <2>7 DEF BookCompleted
    <3>2. b # e.id => blueprints'[b] = blueprints[b]
      BY <2>1, <3>1 DEF ShapeTyped
    <3> QED BY <3>1, <3>2
  <2>8. CASE e.type = "beat" /\ BeatFulfilled(e)
    BY <2>2, <2>8 DEF BeatFulfilled
  <2> QED BY <2>4, <2>5, <2>6, <2>7, <2>8
<1>2. Stands => [Stands]_vars
  OBVIOUS
<1>3. IInv /\ [Next]_vars => [Stands]_vars
  BY <1>1, <1>2
<1> QED BY <1>3, Always, PTL DEF Spec, CompletedOnce

(* A brief is drafted once, and stays as the first to close it, the Author who
   wrote to it or the Plotter who thought better of it, closed it. *)
THEOREM BriefsImplementObligation == Spec => Brief!OSpec
<1>1. Init => Brief!OInit
  BY DEF Init, BriefState, Brief!OInit
<1>2. IInv /\ [Next]_vars => [Brief!ONext]_(Brief!ovars)
  <2> SUFFICES ASSUME IInv, [Next]_vars
               PROVE  Brief!ONext \/ UNCHANGED Brief!ovars
    BY DEF Brief!ovars
  <2>1. CASE briefs' = briefs
    BY <2>1 DEF BriefState, Brief!ovars
  <2>2. CASE briefs' # briefs
    <3> DEFINE e == Head(pending)
               S == [i \in BriefIds |-> BriefState(i)]
               W == [i \in BriefIds |-> 0]
    <3>1. Fold
      BY <2>2, OnlyFold DEF rows
    <3>2. /\ e \in Events /\ briefs \in Seq(ChapterBriefRecord) /\ DOMAIN briefs \subseteq BriefIds
          /\ DOMAIN briefs = 1 .. Len(briefs) /\ Len(briefs) \in Nat
      BY <3>1, FoldTakes, Typed
    <3>3. BriefFold(e)
      BY <2>2, <3>1, FoldKinds DEF ShapeFold, ArcFold, OtherFold
    <3>4. W' = W
      OBVIOUS
    <3> HIDE DEF e
    <3>5. CASE e.type = "drafted" /\ ChapterBriefDrafted(e)
      <4> DEFINE r == [ordinal |-> e.arg, state |-> "open", chapter |-> 0]
      <4>1. briefs' = Append(briefs, r) /\ r.state = "open"
        BY <3>5 DEF ChapterBriefDrafted
      <4> HIDE DEF r
      <4>2. PICK t \in Nat : t = Len(briefs) + 1
        BY <3>2
      <4>3. /\ DOMAIN briefs' = 1 .. t /\ briefs'[t] = r
            /\ \A i \in DOMAIN briefs : briefs'[i] = briefs[i]
        BY <3>2, <4>1, <4>2
      <4>4. t \in BriefIds /\ t \notin DOMAIN briefs
        <5>1. Len(briefs') <= drafted' /\ drafted' = drafted
          BY <3>1, FoldKeepsRows DEF BriefsNumbered, Numbered, Fold
        <5>2. Len(briefs') = t
          BY <3>2, <4>1, <4>2
        <5>3. drafted \in 0 .. MaxBriefs
          BY Typed
        <5> QED BY <3>2, <4>2, <5>1, <5>2, <5>3, OutlineAssumption DEF BriefIds
      <4>5. \A i \in BriefIds : i # t => (i \in DOMAIN briefs' <=> i \in DOMAIN briefs)
        <5>1. \A i \in Nat \ {0} : i # t => (i \in 1 .. t <=> i \in 1 .. Len(briefs))
          BY <3>2, <4>2
        <5>2. BriefIds \subseteq Nat \ {0}
          BY DEF BriefIds
        <5> QED BY <3>2, <4>3, <5>1, <5>2
      <4>6. S[t] = "none" /\ S' = [S EXCEPT ![t] = "open"]
        <5>1. BriefState(t) = "none"
          BY <4>4 DEF BriefState
        <5>2. BriefState(t)' = "open"
          <6>1. t \in DOMAIN briefs'
            BY <4>2, <4>3, <4>4 DEF BriefIds
          <6> QED BY <4>1, <4>3, <6>1 DEF BriefState
        <5>3. ASSUME NEW i \in BriefIds, i # t PROVE BriefState(i)' = BriefState(i)
          BY <4>3, <4>5, <5>3 DEF BriefState
        <5> QED BY <4>4, <5>1, <5>2, <5>3
      <4> HIDE DEF S, W
      <4> QED BY <3>4, <4>4, <4>6 DEF S, W, Brief!ONext, Brief!Open
    <3>6. CASE e.type \in {"superseded", "fulfilled"} /\ ChapterBriefClosed(e)
      <4>1. e.id \in DOMAIN briefs /\ briefs[e.id].state = "open"
        BY <2>2, <3>6 DEF ChapterBriefClosed
      <4>2. PICK t \in BriefIds, way \in {"superseded", "fulfilled"} : t = e.id /\ way = e.type
        BY <3>2, <3>6, <4>1
      <4> DEFINE r == [briefs[t] EXCEPT !.state = way]
                 q == [r EXCEPT !.chapter = e.arg]
      <4>3. briefs' = [briefs EXCEPT ![t] = q]
        BY <3>6, <4>1, <4>2 DEF ChapterBriefClosed
      <4>4. q.state = way
        BY <3>2, <4>1, <4>2 DEF ChapterBriefRecord
      <4> HIDE DEF q
      <4>5. /\ DOMAIN briefs' = DOMAIN briefs /\ briefs'[t].state = way
            /\ \A i \in DOMAIN briefs : i # t => briefs'[i] = briefs[i]
        BY <3>2, <4>1, <4>2, <4>3, <4>4
      <4>6. S[t] = "open" /\ S' = [S EXCEPT ![t] = way]
        BY <4>1, <4>2, <4>5 DEF BriefState
      <4> HIDE DEF S, W
      <4> QED BY <3>4, <4>2, <4>6 DEF S, W, Brief!ONext, Brief!Close
    <3> QED BY <3>3, <3>5, <3>6 DEF BriefFold
  <2> QED BY <2>1, <2>2
<1> QED BY <1>1, <1>2, Always, PTL DEF Spec, Brief!OSpec

(* An arc is declared once, gathers pivots one at a time while it is not
   resolved, and then is as it was. *)
THEOREM ArcsImplementObligation == Spec => Arc!OSpec
<1>1. Init => Arc!OInit
  BY DEF Init, Blank, ArcState, Arc!OInit
<1>2. IInv /\ [Next]_vars => [Arc!ONext]_(Arc!ovars)
  <2> SUFFICES ASSUME IInv, [Next]_vars
               PROVE  Arc!ONext \/ UNCHANGED Arc!ovars
    BY DEF Arc!ovars
  <2>1. CASE arcs' = arcs
    BY <2>1 DEF ArcState, Arc!ovars
  <2>2. CASE arcs' # arcs
    <3> DEFINE e == Head(pending)
               S == [a \in Arcs |-> ArcState(a)]
               W == [a \in Arcs |-> IF a \in DOMAIN arcs THEN Cardinality(arcs[a].pivots) ELSE 0]
    <3>1. Fold
      BY <2>2, OnlyFold DEF rows
    <3>2. e \in Events /\ ArcsTyped
      BY <3>1, FoldTakes, Typed
    <3>3. ArcFold(e)
      BY <2>2, <3>1, FoldKinds DEF ShapeFold, BriefFold, OtherFold
    <3>4. e.id \in Arcs
      BY <3>2, <3>3 DEF ArcFold, Events, EventOK
    <3>5. PICK t \in Arcs : t = e.id
      BY <3>4
    <3> HIDE DEF e
    <3>6. CASE e.type = "declared" /\ ArcDeclared(e)
      <4> DEFINE r == [of |-> e.arg, active |-> TRUE, resolved |-> FALSE, pivots |-> {}]
                 A == [x \in DOMAIN arcs |->
                         IF arcs[x].of = e.arg THEN [arcs[x] EXCEPT !.active = FALSE] ELSE arcs[x]]
      <4>1. t \notin DOMAIN arcs /\ arcs' = Upsert(A, t, r)
        BY <2>2, <3>5, <3>6 DEF ArcDeclared
      <4>2. \A x \in DOMAIN arcs : /\ A[x].resolved = arcs[x].resolved
                                   /\ A[x].pivots = arcs[x].pivots
        BY <3>2 DEF ArcsTyped, ArcRecord
      <4>3. ~ r.resolved /\ r.pivots = {} /\ Cardinality({}) = 0
        BY FS_EmptySet
      <4>4. DOMAIN A = DOMAIN arcs
        OBVIOUS
      <4> HIDE DEF A, r
      <4>5. /\ DOMAIN arcs' = DOMAIN arcs \cup {t} /\ arcs'[t] = r
            /\ \A x \in DOMAIN arcs : x # t /\ arcs'[x] = A[x]
        BY <4>1, <4>4 DEF Upsert
      <4>6. S[t] = "none" /\ S' = [S EXCEPT ![t] = "open"]
        BY <4>1, <4>2, <4>3, <4>5 DEF ArcState
      <4>7. W' = W
        BY <4>1, <4>2, <4>3, <4>5
      <4> HIDE DEF S, W
      <4> QED BY <4>6, <4>7 DEF S, W, Arc!ONext, Arc!Open
    <3>7. CASE e.type = "pivot" /\ ArcPivotPlanned(e)
      <4>1. t \in DOMAIN arcs /\ ~ arcs[t].resolved
        BY <2>2, <3>5, <3>7 DEF ArcPivotPlanned, Unresolved
      <4> DEFINE P == arcs[t].pivots
                 q == [arcs[t] EXCEPT !.pivots = P \cup {e.arg}]
      <4>2. arcs' = [arcs EXCEPT ![t] = q]
        BY <2>2, <3>5, <3>7 DEF ArcPivotPlanned
      <4>3. q.pivots = P \cup {e.arg} /\ q.resolved = arcs[t].resolved
        BY <3>2, <4>1 DEF ArcsTyped, ArcRecord
      <4> HIDE DEF q
      <4>4. /\ DOMAIN arcs' = DOMAIN arcs /\ arcs'[t] = q
            /\ \A x \in DOMAIN arcs : x # t => arcs'[x] = arcs[x]
        BY <3>2, <4>1, <4>2 DEF ArcsTyped
      <4>5. S[t] = "open" /\ S' = S
        BY <4>1, <4>3, <4>4 DEF ArcState
      <4>6. PICK n, m : n = Cardinality(P) /\ m = Cardinality(P \cup {e.arg})
        OBVIOUS
      <4>7. n \in Nat /\ m \in {n, n + 1}
        BY <3>2, <4>1, <4>6, OneMore DEF ArcsTyped
      <4>8. W[t] = n /\ W' = [W EXCEPT ![t] = m]
        BY <4>1, <4>3, <4>4, <4>6
      <4>9. \A a \in Arcs : W[a] = W[a] /\ DOMAIN W = Arcs
        OBVIOUS
      <4>10. W' = W \/ W' = [W EXCEPT ![t] = @ + 1]
        BY <4>7, <4>8, <4>9
      <4> HIDE DEF S, W
      <4> QED BY <4>5, <4>10 DEF S, W, Arc!ONext, Arc!Work, Arc!ovars
    <3>8. CASE e.type = "resolved" /\ ArcResolved(e)
      <4>1. t \in DOMAIN arcs /\ ~ arcs[t].resolved
        BY <2>2, <3>5, <3>8 DEF ArcResolved, Unresolved
      <4> DEFINE q == [arcs[t] EXCEPT !.resolved = TRUE]
      <4>2. arcs' = [arcs EXCEPT ![t] = q]
        BY <2>2, <3>5, <3>8 DEF ArcResolved
      <4>3. q.resolved /\ q.pivots = arcs[t].pivots
        BY <3>2, <4>1 DEF ArcsTyped, ArcRecord
      <4> HIDE DEF q
      <4>4. /\ DOMAIN arcs' = DOMAIN arcs /\ arcs'[t] = q
            /\ \A x \in DOMAIN arcs : x # t => arcs'[x] = arcs[x]
        BY <3>2, <4>1, <4>2 DEF ArcsTyped
      <4>5. S[t] = "open" /\ S' = [S EXCEPT ![t] = "resolved"]
        BY <4>1, <4>3, <4>4 DEF ArcState
      <4>6. W' = W
        BY <4>1, <4>3, <4>4
      <4> HIDE DEF S, W
      <4> QED BY <4>5, <4>6 DEF S, W, Arc!ONext, Arc!Close
    <3> QED BY <3>3, <3>6, <3>7, <3>8 DEF ArcFold
  <2> QED BY <2>1, <2>2
<1> QED BY <1>1, <1>2, Always, PTL DEF Spec, Arc!OSpec

(* Briefs and arcs live the life of an Obligation, and a book ends once. *)
THEOREM OutlineImplementsObligation == Spec => OutlineRunsItsCourse
BY BriefsImplementObligation, ArcsImplementObligation, CompletionStands DEF OutlineRunsItsCourse
=============================================================================
