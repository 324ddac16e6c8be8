------------------------------ MODULE ViewProofs ------------------------------
(***************************************************************************)
(* What the app shows, for any scene: the newest run of each agent is      *)
(* shown as it is, once the queue is empty and nothing is being written.   *)
(*                                                                         *)
(* The items that wait lead from the view that is shown to one that fits   *)
(* the run; a step changes the run by what the item it appends says, and   *)
(* the app takes the first item, which leads on to the same view.          *)
(***************************************************************************)
EXTENDS StoreProofs

(* Views.  A run's view is right when its tool blocks count the run's tool calls, in all
   and without an answer, when the handles on them lead to results of those calls, and
   when its text is what was streamed. *)
ToolBlocks(b, i) == {k \in 1 .. Len(b) : b[k].kind = "tool" /\ b[k].call = i}
CallsOf(b, i) == UNION {{k} \X (1 .. b[k].repeat) : k \in ToolBlocks(b, i)}
RunningOf(b, i) == {k \in ToolBlocks(b, i) : b[k].status = "running"}
Called == {"open", "ending", "over"}
Unanswered == {"open", "ending"}
ToolsOf(as, r, i, sts) ==
  {a \in 1 .. Len(as) : as[a].run = r /\ as[a].kind = "tool" /\ as[a].call = i /\ as[a].st \in sts}
ToolsFit(b, as, r) ==
  \A i : /\ IsFiniteSet(CallsOf(b, i))
         /\ Cardinality(CallsOf(b, i)) = Cardinality(ToolsOf(as, r, i, Called))
         /\ Cardinality(RunningOf(b, i)) = Cardinality(ToolsOf(as, r, i, Unanswered))
OutputsFit(b, s, r) ==
  \A k \in 1 .. Len(b) : b[k].kind = "tool" /\ b[k].seq > 0 =>
    /\ b[k].seq \in 1 .. Len(s) /\ s[b[k].seq].run = r /\ s[b[k].seq].call = b[k].call
    /\ s[b[k].seq].type \in ActEnds["tool"]
TextOf(b) == UNION {ToSet(b[k].text) : k \in 1 .. Len(b)}

(* How a list of blocks changes *)
Changed(b, d, n, e) ==
  /\ Len(b) \in Nat /\ Len(d) = Len(b) /\ n \in 1 .. Len(b)
  /\ \A k \in 1 .. Len(b) : d[k] = IF k = n THEN e ELSE b[k]
Longer(b, d, e) ==
  /\ Len(b) \in Nat /\ Len(d) = Len(b) + 1 /\ d[Len(b) + 1] = e
  /\ \A k \in 1 .. Len(b) : d[k] = b[k]
OneMoreCall(b, d, c) ==
  /\ \A i : i # c => CallsOf(d, i) = CallsOf(b, i) /\ RunningOf(d, i) = RunningOf(b, i)
  /\ \E e : e \notin CallsOf(b, c) /\ CallsOf(d, c) = CallsOf(b, c) \cup {e}
  /\ \E k : k \notin RunningOf(b, c) /\ RunningOf(d, c) = RunningOf(b, c) \cup {k}
OneAnswered(b, d, c) ==
  /\ \A i : CallsOf(d, i) = CallsOf(b, i)
  /\ \A i : i # c => RunningOf(d, i) = RunningOf(b, i)
  /\ \E k \in RunningOf(b, c) : RunningOf(d, c) = RunningOf(b, c) \ {k}
ToolsAlike(b, d) == \A i : CallsOf(d, i) = CallsOf(b, i) /\ RunningOf(d, i) = RunningOf(b, i)

(* Blocks that are no tools are nothing to the tools. *)
LEMMA OtherChanged ==
  ASSUME NEW b, NEW d, NEW n, NEW e, Changed(b, d, n, e), b[n].kind # "tool", e.kind # "tool"
  PROVE  ToolsAlike(b, d) /\ \A s, r : OutputsFit(b, s, r) => OutputsFit(d, s, r)
<1>1. ASSUME NEW i PROVE ToolBlocks(d, i) = ToolBlocks(b, i) /\ \A k \in ToolBlocks(b, i) : d[k] = b[k]
  BY DEF Changed, ToolBlocks
<1>2. ASSUME NEW i PROVE CallsOf(d, i) = CallsOf(b, i) /\ RunningOf(d, i) = RunningOf(b, i)
  BY <1>1 DEF CallsOf, RunningOf
<1>3. ASSUME NEW s, NEW r, OutputsFit(b, s, r) PROVE OutputsFit(d, s, r)
  BY <1>3 DEF Changed, OutputsFit
<1> QED BY <1>2, <1>3 DEF ToolsAlike

(* Neither is one more of them. *)
LEMMA OtherAdded ==
  ASSUME NEW b, NEW d, NEW e, Longer(b, d, e), e.kind # "tool"
  PROVE  ToolsAlike(b, d) /\ \A s, r : OutputsFit(b, s, r) => OutputsFit(d, s, r)
<1>0. \A k \in 1 .. Len(d) : k \in 1 .. Len(b) \/ (k = Len(b) + 1 /\ d[k] = e)
  BY DEF Longer
<1>9. \A k \in 1 .. Len(b) : k \in 1 .. Len(d) /\ d[k] = b[k]
  BY DEF Longer
<1>1. ASSUME NEW i PROVE ToolBlocks(d, i) = ToolBlocks(b, i) /\ \A k \in ToolBlocks(b, i) : d[k] = b[k]
  BY <1>0, <1>9 DEF ToolBlocks
<1>2. ASSUME NEW i PROVE CallsOf(d, i) = CallsOf(b, i) /\ RunningOf(d, i) = RunningOf(b, i)
  BY <1>1 DEF CallsOf, RunningOf
<1>3. ASSUME NEW s, NEW r, OutputsFit(b, s, r) PROVE OutputsFit(d, s, r)
  BY <1>0, <1>9, <1>3 DEF OutputsFit
<1> QED BY <1>2, <1>3 DEF ToolsAlike

(* A tool that is called again, or for the first time in a while *)
LEMMA ToolAgain ==
  ASSUME NEW b, NEW d, NEW n, NEW e, Changed(b, d, n, e), b[n].kind = "tool", e.kind = "tool",
         b[n].call = e.call, b[n].status # "running", e.status = "running",
         b[n].repeat \in Nat, e.repeat = b[n].repeat + 1
  PROVE  OneMoreCall(b, d, e.call)
<1>1. ASSUME NEW i PROVE ToolBlocks(d, i) = ToolBlocks(b, i)
  BY DEF Changed, ToolBlocks
<1>2. ASSUME NEW i, NEW k \in ToolBlocks(b, i), k # n PROVE d[k] = b[k]
  BY <1>2 DEF Changed, ToolBlocks
<1>3. d[n] = e /\ n \in ToolBlocks(b, e.call)
  BY DEF Changed, ToolBlocks
<1>4. ASSUME NEW i, i # e.call PROVE CallsOf(d, i) = CallsOf(b, i) /\ RunningOf(d, i) = RunningOf(b, i)
  <2>1. n \notin ToolBlocks(b, i)
    BY <1>4 DEF ToolBlocks
  <2>2. \A k \in ToolBlocks(b, i) : d[k] = b[k]
    BY <1>2, <2>1
  <2> QED BY <1>1, <2>2 DEF CallsOf, RunningOf
<1>5. <<n, e.repeat>> \notin CallsOf(b, e.call)
  BY DEF CallsOf
<1>6. CallsOf(d, e.call) = CallsOf(b, e.call) \cup {<<n, e.repeat>>}
  <2>0. 1 .. e.repeat = (1 .. b[n].repeat) \cup {e.repeat}
    OBVIOUS
  <2>1. ASSUME NEW p \in CallsOf(d, e.call) PROVE p \in CallsOf(b, e.call) \cup {<<n, e.repeat>>}
    <3>1. PICK k \in ToolBlocks(b, e.call) : p \in {k} \X (1 .. d[k].repeat)
      BY <1>1 DEF CallsOf
    <3>2. CASE k = n
      BY <1>3, <2>0, <3>1, <3>2 DEF CallsOf
    <3>3. CASE k # n
      BY <1>2, <3>1, <3>3 DEF CallsOf
    <3> QED BY <3>2, <3>3
  <2>2. ASSUME NEW p \in CallsOf(b, e.call) PROVE p \in CallsOf(d, e.call)
    <3>1. PICK k \in ToolBlocks(b, e.call) : p \in {k} \X (1 .. b[k].repeat)
      BY DEF CallsOf
    <3>2. CASE k = n
      <4>1. p \in {n} \X (1 .. d[n].repeat)
        BY <1>3, <2>0, <3>1, <3>2
      <4> QED BY <1>1, <1>3, <4>1 DEF CallsOf
    <3>3. CASE k # n
      BY <1>1, <1>2, <3>1, <3>3 DEF CallsOf
    <3> QED BY <3>2, <3>3
  <2>3. <<n, e.repeat>> \in CallsOf(d, e.call)
    BY <1>1, <1>3, <2>0 DEF CallsOf
  <2> QED BY <2>1, <2>2, <2>3
<1>7. n \notin RunningOf(b, e.call) /\ RunningOf(d, e.call) = RunningOf(b, e.call) \cup {n}
  BY <1>1, <1>2, <1>3 DEF RunningOf
<1> QED BY <1>4, <1>5, <1>6, <1>7 DEF OneMoreCall

(* it is one call more in the count of its blocks. *)
LEMMA ToolAdded ==
  ASSUME NEW b, NEW d, NEW e, Longer(b, d, e), e.kind = "tool", e.status = "running", e.repeat = 1
  PROVE  OneMoreCall(b, d, e.call)
<1>1. PICK n : n = Len(b) + 1
  OBVIOUS
<1>2. n \notin 1 .. Len(b) /\ d[n] = e /\ 1 .. Len(d) = (1 .. Len(b)) \cup {n} /\ \A k \in 1 .. Len(b) : d[k] = b[k]
  BY <1>1 DEF Longer
<1>3. ASSUME NEW i PROVE ToolBlocks(d, i) = ToolBlocks(b, i) \cup (IF i = e.call THEN {n} ELSE {})
  BY <1>2 DEF ToolBlocks
<1>4. ASSUME NEW i, NEW k \in ToolBlocks(b, i) PROVE k # n /\ d[k] = b[k]
  BY <1>2 DEF ToolBlocks
<1>5. ASSUME NEW i, i # e.call PROVE CallsOf(d, i) = CallsOf(b, i) /\ RunningOf(d, i) = RunningOf(b, i)
  BY <1>3, <1>4, <1>5 DEF CallsOf, RunningOf
<1>6. <<n, 1>> \notin CallsOf(b, e.call)
  BY <1>4 DEF CallsOf
<1>7. CallsOf(d, e.call) = CallsOf(b, e.call) \cup {<<n, 1>>}
  <2>0. 1 .. d[n].repeat = {1}
    BY <1>2
  <2>1. ASSUME NEW p \in CallsOf(d, e.call) PROVE p \in CallsOf(b, e.call) \cup {<<n, 1>>}
    <3>1. PICK k \in ToolBlocks(d, e.call) : p \in {k} \X (1 .. d[k].repeat)
      BY DEF CallsOf
    <3>2. CASE k = n
      BY <2>0, <3>1, <3>2
    <3>3. CASE k # n
      BY <1>3, <1>4, <3>1, <3>3 DEF CallsOf
    <3> QED BY <3>2, <3>3
  <2>2. ASSUME NEW p \in CallsOf(b, e.call) PROVE p \in CallsOf(d, e.call)
    BY <1>3, <1>4 DEF CallsOf
  <2>3. <<n, 1>> \in CallsOf(d, e.call)
    <3>1. n \in ToolBlocks(d, e.call) /\ <<n, 1>> \in {n} \X (1 .. d[n].repeat)
      BY <1>3, <2>0
    <3> QED BY <3>1 DEF CallsOf
  <2> QED BY <2>1, <2>2, <2>3
<1>8. n \notin RunningOf(b, e.call) /\ RunningOf(d, e.call) = RunningOf(b, e.call) \cup {n}
  BY <1>2, <1>3, <1>4 DEF RunningOf
<1> QED BY <1>5, <1>6, <1>7, <1>8 DEF OneMoreCall

(* A result on the block of a call that runs *)
LEMMA ToolAnswered ==
  ASSUME NEW b, NEW d, NEW n, NEW e, Changed(b, d, n, e), n \in RunningOf(b, e.call), e.kind = "tool",
         e.status # "running", e.repeat = b[n].repeat
  PROVE  OneAnswered(b, d, e.call)
<1>1. ASSUME NEW i PROVE ToolBlocks(d, i) = ToolBlocks(b, i)
  BY DEF Changed, ToolBlocks, RunningOf
<1>2. ASSUME NEW i, NEW k \in ToolBlocks(b, i) PROVE d[k].repeat = b[k].repeat /\ (k # n => d[k] = b[k])
  BY DEF Changed, ToolBlocks
<1>3. d[n] = e /\ n \in ToolBlocks(b, e.call)
  BY DEF Changed, RunningOf
<1>4. ASSUME NEW i PROVE CallsOf(d, i) = CallsOf(b, i)
  BY <1>1, <1>2 DEF CallsOf
<1>5. ASSUME NEW i, i # e.call PROVE RunningOf(d, i) = RunningOf(b, i)
  <2>1. n \notin ToolBlocks(b, i)
    BY <1>3, <1>5 DEF ToolBlocks
  <2> QED BY <1>1, <1>2, <2>1 DEF RunningOf
<1>6. RunningOf(d, e.call) = RunningOf(b, e.call) \ {n}
  BY <1>1, <1>2, <1>3 DEF RunningOf
<1> QED BY <1>4, <1>5, <1>6 DEF OneAnswered

(* Counting with it *)
LEMMA CountMore ==
  ASSUME NEW S, NEW T, IsFiniteSet(S), IsFiniteSet(T), Cardinality(S) = Cardinality(T),
         NEW e, e \notin S, NEW f, f \notin T
  PROVE  IsFiniteSet(S \cup {e}) /\ Cardinality(S \cup {e}) = Cardinality(T \cup {f})
<1>1. IsFiniteSet(S \cup {e}) /\ Cardinality(S \cup {e}) = Cardinality(S) + 1
  BY FS_AddElement
<1>2. Cardinality(T \cup {f}) = Cardinality(T) + 1
  BY FS_AddElement
<1> QED BY <1>1, <1>2

(* and without it *)
LEMMA CountLess ==
  ASSUME NEW S, NEW T, IsFiniteSet(S), IsFiniteSet(T), Cardinality(S) = Cardinality(T),
         NEW e \in S, NEW f \in T
  PROVE  Cardinality(S \ {e}) = Cardinality(T \ {f})
<1>1. Cardinality(S \ {e}) = Cardinality(S) - 1
  BY FS_RemoveElement
<1>2. Cardinality(T \ {f}) = Cardinality(T) - 1
  BY FS_RemoveElement
<1> QED BY <1>1, <1>2

(* There are finitely many of both. *)
LEMMA ToolsFinite ==
  ASSUME NEW b, Len(b) \in Nat, NEW as, Len(as) \in Nat, NEW i, NEW r, NEW sts
  PROVE  IsFiniteSet(RunningOf(b, i)) /\ IsFiniteSet(ToolsOf(as, r, i, sts))
<1>1. IsFiniteSet(1 .. Len(b)) /\ IsFiniteSet(1 .. Len(as))
  <2>1. \A n \in Nat : IsFiniteSet(1 .. n)
    BY FS_Interval
  <2> QED BY <2>1
<1>2. RunningOf(b, i) \subseteq 1 .. Len(b) /\ ToolsOf(as, r, i, sts) \subseteq 1 .. Len(as)
  BY DEF RunningOf, ToolBlocks, ToolsOf
<1> QED BY <1>1, <1>2, FS_Subset

(* A tool call that is told of is one more on both sides, *)
LEMMA CallFits ==
  ASSUME NEW b, NEW d, NEW as, NEW cs, NEW r, NEW c, ToolsFit(b, as, r), OneMoreCall(b, d, c),
         Len(b) \in Nat, Len(as) \in Nat,
         \A i, sts : i # c => ToolsOf(cs, r, i, sts) = ToolsOf(as, r, i, sts),
         NEW a, a \notin ToolsOf(as, r, c, Called), a \notin ToolsOf(as, r, c, Unanswered),
         ToolsOf(cs, r, c, Called) = ToolsOf(as, r, c, Called) \cup {a},
         ToolsOf(cs, r, c, Unanswered) = ToolsOf(as, r, c, Unanswered) \cup {a}
  PROVE  ToolsFit(d, cs, r)
<1>1. ASSUME NEW i, i # c
      PROVE  /\ IsFiniteSet(CallsOf(d, i))
             /\ Cardinality(CallsOf(d, i)) = Cardinality(ToolsOf(cs, r, i, Called))
             /\ Cardinality(RunningOf(d, i)) = Cardinality(ToolsOf(cs, r, i, Unanswered))
  <2>1. CallsOf(d, i) = CallsOf(b, i) /\ RunningOf(d, i) = RunningOf(b, i)
    BY <1>1 DEF OneMoreCall
  <2>2. ToolsOf(cs, r, i, Called) = ToolsOf(as, r, i, Called) /\ ToolsOf(cs, r, i, Unanswered) = ToolsOf(as, r, i, Unanswered)
    BY <1>1
  <2> QED BY <2>1, <2>2 DEF ToolsFit
<1>2. IsFiniteSet(CallsOf(d, c)) /\ Cardinality(CallsOf(d, c)) = Cardinality(ToolsOf(cs, r, c, Called))
  <2>1. PICK e : e \notin CallsOf(b, c) /\ CallsOf(d, c) = CallsOf(b, c) \cup {e}
    BY DEF OneMoreCall
  <2>2. PICK S, T : S = CallsOf(b, c) /\ T = ToolsOf(as, r, c, Called)
    OBVIOUS
  <2>3. IsFiniteSet(S) /\ IsFiniteSet(T) /\ Cardinality(S) = Cardinality(T)
    BY <2>2, ToolsFinite DEF ToolsFit
  <2>4. IsFiniteSet(S \cup {e}) /\ Cardinality(S \cup {e}) = Cardinality(T \cup {a})
    <3>1. e \notin S /\ a \notin T
      BY <2>1, <2>2
    <3> QED BY <2>3, <3>1, CountMore
  <2> QED BY <2>1, <2>2, <2>4
<1>3. Cardinality(RunningOf(d, c)) = Cardinality(ToolsOf(cs, r, c, Unanswered))
  <2>1. PICK e : e \notin RunningOf(b, c) /\ RunningOf(d, c) = RunningOf(b, c) \cup {e}
    BY DEF OneMoreCall
  <2>2. PICK S, T : S = RunningOf(b, c) /\ T = ToolsOf(as, r, c, Unanswered)
    OBVIOUS
  <2>3. IsFiniteSet(S) /\ IsFiniteSet(T) /\ Cardinality(S) = Cardinality(T)
    BY <2>2, ToolsFinite DEF ToolsFit
  <2>4. Cardinality(S \cup {e}) = Cardinality(T \cup {a})
    <3>1. e \notin S /\ a \notin T
      BY <2>1, <2>2
    <3> QED BY <2>3, <3>1, CountMore
  <2> QED BY <2>1, <2>2, <2>4
<1> QED BY <1>1, <1>2, <1>3 DEF ToolsFit

(* and one that is answered runs on neither. *)
LEMMA AnswerFits ==
  ASSUME NEW b, NEW d, NEW as, NEW cs, NEW r, NEW c, ToolsFit(b, as, r), OneAnswered(b, d, c),
         Len(b) \in Nat, Len(as) \in Nat,
         \A i : ToolsOf(cs, r, i, Called) = ToolsOf(as, r, i, Called),
         \A i : i # c => ToolsOf(cs, r, i, Unanswered) = ToolsOf(as, r, i, Unanswered),
         NEW a \in ToolsOf(as, r, c, Unanswered),
         ToolsOf(cs, r, c, Unanswered) = ToolsOf(as, r, c, Unanswered) \ {a}
  PROVE  ToolsFit(d, cs, r)
<1>1. ASSUME NEW i PROVE IsFiniteSet(CallsOf(d, i)) /\ Cardinality(CallsOf(d, i)) = Cardinality(ToolsOf(cs, r, i, Called))
  BY DEF ToolsFit, OneAnswered
<1>2. ASSUME NEW i, i # c PROVE Cardinality(RunningOf(d, i)) = Cardinality(ToolsOf(cs, r, i, Unanswered))
  BY <1>2 DEF ToolsFit, OneAnswered
<1>3. Cardinality(RunningOf(d, c)) = Cardinality(ToolsOf(cs, r, c, Unanswered))
  <2>1. PICK S, T : S = RunningOf(b, c) /\ T = ToolsOf(as, r, c, Unanswered)
    OBVIOUS
  <2>2. PICK e \in S : RunningOf(d, c) = S \ {e}
    BY <2>1 DEF OneAnswered
  <2>3. IsFiniteSet(S) /\ IsFiniteSet(T) /\ Cardinality(S) = Cardinality(T)
    BY <2>1, ToolsFinite DEF ToolsFit
  <2>4. Cardinality(S \ {e}) = Cardinality(T \ {a})
    <3>1. a \in T
      BY <2>1
    <3> QED BY <2>3, <3>1, CountLess
  <2> QED BY <2>1, <2>2, <2>4
<1> QED BY <1>1, <1>2, <1>3 DEF ToolsFit

(* What is nothing to the tools leaves the counts equal. *)
LEMMA AlikeFits ==
  ASSUME NEW b, NEW d, NEW as, NEW cs, NEW r, ToolsFit(b, as, r), ToolsAlike(b, d),
         \A i : /\ ToolsOf(cs, r, i, Called) = ToolsOf(as, r, i, Called)
                /\ ToolsOf(cs, r, i, Unanswered) = ToolsOf(as, r, i, Unanswered)
  PROVE  ToolsFit(d, cs, r)
BY DEF ToolsFit, ToolsAlike

(* While a call waits for its answer a block of it runs. *)
LEMMA SomeRuns ==
  ASSUME NEW b, NEW as, NEW r, NEW c, ToolsFit(b, as, r), Len(b) \in Nat, Len(as) \in Nat,
         ToolsOf(as, r, c, Unanswered) # {}
  PROVE  RunningOf(b, c) # {}
<1>1. PICK S, T : S = RunningOf(b, c) /\ T = ToolsOf(as, r, c, Unanswered)
  OBVIOUS
<1>2. IsFiniteSet(S) /\ IsFiniteSet(T) /\ Cardinality(S) = Cardinality(T) /\ T # {}
  BY <1>1, ToolsFinite DEF ToolsFit
<1>3. (Cardinality(S) = 0) <=> (S = {})
  BY <1>2, FS_EmptySet
<1>4. (Cardinality(T) = 0) <=> (T = {})
  BY <1>2, FS_EmptySet
<1> QED BY <1>1, <1>2, <1>3, <1>4

-----------------------------------------------------------------------------
(* How a view changes: another of the same run, to the tools no other *)
Alike(b, d) == ToolsAlike(b, d) /\ \A s, r : OutputsFit(b, s, r) => OutputsFit(d, s, r)
SameRun(s, t) == t \in RunViews /\ t.run = s.run /\ t.status = s.status

(* A view with one block replaced, of the same kind, *)
LEMMA ReplacedIs ==
  ASSUME NEW s \in RunViews, NEW n \in 1 .. Len(s.blocks), NEW e \in Blocks, e.kind = s.blocks[n].kind,
         NEW t, t = [s EXCEPT !.blocks = [s.blocks EXCEPT ![n] = e]]
  PROVE  SameRun(s, t) /\ Changed(s.blocks, t.blocks, n, e)
<1>1. PICK bs \in Seq(Blocks) : bs = s.blocks
  BY RunViewParts
<1>2. PICK cs : cs = [bs EXCEPT ![n] = e]
  OBVIOUS
<1>3. /\ cs \in Seq(Blocks) /\ Len(cs) = Len(bs) /\ Len(bs) \in Nat
      /\ \A i \in 1 .. Len(bs) : cs[i] = IF i = n THEN e ELSE bs[i]
  BY <1>1, <1>2, ExceptSeq, LenProperties
<1>4. t = [status |-> s.status, run |-> s.run, blocks |-> cs, attached |-> s.attached]
  BY <1>1, <1>2 DEF RunViews
<1>5. t \in RunViews
  BY BlockReplaced
<1>6. t.run = s.run /\ t.status = s.status /\ t.blocks = cs
  BY <1>4
<1> QED BY <1>1, <1>3, <1>5, <1>6 DEF SameRun, Changed

(* or with one more at its end *)
LEMMA AppendedIs ==
  ASSUME NEW s \in RunViews, NEW e \in Blocks, NEW t, t = [s EXCEPT !.blocks = Append(s.blocks, e)]
  PROVE  SameRun(s, t) /\ Longer(s.blocks, t.blocks, e)
<1>1. PICK bs \in Seq(Blocks) : bs = s.blocks
  BY RunViewParts
<1>2. PICK cs : cs = Append(bs, e)
  OBVIOUS
<1>3. /\ cs \in Seq(Blocks) /\ Len(cs) = Len(bs) + 1 /\ Len(bs) \in Nat /\ cs[Len(bs) + 1] = e
      /\ \A i \in 1 .. Len(bs) : cs[i] = bs[i]
  BY <1>1, <1>2, AppendProperties, LenProperties
<1>4. t = [status |-> s.status, run |-> s.run, blocks |-> cs, attached |-> s.attached]
  BY <1>1, <1>2 DEF RunViews
<1>5. t \in RunViews
  BY BlockAppended
<1>6. t.run = s.run /\ t.status = s.status /\ t.blocks = cs
  BY <1>4
<1> QED BY <1>1, <1>3, <1>5, <1>6 DEF SameRun, Longer

(* A block with more text than another *)
MoreText(e, f, S) == ToSet(e.text) = ToSet(f.text) \cup S

(* The text of the blocks changes with the one that does, *)
LEMMA TextChanged ==
  ASSUME NEW b, NEW d, NEW n, NEW e, NEW S, Changed(b, d, n, e), MoreText(e, b[n], S)
  PROVE  TextOf(d) = TextOf(b) \cup S
<1>1. PICK N \in Nat : N = Len(b) /\ Len(d) = N /\ n \in 1 .. N
  BY DEF Changed
<1>2. \A k \in 1 .. N : d[k] = IF k = n THEN e ELSE b[k]
  BY <1>1 DEF Changed
<1>3. TextOf(b) = UNION {ToSet(b[k].text) : k \in 1 .. N} /\ TextOf(d) = UNION {ToSet(d[k].text) : k \in 1 .. N}
  BY <1>1 DEF TextOf
<1>4. ToSet(e.text) = ToSet(b[n].text) \cup S
  BY DEF MoreText
<1>5. d[n] = e /\ \A k \in 1 .. N : k # n => d[k] = b[k]
  BY <1>1, <1>2
<1> QED BY <1>1, <1>3, <1>4, <1>5

(* grows with one that is added, *)
LEMMA TextAdded ==
  ASSUME NEW b, NEW d, NEW e, Longer(b, d, e)
  PROVE  TextOf(d) = TextOf(b) \cup ToSet(e.text)
<1>1. PICK N \in Nat : N = Len(b) /\ Len(d) = N + 1 /\ d[N + 1] = e
  BY DEF Longer
<1>2. \A k \in 1 .. N : d[k] = b[k]
  BY <1>1 DEF Longer
<1>3. TextOf(b) = UNION {ToSet(b[k].text) : k \in 1 .. N} /\ TextOf(d) = UNION {ToSet(d[k].text) : k \in 1 .. N + 1}
  BY <1>1 DEF TextOf
<1>4. 1 .. N + 1 = (1 .. N) \cup {N + 1}
  OBVIOUS
<1>5. (\A k \in 1 .. N : ToSet(d[k].text) = ToSet(b[k].text)) /\ ToSet(d[N + 1].text) = ToSet(e.text)
  BY <1>1, <1>2
<1> QED BY <1>3, <1>4, <1>5

(* and stays when the changed one keeps its text. *)
LEMMA TextSame ==
  ASSUME NEW b, NEW d, NEW n, NEW e, Changed(b, d, n, e), e.text = b[n].text
  PROVE  TextOf(d) = TextOf(b)
<1>1. PICK S : S = {}
  OBVIOUS
<1>2. MoreText(e, b[n], S)
  BY <1>1 DEF MoreText
<1>3. TextOf(d) = TextOf(b) \cup S
  BY <1>2, TextChanged
<1> QED BY <1>1, <1>3

(* There is nothing in no text. *)
LEMMA SetOfNothing == ToSet(<<>>) = {}
<1>1. <<>> \in Seq(Nat)
  BY EmptySeq
<1> QED BY <1>1, NothingJoined

(* A block without text adds none. *)
LEMMA TextNone ==
  ASSUME NEW b, NEW d, NEW e, Longer(b, d, e), e.text = <<>>
  PROVE  TextOf(d) = TextOf(b)
<1>1. TextOf(d) = TextOf(b) \cup ToSet(e.text)
  BY TextAdded
<1> QED BY <1>1, SetOfNothing

(* Text is text, *)
LEMMA TextTaken ==
  ASSUME NEW s \in RunViews, NEW item \in Items, IsText(item), NEW t, t = WithText(s, item)
  PROVE  SameRun(s, t) /\ Alike(s.blocks, t.blocks) /\ TextOf(t.blocks) = TextOf(s.blocks) \cup ToSet(item.text)
<1> DEFINE kind == IF item.kind = "thinking" THEN "thinking" ELSE "prose"
           n == Len(s.blocks)
<1>1. s.blocks \in Seq(Blocks) /\ item.text \in Seq(Nat)
  BY RunViewParts DEF Items
<1>2. n \in Nat /\ \A i \in 1 .. n : s.blocks[i] \in Blocks
  BY <1>1, ElementOfSeq, LenProperties
<1>3. CASE n > 0 /\ s.blocks[n].kind = kind
  <2>0. s.blocks[n].text \in Seq(Nat)
    <3>1. s.blocks[n] \in Blocks
      BY <1>2, <1>3
    <3> QED BY <3>1 DEF Blocks
  <2>1. PICK old \in Seq(Nat), more \in Seq(Nat) : old = s.blocks[n].text /\ more = item.text
    BY <1>1, <2>0
  <2>2. old \o more \in Seq(Nat) /\ ToSet(old \o more) = ToSet(old) \cup ToSet(more)
    BY Joined
  <2>3. PICK w \in Seq(Nat) : w = old \o more
    BY <2>2
  <2>4. PICK e : e = [s.blocks[n] EXCEPT !.text = w]
    OBVIOUS
  <2>5. s.blocks[n] \in Blocks /\ n \in 1 .. n
    BY <1>2, <1>3
  <2>6. e \in Blocks /\ e.kind = s.blocks[n].kind /\ e.text = w
    BY <2>4, <2>5 DEF Blocks
  <2>7. t = [s EXCEPT !.blocks = [s.blocks EXCEPT ![n] = e]]
    BY <1>3, <2>1, <2>3, <2>4 DEF WithText
  <2>8. SameRun(s, t) /\ Changed(s.blocks, t.blocks, n, e)
    BY <2>5, <2>6, <2>7, ReplacedIs
  <2>9. e.kind # "tool" /\ s.blocks[n].kind # "tool"
    BY <1>3, <2>6
  <2>10. Alike(s.blocks, t.blocks)
    BY <2>8, <2>9, OtherChanged DEF Alike
  <2>11. TextOf(t.blocks) = TextOf(s.blocks) \cup ToSet(item.text)
    <3>1. PICK S : S = ToSet(item.text)
      OBVIOUS
    <3>2. MoreText(e, s.blocks[n], S)
      BY <2>1, <2>2, <2>3, <2>6, <3>1 DEF MoreText
    <3>3. TextOf(t.blocks) = TextOf(s.blocks) \cup S
      BY <2>8, <3>2, TextChanged
    <3> QED BY <3>1, <3>3
  <2> QED BY <2>8, <2>10, <2>11
<1>4. CASE ~(n > 0 /\ s.blocks[n].kind = kind)
  <2>1. PICK e : e = Block(kind, item.text, None, "done")
    OBVIOUS
  <2>2. e \in Blocks /\ e.kind # "tool" /\ e.text = item.text
    <3>1. None \in Calls
      BY DEF Calls
    <3> QED BY <2>1, <1>1, <3>1 DEF Block, Blocks
  <2>3. t = [s EXCEPT !.blocks = Append(s.blocks, e)]
    BY <1>4, <2>1 DEF WithText
  <2>4. SameRun(s, t) /\ Longer(s.blocks, t.blocks, e)
    BY <2>2, <2>3, AppendedIs
  <2>5. Alike(s.blocks, t.blocks) /\ TextOf(t.blocks) = TextOf(s.blocks) \cup ToSet(item.text)
    BY <2>2, <2>4, OtherAdded, TextAdded DEF Alike
  <2> QED BY <2>4, <2>5
<1> QED BY <1>3, <1>4

(* A model call is a block that is nothing to the tools, *)
LEMMA CallTaken ==
  ASSUME NEW s \in RunViews, NEW t, t = [s EXCEPT !.blocks = Append(s.blocks, Block("call", <<>>, None, "running"))]
  PROVE  SameRun(s, t) /\ Alike(s.blocks, t.blocks) /\ TextOf(t.blocks) = TextOf(s.blocks)
<1>1. PICK e : e = Block("call", <<>>, None, "running")
  OBVIOUS
<1>2. e \in Blocks /\ e.kind # "tool" /\ e.text = <<>>
  <2>1. None \in Calls /\ <<>> \in Seq(Nat)
    BY EmptySeq DEF Calls
  <2> QED BY <1>1, <2>1 DEF Block, Blocks
<1>3. SameRun(s, t) /\ Longer(s.blocks, t.blocks, e)
  BY <1>1, <1>2, AppendedIs
<1>4. Alike(s.blocks, t.blocks) /\ TextOf(t.blocks) = TextOf(s.blocks)
  BY <1>2, <1>3, OtherAdded, TextNone DEF Alike
<1> QED BY <1>3, <1>4

(* and so is the end of one, *)
LEMMA CallDoneTaken ==
  ASSUME NEW s \in RunViews, NEW t, t = WithCallDone(s)
  PROVE  SameRun(s, t) /\ Alike(s.blocks, t.blocks) /\ TextOf(t.blocks) = TextOf(s.blocks)
<1> DEFINE n == Len(s.blocks)
<1>1. s.blocks \in Seq(Blocks)
  BY RunViewParts
<1>2. n \in Nat /\ \A k \in 1 .. n : s.blocks[k] \in Blocks
  BY <1>1, ElementOfSeq, LenProperties
<1>3. CASE n > 0 /\ s.blocks[n].kind = "call"
  <2>1. PICK e : e = [s.blocks[n] EXCEPT !.status = "done"]
    OBVIOUS
  <2>2. s.blocks[n] \in Blocks /\ n \in 1 .. n
    BY <1>2, <1>3
  <2>3. e \in Blocks /\ e.kind = s.blocks[n].kind /\ e.kind # "tool" /\ e.text = s.blocks[n].text
    BY <1>3, <2>1, <2>2 DEF Blocks
  <2>4. t = [s EXCEPT !.blocks = [s.blocks EXCEPT ![n] = e]]
    BY <1>3, <2>1 DEF WithCallDone
  <2>5. SameRun(s, t) /\ Changed(s.blocks, t.blocks, n, e)
    BY <2>2, <2>3, <2>4, ReplacedIs
  <2>6. Alike(s.blocks, t.blocks)
    BY <2>3, <2>5, OtherChanged DEF Alike
  <2>8. TextOf(t.blocks) = TextOf(s.blocks)
    BY <2>3, <2>5, TextSame
  <2> QED BY <2>5, <2>6, <2>8
<1>4. CASE ~(n > 0 /\ s.blocks[n].kind = "call")
  <2>1. t = s
    BY <1>4 DEF WithCallDone
  <2> QED BY <2>1 DEF SameRun, Alike, ToolsAlike
<1> QED BY <1>3, <1>4

(* a tool is one call more, *)
LEMMA ToolTaken ==
  ASSUME NEW s \in RunViews, NEW item \in Items, NEW t, t = WithTool(s, item)
  PROVE  /\ SameRun(s, t) /\ OneMoreCall(s.blocks, t.blocks, item.call) /\ TextOf(t.blocks) = TextOf(s.blocks)
         /\ \A st, r : OutputsFit(s.blocks, st, r) => OutputsFit(t.blocks, st, r)
<1> DEFINE n == Len(s.blocks)
           again == n > 0 /\ s.blocks[n].kind = "tool" /\ s.blocks[n].call = item.call
                          /\ s.blocks[n].status # "running"
<1>1. s.blocks \in Seq(Blocks) /\ item.call \in Calls
  BY RunViewParts DEF Items
<1>2. n \in Nat /\ \A i \in 1 .. n : s.blocks[i] \in Blocks
  BY <1>1, ElementOfSeq, LenProperties
<1>3. CASE again
  <2>1. PICK e : e = Restated(s.blocks[n], "running", s.blocks[n].repeat + 1, s.blocks[n].seq)
    OBVIOUS
  <2>2. s.blocks[n] \in Blocks /\ n \in 1 .. n
    BY <1>2, <1>3
  <2>3. e \in Blocks /\ e.kind = s.blocks[n].kind /\ e.text = s.blocks[n].text /\ e.call = s.blocks[n].call
        /\ e.status = "running" /\ e.repeat = s.blocks[n].repeat + 1 /\ e.seq = s.blocks[n].seq
        /\ s.blocks[n].repeat \in Nat
    BY <2>1, <2>2 DEF Blocks, Restated
  <2>4. t = [s EXCEPT !.blocks = [s.blocks EXCEPT ![n] = e]]
    BY <1>3, <2>1 DEF WithTool
  <2>5. SameRun(s, t) /\ Changed(s.blocks, t.blocks, n, e)
    BY <2>2, <2>3, <2>4, ReplacedIs
  <2>6. OneMoreCall(s.blocks, t.blocks, item.call)
    <3>1. OneMoreCall(s.blocks, t.blocks, e.call)
      BY <1>3, <2>3, <2>5, ToolAgain
    <3> QED BY <1>3, <2>3, <3>1
  <2>8. TextOf(t.blocks) = TextOf(s.blocks)
    BY <2>3, <2>5, TextSame
  <2>9. ASSUME NEW st, NEW r, OutputsFit(s.blocks, st, r) PROVE OutputsFit(t.blocks, st, r)
    <3> SUFFICES ASSUME NEW k \in 1 .. Len(t.blocks), t.blocks[k].kind = "tool", t.blocks[k].seq > 0
                 PROVE  /\ t.blocks[k].seq \in 1 .. Len(st) /\ st[t.blocks[k].seq].run = r
                        /\ st[t.blocks[k].seq].call = t.blocks[k].call
                        /\ st[t.blocks[k].seq].type \in ActEnds["tool"]
      BY DEF OutputsFit
    <3>1. k \in 1 .. Len(s.blocks)
      BY <2>5 DEF Changed
    <3>2. t.blocks[k].kind = s.blocks[k].kind /\ t.blocks[k].seq = s.blocks[k].seq /\ t.blocks[k].call = s.blocks[k].call
      BY <2>3, <2>5, <3>1 DEF Changed
    <3> QED BY <2>9, <3>1, <3>2 DEF OutputsFit
  <2> QED BY <2>5, <2>6, <2>8, <2>9
<1>4. CASE ~again
  <2>1. PICK e : e = Block("tool", <<>>, item.call, "running")
    OBVIOUS
  <2>2. e \in Blocks /\ e.kind = "tool" /\ e.text = <<>> /\ e.call = item.call /\ e.status = "running" /\ e.repeat = 1
        /\ e.seq = 0
    <3>1. <<>> \in Seq(Nat)
      BY EmptySeq
    <3> QED BY <2>1, <1>1, <3>1 DEF Block, Blocks
  <2>3. t = [s EXCEPT !.blocks = Append(s.blocks, e)]
    BY <1>4, <2>1 DEF WithTool
  <2>4. SameRun(s, t) /\ Longer(s.blocks, t.blocks, e)
    BY <2>2, <2>3, AppendedIs
  <2>5. OneMoreCall(s.blocks, t.blocks, item.call)
    BY <2>2, <2>4, ToolAdded
  <2>6. TextOf(t.blocks) = TextOf(s.blocks)
    BY <2>2, <2>4, TextNone
  <2>7. ASSUME NEW st, NEW r, OutputsFit(s.blocks, st, r) PROVE OutputsFit(t.blocks, st, r)
    <3> SUFFICES ASSUME NEW k \in 1 .. Len(t.blocks), t.blocks[k].kind = "tool", t.blocks[k].seq > 0
                 PROVE  /\ t.blocks[k].seq \in 1 .. Len(st) /\ st[t.blocks[k].seq].run = r
                        /\ st[t.blocks[k].seq].call = t.blocks[k].call
                        /\ st[t.blocks[k].seq].type \in ActEnds["tool"]
      BY DEF OutputsFit
    <3>1. k \in 1 .. n \/ (k = n + 1 /\ t.blocks[k] = e)
      BY <2>4 DEF Longer
    <3>2. k \in 1 .. n
      BY <2>2, <3>1
    <3>3. t.blocks[k] = s.blocks[k]
      BY <2>4, <3>2 DEF Longer
    <3> QED BY <2>7, <3>2, <3>3 DEF OutputsFit
  <2> QED BY <2>4, <2>5, <2>6, <2>7
<1> QED BY <1>3, <1>4

(* and its result, while a call like it runs, is that call's. *)
ResultOf(item, st, r) ==
  item.seq > 0 => /\ item.seq \in 1 .. Len(st) /\ st[item.seq].run = r /\ st[item.seq].call = item.call
                  /\ st[item.seq].type \in ActEnds["tool"]

(* Then it leads to where that call's result is stored. *)
LEMMA ResultTaken ==
  ASSUME NEW s \in RunViews, NEW item \in Items, RunningOf(s.blocks, item.call) # {}, NEW t, t = WithResult(s, item)
  PROVE  /\ SameRun(s, t) /\ OneAnswered(s.blocks, t.blocks, item.call) /\ TextOf(t.blocks) = TextOf(s.blocks)
         /\ \A st, r : OutputsFit(s.blocks, st, r) /\ ResultOf(item, st, r) => OutputsFit(t.blocks, st, r)
<1> DEFINE n == Len(s.blocks)
           found == Matched(s, item)
           i == CHOOSE k \in found : \A j \in found : j <= k
           status == IF item.type = "tool_failed" THEN "failed" ELSE "done"
<1>1. s.blocks \in Seq(Blocks) /\ item.seq \in Int
  BY RunViewParts DEF Items
<1>2. n \in Nat /\ DOMAIN s.blocks = 1 .. n /\ \A k \in 1 .. n : s.blocks[k] \in Blocks
  BY <1>1, ElementOfSeq, LenProperties
<1>3. found = RunningOf(s.blocks, item.call)
  <2>1. {k \in RunningTools(s) : s.blocks[k].call = item.call} = RunningOf(s.blocks, item.call)
    BY <1>2 DEF RunningTools, RunningOf, ToolBlocks
  <2> QED BY <2>1 DEF Matched
<1>4. found \subseteq 1 .. n /\ found # {}
  BY <1>3 DEF RunningOf, ToolBlocks
<1>5. \E k \in found : \A j \in found : j <= k
  <2> DEFINE T == {n - k : k \in found}
  <2>1. T \subseteq Nat /\ T # {}
    BY <1>2, <1>4
  <2>2. PICK m \in T : \A j \in T : m <= j
    BY <2>1, LeastNumber
  <2>3. PICK k \in found : m = n - k
    BY <2>2
  <2>4. ASSUME NEW j \in found PROVE j <= k
    <3>1. j \in 1 .. n /\ k \in 1 .. n
      BY <1>4
    <3>2. n - j \in T
      OBVIOUS
    <3>3. n - k <= n - j
      BY <2>2, <2>3, <3>2
    <3> HIDE DEF n, T, found
    <3> QED BY <1>2, <3>1, <3>3
  <2> QED BY <2>4
<1>6. i \in found
  BY <1>5
<1> HIDE DEF i
<1>7. i \in 1 .. n /\ i \in RunningOf(s.blocks, item.call) /\ s.blocks[i].kind = "tool" /\ s.blocks[i].call = item.call
  BY <1>3, <1>4, <1>6 DEF RunningOf, ToolBlocks
<1>8. PICK e : e = Restated(s.blocks[i], status, s.blocks[i].repeat, item.seq)
  OBVIOUS
<1>9. e \in Blocks /\ e.kind = s.blocks[i].kind /\ e.text = s.blocks[i].text /\ e.call = s.blocks[i].call
      /\ e.status # "running" /\ e.repeat = s.blocks[i].repeat /\ e.seq = item.seq
  BY <1>1, <1>2, <1>7, <1>8 DEF Blocks, Restated
<1>10. t = [s EXCEPT !.blocks = [s.blocks EXCEPT ![i] = e]]
  BY <1>4, <1>8 DEF WithResult, i
<1>11. SameRun(s, t) /\ Changed(s.blocks, t.blocks, i, e)
  BY <1>7, <1>9, <1>10, ReplacedIs
<1>12. OneAnswered(s.blocks, t.blocks, item.call)
  <2>1. e.call = item.call /\ e.kind = "tool" /\ i \in RunningOf(s.blocks, e.call)
    BY <1>7, <1>9
  <2>2. OneAnswered(s.blocks, t.blocks, e.call)
    BY <2>1, <1>9, <1>11, ToolAnswered
  <2> QED BY <2>1, <2>2
<1>14. TextOf(t.blocks) = TextOf(s.blocks)
  BY <1>9, <1>11, TextSame
<1>15. ASSUME NEW st, NEW r, OutputsFit(s.blocks, st, r), ResultOf(item, st, r) PROVE OutputsFit(t.blocks, st, r)
  <2>1. e.seq = item.seq /\ e.call = item.call
    BY <1>7, <1>9
  <2> QED BY <2>1, <1>11, <1>15 DEF Changed, OutputsFit, ResultOf
<1> QED BY <1>11, <1>12, <1>14, <1>15

-----------------------------------------------------------------------------
(* What the queue leads to: the view of an agent's run after the items it holds, from the
   run's start on if that is among them.  v[k] is the view after k of the items. *)
ViewAfter(c, s, item, x) == IF Shown(item) /\ c[item.run] = x THEN ApplyBusItem(s, item) ELSE s
Led(c, s0, q, x, r, v, p) ==
  /\ p \in 0 .. Len(q)
  /\ p = 0 => v[0] = s0
  /\ p > 0 => q[p].type = "run_started" /\ q[p].run = r /\ v[p] = NewState("running", r)
  /\ \A k \in p + 1 .. Len(q) : v[k] = ViewAfter(c, v[k - 1], q[k], x) /\ (c[q[k].run] = x => q[k].run = r)
Ahead(c, s0, q, x, r, s) == \E v, p : Led(c, s0, q, x, r, v, p) /\ v[Len(q)] = s

(* An item that comes behind the others is folded into what the view comes to. *)
LEMMA AheadMore ==
  ASSUME NEW c, NEW s0, NEW q \in Seq(Items), NEW x, NEW r, NEW s, Ahead(c, s0, q, x, r, s),
         NEW item \in Items, c[item.run] = x => item.run = r
  PROVE  Ahead(c, s0, Append(q, item), x, r, ViewAfter(c, s, item, x))
<1>1. PICK v, p : Led(c, s0, q, x, r, v, p) /\ v[Len(q)] = s
  BY DEF Ahead
<1>2. PICK d : d = Append(q, item)
  OBVIOUS
<1>3. PICK n \in Nat : n = Len(q) /\ Len(d) = n + 1 /\ d[n + 1] = item /\ \A k \in 1 .. n : d[k] = q[k]
  BY <1>2, AppendProperties, LenProperties
<1>4. PICK w : w = [k \in 0 .. n + 1 |-> IF k = n + 1 THEN ViewAfter(c, s, item, x) ELSE v[k]]
  OBVIOUS
<1>5. p \in 0 .. n /\ w[n + 1] = ViewAfter(c, s, item, x) /\ \A k \in 0 .. n : w[k] = v[k]
  BY <1>1, <1>3, <1>4 DEF Led
<1>6. p > 0 => p \in 1 .. n
  BY <1>5
<1>7. ASSUME NEW k \in p + 1 .. n + 1 PROVE w[k] = ViewAfter(c, w[k - 1], d[k], x) /\ (c[d[k].run] = x => d[k].run = r)
  <2>1. CASE k = n + 1
    <3>1. k - 1 = n /\ n \in 0 .. n
      BY <2>1
    <3> QED BY <2>1, <3>1, <1>1, <1>3, <1>5
  <2>2. CASE k # n + 1
    <3>1. k \in p + 1 .. n /\ k \in 1 .. n /\ k - 1 \in 0 .. n /\ k \in 0 .. n
      BY <2>2, <1>5
    <3>2. v[k] = ViewAfter(c, v[k - 1], q[k], x) /\ (c[q[k].run] = x => q[k].run = r)
      BY <3>1, <1>1, <1>3 DEF Led
    <3> QED BY <3>1, <3>2, <1>3, <1>5
  <2> QED BY <2>1, <2>2
<1>8. Led(c, s0, d, x, r, w, p)
  <2>1. p \in 0 .. n + 1
    BY <1>5
  <2>2. (p = 0 => v[0] = s0) /\ (p > 0 => q[p].type = "run_started" /\ q[p].run = r /\ v[p] = NewState("running", r))
    BY <1>1 DEF Led
  <2> QED BY <2>1, <2>2, <1>3, <1>5, <1>6, <1>7 DEF Led
<1> QED BY <1>2, <1>3, <1>5, <1>8 DEF Ahead

(* The start of a run is where its view begins, whatever was before. *)
LEMMA AheadBegun ==
  ASSUME NEW c, NEW s0, NEW q \in Seq(Items), NEW x, NEW r,
         NEW item \in Items, item.type = "run_started", item.run = r
  PROVE  Ahead(c, s0, Append(q, item), x, r, NewState("running", r))
<1>1. PICK d : d = Append(q, item)
  OBVIOUS
<1>2. PICK n \in Nat : n = Len(q) + 1 /\ Len(d) = n /\ d[n] = item
  BY <1>1, AppendProperties, LenProperties
<1>3. n > 0 /\ n \in 0 .. n /\ n + 1 .. n = {}
  BY <1>2, LenProperties
<1>4. PICK w : w = [k \in 0 .. n |-> NewState("running", r)]
  OBVIOUS
<1>5. Led(c, s0, d, x, r, w, n) /\ w[n] = NewState("running", r)
  BY <1>2, <1>3, <1>4 DEF Led
<1> QED BY <1>1, <1>2, <1>5 DEF Ahead

(* The first item leaves the queue. *)
LEMMA LedShifted ==
  ASSUME NEW c, NEW s0, NEW q \in Seq(Items), NEW x, NEW r, NEW v, NEW p, Led(c, s0, q, x, r, v, p),
         q # <<>>, NEW s1, p \in {0, 1} => v[1] = s1
  PROVE  Ahead(c, s1, Tail(q), x, r, v[Len(q)])
<1>1. PICK d \in Seq(Items) : d = Tail(q)
  BY HeadTailProperties
<1>2. PICK n \in Nat : n = Len(d) /\ Len(q) = n + 1 /\ \A k \in 1 .. n : d[k] = q[k + 1]
  BY <1>1, HeadTailProperties, LenProperties
<1>3. PICK w : w = [k \in 0 .. n |-> v[k + 1]]
  OBVIOUS
<1>4. (\A k \in 0 .. n : w[k] = v[k + 1]) /\ 0 \in 0 .. n /\ n \in 0 .. n
  BY <1>3
<1>5. p \in 0 .. n + 1
  BY <1>2 DEF Led
<1>6. PICK m : m = IF p = 0 THEN 0 ELSE p - 1
  OBVIOUS
<1>7. m \in 0 .. n /\ (m = 0 => p \in {0, 1}) /\ (m > 0 => p = m + 1 /\ m \in 1 .. n)
  BY <1>5, <1>6
<1>8. ASSUME NEW k \in m + 1 .. n
      PROVE  w[k] = ViewAfter(c, w[k - 1], d[k], x) /\ (c[d[k].run] = x => d[k].run = r)
  <2>1. k \in 1 .. n /\ k \in 0 .. n /\ k - 1 \in 0 .. n /\ (k - 1) + 1 = k /\ (k + 1) - 1 = k
    BY <1>7
  <2>2. k + 1 \in p + 1 .. n + 1
    BY <1>5, <1>6, <1>7
  <2>3. PICK i : i = k + 1
    OBVIOUS
  <2>4. v[i] = ViewAfter(c, v[i - 1], q[i], x) /\ (c[q[i].run] = x => q[i].run = r)
    BY <2>2, <2>3, <1>2 DEF Led
  <2>5. i - 1 = k /\ w[k] = v[i] /\ w[k - 1] = v[k] /\ d[k] = q[i]
    BY <2>1, <2>3, <1>2, <1>4
  <2> QED BY <2>4, <2>5
<1>9. m = 0 => w[0] = s1
  BY <1>4, <1>7
<1>10. m > 0 => d[m].type = "run_started" /\ d[m].run = r /\ w[m] = NewState("running", r)
  <2> SUFFICES ASSUME m > 0 PROVE d[m].type = "run_started" /\ d[m].run = r /\ w[m] = NewState("running", r)
    OBVIOUS
  <2>1. p = m + 1 /\ p > 0 /\ d[m] = q[p] /\ w[m] = v[p]
    BY <1>2, <1>4, <1>7
  <2> QED BY <2>1 DEF Led
<1>11. Led(c, s1, d, x, r, w, m)
  BY <1>2, <1>7, <1>8, <1>9, <1>10 DEF Led
<1>12. w[n] = v[Len(q)]
  BY <1>2, <1>4
<1> QED BY <1>1, <1>2, <1>11, <1>12 DEF Ahead

(* When the app takes the first item its view is that much further. *)
LEMMA AheadTaken ==
  ASSUME NEW c, NEW s0, NEW q \in Seq(Items), NEW x, NEW r, NEW s, Ahead(c, s0, q, x, r, s), q # <<>>, c[r] = x,
         NEW s1, s1 = ViewAfter(c, s0, Head(q), x)
  PROVE  Ahead(c, s1, Tail(q), x, r, s)
<1>1. PICK v, p : Led(c, s0, q, x, r, v, p) /\ v[Len(q)] = s
  BY DEF Ahead
<1>2. Len(q) \in Nat /\ Len(q) # 0 /\ Head(q) = q[1]
  BY LenProperties, EmptySeq
<1>3. CASE p = 0
  <2>1. v[0] = s0 /\ 1 \in p + 1 .. Len(q) /\ 1 - 1 = 0
    BY <1>1, <1>2, <1>3 DEF Led
  <2>2. v[1] = ViewAfter(c, v[1 - 1], q[1], x)
    BY <1>1, <2>1 DEF Led
  <2> QED BY <1>1, <1>2, <2>1, <2>2, LedShifted
<1>4. CASE p = 1
  <2>1. q[1].type = "run_started" /\ q[1].run = r /\ v[1] = NewState("running", r)
    BY <1>1, <1>4 DEF Led
  <2>2. s1 = NewState("running", r)
    BY <1>2, <2>1 DEF ViewAfter, Shown, Contract, ApplyBusItem, IsText
  <2> QED BY <1>1, <2>1, <2>2, LedShifted
<1>5. CASE p \notin {0, 1}
  BY <1>1, <1>5, LedShifted
<1> QED BY <1>3, <1>4, <1>5

(* An item of another run that the full queue drops is none that the view waited for. *)
LEMMA AheadDropped ==
  ASSUME NEW c, NEW s0, NEW q \in Seq(Items), NEW x, NEW r, NEW s, Ahead(c, s0, q, x, r, s), q # <<>>, Head(q).run # r
  PROVE  Ahead(c, s0, Tail(q), x, r, s)
<1>1. PICK v, p : Led(c, s0, q, x, r, v, p) /\ v[Len(q)] = s
  BY DEF Ahead
<1>2. Len(q) \in Nat /\ Len(q) # 0 /\ Head(q) = q[1]
  BY LenProperties, EmptySeq
<1>3. CASE p = 0
  <2>1. v[0] = s0 /\ 1 \in p + 1 .. Len(q) /\ 1 - 1 = 0
    BY <1>1, <1>2, <1>3 DEF Led
  <2>2. v[1] = ViewAfter(c, v[1 - 1], q[1], x) /\ c[q[1].run] # x
    BY <1>1, <1>2, <2>1 DEF Led
  <2>3. v[1] = s0
    BY <2>1, <2>2 DEF ViewAfter
  <2> QED BY <1>1, <2>3, LedShifted
<1>4. CASE p = 1
  BY <1>1, <1>2, <1>4 DEF Led
<1>5. CASE p \notin {0, 1}
  BY <1>1, <1>5, LedShifted
<1> QED BY <1>3, <1>4, <1>5

(* So it is with an item that is pushed, full queue or not, *)
LEMMA AheadPushed ==
  ASSUME NEW c, NEW s0, NEW q \in Seq(Items), q # None, NEW x, NEW r, NEW s, Ahead(c, s0, q, x, r, s),
         NEW item \in Items, c[item.run] = x => item.run = r, Len(q) = MAX_SIZE => Head(q).run # r
  PROVE  Ahead(c, s0, Push(q, item), x, r, ViewAfter(c, s, item, x))
<1>1. CASE Len(q) = MAX_SIZE
  <2>1. q # <<>>
    BY <1>1, TelemetryAssumption, EmptySeq
  <2>2. PICK d \in Seq(Items) : d = Tail(q)
    BY <2>1, HeadTailProperties
  <2>3. Ahead(c, s0, d, x, r, s)
    BY <1>1, <2>1, <2>2, AheadDropped
  <2>4. Ahead(c, s0, Append(d, item), x, r, ViewAfter(c, s, item, x))
    BY <2>3, AheadMore
  <2> QED BY <1>1, <2>2, <2>4 DEF Push
<1>2. CASE Len(q) # MAX_SIZE
  BY <1>2, AheadMore DEF Push
<1> QED BY <1>1, <1>2

(* and with the start of a run. *)
LEMMA BegunPushed ==
  ASSUME NEW c, NEW s0, NEW q \in Seq(Items), q # None, NEW x, NEW r,
         NEW item \in Items, item.type = "run_started", item.run = r
  PROVE  Ahead(c, s0, Push(q, item), x, r, NewState("running", r))
<1>1. PICK d \in Seq(Items) : d = IF Len(q) = MAX_SIZE THEN Tail(q) ELSE q
  <2>1. CASE Len(q) = MAX_SIZE
    <3>1. q # <<>>
      BY <2>1, TelemetryAssumption, EmptySeq
    <3> QED BY <2>1, <3>1, HeadTailProperties
  <2>2. CASE Len(q) # MAX_SIZE
    BY <2>2
  <2> QED BY <2>1, <2>2
<1>2. Ahead(c, s0, Append(d, item), x, r, NewState("running", r))
  BY AheadBegun
<1> QED BY <1>1, <1>2 DEF Push

(* What was taken is shown. *)
LEMMA AheadNow ==
  ASSUME NEW c, NEW s0, NEW x, NEW r, NEW s, Ahead(c, s0, <<>>, x, r, s)
  PROVE  s = s0
<1>1. Len(<<>>) = 0
  BY EmptySeq
<1>2. PICK v, p : Led(c, s0, <<>>, x, r, v, p) /\ v[0] = s
  BY <1>1 DEF Ahead
<1>3. p = 0
  BY <1>1, <1>2 DEF Led
<1> QED BY <1>2, <1>3 DEF Led

-----------------------------------------------------------------------------
(* What the events under way say is what the runs and their calls have come to, and what
   is about to be told of a call waits to be written. *)
Evs(w) == {w[i].ev : i \in 1 .. Len(w)}
Tale(c) ==
  IF c.st # "starting" THEN ActEnds[c.kind] ELSE IF c.kind = "call" THEN {"call_started"} ELSE {"tool_started"}
EvFits(e, rs, cs) ==
  /\ e.type \in RunEnds => rs[e.run].how = e.type
  /\ e.who # 0 => cs[e.who].call = e.call /\ cs[e.who].run = e.run /\ e.type \in Tale(cs[e.who])
RunFits(r) ==
  /\ runs[r].agent = scene.cast[r]
  /\ runs[r].st = "starting" => tokens[r] = 0 /\ \A a \in 1 .. Len(acts) : acts[a].run # r
  /\ \A q \in 1 .. Len(runs) : q < r /\ runs[q].agent = runs[r].agent => runs[q].st \in {"over", "gone"}
ActFits(a) ==
  /\ acts[a].st \in {"starting", "ending"} => \E e \in Evs(writing) : e.who = a
  /\ acts[a].st = "cut" => acts[a].run \in harmed /\ runs[acts[a].run].st # "live"
Chronicle ==
  /\ \A r \in 1 .. Len(runs) : RunFits(r)
  /\ \A a \in 1 .. Len(acts) : ActFits(a)
  /\ \A e \in Evs(writing) : EvFits(e, runs, acts)

(* The events under way with one more emit, *)
LEMMA EvsAdded ==
  ASSUME NEW w \in Seq(Emits), NEW j \in Emits
  PROVE  Evs(Append(w, j)) = Evs(w) \cup {j.ev}
<1>1. PICK v : v = Append(w, j)
  OBVIOUS
<1>2. PICK n \in Nat : n = Len(w) /\ Len(v) = n + 1 /\ v[n + 1] = j /\ \A i \in 1 .. n : v[i] = w[i]
  BY <1>1, AppendProperties, LenProperties
<1>3. 1 .. n + 1 = (1 .. n) \cup {n + 1}
  OBVIOUS
<1>4. Evs(v) = {v[i].ev : i \in 1 .. n + 1} /\ Evs(w) = {w[i].ev : i \in 1 .. n}
  BY <1>2 DEF Evs
<1>5. \A i \in 1 .. n : v[i].ev = w[i].ev
  BY <1>2
<1> QED BY <1>1, <1>2, <1>3, <1>4, <1>5

(* with the first of them and the rest, *)
LEMMA EvsFirst ==
  ASSUME NEW w \in Seq(Emits), w # <<>>
  PROVE  Evs(w) = Evs(Tail(w)) \cup {Head(w).ev}
<1>1. PICK v : v = Tail(w)
  OBVIOUS
<1>2. PICK n \in Nat : n = Len(v) /\ Len(w) = n + 1 /\ Head(w) = w[1] /\ \A i \in 1 .. n : v[i] = w[i + 1]
  BY <1>1, HeadTailProperties, LenProperties
<1>3. Evs(w) = {w[i].ev : i \in 1 .. n + 1} /\ Evs(v) = {v[i].ev : i \in 1 .. n}
  BY <1>2 DEF Evs
<1>4. ASSUME NEW i \in 1 .. n + 1 PROVE w[i].ev \in Evs(v) \cup {w[1].ev}
  <2>1. CASE i = 1
    BY <2>1
  <2>2. CASE i # 1
    <3>1. i - 1 \in 1 .. n /\ (i - 1) + 1 = i
      BY <2>2
    <3>2. PICK k \in 1 .. n : k + 1 = i
      BY <3>1
    <3> QED BY <3>2, <1>2, <1>3
  <2> QED BY <2>1, <2>2
<1>5. ASSUME NEW i \in 1 .. n PROVE v[i].ev \in Evs(w)
  <2>1. i + 1 \in 1 .. n + 1
    OBVIOUS
  <2> QED BY <2>1, <1>2, <1>3
<1>6. w[1].ev \in Evs(w)
  <2>1. 1 \in 1 .. n + 1
    OBVIOUS
  <2> QED BY <2>1, <1>3
<1> QED BY <1>1, <1>2, <1>3, <1>4, <1>5, <1>6

(* with none, *)
LEMMA EvsNone == Evs(<<>>) = {}
<1>1. Len(<<>>) = 0
  BY EmptySeq
<1> QED BY <1>1 DEF Evs

(* and without those of a run. *)
LEMMA EvsWithout ==
  ASSUME NEW w \in Seq(Emits), NEW r
  PROVE  Evs(Without(r, w)) = {e \in Evs(w) : e.run # r}
<1>1. PICK N \in Nat : N = Len(w)
  BY LenProperties
<1>2. PICK kept : /\ Without(r, w) = kept[N] /\ kept[0] = <<>>
                  /\ \A n \in 1 .. N : kept[n] = IF w[n].ev.run = r THEN kept[n - 1] ELSE Append(kept[n - 1], w[n])
  BY <1>1, WithoutSteps
<1> DEFINE Upto(n) == {w[i].ev : i \in 1 .. n}
           Right(n) == n \in 0 .. N => kept[n] \in Seq(Emits) /\ Evs(kept[n]) = {e \in Upto(n) : e.run # r}
<1>3. PICK B : B = {n \in Nat : ~Right(n)}
  OBVIOUS
<1>4. B = {}
  <2> SUFFICES ASSUME B # {} PROVE FALSE
    OBVIOUS
  <2>1. B \subseteq Nat
    BY <1>3
  <2>2. PICK n \in B : \A y \in B : n <= y
    BY <2>1, LeastNumber
  <2>3. n \in 0 .. N /\ ~(kept[n] \in Seq(Emits) /\ Evs(kept[n]) = {e \in Upto(n) : e.run # r})
    BY <1>3
  <2>4. CASE n = 0
    <3>1. <<>> \in Seq(Emits)
      BY EmptySeq
    <3>2. Upto(0) = {}
      OBVIOUS
    <3>3. kept[0] = <<>> /\ Evs(kept[0]) = {}
      BY <1>2, EvsNone
    <3>4. ~(kept[0] \in Seq(Emits) /\ Evs(kept[0]) = {e \in Upto(0) : e.run # r})
      BY <2>3, <2>4
    <3> HIDE DEF Upto
    <3>5. {e \in Upto(0) : e.run # r} = {}
      BY <3>2
    <3> QED BY <3>1, <3>3, <3>4, <3>5
  <2>5. CASE n # 0
    <3>1. PICK m \in 0 .. N : n = m + 1 /\ n \in 1 .. N /\ n - 1 = m
      <4>1. n - 1 \in 0 .. N /\ n = (n - 1) + 1 /\ n \in 1 .. N
        BY <2>3, <2>5
      <4> QED BY <4>1
    <3>2. m \notin B
      BY <2>2, <3>1
    <3>3. PICK v \in Seq(Emits) : v = kept[m] /\ Evs(v) = {e \in Upto(m) : e.run # r}
      BY <1>3, <3>1, <3>2
    <3>4. PICK j \in Emits : j = w[n]
      BY <1>1, <3>1, ElementOfSeq
    <3>5. Upto(n) = Upto(m) \cup {j.ev}
      <4>1. 1 .. n = (1 .. m) \cup {n}
        BY <3>1
      <4> QED BY <3>4, <4>1
    <3> HIDE DEF Upto
    <3>6. CASE j.ev.run = r
      <4>1. kept[n] = v
        BY <1>2, <3>1, <3>3, <3>4, <3>6
      <4>2. Evs(v) = {e \in Upto(n) : e.run # r}
        BY <3>3, <3>5, <3>6
      <4> QED BY <2>3, <4>1, <4>2
    <3>7. CASE j.ev.run # r
      <4>1. kept[n] = Append(v, j)
        BY <1>2, <3>1, <3>3, <3>4, <3>7
      <4>2. Append(v, j) \in Seq(Emits)
        BY AppendProperties
      <4>3. Evs(Append(v, j)) = Evs(v) \cup {j.ev}
        BY EvsAdded
      <4>4. Evs(v) \cup {j.ev} = {e \in Upto(n) : e.run # r}
        BY <3>3, <3>5, <3>7
      <4> QED BY <2>3, <4>1, <4>2, <4>3, <4>4
    <3> QED BY <3>6, <3>7
  <2> QED BY <2>4, <2>5
<1>5. Right(N)
  BY <1>3, <1>4
<1>6. Evs(kept[N]) = {e \in Upto(N) : e.run # r}
  <2>1. N \in 0 .. N
    OBVIOUS
  <2> QED BY <1>5, <2>1
<1> QED BY <1>1, <1>2, <1>6 DEF Evs

(* An event under way is of a run or a call that waits for it. *)
LEMMA EvsOf ==
  ASSUME TelemetryTypeOK, BooksRight, NEW e \in Evs(writing)
  PROVE  /\ e \in AgentEvents /\ e.run \in 1 .. Len(runs)
         /\ e.who = 0 => /\ e.type \in RunEvents
                         /\ runs[e.run].st = (IF e.type = "run_started" THEN "starting" ELSE "ending")
         /\ e.who # 0 => /\ e.type \notin RunEvents /\ e.who \in 1 .. Len(acts) /\ acts[e.who].run = e.run
                         /\ acts[e.who].st \in {"starting", "ending"} /\ runs[e.run].st = "live"
<1>1. PICK j \in Members(writing) : j.ev = e
  BY DEF Evs, Members
<1>2. EmitRight(j) /\ j.ev \in AgentEvents
  BY <1>1, MembersTyped DEF BooksRight
<1>3. e.who # 0 => e.who \in 1 .. Len(acts) /\ acts[e.who].run = e.run /\ runs[e.run].st = "live"
  BY <1>1, ActiveIs
<1> QED BY <1>1, <1>2, <1>3 DEF EmitRight

(* An emit adds its event, whatever segments it takes along. *)
LEMMA EvsEmitted ==
  ASSUME TelemetryTypeOK, NEW e \in AgentEvents, NEW others \in Seq(Emits), NEW nc, EmitWith(e, others, nc)
  PROVE  Evs(writing') = Evs(others) \cup {e}
<1>1. PICK segs \in Seq(Segments) : segs = IF e.type \in Boundaries THEN Taken(e.run) ELSE <<>>
  BY SegsTyped
<1>2. PICK j \in Emits : j = [ev |-> e, segs |-> segs]
  BY DEF Emits
<1>3. writing' = Append(others, j) /\ j.ev = e
  BY <1>1, <1>2 DEF EmitWith
<1>4. Evs(Append(others, j)) = Evs(others) \cup {j.ev}
  BY EvsAdded
<1> QED BY <1>3, <1>4

-----------------------------------------------------------------------------
(* A run's first event is under way and its agent's earlier runs are over. *)
LEMMA StartRunChronicle ==
  ASSUME TelemetryTypeOK, BooksRight, TokensKept, Chronicle, NEW x \in Agents, StartRun(x)
  PROVE  Chronicle' /\ Evs(writing) \subseteq Evs(writing') /\ Len(runs') = Len(runs) + 1
         /\ \A q \in 1 .. Len(runs) : runs'[q] = runs[q]
<1>0. PICK n \in Nat : n = Len(runs)
  BY Basics
<1>1. PICK r \in Nat : n = Len(runs) /\ r = n + 1
  BY <1>0
<1>2. /\ runs \in Seq(RunRecords) /\ writing \in Seq(Emits) /\ scene \in Scenes /\ r \in Runs /\ r \notin 1 .. n
      /\ scene.cast[r] = x
  <2>1. runs \in Seq(RunRecords) /\ writing \in Seq(Emits) /\ scene \in Scenes
    BY DEF TelemetryTypeOK
  <2>2. n < Len(scene.cast) /\ scene.cast[r] = x
    BY <1>1 DEF StartRun
  <2>3. Runs = 1 .. Len(scene.cast) /\ Len(scene.cast) \in Nat
    BY <2>1, SceneTyped, RunsAre
  <2> QED BY <1>1, <2>1, <2>2, <2>3
<1>3. PICK b \in RunRecords : b = [agent |-> x, st |-> "starting", how |-> None]
  BY DEF RunRecords
<1>4. /\ Len(runs') = r /\ runs'[r] = b /\ \A q \in 1 .. n : runs'[q] = runs[q]
      /\ acts' = acts /\ scene' = scene /\ tokens' = tokens /\ harmed' = harmed
  <2>1. runs' = Append(runs, b)
    BY <1>3 DEF StartRun
  <2> QED BY <2>1, <1>1, <1>2, AppendProperties DEF StartRun
<1>5. PICK e \in AgentEvents : e = Ev("run_started", r, 0, None)
  <2>1. None \in Calls
    BY <1>2, SceneTyped
  <2> QED BY <1>2, <2>1, EvTyped DEF Types, RunEvents
<1>6. Evs(writing') = Evs(writing) \cup {e}
  <2>1. EmitWith(e, writing, counts)
    BY <1>1, <1>5 DEF StartRun, Emit
  <2> QED BY <2>1, <1>2, EvsEmitted
<1>7. ASSUME NEW q \in 1 .. Len(runs') PROVE RunFits(q)'
  <2>1. CASE q = r
    <3>1. runs'[r].agent = x /\ tokens[r] = 0
      BY <1>1, <1>2, <1>3, <1>4 DEF TokensKept
    <3>2. \A a \in 1 .. Len(acts) : acts[a].run # r
      BY <1>1, <1>2 DEF BooksRight
    <3>3. ASSUME NEW p \in 1 .. Len(runs'), p < r, runs'[p].agent = runs'[r].agent PROVE runs'[p].st \in {"over", "gone"}
      <4>1. p \in 1 .. n
        BY <3>3, <1>1, <1>4
      <4>2. p \in DOMAIN runs /\ runs[p].agent = x
        BY <4>1, <3>1, <3>3, <1>1, <1>4, Basics
      <4> QED BY <4>1, <4>2, <1>4 DEF StartRun
    <3> QED BY <2>1, <3>1, <3>2, <3>3, <1>2, <1>4 DEF RunFits
  <2>2. CASE q # r
    <3>1. q \in 1 .. n /\ \A p \in 1 .. Len(runs') : p < q => p \in 1 .. n
      BY <2>2, <1>1, <1>4
    <3>2. RunFits(q)
      BY <3>1, <1>1 DEF Chronicle
    <3> QED BY <3>1, <3>2, <1>1, <1>4 DEF RunFits
  <2> QED BY <2>1, <2>2
<1>8. ASSUME NEW a \in 1 .. Len(acts') PROVE ActFits(a)'
  <2>1. ActFits(a) /\ acts[a].run \in 1 .. n
    BY <1>1, <1>4 DEF Chronicle, BooksRight
  <2> QED BY <2>1, <1>4, <1>6 DEF ActFits
<1>9. ASSUME NEW d \in Evs(writing') PROVE EvFits(d, runs', acts')
  <2>1. CASE d = e
    BY <2>1, <1>5 DEF EvFits, Ev, RunEnds
  <2>2. CASE d \in Evs(writing)
    <3>1. EvFits(d, runs, acts) /\ d.run \in 1 .. n
      BY <2>2, <1>1, EvsOf DEF Chronicle
    <3> QED BY <3>1, <1>4 DEF EvFits
  <2> QED BY <2>1, <2>2, <1>6
<1> QED BY <1>1, <1>4, <1>6, <1>7, <1>8, <1>9 DEF Chronicle

(* A call's or a tool's start is under way, *)
LEMMA StartActChronicle ==
  ASSUME TelemetryTypeOK, BooksRight, Chronicle, NEW r \in DOMAIN runs, NEW kind \in {"call", "tool"}, NEW call \in Calls,
         StartAct(r, kind, call)
  PROVE  Chronicle'
<1>0. PICK n \in Nat : n = Len(acts)
  BY Basics
<1>1. PICK a \in Nat : n = Len(acts) /\ a = n + 1 /\ a # 0
  BY <1>0
<1>2. acts \in Seq(ActRecords) /\ writing \in Seq(Emits) /\ r \in Runs /\ runs[r].st = "live" /\ r \in 1 .. Len(runs)
  BY RunParts DEF TelemetryTypeOK, StartAct
<1>3. PICK b \in ActRecords : b = [run |-> r, kind |-> kind, call |-> call, st |-> "starting"]
  BY <1>2 DEF ActRecords
<1>4. /\ Len(acts') = a /\ acts'[a] = b /\ \A c \in 1 .. n : acts'[c] = acts[c]
      /\ runs' = runs /\ scene' = scene /\ tokens' = tokens /\ harmed' = harmed
  <2>1. acts' = Append(acts, b)
    BY <1>3 DEF StartAct
  <2> QED BY <2>1, <1>1, <1>2, AppendProperties DEF StartAct
<1>5. PICK e \in AgentEvents : e = Ev(IF kind = "call" THEN "call_started" ELSE "tool_started", r, a, call)
  <2>1. PICK type \in Types : type = IF kind = "call" THEN "call_started" ELSE "tool_started"
    BY DEF Types
  <2>2. Ev(type, r, a, call) \in AgentEvents
    BY <1>1, <1>2, EvTyped
  <2> QED BY <2>1, <2>2
<1>6. Evs(writing') = Evs(writing) \cup {e}
  <2>1. \E nc : EmitWith(e, writing, nc)
    BY <1>1, <1>5 DEF StartAct, Emit
  <2> QED BY <2>1, <1>2, EvsEmitted
<1>7. ASSUME NEW q \in 1 .. Len(runs') PROVE RunFits(q)'
  <2>1. RunFits(q)
    BY <1>4 DEF Chronicle
  <2>2. ASSUME runs[q].st = "starting", NEW c \in 1 .. Len(acts') PROVE acts'[c].run # q
    <3>1. CASE c = a
      BY <2>2, <3>1, <1>2, <1>3, <1>4
    <3>2. CASE c # a
      <4>1. c \in 1 .. n
        BY <3>2, <1>1, <1>4
      <4> QED BY <4>1, <2>1, <2>2, <1>1, <1>4 DEF RunFits
    <3> QED BY <3>1, <3>2
  <2> QED BY <2>1, <2>2, <1>4 DEF RunFits
<1>8. ASSUME NEW c \in 1 .. Len(acts') PROVE ActFits(c)'
  <2>1. CASE c = a
    <3>1. e.who = a
      BY <1>5 DEF Ev
    <3> QED BY <2>1, <3>1, <1>3, <1>4, <1>6 DEF ActFits
  <2>2. CASE c # a
    <3>1. c \in 1 .. n
      BY <2>2, <1>1, <1>4
    <3>2. ActFits(c)
      BY <3>1, <1>1 DEF Chronicle
    <3> QED BY <3>1, <3>2, <1>4, <1>6 DEF ActFits
  <2> QED BY <2>1, <2>2
<1>9. ASSUME NEW d \in Evs(writing') PROVE EvFits(d, runs', acts')
  <2>1. CASE d = e
    <3>1. e.run = r /\ e.who = a /\ e.call = call /\ e.type = (IF kind = "call" THEN "call_started" ELSE "tool_started")
      BY <1>5 DEF Ev
    <3>2. b.run = r /\ b.call = call /\ b.kind = kind /\ b.st = "starting"
      BY <1>3
    <3> QED BY <2>1, <3>1, <3>2, <1>4 DEF EvFits, RunEnds, Tale
  <2>2. CASE d \in Evs(writing)
    <3>1. EvFits(d, runs, acts) /\ (d.who # 0 => d.who \in 1 .. n)
      BY <2>2, <1>1, EvsOf DEF Chronicle
    <3> QED BY <3>1, <1>4 DEF EvFits
  <2> QED BY <2>1, <2>2, <1>6
<1> QED BY <1>4, <1>7, <1>8, <1>9 DEF Chronicle

(* and its end, with the call that it answers. *)
LEMMA EndActChronicle ==
  ASSUME TelemetryTypeOK, BooksRight, Chronicle, NEW a \in DOMAIN acts, NEW type, EndAct(a, type)
  PROVE  Chronicle'
<1>1. PICK r : r = acts[a].run
  OBVIOUS
<1>2. /\ r \in 1 .. Len(runs) /\ r \in Runs /\ a \in 1 .. Len(acts) /\ a # 0 /\ a \in Nat /\ acts[a].st = "open"
      /\ writing \in Seq(Emits) /\ acts[a] \in ActRecords
  <2>1. a \in 1 .. Len(acts) /\ a # 0 /\ a \in Nat /\ acts[a].st = "open" /\ acts[a] \in ActRecords
    BY Basics, ActParts DEF EndAct
  <2>2. r \in 1 .. Len(runs)
    BY <1>1, <2>1 DEF BooksRight
  <2> QED BY <2>1, <2>2, Basics
<1>3. /\ Len(acts') = Len(acts) /\ runs' = runs /\ scene' = scene /\ tokens' = tokens /\ harmed' = harmed
      /\ \A c \in 1 .. Len(acts) : c # a => acts'[c] = acts[c]
      /\ acts'[a].st = "ending" /\ acts'[a].run = r /\ acts'[a].call = acts[a].call /\ acts'[a].kind = acts[a].kind
  <2>1. acts' = [acts EXCEPT ![a].st = "ending"]
    BY DEF EndAct
  <2>2. Len(acts') = Len(acts)
    BY <2>1, ActChanged
  <2> QED BY <2>1, <2>2, <1>1, <1>2, Basics DEF ActRecords, EndAct
<1>4. acts[a].kind \in {"call", "tool"} /\ acts[a].call \in Calls /\ type \in ActEnds[acts[a].kind]
  BY ActParts DEF EndAct
<1>5. type \in Types /\ type \notin RunEnds
  BY <1>4 DEF ActEnds, Types, RunEnds
<1>6. PICK e \in AgentEvents : e = Ev(type, r, a, acts[a].call)
  BY <1>2, <1>4, <1>5, EvTyped
<1>7. e.run = r /\ e.who = a /\ e.type = type /\ e.call = acts[a].call
  BY <1>6 DEF Ev
<1>8. Evs(writing') = Evs(writing) \cup {e}
  <2>1. EmitWith(e, writing, counts)
    BY <1>1, <1>6 DEF EndAct, Emit
  <2> QED BY <2>1, <1>2, EvsEmitted
<1>9. \A c \in 1 .. Len(acts) : acts'[c].run = acts[c].run
  BY <1>1, <1>3
<1>10. ASSUME NEW q \in 1 .. Len(runs') PROVE RunFits(q)'
  <2>1. RunFits(q)
    BY <1>3 DEF Chronicle
  <2> QED BY <2>1, <1>3, <1>9 DEF RunFits
<1>11. ASSUME NEW c \in 1 .. Len(acts') PROVE ActFits(c)'
  <2>1. CASE c = a
    BY <2>1, <1>3, <1>7, <1>8 DEF ActFits
  <2>2. CASE c # a
    <3>1. ActFits(c) /\ acts'[c] = acts[c]
      BY <2>2, <1>3 DEF Chronicle
    <3> QED BY <3>1, <1>3, <1>8 DEF ActFits
  <2> QED BY <2>1, <2>2
<1>12. ASSUME NEW d \in Evs(writing') PROVE EvFits(d, runs', acts')
  <2>1. CASE d = e
    BY <2>1, <1>3, <1>4, <1>5, <1>7 DEF EvFits, Tale
  <2>2. CASE d \in Evs(writing)
    <3>1. EvFits(d, runs, acts) /\ (d.who # 0 => d.who \in 1 .. Len(acts) /\ d.who # a)
      BY <2>2, <1>2, EvsOf DEF Chronicle
    <3> QED BY <3>1, <1>3 DEF EvFits
  <2> QED BY <2>1, <2>2, <1>8
<1> QED BY <1>3, <1>10, <1>11, <1>12 DEF Chronicle

(* The end of a run is told as it was. *)
LEMMA EndRunChronicle ==
  ASSUME TelemetryTypeOK, BooksRight, Chronicle, NEW r \in DOMAIN runs, NEW how \in RunEnds, EndRun(r, how)
  PROVE  Chronicle'
<1>1. r \in 1 .. Len(runs) /\ r \in Runs /\ writing \in Seq(Emits) /\ scene \in Scenes /\ runs[r].st = "live"
  BY Basics DEF TelemetryTypeOK, EndRun
<1>2. /\ runs' = [runs EXCEPT ![r] = [agent |-> runs[r].agent, st |-> "ending", how |-> how]]
      /\ acts' = acts /\ scene' = scene /\ tokens' = tokens /\ harmed' = harmed
  BY DEF EndRun
<1>3. /\ Len(runs') = Len(runs) /\ \A q \in 1 .. Len(runs) : q # r => runs'[q] = runs[q]
      /\ runs'[r].st = "ending" /\ runs'[r].agent = runs[r].agent /\ runs'[r].how = how
  <2>1. Len(runs') = Len(runs)
    BY <1>2, RunChanged
  <2> QED BY <2>1, <1>1, <1>2, Basics
<1>4. PICK e \in AgentEvents : e = Ev(how, r, 0, None)
  <2>1. None \in Calls /\ how \in Types
    BY <1>1, SceneTyped DEF Types, RunEvents
  <2> QED BY <1>1, <2>1, EvTyped
<1>5. e.run = r /\ e.who = 0 /\ e.type = how
  BY <1>4 DEF Ev
<1>6. Evs(writing') = Evs(writing) \cup {e}
  <2>1. EmitWith(e, writing, counts)
    BY <1>4 DEF EndRun, Emit
  <2> QED BY <2>1, <1>1, EvsEmitted
<1>7. ASSUME NEW q \in 1 .. Len(runs') PROVE RunFits(q)'
  <2>1. RunFits(q) /\ runs'[q].agent = runs[q].agent /\ (runs'[q].st = "starting" => runs[q].st = "starting")
    BY <1>3 DEF Chronicle
  <2>2. ASSUME NEW p \in 1 .. Len(runs'), p < q, runs'[p].agent = runs'[q].agent PROVE runs'[p].st \in {"over", "gone"}
    <3>1. runs[p].agent = runs[q].agent
      BY <2>1, <2>2, <1>3
    <3>2. runs[p].st \in {"over", "gone"}
      BY <2>1, <2>2, <3>1, <1>3 DEF RunFits
    <3> QED BY <3>2, <1>1, <1>3
  <2> QED BY <2>1, <2>2, <1>2 DEF RunFits
<1>8. ASSUME NEW a \in 1 .. Len(acts') PROVE ActFits(a)'
  <2>1. ActFits(a) /\ acts[a].run \in 1 .. Len(runs)
    BY <1>2 DEF Chronicle, BooksRight
  <2>2. runs[acts[a].run].st # "live" => runs'[acts[a].run].st # "live"
    BY <2>1, <1>3
  <2> QED BY <2>1, <2>2, <1>2, <1>6 DEF ActFits
<1>9. ASSUME NEW d \in Evs(writing') PROVE EvFits(d, runs', acts')
  <2>1. CASE d = e
    BY <2>1, <1>3, <1>5 DEF EvFits
  <2>2. CASE d \in Evs(writing)
    <3>1. EvFits(d, runs, acts) /\ d.run \in 1 .. Len(runs) /\ (d.type \in RunEnds => d.run # r)
      BY <2>2, <1>1, EvsOf DEF Chronicle, RunEvents, RunEnds
    <3> QED BY <3>1, <1>2, <1>3 DEF EvFits
  <2> QED BY <2>1, <2>2, <1>6
<1> QED BY <1>2, <1>3, <1>7, <1>8, <1>9 DEF Chronicle

(* A token comes to a run that is live. *)
LEMMA TokenChronicle ==
  ASSUME TelemetryTypeOK, BooksRight, Chronicle, NEW a \in DOMAIN acts, NEW kind, Token(a, kind)
  PROVE  Chronicle'
<1>1. PICK r : r = acts[a].run
  OBVIOUS
<1>2. r \in 1 .. Len(runs) /\ runs[r].st = "live"
  <2>1. r \in 1 .. Len(runs) /\ a \in Active(r)
    BY <1>1, Basics DEF BooksRight, Active, Token
  <2> QED BY <2>1 DEF BooksRight, RunRight
<1>3. /\ runs' = runs /\ acts' = acts /\ writing' = writing /\ scene' = scene /\ harmed' = harmed
      /\ \A q \in 1 .. Len(runs) : q # r => tokens'[q] = tokens[q]
  <2>1. tokens \in [Runs -> Nat]
    BY DEF TelemetryTypeOK
  <2> QED BY <2>1, <1>1, Basics DEF Token
<1>4. ASSUME NEW q \in 1 .. Len(runs') PROVE RunFits(q)'
  BY <1>2, <1>3 DEF Chronicle, RunFits
<1>5. ASSUME NEW c \in 1 .. Len(acts') PROVE ActFits(c)'
  BY <1>3 DEF Chronicle, ActFits
<1>6. ASSUME NEW d \in Evs(writing') PROVE EvFits(d, runs', acts')
  BY <1>3 DEF Chronicle
<1> QED BY <1>3, <1>4, <1>5, <1>6 DEF Chronicle

-----------------------------------------------------------------------------
(* What a cancellation does to the runs and the calls *)
LEMMA CancelParts ==
  ASSUME TelemetryTypeOK, BooksRight, NEW r \in DOMAIN runs, CancelRun(r)
  PROVE  /\ r \in 1 .. Len(runs) /\ runs[r].st \in {"starting", "live", "ending"}
         /\ Len(runs') = Len(runs) /\ (\A q \in 1 .. Len(runs) : q # r => runs'[q] = runs[q])
         /\ runs'[r].agent = runs[r].agent /\ runs'[r].st = (IF runs[r].st = "live" THEN "ending" ELSE "gone")
         /\ (runs[r].st = "live" => runs'[r].how = "run_cancelled")
         /\ Len(acts') = Len(acts)
         /\ \A a \in 1 .. Len(acts) : a \notin Active(r) => acts'[a] = acts[a]
         /\ \A a \in Active(r) : acts'[a].st = "cut" /\ acts'[a].run = r
<1>1. r \in 1 .. Len(runs) /\ r \in Runs /\ runs[r] \in RunRecords
  BY Basics, RunParts
<1>2. PICK st \in {"ending", "gone"}, how \in RunEnds \cup {None} :
        /\ runs' = [runs EXCEPT ![r] = [agent |-> runs[r].agent, st |-> st, how |-> how]]
        /\ st = (IF runs[r].st = "live" THEN "ending" ELSE "gone")
        /\ (runs[r].st = "live" => how = "run_cancelled")
  <2>1. CASE runs[r].st = "live"
    BY <2>1 DEF CancelRun, RunEnds
  <2>2. CASE runs[r].st # "live"
    <3>1. runs' = [runs EXCEPT ![r].st = "gone"]
      BY <2>2 DEF CancelRun
    <3>2. [runs[r] EXCEPT !.st = "gone"] = [agent |-> runs[r].agent, st |-> "gone", how |-> runs[r].how]
          /\ runs[r].how \in RunEnds \cup {None}
      BY <1>1 DEF RunRecords
    <3>3. runs' = [runs EXCEPT ![r] = [agent |-> runs[r].agent, st |-> "gone", how |-> runs[r].how]]
      BY <3>1, <3>2
    <3> QED BY <2>2, <3>2, <3>3
  <2> QED BY <2>1, <2>2
<1>3. Len(runs') = Len(runs)
  BY <1>2, RunChanged
<1>4. /\ (\A q \in 1 .. Len(runs) : q # r => runs'[q] = runs[q])
      /\ runs'[r].agent = runs[r].agent /\ runs'[r].st = st /\ runs'[r].how = how
  BY <1>1, <1>2, Basics
<1>5. acts' = [a \in DOMAIN acts |-> IF a \in Active(r) THEN [acts[a] EXCEPT !.st = "cut"] ELSE acts[a]]
      /\ runs[r].st \in {"starting", "live", "ending"}
  BY DEF CancelRun
<1>6. Len(acts') = Len(acts)
  <2>1. acts' \in [1 .. Len(acts) -> ActRecords]
    <3>1. ASSUME NEW a \in DOMAIN acts PROVE acts[a] \in ActRecords /\ [acts[a] EXCEPT !.st = "cut"] \in ActRecords
      BY ActParts DEF ActRecords
    <3> QED BY <3>1, <1>5, Basics
  <2> QED BY <2>1, Basics, FunctionIsSeq
<1>7. \A a \in 1 .. Len(acts) : a \notin Active(r) => acts'[a] = acts[a]
  BY <1>5, Basics
<1>8. ASSUME NEW a \in Active(r) PROVE acts'[a].st = "cut" /\ acts'[a].run = r
  <2>1. a \in DOMAIN acts /\ acts[a].run = r
    BY DEF Active
  <2>2. acts[a] \in ActRecords
    BY <2>1, ActParts
  <2> QED BY <2>1, <2>2, <1>5 DEF ActRecords
<1> QED BY <1>1, <1>2, <1>3, <1>4, <1>5, <1>6, <1>7, <1>8

(* A run that is cut is harmed, and its events are gone, but for the one of its end. *)
LEMMA CancelRunChronicle ==
  ASSUME TelemetryTypeOK, BooksRight, Chronicle, NEW r \in DOMAIN runs, CancelRun(r)
  PROVE  Chronicle'
<1>1. writing \in Seq(Emits) /\ scene \in Scenes /\ scene' = scene /\ tokens' = tokens /\ harmed' = harmed \cup {r}
  BY Basics DEF TelemetryTypeOK, CancelRun
<1>2. /\ r \in 1 .. Len(runs) /\ r \in Runs /\ runs[r].st \in {"starting", "live", "ending"}
      /\ Len(runs') = Len(runs) /\ (\A q \in 1 .. Len(runs) : q # r => runs'[q] = runs[q])
      /\ runs'[r].agent = runs[r].agent /\ runs'[r].st = (IF runs[r].st = "live" THEN "ending" ELSE "gone")
      /\ (runs[r].st = "live" => runs'[r].how = "run_cancelled")
      /\ Len(acts') = Len(acts)
  BY CancelParts, Basics
<1>3. \A a \in 1 .. Len(acts) : a \notin Active(r) => acts'[a] = acts[a]
  BY CancelParts
<1>4. \A a \in Active(r) : acts'[a].st = "cut" /\ acts'[a].run = r
  BY CancelParts
<1>5. \A a \in Active(r) : acts[a].run = r /\ a \in 1 .. Len(acts)
  BY Basics DEF Active
<1>6. Evs(Without(r, writing)) = {e \in Evs(writing) : e.run # r} /\ Without(r, writing) \in Seq(Emits)
  BY <1>1, EvsWithout, WithoutIs
<1>7. \A d \in Evs(writing') : (d \in Evs(writing) /\ d.run # r)
                               \/ (d.who = 0 /\ d.run = r /\ d.type = "run_cancelled" /\ runs[r].st = "live")
  <2>1. CASE runs[r].st = "live"
    <3>1. PICK e \in AgentEvents : e = Ev("run_cancelled", r, 0, None)
      <4>1. None \in Calls /\ "run_cancelled" \in Types
        BY <1>1, SceneTyped DEF Types, RunEvents, RunEnds
      <4> QED BY <1>2, <4>1, EvTyped
    <3>2. EmitWith(e, Without(r, writing), counts)
      BY <2>1, <3>1 DEF CancelRun
    <3>3. Evs(writing') = Evs(Without(r, writing)) \cup {e}
      BY <1>6, <3>2, EvsEmitted
    <3>4. e.who = 0 /\ e.run = r /\ e.type = "run_cancelled"
      BY <3>1 DEF Ev
    <3> QED BY <2>1, <3>3, <3>4, <1>6
  <2>2. CASE runs[r].st # "live"
    <3>1. writing' = Without(r, writing)
      BY <2>2 DEF CancelRun
    <3> QED BY <3>1, <1>6
  <2> QED BY <2>1, <2>2
<1>8. \A d \in Evs(writing) : d.run # r => d \in Evs(writing')
  <2>1. CASE runs[r].st = "live"
    <3>1. PICK e \in AgentEvents : e = Ev("run_cancelled", r, 0, None)
      <4>1. None \in Calls /\ "run_cancelled" \in Types
        BY <1>1, SceneTyped DEF Types, RunEvents, RunEnds
      <4> QED BY <1>2, <4>1, EvTyped
    <3>2. EmitWith(e, Without(r, writing), counts)
      BY <2>1, <3>1 DEF CancelRun
    <3>3. Evs(writing') = Evs(Without(r, writing)) \cup {e}
      BY <1>6, <3>2, EvsEmitted
    <3> QED BY <3>3, <1>6
  <2>2. CASE runs[r].st # "live"
    <3>1. writing' = Without(r, writing)
      BY <2>2 DEF CancelRun
    <3> QED BY <3>1, <1>6
  <2> QED BY <2>1, <2>2
<1>9. \A a \in 1 .. Len(acts) : acts'[a].run = acts[a].run
  BY <1>3, <1>4, <1>5
<1>10. ASSUME NEW q \in 1 .. Len(runs') PROVE RunFits(q)'
  <2>1. RunFits(q) /\ runs'[q].agent = runs[q].agent /\ (runs'[q].st = "starting" => runs[q].st = "starting")
    BY <1>2 DEF Chronicle
  <2>2. ASSUME NEW p \in 1 .. Len(runs'), p < q, runs'[p].agent = runs'[q].agent PROVE runs'[p].st \in {"over", "gone"}
    <3>1. runs[p].agent = runs[q].agent
      BY <2>1, <2>2, <1>2
    <3>2. runs[p].st \in {"over", "gone"}
      BY <2>1, <2>2, <3>1, <1>2 DEF RunFits
    <3> QED BY <3>2, <1>2
  <2> QED BY <2>1, <2>2, <1>1, <1>2, <1>9 DEF RunFits
<1>11. ASSUME NEW a \in 1 .. Len(acts') PROVE ActFits(a)'
  <2>0. a \in 1 .. Len(acts)
    BY <1>2
  <2>1. CASE a \in Active(r)
    <3>1. acts'[a].st = "cut" /\ acts'[a].run = r
      BY <2>1, <1>4
    <3> QED BY <3>1, <1>1, <1>2 DEF ActFits
  <2>2. CASE a \notin Active(r)
    <3>1. acts'[a] = acts[a] /\ ActFits(a) /\ acts[a].run \in 1 .. Len(runs)
      BY <2>0, <2>2, <1>3 DEF Chronicle, BooksRight
    <3>2. ASSUME acts[a].st \in {"starting", "ending"} PROVE \E e \in Evs(writing') : e.who = a
      <4>1. acts[a].run # r
        BY <2>0, <2>2, <3>2, Basics DEF Active
      <4>2. PICK e \in Evs(writing) : e.who = a
        BY <3>1, <3>2 DEF ActFits
      <4>3. e.run # r
        BY <2>0, <4>1, <4>2, EvsOf
      <4> QED BY <4>2, <4>3, <1>8
    <3>3. runs[acts[a].run].st # "live" => runs'[acts[a].run].st # "live"
      BY <3>1, <1>2
    <3> QED BY <3>1, <3>2, <3>3, <1>1 DEF ActFits
  <2> QED BY <2>1, <2>2
<1>12. ASSUME NEW d \in Evs(writing') PROVE EvFits(d, runs', acts')
  <2>1. CASE d \in Evs(writing) /\ d.run # r
    <3>1. EvFits(d, runs, acts) /\ d.run \in 1 .. Len(runs)
          /\ (d.who # 0 => d.who \in 1 .. Len(acts) /\ acts[d.who].run # r)
      BY <2>1, EvsOf DEF Chronicle
    <3>2. d.who # 0 => acts'[d.who] = acts[d.who]
      BY <3>1, <1>3, <1>5
    <3> QED BY <2>1, <3>1, <3>2, <1>2 DEF EvFits
  <2>2. CASE d.who = 0 /\ d.run = r /\ d.type = "run_cancelled" /\ runs[r].st = "live"
    BY <2>2, <1>2 DEF EvFits
  <2> QED BY <2>1, <2>2, <1>7
<1> QED BY <1>10, <1>11, <1>12 DEF Chronicle

(* A process that dies leaves nothing under way. *)
LEMMA DieChronicle ==
  ASSUME TelemetryTypeOK, BooksRight, Chronicle, Die
  PROVE  Chronicle'
<1>1. /\ runs' = [r \in DOMAIN runs |-> IF runs[r].st = "over" THEN runs[r] ELSE [runs[r] EXCEPT !.st = "gone"]]
      /\ acts' = [a \in DOMAIN acts |-> IF acts[a].st = "over" THEN acts[a] ELSE [acts[a] EXCEPT !.st = "cut"]]
      /\ writing' = <<>> /\ scene' = scene /\ tokens' = tokens
      /\ harmed' = harmed \cup {r \in DOMAIN runs : runs[r].st # "over"}
  BY DEF Die
<1>2. Len(runs') = Len(runs) /\ Len(acts') = Len(acts)
  <2>1. ASSUME NEW r \in DOMAIN runs PROVE runs'[r] \in RunRecords
    BY <1>1, RunParts DEF RunRecords
  <2>2. ASSUME NEW a \in DOMAIN acts PROVE acts'[a] \in ActRecords
    BY <1>1, ActParts DEF ActRecords
  <2>3. runs' \in [1 .. Len(runs) -> RunRecords] /\ acts' \in [1 .. Len(acts) -> ActRecords]
    BY <1>1, <2>1, <2>2, Basics
  <2> QED BY <2>3, Basics, FunctionIsSeq
<1>3. ASSUME NEW a \in DOMAIN acts PROVE acts'[a].run = acts[a].run /\ acts'[a].st \in {"over", "cut"}
  BY <1>1, ActParts DEF ActRecords
<1>4. ASSUME NEW r \in DOMAIN runs PROVE runs'[r].agent = runs[r].agent /\ runs'[r].st \in {"over", "gone"}
  BY <1>1, RunParts DEF RunRecords
<1>5. ASSUME NEW q \in 1 .. Len(runs') PROVE RunFits(q)'
  <2>1. RunFits(q) /\ q \in DOMAIN runs
    BY <1>2, Basics DEF Chronicle
  <2>2. \A p \in 1 .. Len(runs') : runs'[p].st \in {"over", "gone"}
    BY <1>2, <1>4, Basics
  <2> QED BY <2>1, <2>2, <1>1, <1>4 DEF RunFits
<1>6. ASSUME NEW a \in 1 .. Len(acts') PROVE ActFits(a)'
  <2>1. a \in DOMAIN acts /\ a \in 1 .. Len(acts) /\ acts[a].run \in DOMAIN runs
    BY <1>2, Basics DEF BooksRight
  <2>2. ASSUME acts'[a].st = "cut" PROVE acts[a].run \in harmed'
    <3>1. acts[a].st # "over"
      BY <2>1, <2>2, <1>1
    <3>2. CASE acts[a].st = "cut"
      BY <2>1, <3>2, <1>1 DEF Chronicle, ActFits
    <3>3. CASE acts[a].st # "cut"
      <4>1. a \in Active(acts[a].run)
        BY <2>1, <3>1, <3>3 DEF Active
      <4>2. runs[acts[a].run].st = "live"
        BY <2>1, <4>1, Basics DEF BooksRight, RunRight
      <4> QED BY <2>1, <4>2, <1>1
    <3> QED BY <3>2, <3>3
  <2>3. acts'[a].run = acts[a].run /\ acts'[a].st \in {"over", "cut"} /\ runs'[acts[a].run].st # "live"
    BY <2>1, <1>3, <1>4
  <2> QED BY <2>2, <2>3 DEF ActFits
<1>7. Evs(writing') = {}
  BY <1>1, EvsNone
<1> QED BY <1>5, <1>6, <1>7 DEF Chronicle

-----------------------------------------------------------------------------
(* A write: the event, what is published of it, and what goes on from it *)
Goes(e) ==
  IF e.who = 0
  THEN runs' = [runs EXCEPT ![e.run].st = IF @ = "starting" THEN "live" ELSE "over"] /\ acts' = acts
  ELSE acts' = [acts EXCEPT ![e.who].st = IF @ = "starting" THEN "open" ELSE "over"] /\ runs' = runs
WriteGoes(e) ==
  \/ e.type = "output_segment" /\ runs' = runs /\ acts' = acts /\ Evs(writing') = Evs(writing)
     /\ \E d \in Evs(writing) : d.run = e.run
  \/ /\ Goes(e) /\ e \in Evs(writing) /\ Evs(writing) = Evs(writing') \cup {e}
     /\ \A d \in Evs(writing') : d.run # e.run \/ d.who # e.who
ItemOf(item, e, n) ==
  /\ item \in Items /\ item.type = e.type /\ item.run = e.run /\ item.call = e.call /\ item.text = e.text /\ item.seq = n
WriteTold(stored, e, item) ==
  /\ e \in AgentEvents /\ ItemOf(item, e, IF stored THEN Len(store) + 1 ELSE -1) /\ Publish(item)
  /\ store' = (IF stored THEN Append(store, e) ELSE store)
  /\ harmed' = (IF stored THEN harmed ELSE harmed \cup {e.run})
  /\ tokens' = tokens /\ scene' = scene

(* A write is such a one: of a segment that goes before its event, or of the event. *)
LEMMA WriteIs ==
  ASSUME TelemetryTypeOK, BooksRight, SegmentsOwn, NEW stored \in BOOLEAN, Write(stored)
  PROVE  \E e, item : WriteTold(stored, e, item) /\ WriteGoes(e)
<1>1. PICK w \in Seq(Emits) : w = writing /\ w # <<>>
  BY Basics DEF Write
<1>2. PICK j \in Emits : j = Head(w)
  BY <1>1, HeadTailProperties
<1>3. PICK rest \in Seq(Emits) : rest = Tail(w)
  BY <1>1, HeadTailProperties
<1>4. /\ j \in Members(writing) /\ \A k \in Members(rest) : Differ(k, j)
  BY <1>1, <1>2, <1>3, OneLess DEF BooksRight
<1>5. Evs(writing) = Evs(rest) \cup {j.ev}
  BY <1>1, <1>2, <1>3, EvsFirst
<1>6. j.ev \in AgentEvents /\ j.segs \in Seq(Segments) /\ scene \in Scenes /\ scene' = scene /\ tokens' = tokens
  BY DEF Emits, TelemetryTypeOK, Write
<1>7. PICK e : e = IF j.segs = <<>> THEN j.ev ELSE Segment(Head(j.segs))
  OBVIOUS
<1>8. e \in AgentEvents /\ WriteGoes(e)
  <2>1. CASE j.segs = <<>>
    <3>1. e = j.ev /\ Goes(e) /\ writing' = rest
      BY <2>1, <1>1, <1>2, <1>3, <1>7 DEF Write, Returned, Goes
    <3>2. \A d \in Evs(rest) : d.run # e.run \/ d.who # e.who
      BY <3>1, <1>4 DEF Evs, Members, Differ
    <3> QED BY <3>1, <3>2, <1>5, <1>6 DEF WriteGoes
  <2>2. CASE j.segs # <<>>
    <3>1. PICK segs \in Seq(Segments) : segs = j.segs /\ segs # <<>>
      BY <1>6, <2>2
    <3>2. PICK s \in Segments : s = Head(segs) /\ s = segs[1]
      BY <3>1, HeadTailProperties
    <3>3. Tail(segs) \in Seq(Segments) /\ 1 \in 1 .. Len(segs)
      BY <3>1, HeadTailProperties, LenProperties, EmptySeq
    <3>4. s.run = j.ev.run
      <4>1. OwnSegs(segs, j.ev.run)
        BY <3>1, <1>4 DEF SegmentsOwn
      <4> QED BY <3>2, <3>3, <4>1 DEF OwnSegs
    <3>5. e = Segment(s) /\ e.type = "output_segment" /\ e.run = s.run
      BY <1>7, <2>2, <3>1, <3>2 DEF Segment
    <3>6. PICK less \in Seq(Segments) : less = Tail(segs)
      BY <3>3
    <3>7. PICK m : m = [j EXCEPT !.segs = less]
      OBVIOUS
    <3>8. m \in Emits /\ m.ev = j.ev
      BY <3>7 DEF Emits
    <3>9. writing' = Append(rest, m) /\ runs' = runs /\ acts' = acts
      BY <2>2, <3>1, <3>6, <3>7, <1>1, <1>2, <1>3 DEF Write
    <3>10. Evs(Append(rest, m)) = Evs(rest) \cup {m.ev}
      BY <3>8, EvsAdded
    <3>11. Evs(writing') = Evs(writing) /\ j.ev \in Evs(writing)
      BY <3>8, <3>9, <3>10, <1>5
    <3>12. e \in AgentEvents
      BY <3>5, <1>6, SegmentTyped
    <3> QED BY <3>4, <3>5, <3>9, <3>11, <3>12 DEF WriteGoes
  <2> QED BY <2>1, <2>2
<1>9. PICK n : n = IF stored THEN Len(store) + 1 ELSE -1
  OBVIOUS
<1>10. n \in Int
  <2>1. Len(store) \in Nat
    BY LenProperties DEF TelemetryTypeOK
  <2> QED BY <2>1, <1>9
<1>11. PICK item \in Items : item = Item(e, n)
  BY <1>8, <1>10, ItemTyped
<1>12. ItemOf(item, e, n)
  BY <1>11 DEF ItemOf, Item
<1>13. /\ store' = (IF stored THEN Append(store, e) ELSE store) /\ Publish(item)
       /\ harmed' = (IF stored THEN harmed ELSE harmed \cup {e.run})
  BY <1>1, <1>2, <1>7, <1>9, <1>11 DEF Write
<1>14. WriteTold(stored, e, item)
  BY <1>6, <1>8, <1>9, <1>12, <1>13 DEF WriteTold
<1> QED BY <1>8, <1>14

(* The run whose event returns goes on, *)
LEMMA RunGoesOn ==
  ASSUME TelemetryTypeOK, NEW e, Goes(e), e.who = 0, e.run \in 1 .. Len(runs)
  PROVE  /\ Len(runs') = Len(runs) /\ acts' = acts /\ (\A q \in 1 .. Len(runs) : q # e.run => runs'[q] = runs[q])
         /\ runs'[e.run].st = (IF runs[e.run].st = "starting" THEN "live" ELSE "over")
         /\ \A q \in 1 .. Len(runs) : runs'[q].agent = runs[q].agent /\ runs'[q].how = runs[q].how
<1>1. acts' = acts /\ runs' = [runs EXCEPT ![e.run].st = IF @ = "starting" THEN "live" ELSE "over"]
  BY DEF Goes
<1>2. e.run \in DOMAIN runs /\ runs[e.run] \in RunRecords
  BY Basics, RunParts
<1>3. PICK j : j = [ev |-> e]
  OBVIOUS
<1>4. Len(runs') = Len(runs)
  <2>1. Returned(j)
    BY <1>1, <1>3 DEF Returned
  <2> QED BY <2>1, ReturnedTyped
<1>5. DOMAIN runs = 1 .. Len(runs)
  BY Basics
<1> QED BY <1>1, <1>2, <1>4, <1>5 DEF RunRecords

(* and so does the call. *)
LEMMA ActGoesOn ==
  ASSUME TelemetryTypeOK, NEW e, Goes(e), e.who # 0, e.who \in 1 .. Len(acts)
  PROVE  /\ Len(acts') = Len(acts) /\ runs' = runs /\ (\A a \in 1 .. Len(acts) : a # e.who => acts'[a] = acts[a])
         /\ acts'[e.who].st = (IF acts[e.who].st = "starting" THEN "open" ELSE "over")
         /\ \A a \in 1 .. Len(acts) : /\ acts'[a].run = acts[a].run /\ acts'[a].kind = acts[a].kind
                                      /\ acts'[a].call = acts[a].call
<1>1. runs' = runs /\ acts' = [acts EXCEPT ![e.who].st = IF @ = "starting" THEN "open" ELSE "over"]
  BY DEF Goes
<1>2. e.who \in DOMAIN acts /\ acts[e.who] \in ActRecords
  BY Basics, ActParts
<1>3. PICK j : j = [ev |-> e]
  OBVIOUS
<1>4. Len(acts') = Len(acts)
  <2>1. Returned(j)
    BY <1>1, <1>3 DEF Returned
  <2> QED BY <2>1, ReturnedTyped
<1>5. DOMAIN acts = 1 .. Len(acts)
  BY Basics
<1> QED BY <1>1, <1>2, <1>4, <1>5 DEF ActRecords

(* A write keeps the chronicle. *)
LEMMA WriteChronicle ==
  ASSUME TelemetryTypeOK, BooksRight, SegmentsOwn, Chronicle, NEW stored \in BOOLEAN, Write(stored)
  PROVE  Chronicle'
<1>1. PICK e, item : WriteTold(stored, e, item) /\ WriteGoes(e)
  BY WriteIs
<1>2. tokens' = tokens /\ scene' = scene /\ harmed \subseteq harmed'
  BY <1>1 DEF WriteTold
<1>3. CASE e.type = "output_segment" /\ runs' = runs /\ acts' = acts /\ Evs(writing') = Evs(writing)
  <2>1. ASSUME NEW q \in 1 .. Len(runs') PROVE RunFits(q)'
    BY <1>2, <1>3 DEF Chronicle, RunFits
  <2>2. ASSUME NEW a \in 1 .. Len(acts') PROVE ActFits(a)'
    BY <1>2, <1>3 DEF Chronicle, ActFits
  <2>3. ASSUME NEW d \in Evs(writing') PROVE EvFits(d, runs', acts')
    BY <1>3 DEF Chronicle
  <2> QED BY <2>1, <2>2, <2>3 DEF Chronicle
<1>4. CASE /\ Goes(e) /\ e \in Evs(writing) /\ Evs(writing) = Evs(writing') \cup {e}
           /\ \A d \in Evs(writing') : d.run # e.run \/ d.who # e.who
  <2>1. CASE e.who = 0
    <3>0. PICK r : r = e.run
      OBVIOUS
    <3>1. r \in 1 .. Len(runs) /\ runs[r].st \in {"starting", "ending"}
      BY <2>1, <3>0, <1>4, EvsOf
    <3>2. /\ Len(runs') = Len(runs) /\ acts' = acts /\ (\A q \in 1 .. Len(runs) : q # r => runs'[q] = runs[q])
          /\ runs'[r].st = (IF runs[r].st = "starting" THEN "live" ELSE "over")
      BY <2>1, <3>0, <3>1, <1>4, RunGoesOn
    <3>3. \A q \in 1 .. Len(runs) : runs'[q].agent = runs[q].agent /\ runs'[q].how = runs[q].how
      BY <2>1, <3>0, <3>1, <1>4, RunGoesOn
    <3>4. ASSUME NEW q \in 1 .. Len(runs') PROVE RunFits(q)'
      <4>1. RunFits(q) /\ (runs'[q].st = "starting" => runs[q].st = "starting")
        BY <3>2 DEF Chronicle
      <4>2. ASSUME NEW p \in 1 .. Len(runs'), p < q, runs'[p].agent = runs'[q].agent PROVE runs'[p].st \in {"over", "gone"}
        <5>1. runs[p].agent = runs[q].agent
          BY <4>2, <3>2, <3>3
        <5>2. runs[p].st \in {"over", "gone"}
          BY <4>1, <4>2, <5>1, <3>2 DEF RunFits
        <5> QED BY <4>2, <5>2, <3>1, <3>2
      <4> QED BY <4>1, <4>2, <1>2, <3>2, <3>3 DEF RunFits
    <3>5. ASSUME NEW a \in 1 .. Len(acts') PROVE ActFits(a)'
      <4>1. ActFits(a) /\ acts[a].run \in 1 .. Len(runs) /\ a # 0
        BY <3>2, Basics DEF Chronicle, BooksRight
      <4>2. ASSUME runs[acts[a].run].st # "live" PROVE runs'[acts[a].run].st # "live"
        <5>1. CASE acts[a].run = r
          <6>1. runs[r].st # "starting"
            BY <5>1, <3>1, <3>2 DEF Chronicle, RunFits
          <6> QED BY <5>1, <6>1, <3>2
        <5>2. CASE acts[a].run # r
          BY <4>1, <4>2, <5>2, <3>2
        <5> QED BY <5>1, <5>2
      <4> QED BY <4>1, <4>2, <2>1, <1>2, <1>4, <3>2 DEF ActFits
    <3>6. ASSUME NEW d \in Evs(writing') PROVE EvFits(d, runs', acts')
      <4>1. EvFits(d, runs, acts) /\ d.run \in 1 .. Len(runs)
        BY <1>4, EvsOf DEF Chronicle
      <4> QED BY <4>1, <3>2, <3>3 DEF EvFits
    <3> QED BY <3>4, <3>5, <3>6 DEF Chronicle
  <2>2. CASE e.who # 0
    <3>0. PICK a : a = e.who
      OBVIOUS
    <3>1. a \in 1 .. Len(acts) /\ acts[a].run = e.run
      BY <2>2, <3>0, <1>4, EvsOf
    <3>2. /\ Len(acts') = Len(acts) /\ runs' = runs /\ (\A c \in 1 .. Len(acts) : c # a => acts'[c] = acts[c])
          /\ acts'[a].st = (IF acts[a].st = "starting" THEN "open" ELSE "over")
      BY <2>2, <3>0, <3>1, <1>4, ActGoesOn
    <3>3. \A c \in 1 .. Len(acts) : acts'[c].run = acts[c].run
      BY <2>2, <3>0, <3>1, <1>4, ActGoesOn
    <3>4. ASSUME NEW q \in 1 .. Len(runs') PROVE RunFits(q)'
      <4>1. RunFits(q)
        BY <3>2 DEF Chronicle
      <4> QED BY <4>1, <1>2, <3>2, <3>3 DEF RunFits
    <3>5. ASSUME NEW c \in 1 .. Len(acts') PROVE ActFits(c)'
      <4>1. CASE c = a
        BY <4>1, <3>2 DEF ActFits
      <4>2. CASE c # a
        <5>1. ActFits(c) /\ acts'[c] = acts[c]
          BY <4>2, <3>2 DEF Chronicle
        <5>2. \A d \in Evs(writing) : d.who = c => d \in Evs(writing')
          BY <4>2, <3>0, <1>4
        <5> QED BY <5>1, <5>2, <1>2, <3>2 DEF ActFits
      <4> QED BY <4>1, <4>2
    <3>6. ASSUME NEW d \in Evs(writing') PROVE EvFits(d, runs', acts')
      <4>1. EvFits(d, runs, acts) /\ (d.who # 0 => d.who \in 1 .. Len(acts) /\ acts[d.who].run = d.run)
        BY <1>4, EvsOf DEF Chronicle
      <4>2. d.who # a
        BY <2>2, <3>0, <3>1, <4>1, <1>4
      <4> QED BY <4>1, <4>2, <3>2 DEF EvFits
    <3> QED BY <3>4, <3>5, <3>6 DEF Chronicle
  <2> QED BY <2>1, <2>2
<1> QED BY <1>1, <1>3, <1>4 DEF WriteGoes

-----------------------------------------------------------------------------
(* A view of a run that its agent's run has come to *)
StatusFit(status, run) ==
  /\ run.st \in {"live", "ending"} => status = "running"
  /\ run.st = "over" => status = (IF run.how = "run_finished" THEN "finished" ELSE "failed")
NotCut(cs, r) == \A a \in 1 .. Len(cs) : cs[a].run = r => cs[a].st # "cut"
Fits(s, r) ==
  /\ s \in RunViews /\ s.run = r /\ StatusFit(s.status, runs[r]) /\ OutputsFit(s.blocks, store, r)
  /\ NotCut(acts, r) => ToolsFit(s.blocks, acts, r)
  /\ r \notin harmed => TextOf(s.blocks) = 1 .. tokens[r]

IsNewest(r) == \A q \in 1 .. Len(runs) : runs[q].agent = runs[r].agent => q <= r
Followed(r) ==
  \E s : Ahead(scene.cast, fleet.states[runs[r].agent], queue, runs[r].agent, r, s) /\ Fits(s, r)
HeardRight ==
  /\ heard \subseteq 1 .. Len(runs) /\ \A r \in heard : runs[r].st # "starting"
  /\ app # "on" => heard = {} /\ queue = None
ViewsFollow == \A r \in heard : IsNewest(r) => Followed(r)

(* What leaves a view as right as it is *)
StatusKept(a, b) == \A status : StatusFit(status, a) => StatusFit(status, b)
SameTools(as, cs, r) ==
  NotCut(cs, r) => /\ NotCut(as, r)
                   /\ \A i : /\ ToolsOf(cs, r, i, Called) = ToolsOf(as, r, i, Called)
                             /\ ToolsOf(cs, r, i, Unanswered) = ToolsOf(as, r, i, Unanswered)
StoreGrows == store' = store \/ \E e \in AgentEvents : store' = Append(store, e)

(* A handle to a result stays one as the store grows. *)
LEMMA OutputsStay ==
  ASSUME store \in Seq(AgentEvents), StoreGrows, NEW b, NEW r, OutputsFit(b, store, r)
  PROVE  OutputsFit(b, store', r)
<1>1. CASE store' = store
  BY <1>1
<1>2. CASE store' # store
  <2>1. PICK s \in Seq(AgentEvents) : s = store
    OBVIOUS
  <2>2. PICK e \in AgentEvents : store' = Append(s, e)
    BY <1>2, <2>1 DEF StoreGrows
  <2>3. PICK n \in Nat : n = Len(s) /\ Len(store') = n + 1 /\ \A i \in 1 .. n : store'[i] = s[i]
    BY <2>2, AppendProperties, LenProperties
  <2>4. \A i \in 1 .. n : i \in 1 .. Len(store')
    BY <2>3
  <2> QED BY <2>1, <2>3, <2>4 DEF OutputsFit
<1> QED BY <1>1, <1>2

(* So a view stays right. *)
LEMMA FitsStays ==
  ASSUME store \in Seq(AgentEvents), scene' = scene, NEW s, NEW r, Fits(s, r), StoreGrows,
         StatusKept(runs[r], runs'[r]), SameTools(acts, acts', r),
         r \notin harmed' => r \notin harmed /\ tokens'[r] = tokens[r]
  PROVE  Fits(s, r)'
<1>1. StatusFit(s.status, runs'[r])
  BY DEF Fits, StatusKept
<1>2. OutputsFit(s.blocks, store', r)
  <2>1. OutputsFit(s.blocks, store, r)
    BY DEF Fits
  <2> QED BY <2>1, OutputsStay
<1>3. ASSUME NotCut(acts', r) PROVE ToolsFit(s.blocks, acts', r)
  <2>1. ToolsFit(s.blocks, acts, r)
    BY <1>3 DEF Fits, SameTools
  <2> QED BY <2>1, <1>3 DEF ToolsFit, SameTools
<1> QED BY <1>1, <1>2, <1>3 DEF Fits

(* A run that stays the same keeps its status, *)
LEMMA StatusSame == \A run : StatusKept(run, run)
BY DEF StatusKept

(* and calls that stay the same their tools. *)
LEMMA SameToolsSame == \A cs, r : SameTools(cs, cs, r)
BY DEF SameTools

-----------------------------------------------------------------------------
(* Steps that publish nothing *)
LEMMA QuietFollows ==
  ASSUME TelemetryTypeOK, HeardRight, ViewsFollow,
         queue' = queue, heard' = heard, fleet' = fleet, app' = app, scene' = scene, tokens' = tokens,
         harmed \subseteq harmed', StoreGrows,
         \A q \in 1 .. Len(runs) : /\ q \in 1 .. Len(runs') /\ runs'[q].agent = runs[q].agent
                                   /\ (runs'[q].st = "starting" => runs[q].st = "starting")
                                   /\ StatusKept(runs[q], runs'[q]) /\ SameTools(acts, acts', q)
  PROVE  HeardRight' /\ ViewsFollow'
<1>1. HeardRight'
  BY DEF HeardRight
<1>2. ASSUME NEW r \in heard, IsNewest(r)' PROVE Followed(r)'
  <2>1. r \in 1 .. Len(runs)
    BY DEF HeardRight
  <2>2. IsNewest(r)
    BY <1>2, <2>1 DEF IsNewest
  <2>3. PICK s : Ahead(scene.cast, fleet.states[runs[r].agent], queue, runs[r].agent, r, s) /\ Fits(s, r)
    BY <2>2 DEF ViewsFollow, Followed
  <2>4. Fits(s, r)'
    <3>1. store \in Seq(AgentEvents)
      BY DEF TelemetryTypeOK
    <3>2. StatusKept(runs[r], runs'[r]) /\ SameTools(acts, acts', r)
      BY <2>1
    <3>3. r \notin harmed' => r \notin harmed /\ tokens'[r] = tokens[r]
      OBVIOUS
    <3> QED BY <2>3, <3>1, <3>2, <3>3, FitsStays
  <2>5. runs'[r].agent = runs[r].agent
    BY <2>1
  <2> QED BY <2>3, <2>4, <2>5 DEF Followed
<1> QED BY <1>1, <1>2 DEF ViewsFollow

(* A run that starts, before it is told, *)
LEMMA StartRunFollows ==
  ASSUME TelemetryTypeOK, BooksRight, TokensKept, Chronicle, HeardRight, ViewsFollow, UNCHANGED viewVars,
         NEW x \in Agents, StartRun(x)
  PROVE  HeardRight' /\ ViewsFollow'
<1>1. Len(runs') = Len(runs) + 1 /\ \A q \in 1 .. Len(runs) : runs'[q] = runs[q]
  BY StartRunChronicle
<1>2. \A q \in 1 .. Len(runs) : q \in 1 .. Len(runs')
  BY <1>1, Basics
<1>3. queue' = queue /\ heard' = heard /\ fleet' = fleet /\ app' = app /\ scene' = scene /\ tokens' = tokens
      /\ harmed' = harmed /\ store' = store /\ acts' = acts
  BY DEF StartRun, viewVars
<1> QED BY <1>1, <1>2, <1>3, QuietFollows, StatusSame, SameToolsSame DEF StoreGrows

(* a call or a tool that starts, *)
LEMMA StartActFollows ==
  ASSUME TelemetryTypeOK, BooksRight, Chronicle, HeardRight, ViewsFollow, UNCHANGED viewVars,
         NEW r \in DOMAIN runs, NEW kind \in {"call", "tool"}, NEW call \in Calls, StartAct(r, kind, call)
  PROVE  HeardRight' /\ ViewsFollow'
<1>1. queue' = queue /\ heard' = heard /\ fleet' = fleet /\ app' = app /\ scene' = scene /\ tokens' = tokens
      /\ harmed' = harmed /\ store' = store /\ runs' = runs
  BY DEF StartAct, viewVars
<1>2. ASSUME NEW q PROVE SameTools(acts, acts', q)
  <2>1. PICK n \in Nat : n = Len(acts)
    BY Basics
  <2>2. acts \in Seq(ActRecords) /\ r \in Runs
    BY RunParts DEF TelemetryTypeOK
  <2>3. PICK b \in ActRecords : b = [run |-> r, kind |-> kind, call |-> call, st |-> "starting"]
    BY <2>2 DEF ActRecords
  <2>4. Len(acts') = n + 1 /\ acts'[n + 1] = b /\ \A c \in 1 .. n : acts'[c] = acts[c]
    <3>1. acts' = Append(acts, b)
      BY <2>3 DEF StartAct
    <3> QED BY <3>1, <2>1, <2>2, AppendProperties
  <2>5. b.st \notin Called /\ b.st \notin Unanswered
    BY <2>3 DEF Called, Unanswered
  <2>6. \A c \in 1 .. Len(acts') : c \in 1 .. n \/ c = n + 1
    BY <2>4
  <2>7. \A c \in 1 .. n : c \in 1 .. Len(acts')
    BY <2>4
  <2>8. NotCut(acts', q) => NotCut(acts, q)
    BY <2>1, <2>4, <2>7 DEF NotCut
  <2>9. ASSUME NEW i, NEW sts, b.st \notin sts PROVE ToolsOf(acts', q, i, sts) = ToolsOf(acts, q, i, sts)
    BY <2>1, <2>4, <2>6, <2>7, <2>9 DEF ToolsOf
  <2> QED BY <2>5, <2>8, <2>9 DEF SameTools
<1> QED BY <1>1, <1>2, QuietFollows, StatusSame DEF StoreGrows

(* one that ends, *)
LEMMA EndActFollows ==
  ASSUME TelemetryTypeOK, BooksRight, Chronicle, HeardRight, ViewsFollow, UNCHANGED viewVars,
         NEW a \in DOMAIN acts, NEW type, EndAct(a, type)
  PROVE  HeardRight' /\ ViewsFollow'
<1>1. queue' = queue /\ heard' = heard /\ fleet' = fleet /\ app' = app /\ scene' = scene /\ tokens' = tokens
      /\ harmed' = harmed /\ store' = store /\ runs' = runs
  BY DEF EndAct, viewVars
<1>2. ASSUME NEW q PROVE SameTools(acts, acts', q)
  <2>1. acts' = [acts EXCEPT ![a].st = "ending"] /\ acts[a].st = "open" /\ acts[a] \in ActRecords
        /\ DOMAIN acts = 1 .. Len(acts)
    BY ActParts, Basics DEF EndAct
  <2>2. Len(acts') = Len(acts)
    BY <2>1, ActChanged
  <2>3. /\ \A c \in 1 .. Len(acts) : c # a => acts'[c] = acts[c]
        /\ acts'[a].st = "ending" /\ acts'[a].run = acts[a].run /\ acts'[a].call = acts[a].call
        /\ acts'[a].kind = acts[a].kind
    BY <2>1 DEF ActRecords
  <2>4. NotCut(acts', q) => NotCut(acts, q)
    BY <2>1, <2>2, <2>3 DEF NotCut
  <2>5. ASSUME NEW i, NEW sts, "open" \in sts, "ending" \in sts PROVE ToolsOf(acts', q, i, sts) = ToolsOf(acts, q, i, sts)
    BY <2>1, <2>2, <2>3, <2>5 DEF ToolsOf
  <2>6. "open" \in Called /\ "ending" \in Called /\ "open" \in Unanswered /\ "ending" \in Unanswered
    BY DEF Called, Unanswered
  <2> QED BY <2>4, <2>5, <2>6 DEF SameTools
<1> QED BY <1>1, <1>2, QuietFollows, StatusSame DEF StoreGrows

(* a run that ends, as long as it has not told, *)
LEMMA EndRunFollows ==
  ASSUME TelemetryTypeOK, BooksRight, Chronicle, HeardRight, ViewsFollow, UNCHANGED viewVars,
         NEW r \in DOMAIN runs, NEW how \in RunEnds, EndRun(r, how)
  PROVE  HeardRight' /\ ViewsFollow'
<1>1. queue' = queue /\ heard' = heard /\ fleet' = fleet /\ app' = app /\ scene' = scene /\ tokens' = tokens
      /\ harmed' = harmed /\ store' = store /\ acts' = acts
  BY DEF EndRun, viewVars
<1>2. /\ Len(runs') = Len(runs) /\ \A q \in 1 .. Len(runs) : q # r => runs'[q] = runs[q]
      /\ runs'[r].st = "ending" /\ runs'[r].agent = runs[r].agent /\ runs[r].st = "live"
  <2>1. runs' = [runs EXCEPT ![r] = [agent |-> runs[r].agent, st |-> "ending", how |-> how]] /\ runs[r].st = "live"
    BY DEF EndRun
  <2>2. Len(runs') = Len(runs)
    BY <2>1, RunChanged
  <2> QED BY <2>1, <2>2, Basics
<1>3. ASSUME NEW q \in 1 .. Len(runs) PROVE StatusKept(runs[q], runs'[q])
  BY <1>2 DEF StatusKept, StatusFit
<1> QED BY <1>1, <1>2, <1>3, QuietFollows, SameToolsSame DEF StoreGrows

(* and one that is cut publish nothing yet. *)
LEMMA CancelRunFollows ==
  ASSUME TelemetryTypeOK, BooksRight, Chronicle, HeardRight, ViewsFollow, UNCHANGED viewVars,
         NEW r \in DOMAIN runs, CancelRun(r)
  PROVE  HeardRight' /\ ViewsFollow'
<1>1. queue' = queue /\ heard' = heard /\ fleet' = fleet /\ app' = app /\ scene' = scene /\ tokens' = tokens
      /\ harmed' = harmed \cup {r}
  BY DEF CancelRun, viewVars
<1>2. /\ r \in 1 .. Len(runs) /\ runs[r].st \in {"starting", "live", "ending"}
      /\ Len(runs') = Len(runs) /\ (\A q \in 1 .. Len(runs) : q # r => runs'[q] = runs[q])
      /\ runs'[r].agent = runs[r].agent /\ runs'[r].st = (IF runs[r].st = "live" THEN "ending" ELSE "gone")
      /\ Len(acts') = Len(acts)
  BY CancelParts
<1>3. \A a \in 1 .. Len(acts) : a \notin Active(r) => acts'[a] = acts[a]
  BY CancelParts
<1>4. \A a \in Active(r) : acts'[a].st = "cut" /\ acts'[a].run = r
  BY CancelParts
<1>5. \A a \in Active(r) : acts[a].run = r /\ a \in 1 .. Len(acts) /\ acts[a].st # "cut"
  BY Basics DEF Active
<1>6. ASSUME NEW q PROVE SameTools(acts, acts', q)
  <2> SUFFICES ASSUME NotCut(acts', q)
               PROVE  /\ NotCut(acts, q)
                      /\ \A i : /\ ToolsOf(acts', q, i, Called) = ToolsOf(acts, q, i, Called)
                                /\ ToolsOf(acts', q, i, Unanswered) = ToolsOf(acts, q, i, Unanswered)
    BY DEF SameTools
  <2>1. \A a \in 1 .. Len(acts) : acts[a].run = q \/ acts'[a].run = q => acts'[a] = acts[a]
    <3> SUFFICES ASSUME NEW a \in 1 .. Len(acts), acts[a].run = q \/ acts'[a].run = q, a \in Active(r) PROVE FALSE
      BY <1>3
    <3>1. acts'[a].st = "cut" /\ acts'[a].run = r /\ q = r
      BY <1>4, <1>5
    <3> QED BY <3>1, <1>2 DEF NotCut
  <2>2. NotCut(acts, q)
    BY <2>1, <1>2 DEF NotCut
  <2>3. ASSUME NEW i, NEW sts PROVE ToolsOf(acts', q, i, sts) = ToolsOf(acts, q, i, sts)
    BY <2>1, <1>2 DEF ToolsOf
  <2> QED BY <2>2, <2>3
<1>7. ASSUME NEW q \in 1 .. Len(runs) PROVE StatusKept(runs[q], runs'[q])
  BY <1>2 DEF StatusKept, StatusFit
<1>8. StoreGrows
  <2>1. CASE store' = store
    BY <2>1 DEF StoreGrows
  <2>2. CASE store' # store
    <3>1. PICK w \in Seq(Emits) : w = writing
      BY Basics
    <3>2. PICK e : e = IF Head(w).segs = <<>> THEN Head(w).ev ELSE Segment(Head(Head(w).segs))
      OBVIOUS
    <3>3. w # <<>> /\ store' = Append(store, e)
      BY <3>1, <3>2, <2>2 DEF CancelRun
    <3>4. PICK j \in Emits : j = Head(w)
      BY <3>3, HeadTailProperties
    <3>5. j.ev \in AgentEvents /\ j.segs \in Seq(Segments) /\ scene \in Scenes
      BY DEF Emits, TelemetryTypeOK
    <3>6. e \in AgentEvents
      <4>1. CASE j.segs = <<>>
        BY <4>1, <3>2, <3>4, <3>5
      <4>2. CASE j.segs # <<>>
        <5>1. PICK segs \in Seq(Segments) : segs = j.segs /\ segs # <<>>
          BY <3>5, <4>2
        <5>2. PICK s \in Segments : s = Head(segs)
          BY <5>1, HeadTailProperties
        <5> QED BY <3>2, <3>4, <3>5, <4>2, <5>1, <5>2, SegmentTyped
      <4> QED BY <4>1, <4>2
    <3> QED BY <3>3, <3>6 DEF StoreGrows
  <2> QED BY <2>1, <2>2
<1> QED BY <1>1, <1>2, <1>6, <1>7, <1>8, QuietFollows

-----------------------------------------------------------------------------
(* What is published goes behind what the app has not taken yet. *)
ViewsStay(r) == \A q \in heard : q # r => \A s : Fits(s, q) => Fits(s, q)'
ViewTakes(item, r) ==
  IF item.type = "run_started" THEN \A t : t = NewState("running", r) => Fits(t, r)'
  ELSE r \in heard => \A s, t : Fits(s, r) /\ t = ApplyBusItem(s, item) => Fits(IF Shown(item) THEN t ELSE s, r)'
RunsStay ==
  /\ Len(runs') = Len(runs)
  /\ \A q \in 1 .. Len(runs) : runs'[q].agent = runs[q].agent /\ (runs'[q].st = "starting" => runs[q].st = "starting")

(* The newest run of its agent is followed further, and every other one as before. *)
LEMMA PublishFollows ==
  ASSUME TelemetryTypeOK, Chronicle, HeardRight, ViewsFollow, NEW item \in Items, Publish(item), NEW r \in 1 .. Len(runs),
         item.run = r, runs[r].st \in {"starting", "live", "ending"}, item.type = "run_started" => runs'[r].st # "starting",
         fleet' = fleet, app' = app, scene' = scene, RunsStay, ViewsStay(r), ViewTakes(item, r)
  PROVE  HeardRight' /\ ViewsFollow'
<1>1. queue = None \/ queue \in Seq(Items)
  BY DEF TelemetryTypeOK
<1>2. queue = None => queue' = None /\ heard' = heard \ {r}
  BY DEF Publish, Push, PublishLoss
<1>3. queue # None => /\ queue' = Push(queue, item)
                      /\ heard' = (heard \cup (IF item.type = "run_started" THEN {r} ELSE {})) \ PublishLoss(queue)
  BY DEF Publish
<1>4. HeardRight'
  <2>1. heard' \subseteq heard \cup {r} /\ (r \in heard' => r \in heard \/ item.type = "run_started")
    BY <1>2, <1>3
  <2>2. heard' \subseteq 1 .. Len(runs')
    BY <2>1 DEF HeardRight, RunsStay
  <2>3. ASSUME NEW q \in heard' PROVE runs'[q].st # "starting"
    <3>1. CASE q \in heard
      BY <3>1 DEF HeardRight, RunsStay
    <3>2. CASE q \notin heard
      BY <2>1, <3>2
    <3> QED BY <3>1, <3>2
  <2>4. ASSUME app' # "on" PROVE heard' = {} /\ queue' = None
    BY <2>4, <1>2 DEF HeardRight
  <2> QED BY <2>2, <2>3, <2>4 DEF HeardRight
<1>5. ASSUME NEW q \in heard', IsNewest(q)' PROVE Followed(q)'
  <2>1. q \in 1 .. Len(runs) /\ runs'[q].agent = runs[q].agent
    BY <1>4 DEF HeardRight, RunsStay
  <2>2. IsNewest(q)
    BY <1>5, <2>1 DEF IsNewest, RunsStay
  <2>3. PICK x : x = runs[q].agent
    OBVIOUS
  <2>4. PICK s0 : s0 = fleet.states[x]
    OBVIOUS
  <2>5. PICK c : c = scene.cast
    OBVIOUS
  <2>6. c[q] = x /\ c[r] = runs[r].agent
    BY <2>1, <2>3, <2>5 DEF Chronicle, RunFits
  <2>7. q \in heard => \E s : Ahead(c, s0, queue, x, q, s) /\ Fits(s, q)
    BY <2>2, <2>3, <2>4, <2>5 DEF ViewsFollow, Followed
  <2>8. SUFFICES \E s : Ahead(c, s0, queue', x, q, s) /\ Fits(s, q)'
    BY <2>1, <2>3, <2>4, <2>5 DEF Followed
  <2>9. CASE queue = None
    <3>1. q \in heard /\ q # r /\ queue' = queue
      BY <2>9, <1>2
    <3> QED BY <3>1, <2>7 DEF ViewsStay
  <2>10. CASE queue # None
    <3>1. PICK w \in Seq(Items) : w = queue /\ w # None
      BY <2>10, <1>1
    <3>2. queue' = Push(w, item) /\ (Len(w) = MAX_SIZE => Head(w).run # q)
      BY <3>1, <1>3 DEF PublishLoss
    <3>3. CASE q # r
      <4>1. q \in heard
        BY <3>1, <3>3, <1>3
      <4>2. PICK s : Ahead(c, s0, w, x, q, s) /\ Fits(s, q)
        BY <4>1, <2>7, <3>1
      <4>3. c[r] # x
        <5> SUFFICES ASSUME runs[r].agent = runs[q].agent PROVE FALSE
          BY <2>3, <2>6
        <5>1. r <= q
          BY <2>2 DEF IsNewest
        <5>2. r < q
          BY <5>1, <3>3, <2>1
        <5>3. runs[r].st \in {"over", "gone"}
          BY <5>2, <2>1 DEF Chronicle, RunFits
        <5> QED BY <5>3
      <4>4. ViewAfter(c, s, item, x) = s
        BY <4>3 DEF ViewAfter
      <4>5. Ahead(c, s0, Push(w, item), x, q, ViewAfter(c, s, item, x))
        BY <4>2, <4>3, <3>1, <3>2, AheadPushed
      <4>6. Fits(s, q)'
        BY <4>1, <4>2, <3>3 DEF ViewsStay
      <4> QED BY <4>4, <4>5, <4>6, <3>2
    <3>4. CASE q = r /\ item.type = "run_started"
      <4>1. PICK t : t = NewState("running", r)
        OBVIOUS
      <4>2. Fits(t, r)'
        BY <3>4, <4>1 DEF ViewTakes
      <4>3. Ahead(c, s0, Push(w, item), x, r, t)
        BY <3>1, <3>4, <4>1, BegunPushed
      <4> QED BY <3>2, <3>4, <4>2, <4>3
    <3>5. CASE q = r /\ item.type # "run_started"
      <4>1. q \in heard
        BY <3>1, <3>5, <1>3
      <4>2. PICK s : Ahead(c, s0, w, x, r, s) /\ Fits(s, r)
        BY <4>1, <2>7, <3>1, <3>5
      <4>3. PICK t : t = ApplyBusItem(s, item)
        OBVIOUS
      <4>4. PICK u : u = IF Shown(item) THEN t ELSE s
        OBVIOUS
      <4>5. Fits(IF Shown(item) THEN t ELSE s, r)'
        BY <3>5, <4>1, <4>2, <4>3 DEF ViewTakes
      <4>6. Fits(u, r)'
        <5>1. CASE Shown(item)
          BY <5>1, <4>4, <4>5
        <5>2. CASE ~Shown(item)
          BY <5>2, <4>4, <4>5
        <5> QED BY <5>1, <5>2
      <4>7. ViewAfter(c, s, item, x) = u
        BY <4>3, <4>4, <2>6, <3>5 DEF ViewAfter
      <4>8. Ahead(c, s0, Push(w, item), x, r, ViewAfter(c, s, item, x))
        BY <3>1, <3>2, <3>5, <4>2, AheadPushed
      <4> QED BY <3>2, <3>5, <4>6, <4>7, <4>8
    <3> QED BY <3>3, <3>4, <3>5
  <2> QED BY <2>9, <2>10
<1> QED BY <1>4, <1>5 DEF ViewsFollow

(* The view with it, if its parts are right *)
LEMMA TakenFits ==
  ASSUME NEW s, NEW t, NEW r, Fits(s, r), SameRun(s, t), StatusKept(runs[r], runs'[r]), OutputsFit(t.blocks, store', r),
         NotCut(acts', r) => ToolsFit(t.blocks, acts', r), r \notin harmed' => TextOf(t.blocks) = 1 .. tokens'[r]
  PROVE  Fits(t, r)'
<1>1. t \in RunViews /\ t.run = r /\ StatusFit(t.status, runs'[r])
  BY DEF Fits, SameRun, StatusKept
<1> QED BY <1>1 DEF Fits

(* Text that has been streamed shows no more than was streamed. *)
LEMMA TextFits ==
  ASSUME store \in Seq(AgentEvents), NEW s, NEW r, Fits(s, r), s.status = "running", NEW item \in Items, IsText(item),
         item.run = r, NEW t, t = ApplyBusItem(s, item), runs' = runs, acts' = acts, StoreGrows, harmed \subseteq harmed',
         r \notin harmed' => (1 .. tokens[r]) \cup ToSet(item.text) = 1 .. tokens'[r]
  PROVE  Fits(t, r)'
<1>1. s \in RunViews /\ s.run = r /\ OutputsFit(s.blocks, store, r)
  BY DEF Fits
<1>2. t = WithText(s, item)
  BY <1>1 DEF ApplyBusItem
<1>3. SameRun(s, t) /\ Alike(s.blocks, t.blocks) /\ TextOf(t.blocks) = TextOf(s.blocks) \cup ToSet(item.text)
  BY <1>1, <1>2, TextTaken
<1>4. OutputsFit(t.blocks, store', r)
  <2>1. OutputsFit(s.blocks, store', r)
    BY <1>1, OutputsStay
  <2> QED BY <2>1, <1>3 DEF Alike
<1>5. ASSUME NotCut(acts', r) PROVE ToolsFit(t.blocks, acts', r)
  <2>1. ToolsFit(s.blocks, acts, r)
    BY <1>5 DEF Fits
  <2> QED BY <2>1, <1>3, AlikeFits DEF Alike
<1>6. ASSUME r \notin harmed' PROVE TextOf(t.blocks) = 1 .. tokens'[r]
  <2>1. TextOf(s.blocks) = 1 .. tokens[r]
    BY <1>6 DEF Fits
  <2> QED BY <2>1, <1>3, <1>6
<1>7. StatusKept(runs[r], runs'[r])
  BY StatusSame
<1> QED BY <1>3, <1>4, <1>5, <1>6, <1>7, TakenFits

(* A token goes to its run's view, which shows it as soon as it comes there. *)
LEMMA TokenFollows ==
  ASSUME TelemetryTypeOK, BooksRight, Chronicle, HeardRight, ViewsFollow, UNCHANGED viewVars,
         NEW a \in DOMAIN acts, NEW kind \in Kinds, Token(a, kind)
  PROVE  HeardRight' /\ ViewsFollow'
<1>1. PICK r : r = acts[a].run
  OBVIOUS
<1>2. r \in 1 .. Len(runs) /\ r \in Runs /\ runs[r].st = "live"
  <2>1. r \in 1 .. Len(runs) /\ a \in Active(r)
    BY <1>1, Basics DEF BooksRight, Active, Token
  <2> QED BY <2>1, Basics DEF BooksRight, RunRight
<1>3. scene \in Scenes /\ kind \in {"text", "thinking"} /\ tokens \in [Runs -> Nat] /\ store \in Seq(AgentEvents)
  BY SceneTyped DEF TelemetryTypeOK, Kinds
<1>4. PICK m \in Nat : m = tokens[r]
  BY <1>2, <1>3
<1>5. PICK n \in Nat : n = m + 1
  OBVIOUS
<1>6. PICK item \in Items : item = Delta(r, n, kind)
  BY <1>2, <1>3, DeltaTyped
<1>7. item.type = "delta" /\ item.run = r /\ item.text = <<n>>
  BY <1>6 DEF Delta
<1>8. /\ Publish(item) /\ runs' = runs /\ acts' = acts /\ scene' = scene /\ harmed' = harmed /\ store' = store
      /\ app' = app /\ fleet' = fleet /\ tokens'[r] = n /\ \A q \in 1 .. Len(runs) : q # r => tokens'[q] = tokens[q]
  <2>1. \A q \in 1 .. Len(runs) : q \in Runs
    BY Basics
  <2> QED BY <2>1, <1>1, <1>2, <1>3, <1>4, <1>5, <1>6 DEF Token, viewVars
<1>9. StoreGrows /\ RunsStay
  BY <1>8 DEF StoreGrows, RunsStay
<1>10. ViewsStay(r)
  <2> SUFFICES ASSUME NEW q \in heard, q # r, NEW s, Fits(s, q) PROVE Fits(s, q)'
    BY DEF ViewsStay
  <2>1. q \in 1 .. Len(runs)
    BY DEF HeardRight
  <2>2. StatusKept(runs[q], runs'[q]) /\ SameTools(acts, acts', q)
    BY <1>8, StatusSame, SameToolsSame
  <2>3. q \notin harmed' => q \notin harmed /\ tokens'[q] = tokens[q]
    BY <2>1, <1>8
  <2> QED BY <2>2, <2>3, <1>3, <1>8, <1>9, FitsStays
<1>11. ViewTakes(item, r)
  <2> SUFFICES ASSUME r \in heard, NEW s, NEW t, Fits(s, r), t = ApplyBusItem(s, item)
               PROVE  Fits(IF Shown(item) THEN t ELSE s, r)'
    BY <1>7 DEF ViewTakes
  <2>1. Shown(item) /\ IsText(item)
    BY <1>7 DEF Shown, Contract, IsText
  <2>2. s.status = "running"
    BY <1>2 DEF Fits, StatusFit
  <2>3. (1 .. tokens[r]) \cup ToSet(item.text) = 1 .. tokens'[r]
    <3>1. ToSet(item.text) = {n}
      BY <1>7, OneToken
    <3>2. (1 .. m) \cup {n} = 1 .. n
      BY <1>5
    <3> QED BY <3>1, <3>2, <1>4, <1>8
  <2>4. harmed \subseteq harmed'
    BY <1>8
  <2>5. Fits(t, r)'
    BY <2>1, <2>2, <2>3, <2>4, <1>3, <1>7, <1>8, <1>9, TextFits
  <2> QED BY <2>1, <2>5
<1> QED BY <1>2, <1>7, <1>8, <1>9, <1>10, <1>11, PublishFollows

-----------------------------------------------------------------------------
(* A write.  What it may take from a view of another run: nothing. *)
LEMMA WriteGrows ==
  ASSUME NEW stored \in BOOLEAN, NEW e, NEW item, WriteTold(stored, e, item)
  PROVE  /\ StoreGrows /\ harmed \subseteq harmed' /\ item \in Items /\ item.type = e.type /\ item.run = e.run
         /\ item.call = e.call /\ item.text = e.text /\ Publish(item) /\ tokens' = tokens /\ scene' = scene
         /\ (e.run \notin harmed' => stored)
         /\ \A q : q # e.run /\ q \notin harmed' => q \notin harmed
<1>1. StoreGrows
  BY DEF WriteTold, StoreGrows
<1>2. harmed' = (IF stored THEN harmed ELSE harmed \cup {e.run})
  BY DEF WriteTold
<1> QED BY <1>1, <1>2 DEF WriteTold, ItemOf

(* The result of a tool has its place in the store, or none if it was refused. *)
LEMMA ResultTold ==
  ASSUME store \in Seq(AgentEvents), NEW stored \in BOOLEAN, NEW e, NEW item, WriteTold(stored, e, item),
         e.type \in ActEnds["tool"]
  PROVE  ResultOf(item, store', e.run)
<1>1. PICK s \in Seq(AgentEvents) : s = store
  OBVIOUS
<1>2. PICK n \in Nat : n = Len(s)
  BY LenProperties
<1>3. item.seq = (IF stored THEN n + 1 ELSE -1) /\ item.call = e.call /\ e \in AgentEvents
  BY <1>1, <1>2 DEF WriteTold, ItemOf
<1>4. CASE stored
  <2>1. store' = Append(s, e)
    BY <1>1, <1>4 DEF WriteTold
  <2>2. Len(store') = n + 1 /\ store'[n + 1] = e
    BY <2>1, <1>2, <1>3, AppendProperties
  <2> QED BY <2>2, <1>3, <1>4 DEF ResultOf
<1>5. CASE ~stored
  BY <1>3, <1>5 DEF ResultOf
<1> QED BY <1>4, <1>5

(* The transcript of the next state, piece by piece *)
LEMMA WholeThen ==
  ASSUME NEW r, NEW s, s = store', NEW w, w = writing', NEW f, f = flushes'[r], NEW c, c = segments'[r],
         NEW n, n = tokens'[r], Whole(r)'
  PROVE  /\ Len(Stored(s, r) \o Way(w, f, c, r)) = n
         /\ ToSet(Stored(s, r) \o Way(w, f, c, r)) = 1 .. n
<1>1. Whole(r)' <=> /\ Len(Stored(s, r) \o Way(w, f, c, r)) = n
                    /\ ToSet(Stored(s, r) \o Way(w, f, c, r)) = 1 .. n
  BY WholeNext
<1>2. Whole(r)'
  OBVIOUS
<1> QED BY <1>1, <1>2, Zenon

(* What is stored of a run is part of what was streamed, if nothing was taken of it, *)
LEMMA StoredPart ==
  ASSUME TelemetryTypeOK', scene' = scene, NEW v \in Seq(AgentEvents), v = store', NEW r \in Runs, Whole(r)'
  PROVE  \E way \in Seq(Nat) : ToSet(Stored(v, r) \o way) = 1 .. tokens'[r]
<1>1. writing' \in Seq(Emits) /\ flushes' \in [Runs -> Seq(Segments)] /\ segments' \in [Runs -> Segments \cup {None}]
  <2>1. /\ writing' \in Seq(Emits') /\ flushes' \in [Runs' -> Seq(Segments')]
        /\ segments' \in [Runs' -> Segments' \cup {None}]
    BY DEF TelemetryTypeOK
  <2> QED BY <2>1, TypesSame
<1>2. PICK w \in Seq(Emits) : w = writing'
  BY <1>1
<1>3. PICK f \in Seq(Segments) : f = flushes'[r]
  BY <1>1
<1>4. PICK c : c = segments'[r] /\ (c = None \/ c \in Segments)
  BY <1>1
<1>5. PICK n : n = tokens'[r]
  OBVIOUS
<1>6. ToSet(Stored(v, r) \o Way(w, f, c, r)) = 1 .. n
  BY <1>2, <1>3, <1>4, <1>5, WholeThen
<1>7. Way(w, f, c, r) \in Seq(Nat)
  BY <1>4, WayTyped DEF WayIs
<1> QED BY <1>5, <1>6, <1>7

(* and so is the last piece of it. *)
LEMMA SegmentKnown ==
  ASSUME TelemetryTypeOK', scene' = scene, NEW s \in Seq(AgentEvents), NEW v \in Seq(AgentEvents), v = store',
         NEW e \in AgentEvents, v = Append(s, e), e.type = "output_segment", NEW r \in Runs, e.run = r, Whole(r)'
  PROVE  ToSet(e.text) \subseteq 1 .. tokens'[r]
<1>1. PICK way \in Seq(Nat) : ToSet(Stored(v, r) \o way) = 1 .. tokens'[r]
  BY StoredPart
<1>2. Stored(v, r) = Stored(s, r) \o e.text /\ Stored(s, r) \in Seq(Nat)
  BY StoredMore
<1>3. PICK old \in Seq(Nat) : old = Stored(s, r)
  BY <1>2
<1>4. PICK more \in Seq(Nat) : more = e.text
  BY DEF AgentEvents
<1>5. old \o more \in Seq(Nat) /\ ToSet(old \o more) = ToSet(old) \cup ToSet(more)
  BY Joined
<1>6. PICK all \in Seq(Nat) : all = old \o more
  BY <1>5
<1>7. ToSet(all \o way) = ToSet(all) \cup ToSet(way)
  BY Joined
<1>8. ToSet(all \o way) = 1 .. tokens'[r]
  BY <1>1, <1>2, <1>3, <1>4, <1>6
<1> QED BY <1>4, <1>5, <1>6, <1>7, <1>8

(* A segment says again what was streamed. *)
LEMMA SegmentFollows ==
  ASSUME TelemetryTypeOK, TelemetryTypeOK', TokensKept', BooksRight, Chronicle, HeardRight, ViewsFollow, UNCHANGED viewVars,
         NEW stored \in BOOLEAN, NEW e, NEW item, WriteTold(stored, e, item),
         e.type = "output_segment", runs' = runs, acts' = acts, NEW d \in Evs(writing), d.run = e.run
  PROVE  HeardRight' /\ ViewsFollow'
<1>1. PICK r : r = e.run
  OBVIOUS
<1>2. r \in 1 .. Len(runs) /\ runs[r].st \in {"starting", "live", "ending"} /\ r \in Runs
  BY <1>1, EvsOf, Basics
<1>3. /\ StoreGrows /\ harmed \subseteq harmed' /\ item \in Items /\ item.type = e.type /\ item.run = r
      /\ item.text = e.text /\ Publish(item) /\ tokens' = tokens /\ scene' = scene
      /\ (r \notin harmed' => stored) /\ \A q : q # r /\ q \notin harmed' => q \notin harmed
  BY <1>1, WriteGrows
<1>4. fleet' = fleet /\ app' = app /\ store \in Seq(AgentEvents)
  BY DEF viewVars, TelemetryTypeOK
<1>5. RunsStay
  BY DEF RunsStay
<1>6. ViewsStay(r)
  <2> SUFFICES ASSUME NEW q \in heard, q # r, NEW s, Fits(s, q) PROVE Fits(s, q)'
    BY DEF ViewsStay
  <2>1. StatusKept(runs[q], runs'[q]) /\ SameTools(acts, acts', q)
    BY StatusSame, SameToolsSame
  <2>2. q \notin harmed' => q \notin harmed /\ tokens'[q] = tokens[q]
    BY <1>3
  <2> QED BY <2>1, <2>2, <1>3, <1>4, FitsStays
<1>7. ViewTakes(item, r)
  <2> SUFFICES ASSUME r \in heard, NEW s, NEW t, Fits(s, r), t = ApplyBusItem(s, item)
               PROVE  Fits(IF Shown(item) THEN t ELSE s, r)'
    BY <1>3 DEF ViewTakes
  <2>1. Shown(item) /\ IsText(item)
    BY <1>3 DEF Shown, Contract, IsText
  <2>2. s.status = "running"
    BY <1>2 DEF Fits, StatusFit, HeardRight
  <2>3. ASSUME r \notin harmed' PROVE (1 .. tokens[r]) \cup ToSet(item.text) = 1 .. tokens'[r]
    <3>1. Whole(r)'
      <4>1. r \in Runs'
        BY <1>2, <1>3, TypesSame
      <4> QED BY <2>3, <4>1 DEF TokensKept
    <3>2. store' = Append(store, e) /\ e \in AgentEvents
      BY <2>3, <1>3 DEF WriteTold
    <3>3. PICK u \in Seq(AgentEvents) : u = store
      BY <1>4
    <3>4. PICK v \in Seq(AgentEvents) : v = Append(u, e)
      BY <3>2, AppendProperties
    <3>5. v = store'
      BY <3>2, <3>3, <3>4
    <3>6. ToSet(e.text) \subseteq 1 .. tokens'[r]
      BY <3>1, <3>2, <3>4, <3>5, <1>1, <1>2, <1>3, SegmentKnown
    <3> QED BY <3>6, <1>3
  <2>4. Fits(t, r)'
    BY <2>1, <2>2, <2>3, <1>3, <1>4, TextFits
  <2> QED BY <2>1, <2>4
<1>8. item.type # "run_started"
  BY <1>3
<1> QED BY <1>2, <1>3, <1>4, <1>5, <1>6, <1>7, <1>8, PublishFollows

(* A view of a run that begins *)
LEMMA BeginFits ==
  ASSUME NEW r \in 1 .. Len(runs), RunFits(r), runs[r].st = "starting", Runs \subseteq Nat, r \in Runs,
         acts' = acts, tokens' = tokens, runs'[r].st = "live", NEW t, t = NewState("running", r)
  PROVE  Fits(t, r)'
<1>1. t.status = "running" /\ t.run = r /\ t.blocks = <<>> /\ Len(<<>>) = 0 /\ t \in RunViews
  <2>1. <<>> \in Seq(Blocks) /\ Len(<<>>) = 0
    BY EmptySeq
  <2> QED BY <2>1, RunViewOf DEF NewState, Statuses
<1>2. tokens[r] = 0 /\ \A a \in 1 .. Len(acts) : acts[a].run # r
  BY DEF RunFits
<1>3. StatusFit(t.status, runs'[r]) /\ OutputsFit(t.blocks, store', r)
  BY <1>1 DEF StatusFit, OutputsFit
<1>4. ToolsFit(t.blocks, acts', r)
  <2>1. ASSUME NEW i PROVE CallsOf(<<>>, i) = {} /\ RunningOf(<<>>, i) = {}
    BY <1>1 DEF CallsOf, RunningOf, ToolBlocks
  <2>2. ASSUME NEW i, NEW sts PROVE ToolsOf(acts, r, i, sts) = {}
    BY <1>2 DEF ToolsOf
  <2>3. IsFiniteSet({})
    BY FS_EmptySet
  <2> QED BY <2>1, <2>2, <2>3, <1>1 DEF ToolsFit
<1>5. TextOf(t.blocks) = 1 .. tokens'[r]
  <2>1. TextOf(<<>>) = {}
    BY <1>1 DEF TextOf
  <2>2. 1 .. 0 = {}
    OBVIOUS
  <2> QED BY <2>1, <2>2, <1>1, <1>2
<1> QED BY <1>1, <1>3, <1>4, <1>5 DEF Fits

(* and of one that has ended *)
LEMMA EndFits ==
  ASSUME store \in Seq(AgentEvents), NEW r, NEW s, Fits(s, r), NEW item, item.run = r, item.type \in RunEnds,
         NEW t, t = ApplyBusItem(s, item), StoreGrows, harmed \subseteq harmed', tokens' = tokens, acts' = acts,
         runs'[r].st = "over", runs'[r].how = item.type
  PROVE  Fits(t, r)'
<1>1. s \in RunViews /\ s.run = r /\ OutputsFit(s.blocks, store', r)
  BY OutputsStay DEF Fits
<1>2. t = [s EXCEPT !.status = EndStatus(item)]
  BY <1>1 DEF ApplyBusItem, RunEnds, IsText
<1>3. t = [status |-> EndStatus(item), run |-> s.run, blocks |-> s.blocks, attached |-> s.attached]
  BY <1>1, <1>2, RunViewParts
<1>4. EndStatus(item) \in Statuses
  BY DEF EndStatus, Statuses
<1>5. t \in RunViews /\ t.run = r /\ t.blocks = s.blocks /\ t.status = EndStatus(item)
  BY <1>1, <1>3, <1>4, RunViewParts, RunViewOf
<1>6. StatusFit(t.status, runs'[r])
  BY <1>5 DEF StatusFit, EndStatus
<1>7. NotCut(acts', r) => ToolsFit(t.blocks, acts', r)
  BY <1>5 DEF Fits
<1>8. r \notin harmed' => TextOf(t.blocks) = 1 .. tokens'[r]
  BY <1>5 DEF Fits
<1> QED BY <1>1, <1>5, <1>6, <1>7, <1>8 DEF Fits

(* A run's start or end that is told is shown. *)
LEMMA RunToldFollows ==
  ASSUME TelemetryTypeOK, BooksRight, Chronicle, HeardRight, ViewsFollow, UNCHANGED viewVars,
         NEW stored \in BOOLEAN, NEW e, NEW item, WriteTold(stored, e, item), Goes(e), e \in Evs(writing), e.who = 0
  PROVE  HeardRight' /\ ViewsFollow'
<1>1. PICK r : r = e.run
  OBVIOUS
<1>2. /\ r \in 1 .. Len(runs) /\ e.type \in RunEvents
      /\ runs[r].st = (IF e.type = "run_started" THEN "starting" ELSE "ending") /\ r \in Runs /\ Runs \subseteq Nat
  <2>1. scene \in Scenes
    BY DEF TelemetryTypeOK
  <2> QED BY <2>1, <1>1, EvsOf, Basics, SceneTyped
<1>3. /\ StoreGrows /\ harmed \subseteq harmed' /\ item \in Items /\ item.type = e.type /\ item.run = r
      /\ Publish(item) /\ tokens' = tokens /\ scene' = scene
      /\ \A q : q # r /\ q \notin harmed' => q \notin harmed
  BY <1>1, WriteGrows
<1>4. fleet' = fleet /\ app' = app /\ store \in Seq(AgentEvents)
  BY DEF viewVars, TelemetryTypeOK
<1>5. /\ Len(runs') = Len(runs) /\ acts' = acts /\ (\A q \in 1 .. Len(runs) : q # r => runs'[q] = runs[q])
      /\ runs'[r].st = (IF runs[r].st = "starting" THEN "live" ELSE "over")
  BY <1>1, <1>2, RunGoesOn
<1>6. \A q \in 1 .. Len(runs) : runs'[q].agent = runs[q].agent /\ runs'[q].how = runs[q].how
  BY <1>1, <1>2, RunGoesOn
<1>7. RunsStay
  <2>1. ASSUME NEW q \in 1 .. Len(runs), runs'[q].st = "starting" PROVE runs[q].st = "starting"
    <3>1. q # r
      BY <2>1, <1>5
    <3> QED BY <2>1, <3>1, <1>5
  <2> QED BY <2>1, <1>5, <1>6 DEF RunsStay
<1>8. ViewsStay(r)
  <2> SUFFICES ASSUME NEW q \in heard, q # r, NEW s, Fits(s, q) PROVE Fits(s, q)'
    BY DEF ViewsStay
  <2>1. StatusKept(runs[q], runs'[q]) /\ SameTools(acts, acts', q)
    BY <1>5, StatusSame, SameToolsSame DEF HeardRight
  <2>2. q \notin harmed' => q \notin harmed /\ tokens'[q] = tokens[q]
    BY <1>3
  <2> QED BY <2>1, <2>2, <1>3, <1>4, FitsStays
<1>9. ViewTakes(item, r)
  <2>1. CASE item.type = "run_started"
    <3>1. runs[r].st = "starting" /\ runs'[r].st = "live" /\ RunFits(r)
      BY <2>1, <1>2, <1>3, <1>5 DEF Chronicle
    <3>2. ASSUME NEW t, t = NewState("running", r) PROVE Fits(t, r)'
      BY <3>1, <3>2, <1>2, <1>3, <1>5, BeginFits
    <3> QED BY <2>1, <3>2 DEF ViewTakes
  <2>2. CASE item.type # "run_started"
    <3> SUFFICES ASSUME r \in heard, NEW s, NEW t, Fits(s, r), t = ApplyBusItem(s, item)
                 PROVE  Fits(IF Shown(item) THEN t ELSE s, r)'
      BY <2>2 DEF ViewTakes
    <3>1. item.type \in RunEnds /\ runs[r].st = "ending" /\ runs'[r].st = "over"
      BY <2>2, <1>2, <1>3, <1>5 DEF RunEvents
    <3>2. runs'[r].how = item.type
      <4>1. EvFits(e, runs, acts)
        BY DEF Chronicle
      <4> QED BY <4>1, <3>1, <1>1, <1>2, <1>3, <1>6 DEF EvFits
    <3>3. Shown(item)
      BY <3>1 DEF Shown, Contract, RunEnds
    <3>4. Fits(t, r)'
      BY <3>1, <3>2, <1>3, <1>4, <1>5, EndFits
    <3> QED BY <3>3, <3>4
  <2> QED BY <2>1, <2>2
<1>10. runs[r].st \in {"starting", "live", "ending"} /\ (item.type = "run_started" => runs'[r].st # "starting")
  BY <1>2, <1>5
<1> QED BY <1>2, <1>3, <1>4, <1>7, <1>8, <1>9, <1>10, PublishFollows

-----------------------------------------------------------------------------
(* One call or tool goes on. *)
OneTold(as, cs, a) ==
  /\ Len(cs) = Len(as) /\ a \in 1 .. Len(as) /\ (\A b \in 1 .. Len(as) : b # a => cs[b] = as[b])
  /\ cs[a].run = as[a].run /\ cs[a].kind = as[a].kind /\ cs[a].call = as[a].call
  /\ as[a].st # "cut" /\ cs[a].st # "cut"

(* Other calls, and those it is counted with before and after, are counted as they were. *)
LEMMA OthersTools ==
  ASSUME NEW as, NEW cs, NEW a, OneTold(as, cs, a), NEW r, NEW i, NEW sts,
         as[a].run # r \/ as[a].kind # "tool" \/ as[a].call # i \/ (as[a].st \in sts /\ cs[a].st \in sts)
  PROVE  ToolsOf(cs, r, i, sts) = ToolsOf(as, r, i, sts)
BY DEF OneTold, ToolsOf

(* It is one more where it was not counted, *)
LEMMA OneToolMore ==
  ASSUME NEW as, NEW cs, NEW a, OneTold(as, cs, a), NEW r, NEW i, NEW sts,
         as[a].run = r, as[a].kind = "tool", as[a].call = i, as[a].st \notin sts, cs[a].st \in sts
  PROVE  a \notin ToolsOf(as, r, i, sts) /\ ToolsOf(cs, r, i, sts) = ToolsOf(as, r, i, sts) \cup {a}
BY DEF OneTold, ToolsOf

(* and one less where it is not counted any more. *)
LEMMA OneToolLess ==
  ASSUME NEW as, NEW cs, NEW a, OneTold(as, cs, a), NEW r, NEW i, NEW sts,
         as[a].run = r, as[a].kind = "tool", as[a].call = i, as[a].st \in sts, cs[a].st \notin sts
  PROVE  a \in ToolsOf(as, r, i, sts) /\ ToolsOf(cs, r, i, sts) = ToolsOf(as, r, i, sts) \ {a}
BY DEF OneTold, ToolsOf

(* None was cut that is not. *)
LEMMA NoneCut ==
  ASSUME NEW as, NEW cs, NEW a, OneTold(as, cs, a), NEW r
  PROVE  NotCut(cs, r) => NotCut(as, r)
BY DEF OneTold, NotCut

(* To the other runs it is nothing. *)
LEMMA NextToIt ==
  ASSUME NEW as, NEW cs, NEW a, OneTold(as, cs, a), NEW r, as[a].run # r
  PROVE  SameTools(as, cs, r)
<1>1. NotCut(cs, r) => NotCut(as, r)
  BY NoneCut
<1>2. ASSUME NEW i PROVE ToolsOf(cs, r, i, Called) = ToolsOf(as, r, i, Called)
  BY DEF OneTold, ToolsOf
<1>3. ASSUME NEW i PROVE ToolsOf(cs, r, i, Unanswered) = ToolsOf(as, r, i, Unanswered)
  BY DEF OneTold, ToolsOf
<1> QED BY <1>1, <1>2, <1>3 DEF SameTools

(* What a view takes of it *)
LEMMA CallTold ==
  ASSUME store \in Seq(AgentEvents), NEW a, OneTold(acts, acts', a), NEW s, NEW r, Fits(s, r), acts[a].run = r,
         acts[a].kind = "call", NEW t, SameRun(s, t), Alike(s.blocks, t.blocks), TextOf(t.blocks) = TextOf(s.blocks),
         runs' = runs, StoreGrows, harmed \subseteq harmed', tokens' = tokens
  PROVE  Fits(t, r)'
<1>1. OutputsFit(t.blocks, store', r)
  <2>1. OutputsFit(s.blocks, store', r)
    BY OutputsStay DEF Fits
  <2> QED BY <2>1 DEF Alike
<1>2. ASSUME NotCut(acts', r) PROVE ToolsFit(t.blocks, acts', r)
  <2>1. ToolsFit(s.blocks, acts, r)
    BY <1>2, NoneCut DEF Fits
  <2>2. ASSUME NEW i, NEW sts PROVE ToolsOf(acts', r, i, sts) = ToolsOf(acts, r, i, sts)
    BY OthersTools
  <2> QED BY <2>1, <2>2, AlikeFits DEF Alike
<1>3. r \notin harmed' => TextOf(t.blocks) = 1 .. tokens'[r]
  BY DEF Fits
<1>4. StatusKept(runs[r], runs'[r])
  BY StatusSame
<1> QED BY <1>1, <1>2, <1>3, <1>4, TakenFits

(* a tool that is told of, *)
LEMMA ToolTold ==
  ASSUME store \in Seq(AgentEvents), acts \in Seq(ActRecords), NEW a, OneTold(acts, acts', a), NEW s, NEW r, Fits(s, r),
         acts[a].run = r, acts[a].kind = "tool", acts[a].st = "starting", acts'[a].st = "open",
         NEW item \in Items, item.call = acts[a].call, NEW t, t = WithTool(s, item),
         runs' = runs, StoreGrows, harmed \subseteq harmed', tokens' = tokens
  PROVE  Fits(t, r)'
<1>1. s \in RunViews /\ OutputsFit(s.blocks, store', r)
  BY OutputsStay DEF Fits
<1>2. PICK c : c = item.call
  OBVIOUS
<1>3. /\ SameRun(s, t) /\ OneMoreCall(s.blocks, t.blocks, c) /\ TextOf(t.blocks) = TextOf(s.blocks)
      /\ \A st, q : OutputsFit(s.blocks, st, q) => OutputsFit(t.blocks, st, q)
  BY <1>1, <1>2, ToolTaken
<1>4. ASSUME NotCut(acts', r) PROVE ToolsFit(t.blocks, acts', r)
  <2>1. ToolsFit(s.blocks, acts, r)
    BY <1>4, NoneCut DEF Fits
  <2>2. ASSUME NEW i, NEW sts, i # c PROVE ToolsOf(acts', r, i, sts) = ToolsOf(acts, r, i, sts)
    BY <2>2, <1>2, OthersTools
  <2>3. /\ a \notin ToolsOf(acts, r, c, Called) /\ a \notin ToolsOf(acts, r, c, Unanswered)
        /\ ToolsOf(acts', r, c, Called) = ToolsOf(acts, r, c, Called) \cup {a}
        /\ ToolsOf(acts', r, c, Unanswered) = ToolsOf(acts, r, c, Unanswered) \cup {a}
    <3>1. acts[a].st \notin Called /\ acts'[a].st \in Called /\ acts[a].st \notin Unanswered /\ acts'[a].st \in Unanswered
      BY DEF Called, Unanswered
    <3>2. acts[a].call = c
      BY <1>2
    <3>3. a \notin ToolsOf(acts, r, c, Called) /\ ToolsOf(acts', r, c, Called) = ToolsOf(acts, r, c, Called) \cup {a}
      BY <3>1, <3>2, OneToolMore
    <3>4. /\ a \notin ToolsOf(acts, r, c, Unanswered)
          /\ ToolsOf(acts', r, c, Unanswered) = ToolsOf(acts, r, c, Unanswered) \cup {a}
      BY <3>1, <3>2, OneToolMore
    <3> QED BY <3>3, <3>4
  <2>4. Len(s.blocks) \in Nat /\ Len(acts) \in Nat
    BY <1>1, RunViewParts, LenProperties
  <2> QED BY <2>1, <2>2, <2>3, <2>4, <1>3, CallFits
<1>5. r \notin harmed' => TextOf(t.blocks) = 1 .. tokens'[r]
  BY <1>3 DEF Fits
<1>6. StatusKept(runs[r], runs'[r])
  BY StatusSame
<1> QED BY <1>1, <1>3, <1>4, <1>5, <1>6, TakenFits

(* and one that is answered. *)
LEMMA AnswerTold ==
  ASSUME store \in Seq(AgentEvents), acts \in Seq(ActRecords), NEW a, OneTold(acts, acts', a), NEW s, NEW r, Fits(s, r),
         NotCut(acts, r), acts[a].run = r, acts[a].kind = "tool", acts[a].st = "ending", acts'[a].st = "over",
         NEW item \in Items, item.call = acts[a].call, ResultOf(item, store', r), NEW t, t = WithResult(s, item),
         runs' = runs, StoreGrows, harmed \subseteq harmed', tokens' = tokens
  PROVE  Fits(t, r)'
<1>1. s \in RunViews /\ OutputsFit(s.blocks, store', r) /\ ToolsFit(s.blocks, acts, r)
  BY OutputsStay DEF Fits
<1>2. PICK c : c = item.call
  OBVIOUS
<1>3. acts[a].st \in Called /\ acts'[a].st \in Called /\ acts[a].st \in Unanswered /\ acts'[a].st \notin Unanswered
  BY DEF Called, Unanswered
<1>4. a \in ToolsOf(acts, r, c, Unanswered) /\ ToolsOf(acts', r, c, Unanswered) = ToolsOf(acts, r, c, Unanswered) \ {a}
  BY <1>2, <1>3, OneToolLess
<1>5. Len(s.blocks) \in Nat /\ Len(acts) \in Nat
  BY <1>1, RunViewParts, LenProperties
<1>6. RunningOf(s.blocks, c) # {}
  BY <1>1, <1>4, <1>5, SomeRuns
<1>7. /\ SameRun(s, t) /\ OneAnswered(s.blocks, t.blocks, c) /\ TextOf(t.blocks) = TextOf(s.blocks)
      /\ \A st, q : OutputsFit(s.blocks, st, q) /\ ResultOf(item, st, q) => OutputsFit(t.blocks, st, q)
  BY <1>1, <1>2, <1>6, ResultTaken
<1>8. ToolsFit(t.blocks, acts', r)
  <2>1. ASSUME NEW i PROVE ToolsOf(acts', r, i, Called) = ToolsOf(acts, r, i, Called)
    BY <1>3, OthersTools
  <2>2. ASSUME NEW i, i # c PROVE ToolsOf(acts', r, i, Unanswered) = ToolsOf(acts, r, i, Unanswered)
    BY <2>2, <1>2, OthersTools
  <2> QED BY <2>1, <2>2, <1>1, <1>4, <1>5, <1>7, AnswerFits
<1>9. r \notin harmed' => TextOf(t.blocks) = 1 .. tokens'[r]
  BY <1>7 DEF Fits
<1>10. StatusKept(runs[r], runs'[r])
  BY StatusSame
<1> QED BY <1>1, <1>7, <1>8, <1>9, <1>10, TakenFits

(* A call or a tool that is told of, or its end, is shown. *)
LEMMA ActToldFollows ==
  ASSUME TelemetryTypeOK, BooksRight, Chronicle, HeardRight, ViewsFollow, UNCHANGED viewVars,
         NEW stored \in BOOLEAN, NEW e, NEW item, WriteTold(stored, e, item), Goes(e), e \in Evs(writing), e.who # 0
  PROVE  HeardRight' /\ ViewsFollow'
<1>1. PICK r, a : r = e.run /\ a = e.who
  OBVIOUS
<1>2. /\ r \in 1 .. Len(runs) /\ a \in 1 .. Len(acts) /\ acts[a].run = r /\ acts[a].st \in {"starting", "ending"}
      /\ runs[r].st = "live" /\ e.type \notin RunEvents
  BY <1>1, EvsOf
<1>3. /\ StoreGrows /\ harmed \subseteq harmed' /\ item \in Items /\ item.type = e.type /\ item.run = r
      /\ item.call = e.call /\ Publish(item) /\ tokens' = tokens /\ scene' = scene
      /\ \A q : q # r /\ q \notin harmed' => q \notin harmed
  BY <1>1, WriteGrows
<1>4. fleet' = fleet /\ app' = app /\ store \in Seq(AgentEvents) /\ acts \in Seq(ActRecords)
  BY DEF viewVars, TelemetryTypeOK
<1>5. /\ Len(acts') = Len(acts) /\ runs' = runs /\ (\A b \in 1 .. Len(acts) : b # a => acts'[b] = acts[b])
      /\ acts'[a].st = (IF acts[a].st = "starting" THEN "open" ELSE "over")
  BY <1>1, <1>2, ActGoesOn
<1>6. \A b \in 1 .. Len(acts) : /\ acts'[b].run = acts[b].run /\ acts'[b].kind = acts[b].kind
                                /\ acts'[b].call = acts[b].call
  BY <1>1, <1>2, ActGoesOn
<1>7. OneTold(acts, acts', a)
  BY <1>2, <1>5, <1>6 DEF OneTold
<1>8. RunsStay
  BY <1>5 DEF RunsStay
<1>9. ViewsStay(r)
  <2> SUFFICES ASSUME NEW q \in heard, q # r, NEW s, Fits(s, q) PROVE Fits(s, q)'
    BY DEF ViewsStay
  <2>1. StatusKept(runs[q], runs'[q]) /\ SameTools(acts, acts', q)
    BY <1>2, <1>5, <1>7, StatusSame, NextToIt
  <2>2. q \notin harmed' => q \notin harmed /\ tokens'[q] = tokens[q]
    BY <1>3
  <2> QED BY <2>1, <2>2, <1>3, <1>4, FitsStays
<1>10. e.call = acts[a].call /\ e.type \in Tale(acts[a]) /\ acts[a].kind \in {"call", "tool"}
  <2>1. EvFits(e, runs, acts) /\ a \in DOMAIN acts
    BY <1>2, Basics DEF Chronicle
  <2> QED BY <2>1, <1>1, ActParts DEF EvFits
<1>11. ViewTakes(item, r)
  <2> SUFFICES ASSUME NEW s, NEW t, Fits(s, r), t = ApplyBusItem(s, item)
               PROVE  Fits(IF Shown(item) THEN t ELSE s, r)'
    BY <1>2, <1>3 DEF ViewTakes, RunEvents
  <2>1. s \in RunViews /\ s.run = r
    BY DEF Fits
  <2>2. CASE acts[a].kind = "call"
    <3>0. item.type \in {"call_started", "call_finished", "call_failed"}
      BY <2>2, <1>3, <1>10 DEF Tale, ActEnds
    <3>1. CASE item.type = "call_started"
      <4>1. Shown(item) /\ t = [s EXCEPT !.blocks = Append(s.blocks, Block("call", <<>>, None, "running"))]
        BY <2>1, <3>1, <1>3 DEF Shown, Contract, ApplyBusItem, IsText
      <4>2. SameRun(s, t) /\ Alike(s.blocks, t.blocks) /\ TextOf(t.blocks) = TextOf(s.blocks)
        BY <2>1, <4>1, CallTaken
      <4>3. Fits(t, r)'
        BY <2>2, <4>2, <1>2, <1>3, <1>4, <1>5, <1>7, CallTold
      <4> QED BY <4>1, <4>3
    <3>2. CASE item.type = "call_finished"
      <4>1. Shown(item) /\ t = WithCallDone(s)
        BY <2>1, <3>2, <1>3 DEF Shown, Contract, ApplyBusItem, IsText
      <4>2. SameRun(s, t) /\ Alike(s.blocks, t.blocks) /\ TextOf(t.blocks) = TextOf(s.blocks)
        BY <2>1, <4>1, CallDoneTaken
      <4>3. Fits(t, r)'
        BY <2>2, <4>2, <1>2, <1>3, <1>4, <1>5, <1>7, CallTold
      <4> QED BY <4>1, <4>3
    <3>3. CASE item.type = "call_failed"
      <4>1. ~Shown(item)
        BY <3>3 DEF Shown, Contract
      <4>2. SameRun(s, s) /\ Alike(s.blocks, s.blocks)
        BY <2>1 DEF SameRun, Alike, ToolsAlike
      <4>3. Fits(s, r)'
        BY <2>2, <4>2, <1>2, <1>3, <1>4, <1>5, <1>7, CallTold
      <4> QED BY <4>1, <4>3
    <3> QED BY <3>0, <3>1, <3>2, <3>3
  <2>3. CASE acts[a].kind = "tool" /\ acts[a].st = "starting"
    <3>1. item.type = "tool_started"
      BY <2>3, <1>3, <1>10 DEF Tale
    <3>2. Shown(item) /\ t = WithTool(s, item)
      BY <2>1, <3>1, <1>3 DEF Shown, Contract, ApplyBusItem, IsText
    <3>3. acts'[a].st = "open" /\ item.call = acts[a].call
      BY <2>3, <1>3, <1>5, <1>10
    <3>4. Fits(t, r)'
      BY <2>3, <3>2, <3>3, <1>2, <1>3, <1>4, <1>5, <1>7, ToolTold
    <3> QED BY <3>2, <3>4
  <2>4. CASE acts[a].kind = "tool" /\ acts[a].st = "ending"
    <3>1. e.type \in ActEnds["tool"] /\ item.type \in {"tool_finished", "tool_failed"}
      BY <2>4, <1>3, <1>10 DEF Tale, ActEnds
    <3>2. Shown(item) /\ t = WithResult(s, item)
      BY <2>1, <3>1, <1>3 DEF Shown, Contract, ApplyBusItem, IsText
    <3>3. acts'[a].st = "over" /\ item.call = acts[a].call
      BY <2>4, <1>3, <1>5, <1>10
    <3>4. NotCut(acts, r)
      BY <1>2 DEF NotCut, Chronicle, ActFits
    <3>5. ResultOf(item, store', r)
      BY <3>1, <1>1, <1>4, ResultTold
    <3>6. Fits(t, r)'
      BY <2>4, <3>2, <3>3, <3>4, <3>5, <1>2, <1>3, <1>4, <1>5, <1>7, AnswerTold
    <3> QED BY <3>2, <3>6
  <2> QED BY <2>2, <2>3, <2>4, <1>2, <1>10
<1>12. runs[r].st \in {"starting", "live", "ending"} /\ item.type # "run_started"
  BY <1>2, <1>3 DEF RunEvents
<1> QED BY <1>2, <1>3, <1>4, <1>8, <1>9, <1>11, <1>12, PublishFollows

(* So the app follows every write. *)
LEMMA WriteFollows ==
  ASSUME TelemetryTypeOK, TelemetryTypeOK', SegmentsOwn, TokensKept', BooksRight, Chronicle, HeardRight, ViewsFollow,
         UNCHANGED viewVars, NEW stored \in BOOLEAN, Write(stored)
  PROVE  HeardRight' /\ ViewsFollow'
<1>1. PICK e, item : WriteTold(stored, e, item) /\ WriteGoes(e)
  BY WriteIs
<1>2. CASE /\ e.type = "output_segment" /\ runs' = runs /\ acts' = acts
           /\ \E d \in Evs(writing) : d.run = e.run
  BY <1>1, <1>2, SegmentFollows
<1>3. CASE Goes(e) /\ e \in Evs(writing)
  <2>1. CASE e.who = 0
    BY <2>1, <1>1, <1>3, RunToldFollows
  <2>2. CASE e.who # 0
    BY <2>2, <1>1, <1>3, ActToldFollows
  <2> QED BY <2>1, <2>2
<1> QED BY <1>1, <1>2, <1>3 DEF WriteGoes

-----------------------------------------------------------------------------
(* The inductive invariant: what is being told is true of the runs, and whoever was told
   of a run's start is, with what waits in the queue, at a right view of it. *)
FollowInvariant == Chronicle /\ HeardRight /\ ViewsFollow

(* It follows whatever the recorder and the store do. *)
LEMMA MachineryFollows ==
  ASSUME TelemetryTypeOK, TelemetryTypeOK', BooksRight, TranscriptInvariant, TranscriptInvariant', FollowInvariant,
         Machinery, UNCHANGED viewVars
  PROVE  FollowInvariant'
<1>0. SegmentsOwn /\ TokensKept /\ TokensKept' /\ Chronicle /\ HeardRight /\ ViewsFollow
  BY DEF TranscriptInvariant, FollowInvariant
<1>1. scene.inputs \subseteq Calls /\ None \in Calls
  BY SceneTyped DEF TelemetryTypeOK
<1>2. ASSUME NEW x \in Agents, StartRun(x) PROVE FollowInvariant'
  BY <1>0, <1>2, StartRunChronicle, StartRunFollows DEF FollowInvariant
<1>3. ASSUME NEW r \in DOMAIN runs, NEW call \in Calls, NEW kind \in {"call", "tool"}, StartAct(r, kind, call)
      PROVE  FollowInvariant'
  BY <1>0, <1>3, StartActChronicle, StartActFollows DEF FollowInvariant
<1>4. ASSUME NEW r \in DOMAIN runs, NEW how \in RunEnds, EndRun(r, how) PROVE FollowInvariant'
  BY <1>0, <1>4, EndRunChronicle, EndRunFollows DEF FollowInvariant
<1>5. ASSUME NEW r \in DOMAIN runs, CancelRun(r) PROVE FollowInvariant'
  BY <1>0, <1>5, CancelRunChronicle, CancelRunFollows DEF FollowInvariant
<1>6. ASSUME NEW a \in DOMAIN acts, NEW type, EndAct(a, type) PROVE FollowInvariant'
  BY <1>0, <1>6, EndActChronicle, EndActFollows DEF FollowInvariant
<1>7. ASSUME NEW a \in DOMAIN acts, NEW kind \in Kinds, Token(a, kind) PROVE FollowInvariant'
  BY <1>0, <1>7, TokenChronicle, TokenFollows DEF FollowInvariant
<1>8. ASSUME NEW stored \in BOOLEAN, Write(stored) PROVE FollowInvariant'
  BY <1>0, <1>8, WriteChronicle, WriteFollows DEF FollowInvariant
<1>9. ASSUME Store \/ StoreRefuses PROVE FollowInvariant'
  <2>0. TRUE \in BOOLEAN /\ FALSE \in BOOLEAN
    OBVIOUS
  <2>1. CASE Store
    <3>1. Write(TRUE)
      BY <2>1, Zenon DEF Store
    <3> QED BY <2>0, <3>1, <1>8
  <2>2. CASE StoreRefuses
    <3>1. Write(FALSE)
      BY <2>2, Zenon DEF StoreRefuses
    <3> QED BY <2>0, <3>1, <1>8
  <2> QED BY <1>9, <2>1, <2>2
<1>10. "run_finished" \in RunEnds /\ "run_failed" \in RunEnds
  BY DEF RunEnds
<1> QED BY <1>1, <1>2, <1>3, <1>4, <1>5, <1>6, <1>7, <1>9, <1>10 DEF Machinery

-----------------------------------------------------------------------------
(* The app comes and goes, takes what is there, and lets its reader scroll. *)
LEMMA RestChronicle ==
  ASSUME Chronicle, UNCHANGED restVars
  PROVE  Chronicle'
<1>1. runs' = runs /\ acts' = acts /\ writing' = writing /\ scene' = scene /\ tokens' = tokens /\ harmed' = harmed
  BY DEF restVars
<1>2. ASSUME NEW q \in 1 .. Len(runs') PROVE RunFits(q)'
  BY <1>1 DEF Chronicle, RunFits
<1>3. ASSUME NEW a \in 1 .. Len(acts') PROVE ActFits(a)'
  BY <1>1 DEF Chronicle, ActFits
<1>4. ASSUME NEW d \in Evs(writing') PROVE EvFits(d, runs', acts')
  BY <1>1 DEF Chronicle
<1> QED BY <1>2, <1>3, <1>4 DEF Chronicle

(* Nothing changes for the view, *)
LEMMA RestFits ==
  ASSUME store \in Seq(AgentEvents), UNCHANGED restVars, NEW s, NEW r, Fits(s, r)
  PROVE  Fits(s, r)'
<1>1. store' = store /\ runs' = runs /\ acts' = acts /\ scene' = scene /\ tokens' = tokens /\ harmed' = harmed
  BY DEF restVars
<1> QED BY <1>1 DEF Fits

(* the app has been told of no run before it has subscribed, *)
LEMMA NobodyHears ==
  ASSUME heard' = {}, app' # "on" => queue' = None
  PROVE  HeardRight' /\ ViewsFollow'
<1>1. HeardRight'
  BY DEF HeardRight
<1>2. ViewsFollow'
  BY DEF ViewsFollow
<1> QED BY <1>1, <1>2

(* a reader who scrolls takes nothing, *)
LEMMA NothingTaken ==
  ASSUME TelemetryTypeOK, FollowInvariant, UNCHANGED restVars, queue' = queue, fleet' = fleet, app' = app
  PROVE  HeardRight' /\ ViewsFollow'
<1>1. HeardRight /\ ViewsFollow /\ store \in Seq(AgentEvents)
  BY DEF FollowInvariant, TelemetryTypeOK
<1>2. runs' = runs /\ acts' = acts /\ scene' = scene /\ heard' = heard
  BY DEF restVars
<1>3. HeardRight'
  BY <1>1, <1>2 DEF HeardRight
<1>4. ASSUME NEW r \in heard, IsNewest(r)' PROVE Followed(r)'
  <2>1. IsNewest(r)
    BY <1>2, <1>4 DEF IsNewest
  <2>2. PICK s : Ahead(scene.cast, fleet.states[runs[r].agent], queue, runs[r].agent, r, s) /\ Fits(s, r)
    BY <2>1, <1>1 DEF ViewsFollow, Followed
  <2>3. Fits(s, r)'
    BY <2>2, <1>1, RestFits
  <2> QED BY <2>2, <2>3, <1>2 DEF Followed
<1> QED BY <1>2, <1>3, <1>4 DEF ViewsFollow

(* and an item that is taken moves the view to where it was going. *)
LEMMA TakeItemFollows ==
  ASSUME LiveInvariant, FollowInvariant, TakeItem
  PROVE  HeardRight' /\ ViewsFollow'
<1>1. TelemetryTypeOK /\ ViewRight /\ Chronicle /\ HeardRight /\ ViewsFollow /\ store \in Seq(AgentEvents)
  BY DEF LiveInvariant, FollowInvariant, TelemetryTypeOK
<1>2. app = "on" /\ app' = app /\ fleet' = ApplyFleet(fleet, Head(queue)) /\ queue' = Tail(queue) /\ queue # <<>>
      /\ UNCHANGED restVars
  BY DEF TakeItem, restVars
<1>3. runs' = runs /\ scene' = scene /\ heard' = heard
  BY <1>2 DEF restVars
<1>4. PICK w \in Seq(Items) : w = queue /\ w # <<>>
  BY <1>1, <1>2 DEF ViewRight
<1>5. PICK item \in Items : item = Head(w)
  BY <1>4, HeadTailProperties
<1>6. HeardRight'
  BY <1>1, <1>2, <1>3 DEF HeardRight
<1>7. ASSUME NEW r \in heard, IsNewest(r)' PROVE Followed(r)'
  <2>1. IsNewest(r) /\ r \in 1 .. Len(runs)
    BY <1>1, <1>3, <1>7 DEF IsNewest, HeardRight
  <2>2. PICK x, c, s0 : x = runs[r].agent /\ c = scene.cast /\ s0 = fleet.states[x]
    OBVIOUS
  <2>3. c[r] = x
    BY <2>1, <2>2, <1>1 DEF Chronicle, RunFits
  <2>4. PICK s : Ahead(c, s0, w, x, r, s) /\ Fits(s, r)
    BY <2>1, <2>2, <1>1, <1>4 DEF ViewsFollow, Followed
  <2>5. PICK s1 : s1 = ViewAfter(c, s0, item, x)
    OBVIOUS
  <2>6. Ahead(c, s1, Tail(w), x, r, s)
    BY <2>3, <2>4, <2>5, <1>4, <1>5, AheadTaken
  <2>7. fleet'.states[x] = s1
    <3>1. x \in Agents
      BY <2>1, <2>2, <1>1, RunParts, Basics DEF RunRecords
    <3>2. fleet.states \in [Agents -> RunViews]
      BY <1>1 DEF ViewRight, FleetOK, Fleets
    <3>3. fleet' = ApplyFleet(fleet, item)
      BY <1>2, <1>4, <1>5
    <3>4. CASE ~Shown(item)
      BY <3>3, <3>4, <2>2, <2>5 DEF ApplyFleet, ViewAfter
    <3>5. CASE Shown(item)
      <4>1. PICK y, t : y = c[item.run] /\ t = ApplyBusItem(fleet.states[y], item)
        OBVIOUS
      <4>2. fleet' = SetRunState(fleet, y, t)
        BY <3>3, <3>5, <4>1, <2>2 DEF ApplyFleet
      <4>3. fleet'.states = [fleet.states EXCEPT ![y] = t]
        BY <4>2 DEF SetRunState
      <4>4. CASE y = x
        BY <3>1, <3>2, <3>5, <4>1, <4>3, <4>4, <2>2, <2>5 DEF ViewAfter
      <4>5. CASE y # x
        BY <3>1, <3>2, <4>1, <4>3, <4>5, <2>2, <2>5 DEF ViewAfter
      <4> QED BY <4>4, <4>5
    <3> QED BY <3>4, <3>5
  <2>8. Fits(s, r)'
    BY <2>4, <1>1, <1>2, RestFits
  <2>9. queue' = Tail(w)
    BY <1>2, <1>4
  <2> QED BY <2>2, <2>6, <2>7, <2>8, <2>9, <1>3 DEF Followed
<1> QED BY <1>3, <1>6, <1>7 DEF ViewsFollow

(* In the beginning there is no run. *)
LEMMA ViewInitially ==
  ASSUME LiveInit
  PROVE  FollowInvariant
<1>1. /\ runs = <<>> /\ acts = <<>> /\ writing = <<>> /\ heard = {} /\ queue = (IF scene.up THEN <<>> ELSE None)
      /\ app = (IF scene.up THEN "on" ELSE "off")
  BY DEF LiveInit, TelemetryInit
<1>2. Len(runs) = 0 /\ Len(acts) = 0 /\ Evs(writing) = {}
  BY <1>1, EmptySeq, EvsNone
<1>3. Chronicle
  BY <1>2 DEF Chronicle
<1>4. HeardRight /\ ViewsFollow
  BY <1>1 DEF HeardRight, ViewsFollow
<1> QED BY <1>3, <1>4 DEF FollowInvariant

(* Every step keeps it. *)
LEMMA ViewStep ==
  ASSUME LiveInvariant, TranscriptInvariant, FollowInvariant, [LiveNext]_liveVars
  PROVE  FollowInvariant'
<1>0. TelemetryTypeOK /\ BooksRight /\ Chronicle /\ HeardRight /\ ViewsFollow
  BY DEF LiveInvariant, FollowInvariant
<1>1. TelemetryTypeOK' /\ TranscriptInvariant'
  BY LiveStep, TranscriptStep DEF LiveInvariant
<1>2. CASE Machinery /\ UNCHANGED viewVars
  BY <1>0, <1>1, <1>2, MachineryFollows
<1>3. CASE Restart
  <2>1. Die
    BY <1>3 DEF Restart
  <2>2. Chronicle'
    BY <2>1, <1>0, DieChronicle
  <2>3. heard' = {} /\ queue' = None
    BY <2>1 DEF Die
  <2>4. HeardRight' /\ ViewsFollow'
    BY <2>3, NobodyHears
  <2> QED BY <2>2, <2>4 DEF FollowInvariant
<1>4. CASE ReadTail
  <2>1. UNCHANGED restVars /\ app = "off" /\ app' = "read" /\ queue' = queue /\ heard' = heard
    BY <1>4 DEF ReadTail, telemetryVars, restVars
  <2>2. heard' = {} /\ queue' = None
    BY <2>1, <1>0 DEF HeardRight
  <2> QED BY <2>1, <2>2, <1>0, NobodyHears, RestChronicle DEF FollowInvariant
<1>5. CASE Subscribe
  <2>1. UNCHANGED restVars /\ app = "read" /\ app' = "on" /\ heard' = heard
    BY <1>5 DEF Subscribe, restVars
  <2>2. heard' = {}
    BY <2>1, <1>0 DEF HeardRight
  <2> QED BY <2>1, <2>2, <1>0, NobodyHears, RestChronicle DEF FollowInvariant
<1>6. CASE TakeItem
  <2>1. UNCHANGED restVars
    BY <1>6 DEF TakeItem, restVars
  <2> QED BY <2>1, <1>0, <1>6, TakeItemFollows, RestChronicle DEF FollowInvariant
<1>7. ASSUME NEW b \in BOOLEAN, Scroll(b) PROVE FollowInvariant'
  <2>1. UNCHANGED restVars /\ app' = app /\ queue' = queue /\ fleet' = fleet
    BY <1>7 DEF Scroll, telemetryVars, restVars
  <2> QED BY <2>1, <1>0, NothingTaken, RestChronicle DEF FollowInvariant
<1>8. CASE UNCHANGED liveVars
  <2>1. UNCHANGED restVars /\ app' = app /\ queue' = queue /\ fleet' = fleet
    BY <1>8 DEF liveVars, viewVars, telemetryVars, restVars
  <2> QED BY <2>1, <1>0, NothingTaken, RestChronicle DEF FollowInvariant
<1>9. TRUE \in BOOLEAN /\ FALSE \in BOOLEAN
  OBVIOUS
<1> QED BY <1>2, <1>3, <1>4, <1>5, <1>6, <1>7, <1>8, <1>9, Zenon DEF LiveNext

(* The app is always on its way to a right view of each run it was told of. *)
THEOREM ViewsCorrect == LiveSpec => []FollowInvariant
<1>1. LiveInit => FollowInvariant
  BY ViewInitially
<1>2. LiveInvariant /\ TranscriptInvariant /\ FollowInvariant /\ [LiveNext]_liveVars => FollowInvariant'
  BY ViewStep
<1> QED BY <1>1, <1>2, LiveCorrect, TranscriptCorrect, PTL DEF LiveSpec

-----------------------------------------------------------------------------
(* The newest run of an agent is there. *)
LEMMA NewestIs ==
  ASSUME TelemetryTypeOK, NEW x \in {runs[r].agent : r \in DOMAIN runs}
  PROVE  LET r == Newest(x) IN r \in DOMAIN runs /\ runs[r].agent = x /\ IsNewest(r)
<1>1. PICK n \in Nat : n = Len(runs) /\ DOMAIN runs = 1 .. n
  BY Basics
<1>2. PICK r0 \in 1 .. n : runs[r0].agent = x
  BY <1>1
<1>3. PICK T : T = {m \in Nat : m <= n /\ \A q \in 1 .. n : runs[q].agent = x => q <= m}
  OBVIOUS
<1>4. n \in T
  BY <1>3
<1>5. PICK m \in T : \A k \in T : m <= k
  BY <1>3, <1>4, LeastNumber
<1>6. m \in Nat /\ m <= n /\ r0 <= m
  BY <1>2, <1>3, <1>5
<1>7. m \in 1 .. n
  BY <1>6
<1>8. runs[m].agent = x
  <2> SUFFICES ASSUME runs[m].agent # x PROVE FALSE
    OBVIOUS
  <2>1. PICK k \in Nat : m = k + 1
    <3>1. m - 1 \in Nat /\ m = (m - 1) + 1
      BY <1>7
    <3> QED BY <3>1
  <2>2. ASSUME NEW q \in 1 .. n, runs[q].agent = x PROVE q <= k
    <3>1. q <= m /\ q # m
      BY <2>2, <1>3, <1>5, <2>1
    <3> QED BY <3>1, <2>1
  <2>3. k \in T
    BY <2>1, <2>2, <1>3, <1>6
  <2> QED BY <2>1, <2>3, <1>5
<1>9. \A q \in 1 .. n : runs[q].agent = x => q <= m
  BY <1>3, <1>5
<1>10. m \in DOMAIN runs /\ runs[m].agent = x /\ \A q \in DOMAIN runs : runs[q].agent = x => q <= m
  BY <1>1, <1>7, <1>8, <1>9
<1>11. PICK r : r = Newest(x)
  OBVIOUS
<1>12. r \in DOMAIN runs /\ runs[r].agent = x /\ \A q \in DOMAIN runs : runs[q].agent = x => q <= r
  BY <1>10, <1>11 DEF Newest
<1> QED BY <1>1, <1>11, <1>12 DEF IsNewest

(* What fits a run that has nothing more to tell shows all of it. *)
LEMMA FitShows ==
  ASSUME TelemetryTypeOK, Chronicle, HeardRight, writing = <<>>, NEW r \in heard, NEW s, Fits(s, r)
  PROVE  /\ s.run = r /\ StatusRight(s, r) /\ OutputsRight(s, r)
         /\ r \notin harmed => ToolsRight(s, r) /\ TextRight(s, r)
<1>1. /\ s \in RunViews /\ s.run = r /\ StatusFit(s.status, runs[r]) /\ OutputsFit(s.blocks, store, r)
      /\ NotCut(acts, r) => ToolsFit(s.blocks, acts, r)
      /\ r \notin harmed => TextOf(s.blocks) = 1 .. tokens[r]
  BY DEF Fits
<1>2. r \in DOMAIN runs /\ runs[r].st # "starting" /\ DOMAIN acts = 1 .. Len(acts)
  BY Basics DEF HeardRight
<1>3. PICK b \in Seq(Blocks) : b = s.blocks /\ DOMAIN b = 1 .. Len(b)
  BY <1>1, RunViewParts, ElementOfSeq
<1>4. StatusRight(s, r)
  <2>1. runs[r].st \in {"live", "ending", "over", "gone"}
    BY <1>2, RunParts
  <2> QED BY <2>1, <1>1 DEF StatusFit, StatusRight
<1>5. OutputsRight(s, r)
  <2> SUFFICES ASSUME NEW c \in ToSet(b), c.kind = "tool", c.seq > 0
               PROVE  store[c.seq].run = r /\ store[c.seq].call = c.call /\ store[c.seq].type \in ActEnds["tool"]
    BY <1>3 DEF OutputsRight
  <2>1. PICK k \in 1 .. Len(b) : c = b[k]
    BY <1>3 DEF ToSet
  <2> QED BY <2>1, <1>1, <1>3 DEF OutputsFit
<1>6. ASSUME r \notin harmed PROVE TextRight(s, r)
  BY <1>1, <1>3, <1>6 DEF TextRight, TextOf
<1>7. ASSUME r \notin harmed PROVE ToolsRight(s, r)
  <2>1. Evs(writing) = {}
    BY EvsNone
  <2>2. \A a \in 1 .. Len(acts) : acts[a].st \notin {"starting", "ending"}
    BY <2>1 DEF Chronicle, ActFits
  <2>3. NotCut(acts, r)
    BY <1>7 DEF NotCut, Chronicle, ActFits
  <2>4. ToolsFit(b, acts, r)
    BY <2>3, <1>1, <1>3
  <2> SUFFICES ASSUME NEW i \in scene.inputs
               PROVE  /\ Cardinality(CallsShown(s, i)) = Cardinality(Tools(r, i, {"open", "over"}))
                      /\ Cardinality({k \in RunningTools(s) : s.blocks[k].call = i}) = Cardinality(Tools(r, i, {"open"}))
    BY DEF ToolsRight
  <2>5. CallsShown(s, i) = CallsOf(b, i)
    <3>1. {k \in DOMAIN s.blocks : s.blocks[k].kind = "tool" /\ s.blocks[k].call = i} = ToolBlocks(b, i)
      BY <1>3 DEF ToolBlocks
    <3> QED BY <3>1, <1>3 DEF CallsShown, CallsOf
  <2>6. {k \in RunningTools(s) : s.blocks[k].call = i} = RunningOf(b, i)
    BY <1>3 DEF RunningTools, RunningOf, ToolBlocks
  <2>7. Tools(r, i, {"open", "over"}) = ToolsOf(acts, r, i, Called)
    BY <2>2, <1>2 DEF Tools, ToolsOf, Called
  <2>8. Tools(r, i, {"open"}) = ToolsOf(acts, r, i, Unanswered)
    BY <2>2, <1>2 DEF Tools, ToolsOf, Unanswered
  <2> QED BY <2>4, <2>5, <2>6, <2>7, <2>8 DEF ToolsFit
<1> QED BY <1>1, <1>4, <1>5, <1>6, <1>7

(* When all that was published has been taken, the app shows the newest run of every agent
   as it is, if nothing of it was lost on the way. *)
THEOREM ViewAlwaysRight == LiveSpec => []ViewIsRight
<1>1. LiveInvariant /\ FollowInvariant => ViewIsRight
  <2> SUFFICES ASSUME LiveInvariant, FollowInvariant, app = "on", queue = <<>>, writing = <<>>,
                      NEW x \in {runs[r].agent : r \in DOMAIN runs}, NEW r, r = Newest(x), r \in heard,
                      NEW state, state = fleet.states[x]
               PROVE  /\ state.run = r /\ StatusRight(state, r) /\ OutputsRight(state, r)
                      /\ r \notin harmed => ToolsRight(state, r) /\ TextRight(state, r)
    BY DEF ViewIsRight
  <2>1. TelemetryTypeOK /\ Chronicle /\ HeardRight /\ ViewsFollow
    BY DEF LiveInvariant, FollowInvariant
  <2>2. r \in DOMAIN runs /\ runs[r].agent = x /\ IsNewest(r)
    BY <2>1, NewestIs
  <2>3. PICK s : Ahead(scene.cast, state, <<>>, x, r, s) /\ Fits(s, r)
    BY <2>1, <2>2 DEF ViewsFollow, Followed
  <2>4. s = state
    BY <2>3, AheadNow
  <2> QED BY <2>1, <2>3, <2>4, FitShows
<1> QED BY <1>1, LiveCorrect, ViewsCorrect, PTL
=============================================================================
