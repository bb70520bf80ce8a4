--------------------------- MODULE WeakFinalProofs ---------------------------
(***************************************************************************)
(* Proofs about finalisation and weak arrays on top of the major           *)
(* collector.  In a program without weak arrays, neither a finalisation    *)
(* function nor a value that awaits one is freed, and a function is called *)
(* only for a value the program has lost.  In a program without finalisers,*)
(* a weak pointer leads to an allocated block, and it is erased only when  *)
(* the program has lost that block.  With both, a value that is revived    *)
(* after weak2 may hold a weak array that is off the list, so neither half *)
(* holds without its hypothesis.                                           *)
(*                                                                         *)
(* The steps of finalise.c and weak.c are read as steps of the collector   *)
(* of MajorGC for which the finalisers are further roots, and the values   *)
(* that caml_final_update darkens are roots that are still to be visited:  *)
(* the invariant of that collector is then used through an instance of its *)
(* proofs.                                                                 *)
(***************************************************************************)
EXTENDS WeakFinal, SequenceTheorems, FiniteSetTheorems, WellFoundedInduction, TLAPS

FinalVals == {e.val : e \in ToSet(final_table)} \ {Nil}

\* From caml_final_update to the end of the cycle the values of the finalisable set are
\* kept as well.
Settled == pc = "final" \/ phase = "sweep" \/ (phase = "mark" /\ subphase = "final")

AllRoots == roots \cup FinalRoots \cup (IF Settled THEN FinalVals ELSE {})

ToDarken == {v \in ToSet(to_darken) : White(v)}

B == INSTANCE MajorGCProofs
     WITH Tags    <- AllTags,
          roots   <- AllRoots,
          pc      <- IF pc = "final" THEN "roots" ELSE pc,
          phase   <- IF pc = "final" THEN "idle" ELSE phase,
          pending <- IF pc = "final" THEN ToDarken ELSE pending

Entry == [fun : Value, val : Value]

FTypeOK ==
  /\ final_table \in Seq(Entry) /\ to_do \in Seq(Entry) /\ to_darken \in Seq(Value)
  /\ pending \subseteq Block /\ subphase \in {"main", "weak1", "weak2", "final"}

FControl ==
  /\ pc = "final" => phase = "mark" /\ markhp = NULL
  /\ pc # "final" => to_darken = <<>>
  /\ pc # "roots" => pending = {}

\* The invariant of the collector with the finalisers as roots.
Core == FTypeOK /\ FControl /\ B!IInv /\ FinalVals \cap Colored("blue") = {}

\* The program has no weak array.
NoWeakArray ==
  /\ weak_list_head = Nil /\ weak_prev = Nil
  /\ \A b \in Block : color[b] # "blue" => tag[b] # "Abstract"

FInv == Core /\ NoWeakArray

\* A step frees no block and allocates no weak array.
Others ==
  \A b \in Block :
    IF color[b] # "blue"
    THEN color'[b] # "blue" /\ (tag'[b] = "Abstract" <=> tag[b] = "Abstract")
    ELSE color'[b] # "blue" => tag'[b] # "Abstract"

\* It is a step of the collector of MajorGC, or one that collector does not see.
Seen == [B!Next]_(B!vars) /\ Others

-----------------------------------------------------------------------------
(* The invariant of the weak arrays, in a program without finalisers.      *)

NoFinal == final_table = <<>> /\ to_do = <<>> /\ to_darken = <<>>

WTypeOK == weak_next \in [Block -> Value] /\ weak \in [Block -> Value]

\* Weak pointers have been erased and dead arrays are being unlinked or freed.
Late == phase = "sweep" \/ (phase = "mark" /\ subphase \in {"weak2", "final"})

\* What the cycle keeps, once marking is over.
KeptNow == IF phase = "sweep" THEN Live ELSE Colored("black")

\* What the cycle is bound to keep, while marking may still resume.
Keep == Colored("gray") \cup Colored("black") \cup B!ToMark

\* Marking does not resume after the subphase weak1.
MarkingOver == Late /\ phase = "mark" => pc # "scan" /\ Colored("gray") = {}

\* q is the list of weak arrays.
Listed(q) ==
  /\ \A i, k \in 1..Len(q) : q[i] = q[k] => i = k
  /\ weak_list_head = IF Len(q) = 0 THEN Nil ELSE q[1]
  /\ \A k \in 1..Len(q) : /\ q[k] \in WeakArray
                           /\ weak_next[q[k]] = IF k = Len(q) THEN Nil ELSE q[k + 1]

\* weak_prev holds the position p of the list.
Passed(q, p) ==
  /\ phase = "mark" /\ subphase \in {"weak1", "weak2"} => weak_prev = IF p = 0 THEN Nil ELSE q[p]
  /\ pc = "final" => p = Len(q) /\ subphase = "weak2"

\* The list misses no array that is kept.
Complete(q) ==
  \A a \in WeakArray : (Late => a \in KeptNow) => \E k \in 1..Len(q) : q[k] = a

\* Weak pointers that have been visited lead to blocks that are kept.
PointersKept(q, p) ==
  /\ phase # "sweep" => \A a \in WeakArray : weak[a] \notin Colored("blue")
  /\ phase = "mark" /\ subphase = "weak1" => \A k \in 1..p : weak[q[k]] \in Keep \cup {Nil}
  /\ Late => \A k \in 1..Len(q) : weak[q[k]] \in KeptNow \cup {Nil}

\* Arrays that are still on the list are kept.
ArraysKept(q, p) ==
  /\ phase = "mark" /\ subphase = "weak2" => \A k \in 1..p : color[q[k]] = "black"
  /\ phase = "sweep" \/ (phase = "mark" /\ subphase = "final") =>
       \A k \in 1..Len(q) : q[k] \in KeptNow

WeakPart(q, p) ==
  Listed(q) /\ Passed(q, p) /\ Complete(q) /\ PointersKept(q, p) /\ ArraysKept(q, p)

WInv ==
  /\ Core /\ NoFinal /\ WTypeOK /\ MarkingOver
  /\ \E q \in Seq(Block) : \E p \in 0..Len(q) : WeakPart(q, p)

-----------------------------------------------------------------------------
\* What the step lemmas use of the invariant.
LEMMA Facts ==
  ASSUME Core
  PROVE  /\ B!IInv /\ B!TypeOK /\ B!Control
         /\ AllRoots \subseteq Block /\ roots \subseteq Block
         /\ color \in [Block -> {"white", "gray", "black", "blue"}]
         /\ tag \in [Block -> AllTags] /\ field \in [Block -> [Fields -> Value]]
         /\ phase \in {"idle", "mark", "sweep"}
         /\ pc \in {"mutator", "roots", "mark", "scan", "sweep", "final"}
         /\ pc = "roots" => phase = "idle"
         /\ pc \in {"mark", "scan"} => phase = "mark"
         /\ pc = "sweep" => phase = "sweep"
<1>1. B!IInv /\ B!TypeOK /\ B!Control /\ FControl
  BY DEF Core, B!IInv
<1>2. /\ AllRoots \subseteq Block
      /\ color \in [Block -> {"white", "gray", "black", "blue"}]
      /\ tag \in [Block -> AllTags] /\ field \in [Block -> [Fields -> Value]]
  BY <1>1 DEF B!TypeOK, B!Block, B!Fields, B!Value, B!Nil, B!AllTags, AllTags, Block, Fields, Value, Nil
<1>3. roots \subseteq Block BY <1>2 DEF AllRoots
<1>4. /\ pc = "final" => phase = "mark"
      /\ pc # "final" => /\ phase \in {"idle", "mark", "sweep"}
                         /\ pc \in {"mutator", "roots", "mark", "scan", "sweep"}
                         /\ pc = "roots" => phase = "idle"
                         /\ pc \in {"mark", "scan"} => phase = "mark"
                         /\ pc = "sweep" => phase = "sweep"
  BY <1>1 DEF B!TypeOK, B!Control, FControl
<1> QED BY <1>1, <1>2, <1>3, <1>4

\* A step that the collector of MajorGC could take, or that it does not see,
\* keeps the invariant of that collector.
LEMMA BarStep ==
  ASSUME Core, [B!Next]_(B!vars)
  PROVE  B!IInv'
BY B!InvariantStep, HeapAssumption, TagAssumption, GrayAssumption DEF Core, AllTags, B!AllTags

\* A step that changes neither the finalisers nor the roots.
LEMMA SameRoots ==
  ASSUME UNCHANGED <<roots, final_table, to_do>>, Settled' = Settled
  PROVE  AllRoots' = AllRoots /\ FinalVals' = FinalVals
BY DEF AllRoots, FinalRoots, FinalVals

\* A step that leaves the finalisers alone.
LEMMA Kept ==
  ASSUME Core, Seen, UNCHANGED finalvars, subphase' \in {"main", "weak1", "weak2", "final"},
         FControl', pending' \subseteq Block
  PROVE  Core'
<1>1. FTypeOK' BY DEF Core, FTypeOK, finalvars
<1>2. (FinalVals \cap Colored("blue") = {})'
  BY DEF Core, Seen, Others, FinalVals, Colored, finalvars
<1>3. B!IInv' BY BarStep DEF Seen
<1> QED BY <1>1, <1>2, <1>3 DEF Core

\* Darkening is the same for both collectors, and frees nothing.
LEMMA DarkenSeen ==
  ASSUME Core, NEW v \in Value, caml_darken(v)
  PROVE  /\ B!caml_darken(v)
         /\ \A x \in Block : color[x] # "blue" <=> color'[x] # "blue"
<1> USE DEF B!Nil, Nil, B!Scannable, Scannable
<1>1. B!caml_darken(v)
  BY DEF caml_darken, B!caml_darken, Shade, B!Shade, Push, B!Push,
     realloc_gray_vals, B!realloc_gray_vals, stack, B!stack
<1>2. \A x \in Block : color[x] # "blue" <=> color'[x] # "blue"
  BY Facts DEF caml_darken, Shade, Value
<1> QED BY <1>1, <1>2

-----------------------------------------------------------------------------
(* The mutator.                                                            *)

\* Every step of the mutator is one of the mutator of MajorGC, or is not seen:
\* a block that is dropped may still be held by a finaliser.
LEMMA MutatorStep ==
  ASSUME Core, Mutator, UNCHANGED <<weakvars, subphase, finalvars>>
  PROVE  Core' /\ Seen
<1> USE DEF B!Block, Block, B!Fields, Fields, B!Nil, Nil, B!Slots, Slots, B!Scannable, Scannable
<1>0. /\ pc = "mutator" /\ UNCHANGED gcvars
  BY DEF Mutator, Alloc, caml_modify, SetForward, Load, Drop
<1>1. /\ pc' = "mutator" /\ phase' = phase /\ pending' = pending /\ Settled' = Settled
      /\ FinalRoots' = FinalRoots /\ FinalVals' = FinalVals
      /\ UNCHANGED <<markhp, sweep_hp, scan_v, scan_i>>
  BY <1>0 DEF gcvars, Settled, FinalRoots, FinalVals, finalvars
<1>2. roots \subseteq AllRoots /\ roots \subseteq Block /\ Block = 1..N
  BY Facts DEF AllRoots, Block
<1>3. /\ \A R : roots' = roots \cup R => AllRoots' = AllRoots \cup R
      /\ roots' = roots => AllRoots' = AllRoots
  BY <1>1 DEF AllRoots
<1> USE <1>0, <1>1
<1>u. B!gcvars' = B!gcvars
  BY DEF B!gcvars, gcvars
<1>4. ASSUME NEW b \in Block, NEW t \in Tags, NEW init \in [Fields -> roots \cup {Nil}],
             Alloc(b, t, init)
      PROVE  /\ B!Mutator
             /\ Others
  <2>1. init \in [Fields -> AllRoots \cup {Nil}] BY <1>2
  <2>2. B!Alloc(b, t, init)
    BY <1>u, <1>3, <1>4 DEF Alloc, B!Alloc, caml_allocation_color, B!caml_allocation_color,
       stack, B!stack
  <2>3. Others
    BY <1>4, Facts, WeakTag DEF Alloc, caml_allocation_color, Others
  <2> QED BY TagAssumption, <2>1, <2>2, <2>3 DEF B!Mutator
<1>5. ASSUME NEW b \in roots, NEW i \in Fields, NEW val \in roots \cup {Nil},
             caml_modify(b, i, val)
      PROVE  /\ B!Mutator
             /\ Others
  <2>1. field[b][i] \in Value BY <1>2, Facts
  <2>2. /\ B!caml_modify(b, i, val)
        /\ \A x \in Block : color[x] # "blue" <=> color'[x] # "blue"
    BY <2>1, DarkenSeen, <1>u, <1>3, <1>5 DEF caml_modify, B!caml_modify, stack, B!stack
  <2>3. Others
    BY <2>2, <1>5 DEF caml_modify, Others
  <2> QED BY <1>2, <2>2, <2>3 DEF B!Mutator
<1>6. ASSUME NEW b \in roots, SetForward(b)
      PROVE  /\ B!Mutator
             /\ Others
  <2>1. B!SetForward(b)
    BY <1>u, <1>3, <1>6 DEF SetForward, B!SetForward, stack, B!stack
  <2>2. Others
    BY <1>6, Facts DEF SetForward, Others
  <2> QED BY <1>2, <2>1, <2>2 DEF B!Mutator
<1>7. ASSUME NEW b \in roots, Load(b) \/ Drop(b)
      PROVE  /\ B!Mutator \/ UNCHANGED B!vars
             /\ Others
  <2>1. UNCHANGED <<color, tag, field, stack>> BY <1>7 DEF Load, Drop
  <2>2. CASE Load(b)
    <3>1. PICK c \in Succ(b) : roots' = roots \cup {c} BY <2>2 DEF Load
    <3>2. c \in B!Succ(b) BY <3>1 DEF Succ, B!Succ
    <3>3. AllRoots' = AllRoots \cup {c} BY <3>1, <1>3
    <3>4. B!Load(b) BY <2>1, <3>2, <3>3, <1>u DEF B!Load, stack, B!stack
    <3> QED BY <1>2, <3>4, <2>1 DEF B!Mutator, Others
  <2>3. CASE Drop(b)
    <3>1. roots' = roots \ {b} BY <2>3 DEF Drop
    <3>2. CASE b \in FinalRoots \cup (IF Settled THEN FinalVals ELSE {})
      <4>1. AllRoots' = AllRoots BY <3>1, <3>2 DEF AllRoots
      <4>2. UNCHANGED B!vars BY <2>1, <4>1 DEF B!vars, stack, B!stack
      <4> QED BY <4>2, <2>1 DEF Others
    <3>3. CASE b \notin FinalRoots \cup (IF Settled THEN FinalVals ELSE {})
      <4>1. AllRoots' = AllRoots \ {b} BY <3>1, <3>3 DEF AllRoots
      <4>2. B!Drop(b) BY <2>1, <4>1, <1>u DEF B!Drop, stack, B!stack
      <4> QED BY <1>2, <4>2, <2>1 DEF B!Mutator, Others
    <3> QED BY <3>2, <3>3
  <2> QED BY <1>7, <2>2, <2>3
<1>8. /\ B!Mutator \/ UNCHANGED B!vars
      /\ Others
  BY <1>4, <1>5, <1>6, <1>7 DEF Mutator
<1>9. Seen BY <1>8 DEF B!Next, Seen, Others
<1>10. FControl' /\ pending' \subseteq Block /\ subphase' \in {"main", "weak1", "weak2", "final"}
  BY DEF Core, FControl, FTypeOK, finalvars
<1> QED BY <1>9, <1>10, Kept

\* The mutator has no weak array to use.
LEMMA NoWeakStep ==
  ASSUME NoWeakArray, MaxWeak = 0
  PROVE  /\ WeakArray = {}
         /\ \A b \in Block : ~caml_weak_create(b)
         /\ Cur = Nil
<1>1. WeakArray = {} BY DEF NoWeakArray, WeakArray
<1>2. Cardinality(WeakArray) = 0 BY <1>1, FS_EmptySet
<1> QED BY <1>1, <1>2 DEF caml_weak_create, Cur, NoWeakArray

\* A registration adds to the finalisers what is a root already.
LEMMA RegisterStep ==
  ASSUME Core, NEW f \in roots \cup {Nil}, NEW v \in roots, caml_final_register(f, v)
  PROVE  Core'
<1> DEFINE e == [fun |-> f, val |-> v]
<1>1. /\ final_table' = Append(final_table, e) /\ UNCHANGED <<to_do, to_darken, roots, color, pc, phase, subphase>>
      /\ UNCHANGED <<vars, weakvars>> /\ pc = "mutator"
  BY DEF caml_final_register, vars
<1>2. e \in Entry /\ v # Nil /\ final_table \in Seq(Entry)
  BY Facts DEF Entry, Value, Core, FTypeOK, Block, Nil
<1>3. ToSet(final_table') = ToSet(final_table) \cup {e} /\ final_table' \in Seq(Entry)
  BY <1>1, <1>2 DEF ToSet
<1>4. e.fun = f /\ e.val = v OBVIOUS
<1> HIDE DEF e
<1>5. FinalVals' = FinalVals \cup {v}
  BY <1>2, <1>3, <1>4 DEF FinalVals
<1>6. FinalRoots' = FinalRoots \cup ({f} \ {Nil})
  BY <1>1, <1>2, <1>3, <1>4 DEF FinalRoots
<1>7. Settled' = Settled BY <1>1 DEF Settled
<1>8. AllRoots' = AllRoots
  BY <1>1, <1>5, <1>6, <1>7 DEF AllRoots
<1>9. UNCHANGED B!vars
  BY <1>1, <1>8 DEF B!vars, B!stack, stack, vars
<1>10. B!IInv' BY <1>9, BarStep
<1>11. v \in Block /\ color[v] # "blue"
  <2>1. v \in AllRoots BY DEF AllRoots
  <2>2. AllRoots \subseteq B!Live BY DEF Core, B!IInv, B!LiveClosed
  <2> QED BY <2>1, <2>2, Facts DEF B!Live
<1>12. FTypeOK' /\ FControl'
  BY <1>1, <1>3 DEF Core, FTypeOK, FControl, vars
<1>13. (FinalVals \cap Colored("blue") = {})'
  BY <1>1, <1>5, <1>11 DEF Core, Colored
<1> QED BY <1>10, <1>12, <1>13 DEF Core

\* A call takes the function and its argument from the finalising set to the
\* stack.
LEMMA CallStep ==
  ASSUME Core, caml_final_do_calls
  PROVE  Core'
<1> DEFINE h == Head(to_do)
<1>1. /\ roots' = (roots \cup {h.fun, h.val}) \ {Nil} /\ to_do' = Tail(to_do) /\ to_do # <<>>
      /\ UNCHANGED <<color, tag, field, stack, gcvars, weakvars, subphase, final_table, to_darken>>
      /\ pc = "mutator"
  BY DEF caml_final_do_calls
<1>2. /\ to_do \in Seq(Entry) /\ Nil \notin roots
  BY Facts DEF Core, FTypeOK, Block, Nil
<1>3. ToSet(to_do) = ToSet(to_do') \cup {h} /\ to_do' \in Seq(Entry)
  <2>1. Len(to_do) \in Nat /\ Len(to_do) >= 1 /\ h = to_do[1] BY <1>1, <1>2
  <2>2. Len(to_do') = Len(to_do) - 1 /\ \A k \in 1..Len(to_do') : to_do'[k] = to_do[k + 1]
    BY <1>1, <1>2
  <2>3. to_do' \in Seq(Entry) BY <1>1, <1>2
  <2>4. ToSet(to_do) \subseteq ToSet(to_do') \cup {h}
    <3> SUFFICES ASSUME NEW k \in 1..Len(to_do), to_do[k] # h
                 PROVE  to_do[k] \in ToSet(to_do')
      BY <1>2 DEF ToSet
    <3>1. k - 1 \in 1..Len(to_do') /\ (k - 1) + 1 = k BY <2>1, <2>2
    <3> QED BY <3>1, <2>2, <2>3 DEF ToSet
  <2>5. ToSet(to_do') \cup {h} \subseteq ToSet(to_do)
    <3>1. h \in ToSet(to_do) BY <2>1, <1>2 DEF ToSet
    <3>2. ASSUME NEW k \in 1..Len(to_do') PROVE to_do'[k] \in ToSet(to_do)
      <4>1. k + 1 \in 1..Len(to_do) /\ to_do'[k] = to_do[k + 1] BY <2>1, <2>2
      <4> QED BY <4>1, <1>2 DEF ToSet
    <3> QED BY <3>1, <3>2, <2>3 DEF ToSet
  <2> QED BY <2>3, <2>4, <2>5
<1> HIDE DEF h
<1>4. roots' \cup FinalRoots' = roots \cup FinalRoots
  BY <1>1, <1>2, <1>3 DEF FinalRoots
<1>5. Settled' = Settled /\ FinalVals' = FinalVals
  BY <1>1 DEF Settled, FinalVals, gcvars
<1>6. AllRoots' = AllRoots
  BY <1>4, <1>5 DEF AllRoots
<1>7. UNCHANGED B!vars
  BY <1>1, <1>6 DEF B!vars, B!stack, stack, gcvars
<1>8. B!IInv' BY <1>7, BarStep
<1>9. FTypeOK' /\ FControl'
  BY <1>1, <1>3 DEF Core, FTypeOK, FControl, gcvars
<1>10. (FinalVals \cap Colored("blue") = {})'
  BY <1>1, <1>5 DEF Core, Colored
<1> QED BY <1>8, <1>9, <1>10 DEF Core

-----------------------------------------------------------------------------
(* Marking.                                                                *)

\* A slice visits the finalisers' roots as it does the others.
LEMMA StartStep ==
  ASSUME Core, StartSliceF
  PROVE  Core' /\ Seen
<1>1. /\ pc = "mutator" /\ pc' \in {"roots", "mark", "sweep"}
      /\ UNCHANGED <<color, tag, field, roots, stack, markhp, phase, sweep_hp, scan_v, scan_i,
                     weakvars, subphase, finalvars>>
      /\ pc' = "roots" => phase = "idle" /\ pending' = roots \cup FinalRoots
      /\ pc' # "roots" => pending' = pending /\ phase = pc'
  BY Facts DEF StartSliceF
<1>2. Settled' = Settled /\ (phase = "idle" => ~Settled)
  BY <1>1 DEF Settled
<1>3. AllRoots' = AllRoots BY <1>1, <1>2, SameRoots DEF finalvars
<1>4. phase = "idle" => AllRoots = roots \cup FinalRoots BY <1>2 DEF AllRoots
<1>5. B!StartSlice
  BY <1>1, <1>3, <1>4 DEF B!StartSlice, B!stack, stack
<1>6. Seen BY <1>1, <1>5 DEF B!Next, Seen, Others
<1>7. pending' \subseteq Block BY <1>1, <1>4, Facts DEF Core, FTypeOK
<1>8. FControl' BY <1>1 DEF Core, FControl, finalvars
<1> QED BY <1>1, <1>6, <1>7, <1>8, Kept DEF Core, FTypeOK

LEMMA CycleStep ==
  ASSUME Core, CycleStartedF
  PROVE  Core' /\ Seen
<1>1. /\ pc = "roots" /\ phase = "idle" /\ phase' = "mark" /\ subphase' = "main"
      /\ pc' \in {"mark", "mutator"} /\ pending = {} /\ markhp' = NULL
      /\ UNCHANGED <<color, tag, field, roots, stack, sweep_hp, pending, scan_v, scan_i,
                     weakvars, finalvars>>
  BY Facts DEF CycleStartedF, CycleStarted, Yield
<1>2. Settled' = Settled BY <1>1 DEF Settled
<1>3. AllRoots' = AllRoots BY <1>1, <1>2, SameRoots DEF finalvars
<1>4. B!CycleStarted
  BY <1>1, <1>3 DEF B!CycleStarted, B!Yield, B!NULL, NULL, B!stack, stack
<1>5. Seen BY <1>1, <1>4 DEF B!Next, B!Collector, Seen, Others
<1>6. FControl' BY <1>1 DEF Core, FControl, finalvars
<1> QED BY <1>1, <1>5, <1>6, Kept DEF Core, FTypeOK

\* A step of marking proper is one of MajorGC.
LEMMA MarkStepKeeps ==
  ASSUME Core, MarkStep
  PROVE  Core' /\ Seen
<1> USE DEF B!Block, Block, B!Fields, Fields, B!Nil, Nil, B!NULL, NULL, B!Scannable, Scannable
<1>1. /\ pc \in {"roots", "mark", "scan"} /\ pc' \in {"roots", "mark", "scan", "mutator"}
      /\ UNCHANGED <<tag, roots, phase, sweep_hp, weakvars, subphase, finalvars>>
      /\ pc # "roots" => pending' = pending /\ pc' # "roots"
      /\ pc = "roots" => pc' = "roots"
      /\ pending' \subseteq pending
  BY DEF MarkStep, DarkenRoot, MarkPop, MarkField, MarkHeap, MarkImpure, Yield
<1>2. Settled' = Settled BY <1>1 DEF Settled
<1>3. AllRoots' = AllRoots BY <1>1, <1>2, SameRoots DEF finalvars
<1>4. pending \subseteq Block BY DEF Core, FTypeOK
<1>5. ASSUME NEW v \in pending, DarkenRoot(v)
      PROVE  B!Collector /\ \A x \in Block : color[x] # "blue" <=> color'[x] # "blue"
  <2>1. v \in Value BY <1>4 DEF Value
  <2>2. /\ B!caml_darken(v) /\ \A x \in Block : color[x] # "blue" <=> color'[x] # "blue"
    BY <2>1, <1>5, DarkenSeen DEF DarkenRoot
  <2>3. B!DarkenRoot(v)
    BY <2>2, <1>1, <1>3, <1>5 DEF DarkenRoot, B!DarkenRoot
  <2>4. pc # "final" BY <1>5 DEF DarkenRoot
  <2> QED BY <2>2, <2>3, <2>4 DEF B!Collector
<1>6. ASSUME MarkPop
      PROVE  B!Collector /\ \A x \in Block : color[x] # "blue" <=> color'[x] # "blue"
  <2>1. B!MarkPop
    BY <1>1, <1>3, <1>6 DEF MarkPop, B!MarkPop, Yield, B!Yield
  <2> DEFINE v == gray_vals[Len(gray_vals)]
  <2>2. gray_vals \in Seq(Block) /\ gray_vals # <<>> /\ color' = [color EXCEPT ![v] = "black"]
    BY <1>6 DEF MarkPop, Core, B!IInv, B!TypeOK
  <2>a. Len(gray_vals) \in 1..Len(gray_vals) BY <2>2
  <2>3. Len(gray_vals) \in 1..Len(gray_vals) /\ v \in Block BY <2>2, <2>a, ElementOfSeq
  <2>4. color[v] = "gray"
    BY <2>3 DEF Core, B!IInv, B!GrayStack, B!GrayEntries
  <2>5. \A x \in Block : color[x] # "blue" <=> color'[x] # "blue"
    BY <2>2, <2>3, <2>4, Facts
  <2> QED BY <2>1, <2>5 DEF B!Collector
<1>7. ASSUME MarkField
      PROVE  B!Collector /\ \A x \in Block : color[x] # "blue" <=> color'[x] # "blue"
  <2>1. B!MarkField
    BY <1>1, <1>3, <1>7 DEF MarkField, B!MarkField, Yield, B!Yield, ShortCircuits,
       B!ShortCircuits, Shade, B!Shade, Push, B!Push, realloc_gray_vals, B!realloc_gray_vals,
       stack, B!stack
  <2> DEFINE child == field[scan_v][scan_i]
  <2>2. child \in Value
    <3>1. pc = "scan" BY <1>7 DEF MarkField
    <3>2. scan_v \in Block /\ scan_i \in Fields
      BY <3>1, Facts DEF B!TypeOK
    <3> QED BY <3>2, Facts
  <2>3. \A x \in Block : color[x] # "blue" <=> color'[x] # "blue"
    BY <2>2, <1>7, Facts DEF MarkField, Shade, Value
  <2> QED BY <2>1, <2>3 DEF B!Collector
<1>8. ASSUME MarkHeap \/ MarkImpure
      PROVE  B!Collector /\ \A x \in Block : color[x] # "blue" <=> color'[x] # "blue"
  <2>1. B!MarkHeap \/ B!MarkImpure
    BY <1>1, <1>3, <1>8 DEF MarkHeap, B!MarkHeap, MarkImpure, B!MarkImpure, Limit, B!Limit
  <2>2. color' = color BY <1>8 DEF MarkHeap, MarkImpure
  <2> QED BY <2>1, <2>2 DEF B!Collector
<1>9. B!Collector /\ \A x \in Block : color[x] # "blue" <=> color'[x] # "blue"
  BY <1>5, <1>6, <1>7, <1>8 DEF MarkStep
<1>10. Seen BY <1>1, <1>9 DEF B!Next, Seen, Others
<1>11. FControl' BY <1>1 DEF Core, FControl, finalvars
<1> QED BY <1>1, <1>4, <1>9, <1>10, <1>11, Kept DEF Core, FTypeOK

\* The subphases go by without a weak array.
LEMMA SubphaseStep ==
  ASSUME Core, MainDone \/ Weak1Done
  PROVE  Core' /\ Seen
<1>1. /\ pc = "mark" /\ phase = "mark" /\ subphase # "final" /\ subphase' \in {"weak1", "weak2"}
      /\ UNCHANGED <<vars, weak_list_head, finalvars>> /\ weak_prev' = Nil
  BY Facts DEF MainDone, Weak1Done, MarkingDone
<1>2. /\ UNCHANGED <<color, tag, field, roots, stack, markhp, phase, sweep_hp, pc, pending,
                     scan_v, scan_i>>
      /\ UNCHANGED <<final_table, to_do, to_darken>>
  BY <1>1 DEF vars, finalvars
<1>3. Settled' = Settled BY <1>1, <1>2 DEF Settled
<1>4. AllRoots' = AllRoots BY <1>2, <1>3, SameRoots
<1>5. UNCHANGED B!vars BY <1>1, <1>2, <1>4 DEF B!vars, B!stack, stack
<1>6. Seen BY <1>2, <1>5 DEF Seen, Others
<1>7. FControl' BY <1>2 DEF Core, FControl
<1> QED BY <1>1, <1>2, <1>6, <1>7, Kept DEF Core, FTypeOK

-----------------------------------------------------------------------------
(* Finalisation.                                                           *)

\* A white value of the batch is a root that is darkened; the others are passed.
LEMMA DarkenStep ==
  ASSUME Core, DarkenFinal
  PROVE  Core' /\ Seen
<1> DEFINE v == Head(to_darken)
           r == Tail(to_darken)
<1>1. /\ pc = "final" /\ to_darken # <<>> /\ caml_darken(v) /\ to_darken' = r
      /\ UNCHANGED <<tag, field, roots, gcvars, weakvars, subphase, final_table, to_do>>
  BY DEF DarkenFinal
<1>2. to_darken \in Seq(Value) BY DEF Core, FTypeOK
<1>3. v \in Value /\ r \in Seq(Value) BY <1>1, <1>2
<1>4. ToSet(to_darken) = ToSet(r) \cup {v}
  <2>1. Len(to_darken) \in Nat /\ Len(to_darken) >= 1 /\ v = to_darken[1] BY <1>1, <1>2
  <2>2. Len(r) = Len(to_darken) - 1 /\ \A k \in 1..Len(r) : r[k] = to_darken[k + 1]
    BY <1>1, <1>2
  <2>3. ToSet(to_darken) \subseteq ToSet(r) \cup {v}
    <3> SUFFICES ASSUME NEW k \in 1..Len(to_darken), to_darken[k] # v
                 PROVE  to_darken[k] \in ToSet(r)
      BY <1>2 DEF ToSet
    <3>1. k # 1 BY <2>1
    <3>2. k - 1 \in 1..Len(r) /\ (k - 1) + 1 = k BY <2>1, <2>2, <3>1
    <3>3. r[k - 1] = to_darken[k] BY <2>2, <3>2
    <3> HIDE DEF r
    <3> QED BY <3>2, <3>3, <1>3 DEF ToSet
  <2>4. ToSet(r) \cup {v} \subseteq ToSet(to_darken)
    <3>1. v \in ToSet(to_darken) BY <2>1, <1>2 DEF ToSet
    <3>2. ASSUME NEW k \in 1..Len(r) PROVE r[k] \in ToSet(to_darken)
      <4>1. k + 1 \in 1..Len(to_darken) /\ r[k] = to_darken[k + 1] BY <2>1, <2>2
      <4> QED BY <4>1, <1>2 DEF ToSet
    <3> HIDE DEF r
    <3> QED BY <3>1, <3>2, <1>3 DEF ToSet
  <2> QED BY <2>3, <2>4
<1> HIDE DEF v, r
<1>5. /\ B!caml_darken(v) /\ \A x \in Block : color[x] # "blue" <=> color'[x] # "blue"
  BY <1>1, <1>3, DarkenSeen
<1>6. UNCHANGED <<markhp, phase, sweep_hp, pc, pending, scan_v, scan_i>>
  BY <1>1 DEF gcvars
<1>7. Settled' = Settled BY <1>1, <1>6 DEF Settled
<1>8. AllRoots' = AllRoots BY <1>1, <1>7, SameRoots
<1>9. [B!Next]_(B!vars)
  <2>1. CASE White(v)
    <3>1. v \in Block /\ color[v] = "white" /\ color'[v] # "white"
          /\ \A x \in Block \ {v} : color'[x] = color[x]
      BY <2>1, <1>1, <1>3, Facts DEF White, caml_darken, Shade, Value
    <3>2. \A x \in Value : White(x)' <=> White(x) /\ x # v
      BY <3>1 DEF White, Value
    <3>3. ToSet(r) \subseteq Value BY <1>3 DEF ToSet
    <3>4. ToDarken' = ToDarken \ {v}
      BY <1>1, <1>3, <1>4, <3>2, <3>3 DEF ToDarken
    <3>5. v \in ToDarken BY <1>4, <2>1 DEF ToDarken
    <3>6. B!DarkenRoot(v)
      BY <1>1, <1>5, <1>6, <1>8, <3>4 DEF B!DarkenRoot
    <3> QED BY <1>1, <3>5, <3>6 DEF B!Next, B!Collector
  <2>2. CASE ~White(v)
    <3>1. UNCHANGED <<color, stack>> BY <1>1, <2>2 DEF caml_darken, White
    <3>2. ToDarken' = ToDarken
      BY <1>1, <1>4, <2>2, <3>1 DEF ToDarken, White
    <3> QED BY <1>1, <1>6, <1>8, <3>1, <3>2 DEF B!vars, B!stack, stack
  <2> QED BY <2>1, <2>2
<1>10. B!IInv' BY <1>9, BarStep
<1>11. FTypeOK' /\ FControl'
  BY <1>1, <1>3, <1>5, <1>6 DEF Core, FTypeOK, FControl
<1>12. (FinalVals \cap Colored("blue") = {})'
  BY <1>1, <1>5 DEF Core, FinalVals, Colored
<1>13. Seen BY <1>1, <1>5, <1>9 DEF Seen, Others
<1> QED BY <1>10, <1>11, <1>12, <1>13 DEF Core

\* The batch is darkened: marking goes on as after start_cycle.
LEMMA UpdatedStep ==
  ASSUME Core, FinalUpdated
  PROVE  Core' /\ Seen
<1>1. /\ pc = "final" /\ to_darken = <<>> /\ pc' = "mark" /\ subphase' = "final"
      /\ UNCHANGED <<color, tag, field, roots, stack, markhp, phase, sweep_hp, pending,
                     scan_v, scan_i, weakvars, finalvars>>
  BY DEF FinalUpdated, unmarked
<1>2. phase = "mark" /\ markhp = NULL /\ pending = {}
  BY <1>1 DEF Core, FControl
<1>3. Settled' = Settled BY <1>1, <1>2 DEF Settled
<1>4. AllRoots' = AllRoots BY <1>1, <1>3, SameRoots DEF finalvars
<1>5. ToDarken = {} BY <1>1 DEF ToDarken, ToSet
<1>6. B!CycleStarted
  BY <1>1, <1>2, <1>4, <1>5 DEF B!CycleStarted, B!Yield, B!NULL, NULL, B!stack, stack
<1>7. Seen BY <1>1, <1>6 DEF B!Next, B!Collector, Seen, Others
<1>8. FControl' BY <1>1, <1>2 DEF FControl, finalvars
<1> QED BY <1>1, <1>7, <1>8, Kept DEF Core, FTypeOK

LEMMA InitSweepStep ==
  ASSUME Core, InitSweepF
  PROVE  Core' /\ Seen
<1>1. /\ pc = "mark" /\ phase = "mark" /\ subphase = "final" /\ MarkingDone
      /\ phase' = "sweep" /\ sweep_hp' = 1 /\ pc' = "mutator"
      /\ UNCHANGED <<color, tag, field, roots, stack, markhp, pending, scan_v, scan_i,
                     weakvars, subphase, finalvars>>
  BY Facts DEF InitSweepF, InitSweep, MarkingDone
<1>2. Settled' = Settled BY <1>1 DEF Settled
<1>3. AllRoots' = AllRoots BY <1>1, <1>2, SameRoots DEF finalvars
<1>4. B!InitSweep
  BY <1>1, <1>3 DEF B!InitSweep, B!MarkingDone, MarkingDone, B!NULL, NULL, B!stack, stack
<1>5. Seen BY <1>1, <1>4 DEF B!Next, B!Collector, Seen, Others
<1>6. FControl' BY <1>1 DEF Core, FControl, finalvars
<1> QED BY <1>1, <1>5, <1>6, Kept DEF Core, FTypeOK

\* While a block is swept, the values of the finalisable set are kept.
LEMMA SweepBlockStep ==
  ASSUME Core, SweepBlock, UNCHANGED <<weak_list_head, weak_prev, subphase, finalvars>>
  PROVE  /\ Core' /\ [B!Next]_(B!vars)
         /\ \A b \in Block : color'[b] # "blue" => color[b] # "blue" /\ tag'[b] = tag[b]
<1>1. /\ pc = "sweep" /\ phase = "sweep" /\ pc' \in {"sweep", "mutator"}
      /\ UNCHANGED <<roots, stack, markhp, phase, pending, scan_v, scan_i>>
  BY Facts DEF SweepBlock, Yield
<1>2. Settled' = Settled /\ Settled' BY <1>1 DEF Settled
<1>3. AllRoots' = AllRoots /\ FinalVals' \subseteq AllRoots'
  BY <1>1, <1>2, SameRoots DEF finalvars, AllRoots
<1>4. B!SweepBlock
  BY <1>1, <1>3 DEF B!SweepBlock, SweepBlock, B!Yield, Yield, B!Limit, Limit, B!Fields, Fields,
     B!Nil, Nil, B!stack, stack
<1>5. B!IInv' BY <1>4, BarStep DEF B!Next, B!Collector
<1>6. FTypeOK' /\ FControl'
  BY <1>1 DEF Core, FTypeOK, FControl, finalvars
<1>7. \A b \in Block : color'[b] # "blue" => color[b] # "blue" /\ tag'[b] = tag[b]
  BY Facts, HeapAssumption DEF SweepBlock, B!TypeOK, Limit, B!Limit, Block
<1>8. (FinalVals \cap Colored("blue") = {})'
  <2>1. AllRoots' \subseteq B!Live' BY <1>5 DEF B!IInv, B!LiveClosed
  <2>2. \A b \in B!Live' : color'[b] # "blue" BY DEF B!Live
  <2> QED BY <1>3, <2>1, <2>2 DEF Colored
<1> QED BY <1>4, <1>5, <1>6, <1>7, <1>8 DEF Core, B!Next, B!Collector

\* The cycle ends: the values of the finalisable set are roots no more.
LEMMA SweepDoneStep ==
  ASSUME Core, SweepDone, UNCHANGED <<weak_list_head, weak_prev, subphase, finalvars>>
  PROVE  Core'
<1> USE DEF B!Block, Block, B!Fields, Fields, B!Nil, Nil, B!NULL, NULL, B!Limit, Limit
<1>1. /\ pc = "sweep" /\ phase = "sweep" /\ pc' = "mutator" /\ phase' = "idle" /\ sweep_hp = N + 1
      /\ UNCHANGED <<color, tag, field, roots, stack, markhp, sweep_hp, pending, scan_v, scan_i>>
  BY Facts DEF SweepDone
<1>2. Settled /\ ~Settled' BY <1>1 DEF Settled
<1>3. AllRoots' \subseteq AllRoots
  BY <1>1, <1>2 DEF AllRoots, FinalRoots, finalvars
<1>4. B!TypeOK /\ B!Control /\ B!SweepColors /\ B!LiveClosed /\ B!Shape
  BY DEF Core, B!IInv
<1>5. \A b \in Block : color[b] \notin {"gray", "black"}
  BY <1>1, <1>4, HeapAssumption DEF B!SweepColors, B!Colored
<1>6. B!Live' = B!Live
  BY <1>1, <1>5, HeapAssumption, Facts DEF B!Live
<1>7. B!TypeOK'
  BY <1>1, <1>3, <1>4 DEF B!TypeOK, stack
<1>8. B!Control' BY <1>1, <1>4, <1>5 DEF B!Control
<1>9. B!Shape' BY <1>1, <1>4 DEF B!Shape, B!Slots, B!Scannable
<1>10. B!GrayStack' /\ B!PureHeap'
  BY <1>1 DEF Core, B!IInv, B!GrayStack, B!GrayEntries, B!PureHeap, B!Colored, B!InStack, stack
<1>11. B!LiveClosed'
  BY <1>1, <1>3, <1>4, <1>6 DEF B!LiveClosed, B!Closed, B!Succ
<1>12. B!SnapshotMarking' /\ B!SweepColors'
  BY <1>1 DEF B!SnapshotMarking, B!SweepColors
<1>13. B!IInv' BY <1>7, <1>8, <1>9, <1>10, <1>11, <1>12 DEF B!IInv
<1>14. FControl' BY <1>1 DEF Core, FControl, finalvars
<1>15. FTypeOK' BY <1>1 DEF Core, FTypeOK, finalvars
<1>16. (FinalVals \cap Colored("blue") = {})'
  BY <1>1 DEF Core, FinalVals, Colored, finalvars
<1> QED BY <1>13, <1>14, <1>15, <1>16 DEF Core

\* When marking is over, the roots are black and nothing is gray.
LEMMA MarkingEnded ==
  ASSUME Core, MarkingDone
  PROVE  /\ pc = "mark" /\ phase = "mark"
         /\ \A b \in Block : color[b] # "gray"
         /\ \A b \in AllRoots : color[b] = "black"
         /\ \A b \in Block : color[b] = "black" => \A c \in Succ(b) : color[c] = "black"
         /\ \A b \in Block : color[b] # "blue" =>
              \A c \in Succ(b) : c \in Block /\ color[c] # "blue"
<1>1. pc = "mark" /\ phase = "mark" BY Facts DEF MarkingDone
<1>2. B!MarkingDone
  BY <1>1 DEF MarkingDone, B!MarkingDone, NULL, B!NULL
<1>3. B!IInv BY DEF Core
<1>4. /\ \A b \in B!Block : color[b] # "gray"
      /\ \A b \in AllRoots : color[b] = "black"
      /\ \A b \in B!Block : color[b] = "black" => \A c \in B!Succ(b) : color[c] = "black"
  BY <1>2, <1>3, B!MarkingEnds, HeapAssumption, TagAssumption, GrayAssumption
  DEF AllTags, B!AllTags
<1>5. \A b \in B!Block : color[b] # "blue" =>
        \A c \in B!Succ(b) : c \in B!Block /\ color[c] # "blue"
  BY <1>1, <1>3 DEF B!IInv, B!LiveClosed, B!Closed, B!Live
<1>6. Block = B!Block /\ \A b : Succ(b) = B!Succ(b)
  BY DEF Block, B!Block, Succ, B!Succ, Fields, B!Fields, Nil, B!Nil
<1> QED BY <1>1, <1>4, <1>5, <1>6

\* When caml_final_update is called, what the program can get at is black and
\* nothing is gray.
LEMMA UpdateStarts ==
  ASSUME Core, MarkingDone, subphase = "weak2"
  PROVE  /\ pc = "mark" /\ phase = "mark" /\ AllRoots = roots \cup FinalRoots
         /\ \A b \in Block : color[b] # "gray"
         /\ \A b \in AllRoots : color[b] = "black"
         /\ \A b \in Block : color[b] = "black" => \A c \in Succ(b) : color[c] = "black"
         /\ \A b \in Block : color[b] # "blue" =>
              \A c \in Succ(b) : c \in Block /\ color[c] # "blue"
<1>1. AllRoots = roots \cup FinalRoots BY MarkingEnded DEF AllRoots, Settled
<1> QED BY <1>1, MarkingEnded

\* What caml_final_update makes of one entry of the table.
LEMMA ResolvedEntry ==
  ASSUME Core, MarkingDone, subphase = "weak2", NEW e \in ToSet(final_table)
  PROVE  /\ Resolved(e) \in Entry /\ Resolved(e).fun = e.fun
         /\ e.fun # Nil => e.fun \in FinalRoots
         /\ Dead(e) => Resolved(e).val = Nil \/ White(Resolved(e).val)
         /\ ~Dead(e) /\ Resolved(e).val # Nil => color[Resolved(e).val] = "black"
<1>1. e \in Entry BY DEF Core, FTypeOK, ToSet
<1>2. e.fun \in Value /\ e.val \in Value /\ e = [fun |-> e.fun, val |-> e.val]
  BY <1>1 DEF Entry
<1>3. e.fun # Nil => e.fun \in FinalRoots BY DEF FinalRoots
<1>4. e.val # Nil => e.val \in Block /\ color[e.val] # "blue"
  BY <1>2 DEF Core, FinalVals, Colored, Value
<1>5. CASE White(e.val) /\ ShortCircuits(e.val)
  <2> DEFINE w == field[e.val][1]
  <2>1. e.val \in Block /\ 1 \in Fields
    BY <1>4, <1>5, HeapAssumption DEF White, Fields
  <2>2. w \in Value BY <2>1, Facts
  <2>3. Resolved(e) = [e EXCEPT !.val = w] BY <1>5 DEF Resolved
  <2> HIDE DEF w
  <2>4. Resolved(e) \in Entry /\ Resolved(e).fun = e.fun /\ Resolved(e).val = w
    BY <1>2, <2>2, <2>3 DEF Entry
  <2>5. w # Nil => w \in Block /\ color[w] # "blue" /\ color[w] # "gray"
    <3> SUFFICES ASSUME w # Nil PROVE w \in Block /\ color[w] # "blue" /\ color[w] # "gray"
      OBVIOUS
    <3>1. w \in Succ(e.val) BY <2>1 DEF Succ, w
    <3> QED BY <3>1, <2>1, <1>4, <1>5, UpdateStarts DEF White
  <2>6. Dead(e) <=> White(w) \/ w = Nil BY <1>5, <2>4 DEF Dead
  <2> QED BY <1>3, <2>4, <2>5, <2>6, Facts DEF White
<1>6. CASE ~(White(e.val) /\ ShortCircuits(e.val))
  <2>1. Resolved(e) = e BY <1>6 DEF Resolved
  <2>2. Dead(e) <=> White(e.val) BY <2>1 DEF Dead, White
  <2>3. e.val # Nil /\ ~White(e.val) => color[e.val] = "black"
    BY <1>4, UpdateStarts, Facts DEF White
  <2> QED BY <1>1, <1>3, <2>1, <2>2, <2>3
<1> QED BY <1>5, <1>6

\* caml_final_update leaves entries with black values in the table, and puts
\* behind the finalising set entries whose values are white and to be darkened.
LEMMA UpdateFacts ==
  ASSUME Core, caml_final_update
  PROVE  /\ final_table' \in Seq(Entry) /\ to_do' \in Seq(Entry) /\ to_darken' \in Seq(Value)
         /\ \A e \in ToSet(final_table') :
              /\ e.fun # Nil => e.fun \in FinalRoots
              /\ e.val # Nil => color[e.val] = "black"
         /\ \A k \in 1..Len(to_do') :
              \/ k <= Len(to_do) /\ to_do'[k] = to_do[k]
              \/ /\ k > Len(to_do)
                 /\ to_do'[k].fun # Nil => to_do'[k].fun \in FinalRoots
                 /\ to_do'[k].val = Nil \/ White(to_do'[k].val)
                 /\ to_do'[k].val \in ToSet(to_darken')
<1> DEFINE D == {k \in DOMAIN final_table : Dead(final_table[k])}
           E == DOMAIN final_table \ D
<1>0. MarkingDone /\ subphase = "weak2" BY DEF caml_final_update
<1>1. PICK dead \in InOrder(D), alive \in InOrder(E) :
        /\ final_table' = [k \in DOMAIN alive |-> Resolved(final_table[alive[k]])]
        /\ to_do' = to_do \o Reverse([k \in DOMAIN dead |-> Resolved(final_table[dead[k]])])
        /\ to_darken' = [j \in DOMAIN [k \in DOMAIN dead |-> Resolved(final_table[dead[k]])]
                           |-> [k \in DOMAIN dead |-> Resolved(final_table[dead[k]])][j].val]
  BY DEF caml_final_update
<1> DEFINE batch == [k \in DOMAIN dead |-> Resolved(final_table[dead[k]])]
<1>2. final_table \in Seq(Entry) /\ to_do \in Seq(Entry) BY DEF Core, FTypeOK
<1>3. /\ D \in SUBSET (1..Len(final_table)) /\ E \in SUBSET (1..Len(final_table))
      /\ Len(final_table) \in Nat
  BY <1>2
<1>f. IsFiniteSet(1..Len(final_table)) BY <1>3, FS_Interval
<1>4. Cardinality(D) \in Nat /\ Cardinality(E) \in Nat
  <2> HIDE DEF D, E
  <2>1. IsFiniteSet(D) /\ IsFiniteSet(E) BY <1>3, <1>f, FS_Subset
  <2> QED BY <2>1, FS_CardinalityType
<1>5. /\ dead \in [1..Cardinality(D) -> D] /\ alive \in [1..Cardinality(E) -> E]
  BY DEF InOrder
<1>6. \A k \in D : final_table[k] \in ToSet(final_table) /\ Dead(final_table[k])
  BY DEF ToSet
<1>7. \A k \in E : final_table[k] \in ToSet(final_table) /\ ~Dead(final_table[k])
  BY DEF ToSet
<1> HIDE DEF D, E
<1>8. /\ DOMAIN final_table' = 1..Cardinality(E)
      /\ \A k \in 1..Cardinality(E) :
           /\ final_table'[k] \in Entry
           /\ final_table'[k].fun # Nil => final_table'[k].fun \in FinalRoots
           /\ final_table'[k].val # Nil => color[final_table'[k].val] = "black"
  <2>1. DOMAIN final_table' = 1..Cardinality(E) BY <1>1, <1>5
  <2>2. ASSUME NEW k \in 1..Cardinality(E)
        PROVE  /\ final_table'[k] \in Entry
               /\ final_table'[k].fun # Nil => final_table'[k].fun \in FinalRoots
               /\ final_table'[k].val # Nil => color[final_table'[k].val] = "black"
    <3>1. alive[k] \in E /\ final_table'[k] = Resolved(final_table[alive[k]]) BY <1>1, <1>5
    <3> QED BY <3>1, <1>0, <1>7, ResolvedEntry
  <2> QED BY <2>1, <2>2
<1>9. /\ DOMAIN batch = 1..Cardinality(D)
      /\ \A k \in 1..Cardinality(D) :
           /\ batch[k] \in Entry
           /\ batch[k].fun # Nil => batch[k].fun \in FinalRoots
           /\ batch[k].val = Nil \/ White(batch[k].val)
  <2>1. DOMAIN batch = 1..Cardinality(D) BY <1>5
  <2>2. ASSUME NEW k \in 1..Cardinality(D)
        PROVE  /\ batch[k] \in Entry
               /\ batch[k].fun # Nil => batch[k].fun \in FinalRoots
               /\ batch[k].val = Nil \/ White(batch[k].val)
    <3>1. dead[k] \in D /\ batch[k] = Resolved(final_table[dead[k]]) BY <1>5
    <3> HIDE DEF batch
    <3> QED BY <3>1, <1>0, <1>6, ResolvedEntry
  <2> QED BY <2>1, <2>2
<1>10. to_do' = to_do \o Reverse(batch) /\ to_darken' = [k \in DOMAIN batch |-> batch[k].val]
  BY <1>1
<1> DEFINE n == Cardinality(D)
<1>11. n \in Nat /\ DOMAIN batch = 1..n BY <1>4, <1>9
<1>e. batch = [k \in 1..n |-> batch[k]] BY <1>9
<1> HIDE DEF batch, n
<1>12. batch \in Seq(Entry) /\ Len(batch) = n
  <2>1. \A k \in 1..n : batch[k] \in Entry BY <1>9 DEF n
  <2> QED BY <1>11, <1>e, <2>1, IsASeq
<1>13. to_darken' \in Seq(Value) /\ ToSet(to_darken') = {batch[k].val : k \in 1..n}
  <2>1. \A k \in 1..n : batch[k].val \in Value BY <1>9 DEF n, Entry
  <2>2. to_darken' = [k \in 1..n |-> batch[k].val] BY <1>10, <1>11
  <2>3. to_darken' \in Seq(Value) BY <1>11, <2>1, <2>2, IsASeq
  <2> QED BY <2>2, <2>3 DEF ToSet
<1>14. final_table' \in Seq(Entry)
  <2>1. final_table' = [k \in 1..Cardinality(E) |-> final_table'[k]] BY <1>1, <1>5
  <2> QED BY <1>4, <1>8, <2>1, IsASeq
<1>15. \A e \in ToSet(final_table') :
         /\ e.fun # Nil => e.fun \in FinalRoots
         /\ e.val # Nil => color[e.val] = "black"
  BY <1>8 DEF ToSet
<1> DEFINE rev == Reverse(batch)
<1>16. /\ rev \in Seq(Entry) /\ Len(rev) = n
       /\ \A k \in 1..n : rev[k] = batch[(n - k) + 1]
  <2>1. rev = [k \in 1..n |-> batch[(n - k) + 1]] BY <1>12 DEF Reverse
  <2>2. \A k \in 1..n : (n - k) + 1 \in 1..n BY <1>11
  <2>3. \A k \in 1..n : batch[(n - k) + 1] \in Entry BY <2>2, <1>9 DEF n
  <2> HIDE DEF rev
  <2> QED BY <1>11, <2>1, <2>3, IsASeq
<1> HIDE DEF rev
<1>17. to_do' \in Seq(Entry) /\ Len(to_do') = Len(to_do) + n
       /\ \A k \in 1..Len(to_do') :
            to_do'[k] = IF k <= Len(to_do) THEN to_do[k] ELSE rev[k - Len(to_do)]
  <2>1. to_do' = to_do \o rev BY <1>10 DEF rev
  <2> HIDE <1>1, <1>10
  <2>2. Len(to_do) \in Nat BY <1>2
  <2>3. to_do' \in Seq(Entry) /\ Len(to_do') = Len(to_do) + n
    BY <1>2, <1>11, <1>16, <2>1, ConcatProperties
  <2>4. ASSUME NEW k \in 1..Len(to_do')
        PROVE  to_do'[k] = IF k <= Len(to_do) THEN to_do[k] ELSE rev[k - Len(to_do)]
    <3>1. k \in 1..Len(to_do) + Len(rev) BY <1>16, <2>3
    <3> QED BY <1>2, <1>16, <2>1, <3>1, ConcatProperties
  <2> QED BY <2>3, <2>4
<1>18. ASSUME NEW k \in 1..Len(to_do'), k > Len(to_do)
       PROVE  /\ to_do'[k].fun # Nil => to_do'[k].fun \in FinalRoots
              /\ to_do'[k].val = Nil \/ White(to_do'[k].val)
              /\ to_do'[k].val \in ToSet(to_darken')
  <2> DEFINE j == k - Len(to_do)
             m == (n - j) + 1
  <2>1. j \in 1..n /\ m \in 1..n /\ to_do'[k] = rev[j]
    BY <1>2, <1>11, <1>17, <1>18
  <2>2. to_do'[k] = batch[m] BY <2>1, <1>16
  <2> HIDE DEF m
  <2> QED BY <2>1, <2>2, <1>9, <1>13 DEF n
<1>19. \A k \in 1..Len(to_do') :
              \/ k <= Len(to_do) /\ to_do'[k] = to_do[k]
              \/ k > Len(to_do)
  BY <1>17, <1>2
<1> QED BY <1>13, <1>14, <1>15, <1>17, <1>18, <1>19

\* caml_final_update: the values it gives to the finalising set are the roots
\* that are still to be darkened; everything else that is kept is black.
LEMMA UpdateStep ==
  ASSUME Core, caml_final_update
  PROVE  Core'
<1> USE DEF B!Block, Block, B!Fields, Fields, B!Nil, Nil, B!NULL, NULL
<1>0. MarkingDone /\ subphase = "weak2" BY DEF caml_final_update
<1>1. /\ pc = "mark" /\ phase = "mark" /\ markhp = NULL /\ pc' = "final"
      /\ UNCHANGED <<color, tag, field, roots, stack, markhp, phase, sweep_hp, pending,
                     scan_v, scan_i, weakvars, subphase>>
  BY <1>0, UpdateStarts DEF caml_final_update, unmarked, MarkingDone
<1>2. B!TypeOK /\ B!Control /\ B!LiveClosed /\ B!Shape /\ pending = {}
  BY <1>1 DEF Core, B!IInv, FControl
<1>3. /\ \A b \in AllRoots : b \in Block /\ color[b] = "black"
      /\ roots \subseteq AllRoots /\ FinalRoots \subseteq AllRoots
  BY <1>0, UpdateStarts, Facts
<1>4. \A e \in ToSet(to_do') :
        \/ e \in ToSet(to_do)
        \/ /\ e.fun # Nil => e.fun \in FinalRoots
           /\ e.val = Nil \/ (White(e.val) /\ e.val \in ToSet(to_darken'))
  <2> SUFFICES ASSUME NEW e \in ToSet(to_do')
               PROVE  \/ e \in ToSet(to_do)
                      \/ /\ e.fun # Nil => e.fun \in FinalRoots
                         /\ e.val = Nil \/ (White(e.val) /\ e.val \in ToSet(to_darken'))
    OBVIOUS
  <2>1. to_do \in Seq(Entry) /\ to_do' \in Seq(Entry) BY UpdateFacts DEF Core, FTypeOK
  <2>2. PICK k \in 1..Len(to_do') : e = to_do'[k] BY <2>1 DEF ToSet
  <2>3. k <= Len(to_do) => k \in DOMAIN to_do BY <2>1, <2>2
  <2> QED BY <2>2, <2>3, UpdateFacts DEF ToSet
<1>5. ToSet(to_darken') \subseteq Value
  <2>1. to_darken' \in Seq(Value) BY UpdateFacts
  <2> QED BY <2>1 DEF ToSet
<1>6. /\ ToDarken' = {v \in ToSet(to_darken') : White(v)}
      /\ ToDarken' \subseteq Block /\ \A v \in ToDarken' : color[v] = "white"
  BY <1>1, <1>5 DEF ToDarken, White, Value
<1>7. \A v \in FinalRoots' : v \in FinalRoots \/ v \in ToDarken'
  <2> SUFFICES ASSUME NEW v \in FinalRoots' PROVE v \in FinalRoots \/ v \in ToDarken'
    OBVIOUS
  <2>1. v # Nil /\ \/ \E e \in ToSet(final_table') : v = e.fun
                   \/ \E e \in ToSet(to_do') : v = e.fun \/ v = e.val
    BY DEF FinalRoots
  <2>2. CASE \E e \in ToSet(final_table') : v = e.fun
    BY <2>1, <2>2, UpdateFacts
  <2>3. CASE \E e \in ToSet(to_do') : v = e.fun \/ v = e.val
    <3>1. PICK e \in ToSet(to_do') : v = e.fun \/ v = e.val BY <2>3
    <3>2. CASE e \in ToSet(to_do) BY <3>1, <3>2, <2>1 DEF FinalRoots
    <3>3. CASE e \notin ToSet(to_do) BY <3>1, <3>3, <2>1, <1>4, <1>6
    <3> QED BY <3>2, <3>3
  <2> QED BY <2>1, <2>2, <2>3
<1>8. \A v \in FinalVals' : v \in Block /\ color[v] = "black"
  <2>1. \A e \in ToSet(final_table') : e.val \in Value
    <3>1. final_table' \in Seq(Entry) BY UpdateFacts
    <3>2. \A e \in ToSet(final_table') : e \in Entry BY <3>1 DEF ToSet
    <3> QED BY <3>2 DEF Entry
  <2> QED BY <2>1, UpdateFacts DEF FinalVals, Value
<1>9. Settled' BY <1>1 DEF Settled
<1>10. \A v \in AllRoots' : v \in Block /\ (color[v] = "black" \/ v \in ToDarken')
  BY <1>1, <1>3, <1>6, <1>7, <1>8, <1>9 DEF AllRoots
<1>11. B!TypeOK'
  BY <1>1, <1>2, <1>6, <1>10 DEF B!TypeOK, stack
<1>12. B!Control' BY <1>1, <1>2 DEF B!Control
<1>13. B!Shape' BY <1>1, <1>2 DEF B!Shape, B!Slots, B!Scannable
<1>14. B!GrayStack' /\ B!PureHeap'
  BY <1>1 DEF Core, B!IInv, B!GrayStack, B!GrayEntries, B!PureHeap, B!Colored, B!InStack, stack
<1>15. B!LiveClosed'
  <2>1. B!Live' = {b \in Block : color[b] # "blue"} /\ B!Live = {b \in Block : color[b] # "blue"}
    BY <1>1 DEF B!Live
  <2>2. AllRoots' \subseteq B!Live' BY <1>6, <1>10, <2>1
  <2>3. B!Closed(B!Live)' BY <1>1, <1>2, <2>1 DEF B!LiveClosed, B!Closed, B!Succ
  <2> QED BY <2>2, <2>3 DEF B!LiveClosed
<1>16. B!SnapshotMarking'
  <2> SUFFICES ASSUME NEW w \in Block, color[w] = "white",
                      w \in AllRoots' \/ \E b \in Block : color[b] = "black" /\ w \in B!Succ(b)
               PROVE  w \in B!ToMark'
    BY <1>1 DEF B!SnapshotMarking, B!Colored, B!Succ
  <2>1. \A b \in Block : color[b] = "black" => w \notin B!Succ(b)
    BY <1>0, UpdateStarts DEF Succ, B!Succ
  <2>2. w \in ToDarken' BY <2>1, <1>10
  <2>3. w \in B!Seeds' BY <1>1, <2>2 DEF B!Seeds
  <2> QED BY <2>3 DEF B!ToMark, B!SeedClosed
<1>17. B!SweepColors' BY <1>1 DEF B!SweepColors
<1>18. B!IInv' BY <1>11, <1>12, <1>13, <1>14, <1>15, <1>16, <1>17 DEF B!IInv
<1>19. FTypeOK' BY <1>1, UpdateFacts DEF Core, FTypeOK
<1>20. FControl' BY <1>1, <1>2 DEF Core, FControl
<1>21. (FinalVals \cap Colored("blue") = {})' BY <1>1, <1>8 DEF Colored
<1> QED BY <1>18, <1>19, <1>20, <1>21 DEF Core

-----------------------------------------------------------------------------
(* The theorems.                                                           *)

LEMMA Stutter ==
  ASSUME Core, UNCHANGED <<vars, weakvars, subphase, final_table, to_do, to_darken>>
  PROVE  Core' /\ Seen
<1>1. /\ UNCHANGED <<color, tag, field, roots, stack, markhp, phase, sweep_hp, pc, pending,
                     scan_v, scan_i, weakvars, subphase, final_table, to_do, to_darken>>
  BY DEF vars
<1>2. Settled' = Settled BY <1>1 DEF Settled
<1>3. AllRoots' = AllRoots /\ FinalVals' = FinalVals BY <1>1, <1>2, SameRoots
<1>4. ToDarken' = ToDarken BY <1>1 DEF ToDarken, White
<1>5. UNCHANGED B!vars BY <1>1, <1>3, <1>4 DEF B!vars, B!stack, stack
<1>6. B!IInv' BY <1>5, BarStep
<1>7. FControl' /\ FTypeOK' BY <1>1 DEF Core, FControl, FTypeOK
<1>8. (FinalVals \cap Colored("blue") = {})' BY <1>1, <1>3 DEF Core, Colored
<1>9. Seen BY <1>1, <1>5 DEF Seen, Others
<1> QED BY <1>6, <1>7, <1>8, <1>9 DEF Core

\* Without weak arrays, every step keeps the invariant.
LEMMA FinalStep ==
  ASSUME FInv, MaxWeak = 0, [NextF]_allvars
  PROVE  FInv'
<1>0. Core /\ NoWeakArray BY DEF FInv
<1>a. ASSUME Others, weak_list_head' = weak_list_head, weak_prev' = Nil PROVE NoWeakArray'
  BY <1>0, <1>a DEF NoWeakArray, Others
<1>1. CASE UNCHANGED allvars \/ caml_final_release
  <2>1. UNCHANGED <<vars, weakvars, subphase, final_table, to_do, to_darken>>
    BY <1>1 DEF allvars, finalvars, caml_final_release
  <2>2. Core' /\ Seen BY <1>0, <2>1, Stutter
  <2> QED BY <1>0, <1>a, <2>1, <2>2 DEF Seen, FInv, weakvars, NoWeakArray
<1>2. CASE MutatorF
  <2>1. \/ Mutator /\ UNCHANGED <<weakvars, subphase, finalvars>>
        \/ \E f \in roots \cup {Nil}, v \in roots : caml_final_register(f, v)
    BY <1>0, <1>2, NoWeakStep DEF MutatorF
  <2>2. CASE Mutator /\ UNCHANGED <<weakvars, subphase, finalvars>>
    BY <1>0, <1>a, <2>2, MutatorStep DEF Seen, FInv, weakvars, NoWeakArray
  <2>3. ASSUME NEW f \in roots \cup {Nil}, NEW v \in roots, caml_final_register(f, v)
        PROVE  FInv'
    <3>1. UNCHANGED <<vars, weakvars>> BY <2>3 DEF caml_final_register
    <3> QED BY <1>0, <2>3, <3>1, RegisterStep DEF FInv, NoWeakArray, vars, weakvars
  <2> QED BY <2>1, <2>2, <2>3
<1>3. CASE caml_final_do_calls
  <2>1. UNCHANGED <<color, tag, weakvars>> BY <1>3 DEF caml_final_do_calls
  <2> QED BY <1>0, <1>3, <2>1, CallStep DEF FInv, NoWeakArray, weakvars
<1>4. CASE StartSliceF
  <2>1. UNCHANGED weakvars BY <1>4 DEF StartSliceF
  <2> QED BY <1>0, <1>4, <1>a, <2>1, StartStep DEF Seen, FInv, weakvars, NoWeakArray
<1>5. CASE CollectorF
  <2>1. ~Weak1Step /\ ~Weak2Step BY <1>0, NoWeakStep DEF Weak1Step, Weak2Step
  <2>2. CASE SweepStep
    <3>1. UNCHANGED <<weak_list_head, weak_prev>> BY <2>2 DEF SweepStep
    <3>2. CASE SweepBlock
      <4>1. /\ Core' /\ \A b \in Block : color'[b] # "blue" => color[b] # "blue" /\ tag'[b] = tag[b]
        BY <1>0, <2>2, <3>2, SweepBlockStep DEF SweepStep
      <4> QED BY <1>0, <3>1, <4>1 DEF FInv, NoWeakArray
    <3>3. CASE SweepDone
      <4>1. Core' BY <1>0, <2>2, <3>3, SweepDoneStep DEF SweepStep
      <4>2. UNCHANGED <<color, tag>> BY <3>3 DEF SweepDone
      <4> QED BY <1>0, <3>1, <4>1, <4>2 DEF FInv, NoWeakArray
    <3> QED BY <2>2, <3>2, <3>3 DEF SweepStep
  <2>3. CASE caml_final_update
    <3>1. UNCHANGED <<color, tag, weakvars>> BY <2>3 DEF caml_final_update, unmarked
    <3> QED BY <1>0, <2>3, <3>1, UpdateStep DEF FInv, NoWeakArray, weakvars
  <2>4. CASE CycleStartedF \/ MarkStep \/ DarkenFinal \/ FinalUpdated \/ InitSweepF
    <3>1. UNCHANGED weakvars
      BY <2>4 DEF CycleStartedF, MarkStep, DarkenFinal, FinalUpdated, InitSweepF
    <3>2. Core' /\ Seen
      BY <1>0, <2>4, CycleStep, MarkStepKeeps, DarkenStep, UpdatedStep, InitSweepStep
    <3> QED BY <1>0, <1>a, <3>1, <3>2 DEF Seen, FInv, weakvars, NoWeakArray
  <2>5. CASE MainDone \/ Weak1Done
    <3>1. weak_list_head' = weak_list_head /\ weak_prev' = Nil BY <2>5 DEF MainDone, Weak1Done
    <3> QED BY <1>0, <1>a, <2>5, <3>1, SubphaseStep DEF Seen, FInv
  <2> QED BY <1>5, <2>1, <2>2, <2>3, <2>4, <2>5 DEF CollectorF
<1> QED BY <1>1, <1>2, <1>3, <1>4, <1>5 DEF NextF

LEMMA Start == InitF => FInv
<1> SUFFICES ASSUME InitF PROVE FInv
  OBVIOUS
<1> USE HeapAssumption, GrayAssumption
    DEF InitF, Init, B!Block, Block, B!Fields, Fields, B!Nil, Nil, B!NULL, NULL
<1>1. FinalVals = {} /\ FinalRoots = {} /\ AllRoots = {}
  BY DEF FinalVals, FinalRoots, AllRoots, ToSet
<1>2. B!TypeOK BY <1>1 DEF B!TypeOK, B!AllTags, B!Value, B!Limit
<1>3. B!Control /\ B!Shape BY DEF B!Control, B!Shape
<1>4. B!GrayStack /\ B!PureHeap
  BY DEF B!GrayStack, B!GrayEntries, B!PureHeap, B!Colored
<1>5. B!LiveClosed BY <1>1 DEF B!LiveClosed, B!Closed, B!Live
<1>6. B!SnapshotMarking /\ B!SweepColors BY DEF B!SnapshotMarking, B!SweepColors
<1>7. B!IInv BY <1>2, <1>3, <1>4, <1>5, <1>6 DEF B!IInv
<1>8. FTypeOK /\ FControl /\ NoWeakArray BY DEF FTypeOK, FControl, NoWeakArray
<1> QED BY <1>1, <1>7, <1>8 DEF FInv, Core

\* Nothing that the program or a finalisation function can reach is freed
\* (finalise.c, major_gc.c), in a program without weak arrays.
THEOREM FinalisersKept ==
  ASSUME MaxWeak = 0
  PROVE  SpecF => []NoStrongFree
<1>1. FInv /\ [NextF]_allvars => FInv' BY FinalStep
<1>2. FInv => NoStrongFree
  <2> SUFFICES ASSUME FInv, NEW b \in StrongReachable PROVE color[b] # "blue"
    BY DEF NoStrongFree, Colored
  <2>1. AllRoots \subseteq B!Live /\ B!Closed(B!Live) BY DEF FInv, Core, B!IInv, B!LiveClosed
  <2>2. B!Live \in SUBSET Block BY DEF B!Live, B!Block, Block
  <2>3. roots \cup FinalRoots \subseteq B!Live BY <2>1 DEF AllRoots
  <2>4. Closed(B!Live)
    BY <2>1 DEF Closed, B!Closed, Succ, B!Succ, Fields, B!Fields, Nil, B!Nil
  <2>5. b \in B!Live BY <2>2, <2>3, <2>4 DEF StrongReachable
  <2> QED BY <2>5 DEF B!Live
<1> QED BY <1>1, <1>2, Start, PTL DEF SpecF

\* A finalisation function is given only a value that the program has lost
\* (caml_final_update), in a program without weak arrays.
THEOREM FinalisedAreDead ==
  ASSUME MaxWeak = 0
  PROVE  SpecF => FinaliseOnlyDead
<1>1. FInv /\ [NextF]_allvars => FInv' BY FinalStep
<1> DEFINE Only == \A k \in (Len(to_do) + 1)..Len(to_do') : to_do'[k].val \notin StrongReachable
<1>2. FInv /\ [NextF]_allvars => Only
  <2> SUFFICES ASSUME FInv, [NextF]_allvars PROVE Only
    OBVIOUS
  <2>0. Core /\ to_do \in Seq(Entry) BY DEF FInv, Core, FTypeOK
  <2>1. CASE caml_final_update
    <3>1. MarkingDone /\ subphase = "weak2" BY <2>1 DEF caml_final_update
    <3> DEFINE S == {b \in Block : color[b] = "black"}
    <3>2. roots \cup FinalRoots \subseteq S BY <2>0, <3>1, UpdateStarts, Facts
    <3>3. Closed(S) BY <2>0, <3>1, UpdateStarts DEF Closed
    <3>4. \A b \in StrongReachable : b \in Block /\ color[b] = "black"
      BY <3>2, <3>3 DEF StrongReachable
    <3>5. ASSUME NEW k \in (Len(to_do) + 1)..Len(to_do')
          PROVE  to_do'[k].val \notin StrongReachable
      <4>1. Len(to_do) \in Nat BY <2>0
      <4>2. to_do' \in Seq(Entry) BY <2>0, <2>1, UpdateFacts
      <4>3. k \in 1..Len(to_do') /\ ~(k <= Len(to_do)) BY <4>1, <4>2
      <4>4. to_do'[k].val = Nil \/ White(to_do'[k].val) BY <4>3, <2>0, <2>1, UpdateFacts
      <4> QED BY <4>4, <3>4 DEF White, Block, Nil
    <3> QED BY <3>5
  <2>2. CASE caml_final_do_calls
    <3>1. to_do' = Tail(to_do) /\ to_do # <<>> BY <2>2 DEF caml_final_do_calls
    <3>2. Len(to_do') = Len(to_do) - 1 /\ Len(to_do) \in Nat BY <3>1, <2>0
    <3> QED BY <3>2
  <2>3. CASE ~caml_final_update /\ ~caml_final_do_calls
    <3>1. to_do' = to_do
      BY <2>3 DEF NextF, allvars, finalvars, MutatorF, caml_weak_create, caml_weak_set,
         caml_weak_get, caml_weak_get_copy, TakeWeak, caml_weak_blit, caml_final_register,
         caml_final_release, StartSliceF, CollectorF, CycleStartedF, MarkStep, MainDone,
         Weak1Step, Weak1Done, Weak2Step, DarkenFinal, FinalUpdated, InitSweepF, SweepStep
    <3>2. Len(to_do) \in Nat BY <2>0
    <3> QED BY <3>1, <3>2
  <2> QED BY <2>1, <2>2, <2>3
<1> HIDE DEF Only
<1>3. SpecF => [][Only]_allvars
  BY <1>1, <1>2, Start, PTL DEF SpecF
<1> QED BY <1>3 DEF FinaliseOnlyDead, Only

-----------------------------------------------------------------------------
(* Weak arrays.                                                            *)

\* How a step that leaves the phase alone keeps what the cycle keeps.
Steady ==
  /\ phase' = phase
  /\ phase = "mark" => Keep \subseteq Keep'
  /\ Late /\ phase = "mark" =>
       /\ pc' # "scan" /\ Colored("gray")' = {}
       /\ \A b \in Block : color[b] # "blue" => color'[b] = color[b]
  /\ phase = "sweep" => \A b \in Block : color[b] # "blue" => (b \in Live' <=> b \in Live)

\* Without finalisers the roots are the program's own.
LEMMA NoFinalRoots ==
  ASSUME NoFinal
  PROVE  AllRoots = roots /\ FinalRoots = {} /\ ToDarken = {}
BY DEF NoFinal, AllRoots, FinalRoots, FinalVals, ToDarken, ToSet

LEMMA NoFinalRootsNext ==
  ASSUME NoFinal'
  PROVE  AllRoots' = roots' /\ ToDarken' = {} /\ FinalVals' = {}
BY DEF NoFinal, AllRoots, FinalRoots, FinalVals, ToDarken, ToSet

\* The instance has the same blocks and values.
LEMMA SameBlocks ==
  /\ B!Block = Block /\ B!Nil = Nil /\ B!Value = Value /\ \A b : B!Succ(b) = Succ(b)
  /\ \A c : B!Colored(c) = Colored(c)
  /\ (pc = "final" => phase = "mark") => B!Live = Live
BY DEF B!Block, Block, B!Nil, Nil, B!Value, Value, B!Succ, Succ, B!Fields, Fields, B!Colored,
       Colored, B!Live, Live

\* What holds of the roots: they are kept.
LEMMA RootsKept ==
  ASSUME Core, NoFinal, MarkingOver, NEW v \in roots
  PROVE  /\ v \in Block /\ v \in Value /\ color[v] # "blue"
         /\ phase = "mark" => v \in Keep
         /\ Late => v \in KeptNow
         /\ Late => \A b \in KeptNow : Succ(b) \subseteq KeptNow
<1>0. v \in Block /\ v \in Value /\ color \in [Block -> {"white", "gray", "black", "blue"}]
  BY Facts DEF Value
<1>1. roots \subseteq Live /\ B!SnapshotMarking /\ Closed(Live)
  BY NoFinalRoots, SameBlocks DEF Core, FControl, B!IInv, B!LiveClosed, B!Closed, Closed
<1>2. color[v] # "blue" BY <1>1 DEF Live
<1>3. phase = "mark" => \A w \in Block : color[w] = "white" =>
        ((w \in roots \/ \E b \in Block : color[b] = "black" /\ w \in Succ(b)) => w \in B!ToMark)
  BY <1>1, NoFinalRoots, SameBlocks DEF B!SnapshotMarking, Colored
<1>4. phase = "mark" => v \in Keep BY <1>0, <1>2, <1>3 DEF Keep, Colored
<1>5. Late /\ phase = "mark" => B!ToMark = {}
  <2> SUFFICES ASSUME Late, phase = "mark" PROVE B!ToMark = {} OBVIOUS
  <2>1. pc # "roots" BY Facts
  <2>2. B!Seeds = {} BY <2>1, SameBlocks, NoFinalRoots DEF MarkingOver, B!Seeds
  <2>3. B!SeedClosed({}) BY <2>2 DEF B!SeedClosed
  <2> QED BY <2>3 DEF B!ToMark
<1>6. Late /\ phase = "mark" => v \in Colored("black")
  BY <1>4, <1>5 DEF Keep, MarkingOver
<1>7. Late => v \in KeptNow BY <1>1, <1>6 DEF KeptNow, Late
<1>8. Late => \A b \in KeptNow : Succ(b) \subseteq KeptNow
  <2>1. CASE phase = "sweep" BY <1>1, <2>1 DEF KeptNow, Closed
  <2>2. ASSUME Late, phase = "mark", NEW b \in Colored("black"), NEW c \in Succ(b)
        PROVE  c \in Colored("black")
    <3>0. b \in Block /\ color[b] = "black" BY DEF Colored
    <3>1. b \in Live BY <2>2, <3>0 DEF Live
    <3>2. c \in Block /\ color[c] # "blue" BY <1>1, <3>1 DEF Closed, Live
    <3>3. color[c] # "white" BY <1>3, <1>5, <2>2, <3>0, <3>2
    <3>4. color[c] # "gray" BY <2>2, <3>2 DEF MarkingOver, Colored
    <3> QED BY <1>0, <3>2, <3>3, <3>4 DEF Colored
  <2> QED BY <2>1, <2>2 DEF KeptNow, Late
<1> QED BY <1>0, <1>2, <1>4, <1>7, <1>8

\* A step of the collector of MajorGC within a phase is steady.
LEMMA SteadyStep ==
  ASSUME Core, MarkingOver, [B!Next]_(B!vars), phase' = phase, pc # "final", pc' # "final"
  PROVE  Steady
<1> USE HeapAssumption, TagAssumption, GrayAssumption
<1>0. B!IInv /\ color \in [Block -> {"white", "gray", "black", "blue"}] BY Facts
<1>a. AllTags \subseteq B!AllTags BY DEF AllTags, B!AllTags
<1>1. phase = "mark" => Keep \subseteq Keep'
  <2> SUFFICES ASSUME phase = "mark" PROVE Keep \subseteq Keep' OBVIOUS
  <2>1. \A x \in B!Block : color[x] \in {"gray", "black"} \/ x \in B!ToMark =>
                              color'[x] \in {"gray", "black"} \/ x \in B!ToMark'
    BY <1>0, <1>a, B!KeepStep
  <2>2. B!ToMark \subseteq Block BY SameBlocks DEF B!ToMark
  <2> QED BY <2>1, <2>2, SameBlocks DEF Keep, Colored
<1>2. Late /\ phase = "mark" =>
        /\ pc' # "scan" /\ Colored("gray")' = {}
        /\ \A b \in Block : color[b] # "blue" => color'[b] = color[b]
  <2> SUFFICES ASSUME Late, phase = "mark"
               PROVE  /\ pc' # "scan" /\ Colored("gray")' = {}
                      /\ \A b \in Block : color[b] # "blue" => color'[b] = color[b]
    OBVIOUS
  <2>1. pc # "scan" /\ \A b \in B!Block : color[b] # "gray"
    BY SameBlocks DEF MarkingOver, Colored
  <2>2. /\ pc' # "scan" /\ \A b \in B!Block : color'[b] # "gray"
        /\ \A b \in B!Block : color[b] # "blue" => color'[b] = color[b]
    BY <1>0, <1>a, <2>1, B!MarkingStaysDone
  <2> QED BY <2>2, SameBlocks DEF Colored
<1>3. phase = "sweep" => \A b \in Block : color[b] # "blue" => (b \in Live' <=> b \in Live)
  <2> SUFFICES ASSUME phase = "sweep"
               PROVE  \A b \in Block : color[b] # "blue" => (b \in Live' <=> b \in Live)
    OBVIOUS
  <2>1. \A b \in B!Block : color[b] # "blue" => (b \in B!Live' <=> b \in B!Live)
    BY <1>0, <1>a, B!LiveKept
  <2>2. B!Live' = Live' /\ B!Live = Live BY DEF B!Live, Live, B!Block, Block
  <2> QED BY <2>1, <2>2, SameBlocks
<1> QED BY <1>1, <1>2, <1>3 DEF Steady

\* A steady step that leaves the weak arrays alone keeps their invariant.
LEMMA Quiet ==
  ASSUME WInv, Core', Steady, Others, UNCHANGED <<weakvars, subphase, finalvars>>,
         pc # "final", pc' # "final"
  PROVE  WInv'
<1>0. Core /\ NoFinal /\ WTypeOK /\ MarkingOver BY DEF WInv
<1>1. PICK q \in Seq(Block) : \E p \in 0..Len(q) : WeakPart(q, p) BY DEF WInv
<1>2. PICK p \in 0..Len(q) : WeakPart(q, p) BY <1>1
<1>3. /\ UNCHANGED <<weak_list_head, weak_next, weak, weak_prev, final_table, to_do, to_darken>>
      /\ Late' = Late /\ phase' = phase
  BY DEF weakvars, finalvars, Steady, Late
<1>4. WeakArray' = WeakArray BY DEF WeakArray, Others
<1>5. NoFinal' /\ WTypeOK' BY <1>0, <1>3 DEF NoFinal, WTypeOK
<1>6. MarkingOver' BY <1>3 DEF Steady, MarkingOver
<1>7. /\ \A b \in Block : color[b] # "blue" => color'[b] # "blue"
      /\ \A b \in WeakArray : b \in Block /\ color[b] # "blue"
  BY DEF Others, WeakArray
<1>8. Late => \A b \in Block : color[b] # "blue" => (b \in KeptNow' <=> b \in KeptNow)
  BY <1>3 DEF Steady, KeptNow, Late, Colored
<1>9. Late => \A b \in KeptNow : b \in Block /\ color[b] # "blue"
  BY DEF KeptNow, Colored, Live
<1>10. Listed(q)' BY <1>2, <1>3, <1>4 DEF WeakPart, Listed
<1>11. Passed(q, p)' BY <1>2, <1>3 DEF WeakPart, Passed
<1>12. Complete(q)' BY <1>2, <1>3, <1>4, <1>7, <1>8 DEF WeakPart, Complete
<1>13. PointersKept(q, p)'
  <2>1. phase # "sweep" => \A a \in WeakArray : weak[a] \notin Colored("blue")'
    <3>1. \A a \in WeakArray : weak[a] \in Value BY <1>0, <1>7 DEF WTypeOK
    <3> QED BY <1>2, <1>7, <3>1 DEF WeakPart, PointersKept, Colored, Value
  <2>2. phase = "mark" /\ subphase = "weak1" => \A k \in 1..p : weak[q[k]] \in Keep' \cup {Nil}
    BY <1>2 DEF WeakPart, PointersKept, Steady
  <2>3. Late => \A k \in 1..Len(q) : weak[q[k]] \in KeptNow' \cup {Nil}
    BY <1>2, <1>8, <1>9 DEF WeakPart, PointersKept
  <2> QED BY <1>3, <1>4, <2>1, <2>2, <2>3 DEF PointersKept
<1>14. ArraysKept(q, p)'
  <2>1. phase = "mark" /\ subphase = "weak2" => \A k \in 1..p : color'[q[k]] = "black"
    <3> SUFFICES ASSUME phase = "mark", subphase = "weak2", NEW k \in 1..p
                 PROVE  color'[q[k]] = "black"
      OBVIOUS
    <3>1. k \in 1..Len(q) /\ q[k] \in Block BY <1>1, <1>2
    <3>2. color[q[k]] = "black" BY <1>2 DEF WeakPart, ArraysKept
    <3> QED BY <3>1, <3>2 DEF Steady, Late
  <2>2. phase = "sweep" \/ (phase = "mark" /\ subphase = "final") =>
          \A k \in 1..Len(q) : q[k] \in KeptNow'
    BY <1>2, <1>8, <1>9 DEF WeakPart, ArraysKept, Late
  <2> QED BY <1>3, <2>1, <2>2 DEF ArraysKept
<1>15. WeakPart(q, p)' BY <1>10, <1>11, <1>12, <1>13, <1>14 DEF WeakPart
<1> QED BY <1>5, <1>6, <1>15 DEF WInv

\* A list with one more array in front.
LEMMA InFront ==
  ASSUME NEW q \in Seq(Block), NEW b \in Block
  PROVE  /\ <<b>> \o q \in Seq(Block) /\ Len(<<b>> \o q) = Len(q) + 1 /\ Len(q) \in Nat
         /\ (<<b>> \o q)[1] = b
         /\ \A k \in 1..Len(q) : q[k] \in Block /\ (<<b>> \o q)[k + 1] = q[k]
<1>1. <<b>> \in Seq(Block) /\ Len(<<b>>) = 1 /\ <<b>>[1] = b /\ Len(q) \in Nat OBVIOUS
<1>2. /\ Len(<<b>> \o q) = Len(<<b>>) + Len(q) /\ <<b>> \o q \in Seq(Block)
      /\ \A k \in 1..(Len(<<b>>) + Len(q)) :
           (<<b>> \o q)[k] = IF k <= Len(<<b>>) THEN <<b>>[k] ELSE q[k - Len(<<b>>)]
  BY <1>1, ConcatProperties
<1>3. \A k \in 1..Len(q) : k + 1 \in 1..(1 + Len(q)) /\ ~(k + 1 <= 1) /\ (k + 1) - 1 = k
  BY <1>1
<1>4. \A k \in 1..Len(q) : (<<b>> \o q)[k + 1] = q[k] BY <1>1, <1>2, <1>3
<1>5. (<<b>> \o q)[1] = b BY <1>1, <1>2
<1>6. \A k \in 1..Len(q) : q[k] \in Block BY ElementOfSeq
<1> QED BY <1>1, <1>2, <1>4, <1>5, <1>6

\* caml_weak_create: the new array is kept, and goes in front of the list.
LEMMA CreateStep ==
  ASSUME WInv, NEW b \in Block, caml_weak_create(b)
  PROVE  WInv'
<1>0. Core /\ NoFinal /\ WTypeOK /\ MarkingOver BY DEF WInv
<1>1. PICK q \in Seq(Block) : \E p \in 0..Len(q) : WeakPart(q, p) BY DEF WInv
<1>2. PICK p \in 0..Len(q) : WeakPart(q, p) BY <1>1
<1> DEFINE init == [i \in Fields |-> Nil]
<1>3. /\ Alloc(b, "Abstract", init) /\ weak' = [weak EXCEPT ![b] = Nil]
      /\ weak_next' = [weak_next EXCEPT ![b] = weak_list_head] /\ weak_list_head' = b
      /\ UNCHANGED <<weak_prev, subphase, finalvars>>
  BY DEF caml_weak_create
<1>4. /\ pc = "mutator" /\ color[b] = "blue" /\ UNCHANGED <<stack, gcvars>>
      /\ color' = [color EXCEPT ![b] = caml_allocation_color(b)]
      /\ tag' = [tag EXCEPT ![b] = "Abstract"] /\ roots' = roots \cup {b}
      /\ field' = [field EXCEPT ![b] = init] /\ \A i \in Fields \ Slots("Abstract") : init[i] = Nil
  BY <1>3 DEF Alloc
<1>5. UNCHANGED <<phase, pc, pending, markhp, sweep_hp, scan_v, scan_i, final_table, to_do, to_darken>>
  BY <1>3, <1>4 DEF gcvars, finalvars
<1>6. NoFinal' /\ Late' = Late BY <1>0, <1>3, <1>5 DEF NoFinal, Late
<1>7. [B!Next]_(B!vars)
  <2>1. AllRoots' = AllRoots \cup {b} BY <1>0, <1>4, <1>6, NoFinalRoots, NoFinalRootsNext
  <2>2. B!Alloc(b, "Abstract", init)
    BY <1>4, <1>5, <2>1 DEF B!Alloc, B!gcvars, B!caml_allocation_color, caml_allocation_color,
       B!stack, stack, B!Fields, Fields, B!Slots, Slots, B!Scannable, Scannable, B!Nil, Nil
  <2>3. init \in [B!Fields -> AllRoots \cup {B!Nil}] /\ b \in B!Block /\ "Abstract" \in AllTags
    BY DEF B!Fields, Fields, B!Nil, Nil, B!Block, Block, AllTags
  <2> HIDE DEF init
  <2> QED BY <2>2, <2>3 DEF B!Next, B!Mutator
<1> HIDE DEF init
<1>8. Core'
  <2>1. B!IInv' BY <1>0, <1>7, BarStep
  <2>2. FTypeOK' /\ FControl' BY <1>0, <1>3, <1>5 DEF Core, FTypeOK, FControl
  <2>3. FinalVals' = {} BY <1>6, NoFinalRootsNext
  <2> QED BY <2>1, <2>2, <2>3 DEF Core
<1>9. Steady
  <2>1. phase' = phase /\ pc # "final" /\ pc' # "final" BY <1>4, <1>5
  <2> QED BY <1>0, <1>7, <2>1, SteadyStep
<1>10. /\ color \in [Block -> {"white", "gray", "black", "blue"}] /\ tag \in [Block -> AllTags]
       /\ phase \in {"idle", "mark", "sweep"} /\ sweep_hp \in Int
       /\ weak_next \in [Block -> Value] /\ weak \in [Block -> Value] /\ Block \subseteq Int
  BY <1>0, Facts, HeapAssumption DEF B!TypeOK, WTypeOK, B!Limit, Block
<1>11. WeakArray' = WeakArray \cup {b} /\ b \notin WeakArray
  BY <1>4, <1>10 DEF WeakArray, caml_allocation_color
<1>12. /\ \A x \in Block : x # b => color'[x] = color[x]
       /\ color'[b] # "blue" /\ (phase = "mark" => color'[b] = "black")
       /\ Late => b \in KeptNow'
  BY <1>4, <1>5, <1>10 DEF caml_allocation_color, Late, KeptNow, Live, Colored
<1>13. Late => \A x \in Block : color[x] # "blue" => (x \in KeptNow' <=> x \in KeptNow)
  BY <1>5, <1>9 DEF Steady, KeptNow, Late, Colored
<1>14. Late => \A x \in KeptNow : x \in Block /\ color[x] # "blue"
  BY DEF KeptNow, Colored, Live
<1>15. WTypeOK' /\ MarkingOver'
  <2>1. weak_list_head \in Value
    <3>1. Len(q) # 0 => q[1] \in Block BY <1>1, ElementOfSeq
    <3> QED BY <1>2, <3>1 DEF WeakPart, Listed, Value
  <2>2. WTypeOK' BY <1>3, <1>10, <2>1 DEF WTypeOK, Value
  <2>3. MarkingOver' BY <1>5, <1>6, <1>9 DEF Steady, MarkingOver
  <2> QED BY <2>2, <2>3
<1> DEFINE r == <<b>> \o q
           n == IF p = 0 THEN 0 ELSE p + 1
<1>16. /\ r \in Seq(Block) /\ Len(r) = Len(q) + 1 /\ Len(q) \in Nat /\ r[1] = b
       /\ \A k \in 1..Len(q) : q[k] \in Block /\ r[k + 1] = q[k]
  BY <1>1, InFront
<1>17. n \in 0..Len(r) /\ (n # 0 => p \in 1..Len(q) /\ n = p + 1) /\ (n = 0 <=> p = 0)
  BY <1>2, <1>16
<1> HIDE DEF r, n
<1>18. \A k \in 1..Len(r) :
         k = 1 \/ (k - 1 \in 1..Len(q) /\ r[k] = q[k - 1] /\ q[k - 1] # b /\ q[k - 1] \in WeakArray)
  <2> SUFFICES ASSUME NEW k \in 1..Len(r), k # 1
               PROVE  k - 1 \in 1..Len(q) /\ r[k] = q[k - 1] /\ q[k - 1] # b /\ q[k - 1] \in WeakArray
    OBVIOUS
  <2>1. k - 1 \in 1..Len(q) /\ (k - 1) + 1 = k BY <1>16
  <2>2. r[k] = q[k - 1] BY <1>16, <2>1
  <2>3. q[k - 1] \in WeakArray BY <1>2, <2>1 DEF WeakPart, Listed
  <2> QED BY <2>1, <2>2, <2>3, <1>11
<1>19. Listed(r)'
  <2>1. \A i, k \in 1..Len(r) : r[i] = r[k] => i = k
    <3> SUFFICES ASSUME NEW i \in 1..Len(r), NEW k \in 1..Len(r), r[i] = r[k] PROVE i = k
      OBVIOUS
    <3>1. i # 1 /\ k # 1 => i - 1 = k - 1 BY <1>2, <1>18 DEF WeakPart, Listed
    <3>2. (i = 1 <=> k = 1) BY <1>16, <1>18
    <3> QED BY <3>1, <3>2
  <2>2. weak_list_head' = IF Len(r) = 0 THEN Nil ELSE r[1] BY <1>3, <1>16
  <2>3. ASSUME NEW k \in 1..Len(r)
        PROVE  /\ r[k] \in WeakArray'
               /\ weak_next'[r[k]] = IF k = Len(r) THEN Nil ELSE r[k + 1]
    <3>1. CASE k = 1
      <4>1. weak_next'[b] = weak_list_head BY <1>3, <1>10
      <4>2. Len(q) # 0 => r[1 + 1] = q[1] BY <1>16
      <4>3. Len(r) = 1 <=> Len(q) = 0 BY <1>16
      <4>4. weak_list_head = IF Len(q) = 0 THEN Nil ELSE q[1] BY <1>2 DEF WeakPart, Listed
      <4> QED BY <3>1, <4>1, <4>2, <4>3, <4>4, <1>11, <1>16
    <3>2. CASE k # 1
      <4>1. k - 1 \in 1..Len(q) /\ r[k] = q[k - 1] /\ q[k - 1] # b /\ q[k - 1] \in WeakArray
        BY <3>2, <1>18
      <4>2. weak_next'[q[k - 1]] = weak_next[q[k - 1]] BY <4>1, <1>3, <1>10, <1>16
      <4>3. weak_next[q[k - 1]] = IF k - 1 = Len(q) THEN Nil ELSE q[(k - 1) + 1]
        BY <4>1, <1>2 DEF WeakPart, Listed
      <4>4. (k - 1 = Len(q) <=> k = Len(r)) /\ (k - 1) + 1 = k BY <1>16
      <4>5. k # Len(r) => k \in 1..Len(q) /\ r[k + 1] = q[k] BY <1>16
      <4> QED BY <4>1, <4>2, <4>3, <4>4, <4>5, <1>11
    <3> QED BY <3>1, <3>2
  <2> QED BY <2>1, <2>2, <2>3 DEF Listed
<1>20. Passed(r, n)'
  <2>1. n # 0 => r[n] = q[p] BY <1>16, <1>17
  <2> QED BY <1>2, <1>3, <1>4, <1>5, <1>17, <2>1 DEF WeakPart, Passed
<1>21. Complete(r)'
  <2> SUFFICES ASSUME NEW a \in WeakArray', Late => a \in KeptNow'
               PROVE  \E k \in 1..Len(r) : r[k] = a
    BY <1>6 DEF Complete
  <2>1. CASE a = b BY <2>1, <1>16
  <2>2. CASE a # b
    <3>1. a \in WeakArray /\ a \in Block /\ color[a] # "blue" BY <2>2, <1>11 DEF WeakArray
    <3>2. PICK k \in 1..Len(q) : q[k] = a BY <3>1, <1>2, <1>13 DEF WeakPart, Complete
    <3>3. k + 1 \in 1..Len(r) /\ r[k + 1] = a BY <3>2, <1>16
    <3> QED BY <3>3
  <2> QED BY <2>1, <2>2
<1>22. PointersKept(r, n)'
  <2>0. weak'[b] = Nil /\ (\A x \in Block : x # b => weak'[x] = weak[x] /\ weak[x] \in Value) /\ Nil \notin Block
    BY <1>3, <1>10 DEF Block, Nil
  <2>1. phase # "sweep" => \A a \in WeakArray' : weak'[a] \notin Colored("blue")'
    <3> SUFFICES ASSUME phase # "sweep", NEW a \in WeakArray' PROVE weak'[a] \notin Colored("blue")'
      OBVIOUS
    <3>1. CASE a = b BY <3>1, <2>0 DEF Colored
    <3>2. CASE a # b
      <4>1. a \in WeakArray /\ a \in Block BY <3>2, <1>11 DEF WeakArray
      <4>2. weak[a] \notin Colored("blue") BY <4>1, <1>2 DEF WeakPart, PointersKept
      <4> QED BY <3>2, <4>1, <4>2, <2>0, <1>4, <1>12 DEF Colored
    <3> QED BY <3>1, <3>2
  <2>2. ASSUME phase = "mark", subphase = "weak1", NEW k \in 1..n
        PROVE  weak'[r[k]] \in Keep' \cup {Nil}
    <3>1. k \in 1..Len(r) BY <1>17, <1>16
    <3>2. CASE k = 1 BY <3>2, <1>16, <2>0
    <3>3. CASE k # 1
      <4>1. k - 1 \in 1..p BY <3>3, <1>17, <1>16
      <4>2. weak[q[k - 1]] \in Keep \cup {Nil} BY <4>1, <2>2, <1>2 DEF WeakPart, PointersKept
      <4> QED BY <3>1, <3>3, <4>2, <1>18, <2>0, <1>16, <2>2, <1>9 DEF Steady
    <3> QED BY <3>2, <3>3
  <2>3. ASSUME Late, NEW k \in 1..Len(r) PROVE weak'[r[k]] \in KeptNow' \cup {Nil}
    <3>2. CASE k = 1 BY <3>2, <1>16, <2>0
    <3>3. CASE k # 1
      <4>1. weak[q[k - 1]] \in KeptNow \cup {Nil} BY <3>3, <2>3, <1>2, <1>18 DEF WeakPart, PointersKept
      <4> QED BY <3>3, <4>1, <1>18, <2>0, <1>16, <2>3, <1>13, <1>14
    <3> QED BY <3>2, <3>3
  <2> QED BY <1>3, <1>5, <1>6, <2>1, <2>2, <2>3 DEF PointersKept
<1>23. ArraysKept(r, n)'
  <2>1. ASSUME phase = "mark", subphase = "weak2", NEW k \in 1..n
        PROVE  color'[r[k]] = "black"
    <3>1. k \in 1..Len(r) BY <1>17, <1>16
    <3>2. CASE k = 1 BY <3>2, <1>16, <1>12, <2>1
    <3>3. CASE k # 1
      <4>1. k - 1 \in 1..p BY <3>3, <1>17, <1>16
      <4>2. color[q[k - 1]] = "black" BY <4>1, <2>1, <1>2 DEF WeakPart, ArraysKept
      <4> QED BY <3>1, <3>3, <4>2, <1>18, <1>16, <1>12
    <3> QED BY <3>2, <3>3
  <2>2. ASSUME phase = "sweep" \/ (phase = "mark" /\ subphase = "final"), NEW k \in 1..Len(r)
        PROVE  r[k] \in KeptNow'
    <3>0. Late BY <2>2 DEF Late
    <3>2. CASE k = 1 BY <3>2, <1>16, <1>12, <3>0
    <3>3. CASE k # 1
      <4>1. q[k - 1] \in KeptNow BY <3>3, <2>2, <1>2, <1>18 DEF WeakPart, ArraysKept
      <4> QED BY <3>3, <4>1, <1>18, <1>13, <1>14, <3>0
    <3> QED BY <3>2, <3>3
  <2> QED BY <1>3, <1>5, <2>1, <2>2 DEF ArraysKept
<1>24. WeakPart(r, n)' BY <1>19, <1>20, <1>21, <1>22, <1>23 DEF WeakPart
<1> QED BY <1>6, <1>8, <1>15, <1>16, <1>17, <1>24 DEF WInv

\* An array that the program holds has a weak pointer that is empty or kept.
LEMMA HeldPointer ==
  ASSUME WInv, pc = "mutator", NEW a \in roots \cap WeakArray
  PROVE  /\ weak[a] \in Value /\ weak[a] \notin Colored("blue")
         /\ Late => weak[a] \in KeptNow \cup {Nil}
<1>0. Core /\ NoFinal /\ WTypeOK /\ MarkingOver BY DEF WInv
<1>1. PICK q \in Seq(Block) : \E p \in 0..Len(q) : WeakPart(q, p) BY DEF WInv
<1>2. PICK p \in 0..Len(q) : WeakPart(q, p) BY <1>1
<1>3. a \in Block /\ weak[a] \in Value BY <1>0 DEF WeakArray, WTypeOK
<1>4. Late => a \in KeptNow BY <1>0, RootsKept
<1>5. Late => weak[a] \in KeptNow \cup {Nil}
  BY <1>2, <1>4 DEF WeakPart, Complete, PointersKept
<1>6. phase # "sweep" => weak[a] \notin Colored("blue") BY <1>2 DEF WeakPart, PointersKept
<1>7. phase = "sweep" => weak[a] \notin Colored("blue")
  BY <1>5 DEF Late, KeptNow, Live, Colored, Block, Nil
<1> QED BY <1>3, <1>5, <1>6, <1>7

\* The program assigns weak pointers: to Nil, or to a block that is kept.
LEMMA Assign ==
  ASSUME WInv, pc = "mutator", weak' \in [Block -> Value],
         UNCHANGED <<vars, weak_list_head, weak_next, weak_prev, subphase, finalvars>>,
         \A x \in Block : \/ weak'[x] = weak[x] \/ weak'[x] = Nil
                          \/ /\ weak'[x] \notin Colored("blue")
                             /\ phase = "mark" /\ subphase = "weak1" => weak'[x] \in Keep
                             /\ Late => weak'[x] \in KeptNow
  PROVE  WInv'
<1>0. Core /\ NoFinal /\ WTypeOK /\ MarkingOver BY DEF WInv
<1>1. PICK q \in Seq(Block) : \E p \in 0..Len(q) : WeakPart(q, p) BY DEF WInv
<1>2. PICK p \in 0..Len(q) : WeakPart(q, p) BY <1>1
<1>3. /\ UNCHANGED <<color, tag, field, roots, stack, markhp, phase, sweep_hp, pc, pending,
                     scan_v, scan_i, weak_list_head, weak_next, weak_prev, subphase,
                     final_table, to_do, to_darken>>
  BY DEF vars, finalvars
<1>4. NoFinal' /\ Late' = Late /\ KeptNow' = KeptNow /\ WeakArray' = WeakArray
  BY <1>0, <1>3 DEF NoFinal, Late, KeptNow, Live, Colored, WeakArray
<1>5. AllRoots' = AllRoots BY <1>0, <1>3, <1>4, NoFinalRoots, NoFinalRootsNext
<1>6. UNCHANGED B!vars BY <1>3, <1>5 DEF B!vars, B!stack, stack
<1>7. Core'
  <2>1. B!IInv' BY <1>0, <1>6, BarStep
  <2>2. FTypeOK' /\ FControl' BY <1>0, <1>3 DEF Core, FTypeOK, FControl
  <2>3. FinalVals' = {} BY <1>4, NoFinalRootsNext
  <2> QED BY <2>1, <2>2, <2>3 DEF Core
<1>8. Keep' = Keep
  BY <1>3 DEF Keep, B!ToMark, B!SeedClosed, B!Seeds, B!Colored, B!Succ, Colored
<1>9. WTypeOK' /\ MarkingOver' BY <1>0, <1>3, <1>4 DEF WTypeOK, MarkingOver, Colored
<1>10. \A k \in 1..Len(q) : q[k] \in Block BY <1>1, ElementOfSeq
<1>11. Listed(q)' BY <1>2, <1>3, <1>4 DEF WeakPart, Listed
<1>12. Passed(q, p)' BY <1>2, <1>3 DEF WeakPart, Passed
<1>13. Complete(q)' BY <1>2, <1>3, <1>4 DEF WeakPart, Complete
<1>14. ArraysKept(q, p)' BY <1>2, <1>3, <1>4 DEF WeakPart, ArraysKept
<1>15. PointersKept(q, p)'
  <2>1. phase # "sweep" => \A a \in WeakArray : weak'[a] \notin Colored("blue")
    BY <1>2 DEF WeakPart, PointersKept, Colored, WeakArray, Block, Nil
  <2>2. phase = "mark" /\ subphase = "weak1" => \A k \in 1..p : weak'[q[k]] \in Keep \cup {Nil}
    <3>1. \A k \in 1..p : k \in 1..Len(q) BY <1>1, <1>2
    <3> QED BY <3>1, <1>2, <1>10 DEF WeakPart, PointersKept
  <2>3. Late => \A k \in 1..Len(q) : weak'[q[k]] \in KeptNow \cup {Nil}
    BY <1>2, <1>10 DEF WeakPart, PointersKept
  <2>4. Colored("blue")' = Colored("blue") BY <1>3 DEF Colored
  <2> QED BY <1>3, <1>4, <1>8, <2>1, <2>2, <2>3, <2>4 DEF PointersKept
<1>16. WeakPart(q, p)' BY <1>11, <1>12, <1>13, <1>14, <1>15 DEF WeakPart
<1> QED BY <1>4, <1>7, <1>9, <1>16 DEF WInv

LEMMA SetStep ==
  ASSUME WInv, NEW a \in roots \cap WeakArray, NEW v \in roots \cup {Nil}, caml_weak_set(a, v)
  PROVE  WInv'
<1>0. Core /\ NoFinal /\ WTypeOK /\ MarkingOver BY DEF WInv
<1>1. /\ pc = "mutator" /\ weak' = [weak EXCEPT ![a] = v]
      /\ UNCHANGED <<vars, weak_list_head, weak_next, weak_prev, subphase, finalvars>>
  BY DEF caml_weak_set
<1>2. \/ v = Nil
      \/ /\ v \notin Colored("blue") /\ v \in Value
         /\ phase = "mark" => v \in Keep
         /\ Late => v \in KeptNow
  BY <1>0, <1>1, RootsKept DEF Colored
<1>3. weak' \in [Block -> Value] BY <1>0, <1>1, <1>2 DEF WTypeOK, Value
<1>4. \A x \in Block : weak'[x] = weak[x] \/ weak'[x] = v BY <1>0, <1>1 DEF WTypeOK
<1> QED BY <1>1, <1>2, <1>3, <1>4, Assign

\* caml_weak_blit copies a pointer that is kept, or erases it.
LEMMA BlitStep ==
  ASSUME WInv, NEW a \in roots \cap WeakArray, NEW d \in roots \cap WeakArray, caml_weak_blit(a, d)
  PROVE  WInv'
<1>0. Core /\ NoFinal /\ WTypeOK /\ MarkingOver BY DEF WInv
<1> DEFINE v == IF phase = "mark" /\ subphase = "weak1" /\ weak[a] # Nil /\ color[weak[a]] = "white"
                THEN Nil ELSE weak[a]
<1>1. /\ pc = "mutator" /\ weak' = [weak EXCEPT ![a] = v, ![d] = v]
      /\ UNCHANGED <<vars, weak_list_head, weak_next, weak_prev, subphase, finalvars>>
  BY DEF caml_weak_blit
<1>2. /\ weak[a] \in Value /\ weak[a] \notin Colored("blue")
      /\ Late => weak[a] \in KeptNow \cup {Nil}
  BY <1>1, HeldPointer
<1>3. color \in [Block -> {"white", "gray", "black", "blue"}] BY <1>0, Facts
<1>4. /\ v \in Value
      /\ \/ v = Nil
         \/ /\ v \notin Colored("blue")
            /\ phase = "mark" /\ subphase = "weak1" => v \in Keep
            /\ Late => v \in KeptNow
  BY <1>2, <1>3 DEF Keep, Colored, Value
<1> HIDE DEF v
<1>5. weak' \in [Block -> Value] BY <1>0, <1>1, <1>4 DEF WTypeOK
<1>6. \A x \in Block : weak'[x] = weak[x] \/ weak'[x] = v BY <1>0, <1>1 DEF WTypeOK
<1> QED BY <1>1, <1>4, <1>5, <1>6, Assign

\* A pointer to a kept block, taken out of a weak array, is darkened.
LEMMA TakenStep ==
  ASSUME WInv, pc = "mutator", NEW v \in Live, Late => v \in KeptNow, TakeWeak(v)
  PROVE  WInv'
<1> USE HeapAssumption, TagAssumption, GrayAssumption
<1>0. Core /\ NoFinal /\ WTypeOK /\ MarkingOver BY DEF WInv
<1>1. /\ roots' = roots \cup {v} /\ UNCHANGED <<tag, field, gcvars, weakvars, subphase, finalvars>>
      /\ IF phase = "mark" THEN caml_darken(v) ELSE UNCHANGED <<color, stack>>
  BY DEF TakeWeak
<1>2. UNCHANGED <<phase, pc, pending, markhp, sweep_hp, scan_v, scan_i, final_table, to_do, to_darken>>
  BY <1>1 DEF gcvars, finalvars
<1>3. NoFinal' BY <1>0, <1>2 DEF NoFinal
<1>4. AllRoots' = AllRoots \cup {v} BY <1>0, <1>1, <1>3, NoFinalRoots, NoFinalRootsNext
<1>5. v \in Block /\ v \in Value /\ v \in B!Live BY SameBlocks DEF Live, Value
<1>6. IF phase = "mark" THEN B!caml_darken(v) ELSE UNCHANGED <<color, B!stack>>
  BY <1>0, <1>1, <1>5, DarkenSeen DEF stack, B!stack
<1>7. /\ B!IInv'
      /\ \A x \in B!ToMark : color'[x] = "white" => x \in B!ToMark'
      /\ \A b \in B!Block :
           color'[b] = color[b] \/ (color[b] = "white" /\ color'[b] \in {"gray", "black"})
  <2>1. UNCHANGED <<tag, field, B!gcvars>> BY <1>1, <1>2 DEF B!gcvars
  <2>2. AllTags \subseteq B!AllTags BY DEF AllTags, B!AllTags
  <2>3. B!IInv BY <1>0, Facts
  <2> QED BY <1>4, <1>5, <1>6, <2>1, <2>2, <2>3, B!TakeStep
<1>8. Core'
  <2>2. FTypeOK' /\ FControl' BY <1>0, <1>1, <1>2 DEF Core, FTypeOK, FControl
  <2>3. FinalVals' = {} BY <1>3, NoFinalRootsNext
  <2> QED BY <1>7, <2>2, <2>3 DEF Core
<1>9. Others BY <1>0, <1>1, <1>7, SameBlocks, Facts DEF Others
<1>10. Steady
  <2>0. color \in [Block -> {"white", "gray", "black", "blue"}] BY <1>0, Facts
  <2>1. phase = "mark" => Keep \subseteq Keep'
    <3> SUFFICES ASSUME phase = "mark" PROVE Keep \subseteq Keep' OBVIOUS
    <3>1. \A x \in B!ToMark : x \in B!Block /\ color[x] # "blue"
      <4>1. AllTags \subseteq B!AllTags /\ B!IInv BY <1>0, Facts DEF AllTags, B!AllTags
      <4> QED BY <4>1, B!ToMarkAllocated
    <3> QED BY <1>7, <2>0, <3>1, SameBlocks DEF Keep, Colored
  <2>2. Late /\ phase = "mark" => color' = color
    <3>1. Late /\ phase = "mark" => color[v] = "black" BY DEF KeptNow, Colored
    <3> QED BY <3>1, <1>1 DEF caml_darken
  <2>3. phase = "sweep" => color' = color /\ sweep_hp' = sweep_hp BY <1>1, <1>2
  <2> QED BY <1>0, <1>2, <2>1, <2>2, <2>3 DEF Steady, MarkingOver, Colored, Live
<1> QED BY <1>1, <1>2, <1>8, <1>9, <1>10, Quiet

\* caml_weak_get and caml_weak_get_copy.
LEMMA GetStep ==
  ASSUME WInv, NEW a \in roots \cap WeakArray, caml_weak_get(a) \/ caml_weak_get_copy(a)
  PROVE  WInv'
<1>0. Core /\ NoFinal /\ WTypeOK /\ MarkingOver BY DEF WInv
<1>1. pc = "mutator" /\ weak[a] # Nil BY DEF caml_weak_get, caml_weak_get_copy, TakeWeak
<1>2. /\ weak[a] \in Block /\ weak[a] \notin Colored("blue")
      /\ Late => weak[a] \in KeptNow
  BY <1>1, HeldPointer DEF Value
<1>3. weak[a] \in Live
  BY <1>2 DEF Live, Late, KeptNow, Colored
<1>4. Closed(Live)
  <2>1. B!Closed(B!Live) BY <1>0, Facts DEF B!IInv, B!LiveClosed
  <2> QED BY <1>1, <2>1, SameBlocks DEF Closed, B!Closed
<1>5. Late => \A b \in KeptNow : Succ(b) \subseteq KeptNow
  <2>1. a \in roots OBVIOUS
  <2> QED BY <1>0, <1>1, <2>1, RootsKept
<1>6. PICK v \in {weak[a]} \cup Succ(weak[a]) : TakeWeak(v)
  BY DEF caml_weak_get, caml_weak_get_copy
<1>7. v \in Live /\ (Late => v \in KeptNow) BY <1>2, <1>3, <1>4, <1>5 DEF Closed
<1> QED BY <1>1, <1>6, <1>7, TakenStep

-----------------------------------------------------------------------------
(* The subphases of marking.                                               *)

\* A slice that finds marking over is free to return.
LEMMA YieldStep ==
  ASSUME Core, NoFinal, MarkingDone, UNCHANGED <<unmarked, subphase, finalvars>>, Yield("mark")
  PROVE  /\ Core' /\ NoFinal' /\ Keep' = Keep
         /\ pc = "mark" /\ phase = "mark" /\ pc' \in {"mark", "mutator"}
         /\ UNCHANGED <<color, tag, field, roots, phase, sweep_hp>>
<1>1. /\ pc = "mark" /\ phase = "mark" /\ pc' \in {"mark", "mutator"}
      /\ UNCHANGED <<color, tag, field, roots, stack, markhp, phase, sweep_hp, pending,
                     scan_v, scan_i, final_table, to_do, to_darken, subphase>>
  BY Facts DEF MarkingDone, Yield, unmarked, finalvars
<1>2. NoFinal' BY <1>1 DEF NoFinal
<1>3. AllRoots' = AllRoots BY <1>1, <1>2, NoFinalRoots, NoFinalRootsNext
<1>4. B!IInv BY Facts
<1>5. B!TypeOK' BY <1>1, <1>3, <1>4 DEF B!IInv, B!TypeOK, stack
<1>6. B!Control' /\ B!Shape'
  BY <1>1, <1>4 DEF B!IInv, B!Control, B!Shape, B!Slots, B!Scannable
<1>7. B!GrayStack' /\ B!PureHeap'
  BY <1>1, <1>4 DEF B!IInv, B!GrayStack, B!GrayEntries, B!PureHeap, B!Colored, B!InStack, stack
<1>8. B!LiveClosed' /\ B!SweepColors'
  BY <1>1, <1>3, <1>4 DEF B!IInv, B!LiveClosed, B!Closed, B!Succ, B!Live, B!SweepColors
<1>9. B!ToMark' = B!ToMark
  <2>1. B!Seeds' = B!Seeds BY <1>1 DEF B!Seeds, B!Colored
  <2> QED BY <1>1, <2>1 DEF B!ToMark, B!SeedClosed, B!Succ
<1>10. B!SnapshotMarking'
  BY <1>1, <1>3, <1>4, <1>9 DEF B!IInv, B!SnapshotMarking, B!Colored, B!Succ
<1>11. B!IInv' BY <1>5, <1>6, <1>7, <1>8, <1>10 DEF B!IInv
<1>12. FTypeOK' /\ FControl' BY <1>1 DEF Core, FTypeOK, FControl
<1>13. FinalVals' = {} BY <1>2, NoFinalRootsNext
<1>14. Core' BY <1>11, <1>12, <1>13 DEF Core
<1>15. Keep' = Keep BY <1>1, <1>9 DEF Keep, Colored
<1> QED BY <1>1, <1>2, <1>14, <1>15

\* *weak_prev is the array after position p.
LEMMA CurListed ==
  ASSUME NEW q \in Seq(Block), NEW p \in 0..Len(q), WeakPart(q, p),
         phase = "mark", subphase \in {"weak1", "weak2"}
  PROVE  Cur = IF p = Len(q) THEN Nil ELSE q[p + 1]
<1>1. Len(q) \in Nat /\ \A k \in 1..Len(q) : q[k] \in Block BY ElementOfSeq
<1>2. weak_prev = IF p = 0 THEN Nil ELSE q[p] BY DEF WeakPart, Passed
<1>3. CASE p = 0 BY <1>1, <1>2, <1>3 DEF WeakPart, Listed, Cur
<1>4. CASE p # 0
  <2>1. p \in 1..Len(q) BY <1>1, <1>4
  <2>2. weak_prev = q[p] /\ q[p] # Nil BY <1>1, <1>2, <1>4, <2>1 DEF Block, Nil
  <2> QED BY <2>1, <2>2 DEF WeakPart, Listed, Cur
<1> QED BY <1>3, <1>4

\* When marking is over, nothing is gray and nothing is left to mark.
LEMMA Marked ==
  ASSUME Core, MarkingDone
  PROVE  /\ pc = "mark" /\ phase = "mark" /\ Colored("gray") = {} /\ Keep = Colored("black")
         /\ \A b \in AllRoots : color[b] = "black"
         /\ \A b \in Block : color[b] = "black" => \A c \in Succ(b) : color[c] = "black"
         /\ \A b \in Block : color[b] # "blue" =>
              \A c \in Succ(b) : c \in Block /\ color[c] # "blue"
<1>1. /\ pc = "mark" /\ phase = "mark"
      /\ \A b \in Block : color[b] # "gray"
      /\ \A b \in AllRoots : color[b] = "black"
      /\ \A b \in Block : color[b] = "black" => \A c \in Succ(b) : color[c] = "black"
      /\ \A b \in Block : color[b] # "blue" =>
           \A c \in Succ(b) : c \in Block /\ color[c] # "blue"
  BY MarkingEnded
<1>2. Colored("gray") = {} BY <1>1 DEF Colored
<1>3. B!SeedClosed({}) BY <1>1, <1>2, SameBlocks DEF B!SeedClosed, B!Seeds
<1>4. B!ToMark = {} BY <1>3 DEF B!ToMark
<1> QED BY <1>1, <1>2, <1>4 DEF Keep

\* A cycle starts, or its first subphase ends.
LEMMA BeginStep ==
  ASSUME WInv, CycleStartedF \/ MainDone
  PROVE  WInv'
<1>0. Core /\ NoFinal /\ WTypeOK /\ MarkingOver BY DEF WInv
<1>1. PICK q \in Seq(Block) : \E p \in 0..Len(q) : WeakPart(q, p) BY DEF WInv
<1>2. PICK p \in 0..Len(q) : WeakPart(q, p) BY <1>1
<1>3. Core' BY <1>0, CycleStep, SubphaseStep
<1>4. /\ UNCHANGED <<color, tag, weak_list_head, weak_next, weak, final_table, to_do, to_darken>>
      /\ phase' = "mark" /\ subphase' \in {"main", "weak1"} /\ pc' # "final"
      /\ subphase' = "weak1" => weak_prev' = Nil
      /\ phase = "idle" \/ (phase = "mark" /\ subphase = "main")
  BY <1>0, Facts DEF CycleStartedF, CycleStarted, MainDone, MarkingDone, Yield, vars, weakvars, finalvars
<1>5. ~Late /\ ~Late' /\ WeakArray' = WeakArray /\ Colored("blue")' = Colored("blue")
  BY <1>4 DEF Late, WeakArray, Colored
<1>6. NoFinal' /\ WTypeOK' /\ MarkingOver' BY <1>0, <1>4, <1>5 DEF NoFinal, WTypeOK, MarkingOver
<1>7. Listed(q)' BY <1>2, <1>4, <1>5 DEF WeakPart, Listed
<1>8. Passed(q, 0)' BY <1>4 DEF Passed
<1>9. Complete(q)' BY <1>2, <1>4, <1>5 DEF WeakPart, Complete
<1>10. PointersKept(q, 0)' BY <1>2, <1>4, <1>5 DEF WeakPart, PointersKept
<1>11. ArraysKept(q, 0)' BY <1>4 DEF ArraysKept
<1>12. WeakPart(q, 0)' BY <1>7, <1>8, <1>9, <1>10, <1>11 DEF WeakPart
<1>13. 0 \in 0..Len(q) BY <1>1
<1> QED BY <1>3, <1>6, <1>12, <1>13 DEF WInv

\* What Weak1Step makes of a weak pointer.
LEMMA CleanedPointer ==
  ASSUME Core, MarkingDone, NEW v \in Value, v \notin Colored("blue")
  PROVE  /\ Cleaned(v) = Nil \/ (Cleaned(v) \in Block /\ color[Cleaned(v)] = "black")
         /\ Cleaned(v) = Nil /\ v # Nil => color[v] # "black"
<1> DEFINE w == IF v # Nil /\ ShortCircuits(v) /\ field[v][1] # Nil THEN field[v][1] ELSE v
<1>1. Cleaned(v) = IF w # Nil /\ color[w] = "white" THEN Nil ELSE w BY DEF Cleaned
<1>2. /\ color \in [Block -> {"white", "gray", "black", "blue"}]
      /\ \A b \in Block : color[b] # "gray"
  BY Facts, Marked DEF Colored
<1>3. /\ v \in Block => color[v] # "blue"
      /\ w # v => v \in Block /\ w \in Succ(v)
  <2>1. 1 \in Fields BY HeapAssumption DEF Fields
  <2>2. v \in Block => color[v] # "blue" BY DEF Colored
  <2>3. w # v => v \in Block /\ w = field[v][1] /\ w # Nil BY DEF Value
  <2>4. w # v => w \in Succ(v) BY <2>1, <2>3 DEF Succ
  <2> QED BY <2>2, <2>3, <2>4
<1>4. w # Nil => w \in Block /\ color[w] # "blue"
  BY <1>3, Marked DEF Value
<1>5. w = Nil => v = Nil OBVIOUS
<1> HIDE DEF w
<1>6. Cleaned(v) = Nil \/ (Cleaned(v) \in Block /\ color[Cleaned(v)] = "black")
  BY <1>1, <1>2, <1>4
<1>7. v \in Block /\ color[v] = "black" => color[w] = "black" BY <1>3, Marked
<1>8. Cleaned(v) = Nil /\ v # Nil => color[v] # "black"
  BY <1>1, <1>2, <1>4, <1>5, <1>7 DEF Value
<1> QED BY <1>6, <1>8

\* Weak1Step: the pointer of the next array is erased or leads to a black block.
LEMMA Weak1Keeps ==
  ASSUME WInv, Weak1Step
  PROVE  WInv'
<1>0. Core /\ NoFinal /\ WTypeOK /\ MarkingOver BY DEF WInv
<1>1. PICK q \in Seq(Block) : \E p \in 0..Len(q) : WeakPart(q, p) BY DEF WInv
<1>2. PICK p \in 0..Len(q) : WeakPart(q, p) BY <1>1
<1> DEFINE c == Cur
<1>3. /\ MarkingDone /\ subphase = "weak1" /\ c # Nil /\ weak_prev' = c
      /\ weak' = [weak EXCEPT ![c] = Cleaned(weak[c])] /\ Yield("mark")
      /\ UNCHANGED <<unmarked, weak_list_head, weak_next, subphase, finalvars>>
  BY DEF Weak1Step
<1>4. /\ Core' /\ NoFinal' /\ Keep' = Keep
      /\ pc = "mark" /\ phase = "mark" /\ pc' \in {"mark", "mutator"}
      /\ UNCHANGED <<color, tag, field, roots, phase, sweep_hp>>
  BY <1>0, <1>3, YieldStep
<1>5. ~Late /\ ~Late' /\ WeakArray' = WeakArray /\ Colored("blue")' = Colored("blue")
  BY <1>3, <1>4 DEF Late, WeakArray, Colored
<1>6. Len(q) \in Nat /\ \A k \in 1..Len(q) : q[k] \in Block BY <1>1, ElementOfSeq
<1>7. p + 1 \in 1..Len(q) /\ c = q[p + 1]
  BY <1>2, <1>3, <1>4, <1>6, CurListed
<1> HIDE DEF c
<1>8. c \in Block /\ c \in WeakArray BY <1>2, <1>6, <1>7 DEF WeakPart, Listed
<1>9. weak[c] \in Value /\ weak[c] \notin Colored("blue")
  BY <1>0, <1>2, <1>4, <1>8 DEF WTypeOK, WeakPart, PointersKept
<1>10. /\ Cleaned(weak[c]) \in Keep \cup {Nil} /\ Cleaned(weak[c]) \in Value
       /\ Cleaned(weak[c]) \notin Colored("blue")
  BY <1>0, <1>3, <1>9, CleanedPointer DEF Keep, Colored, Value, Block, Nil
<1>11. WTypeOK' /\ MarkingOver' BY <1>0, <1>3, <1>5, <1>10 DEF WTypeOK, MarkingOver
<1>12. \A x \in Block : weak'[x] = IF x = c THEN Cleaned(weak[c]) ELSE weak[x]
  BY <1>0, <1>3 DEF WTypeOK
<1>13. Listed(q)' BY <1>2, <1>3, <1>5 DEF WeakPart, Listed
<1>14. Passed(q, p + 1)' BY <1>3, <1>4, <1>6, <1>7 DEF Passed
<1>15. Complete(q)' BY <1>2, <1>5 DEF WeakPart, Complete
<1>16. PointersKept(q, p + 1)'
  <2>1. \A a \in WeakArray : weak'[a] \notin Colored("blue")
    BY <1>2, <1>4, <1>10, <1>12 DEF WeakPart, PointersKept, WeakArray
  <2>2. ASSUME NEW k \in 1..(p + 1) PROVE weak'[q[k]] \in Keep \cup {Nil}
    <3>1. CASE k = p + 1 BY <3>1, <1>7, <1>8, <1>10, <1>12
    <3>2. CASE k # p + 1
      <4>1. k \in 1..p /\ k \in 1..Len(q) BY <3>2, <1>2, <1>6
      <4>2. weak[q[k]] \in Keep \cup {Nil} BY <4>1, <1>2, <1>3, <1>4 DEF WeakPart, PointersKept
      <4>3. q[k] # c BY <3>2, <4>1, <1>2, <1>7 DEF WeakPart, Listed
      <4> QED BY <4>1, <4>2, <4>3, <1>6, <1>12
    <3> QED BY <3>1, <3>2
  <2> QED BY <1>4, <1>5, <2>1, <2>2 DEF PointersKept
<1>17. ArraysKept(q, p + 1)' BY <1>3, <1>4 DEF ArraysKept
<1>18. WeakPart(q, p + 1)' BY <1>13, <1>14, <1>15, <1>16, <1>17 DEF WeakPart
<1>19. p + 1 \in 0..Len(q) BY <1>7
<1> QED BY <1>4, <1>11, <1>18, <1>19 DEF WInv

\* Weak1Done: every weak pointer has been visited.
LEMMA Weak1DoneKeeps ==
  ASSUME WInv, Weak1Done
  PROVE  WInv'
<1>0. Core /\ NoFinal /\ WTypeOK /\ MarkingOver BY DEF WInv
<1>1. PICK q \in Seq(Block) : \E p \in 0..Len(q) : WeakPart(q, p) BY DEF WInv
<1>2. PICK p \in 0..Len(q) : WeakPart(q, p) BY <1>1
<1>3. Core' BY <1>0, SubphaseStep
<1>4. /\ MarkingDone /\ subphase = "weak1" /\ Cur = Nil /\ subphase' = "weak2" /\ weak_prev' = Nil
      /\ UNCHANGED <<color, tag, phase, pc, sweep_hp, weak_list_head, weak_next, weak,
                     final_table, to_do, to_darken>>
  BY DEF Weak1Done, vars, finalvars
<1>5. pc = "mark" /\ phase = "mark" /\ Colored("gray") = {} /\ Keep = Colored("black")
  BY <1>0, <1>4, Marked
<1>6. /\ ~Late /\ WeakArray' = WeakArray /\ KeptNow' = Colored("black")
      /\ \A x : Colored(x)' = Colored(x)
  BY <1>4, <1>5 DEF Late, WeakArray, Colored, KeptNow
<1>7. Len(q) \in Nat /\ \A k \in 1..Len(q) : q[k] \in Block BY <1>1, ElementOfSeq
<1>8. p = Len(q)
  <2>1. Cur = IF p = Len(q) THEN Nil ELSE q[p + 1] BY <1>2, <1>4, <1>5, CurListed
  <2>2. p # Len(q) => p + 1 \in 1..Len(q) BY <1>2, <1>7
  <2> QED BY <1>4, <1>7, <2>1, <2>2 DEF Block, Nil
<1>9. NoFinal' /\ WTypeOK' /\ MarkingOver'
  BY <1>0, <1>4, <1>5, <1>6 DEF NoFinal, WTypeOK, MarkingOver
<1>10. Listed(q)' BY <1>2, <1>4, <1>6 DEF WeakPart, Listed
<1>11. Passed(q, 0)' BY <1>4, <1>5 DEF Passed
<1>12. Complete(q)' BY <1>2, <1>6 DEF WeakPart, Complete
<1>13. PointersKept(q, 0)'
  <2>1. \A a \in WeakArray : weak[a] \notin Colored("blue") BY <1>2, <1>5 DEF WeakPart, PointersKept
  <2>2. \A k \in 1..Len(q) : weak[q[k]] \in Colored("black") \cup {Nil}
    BY <1>2, <1>4, <1>5, <1>8 DEF WeakPart, PointersKept
  <2> QED BY <1>4, <1>6, <2>1, <2>2 DEF PointersKept
<1>14. ArraysKept(q, 0)' BY <1>4, <1>5 DEF ArraysKept
<1>15. WeakPart(q, 0)' BY <1>10, <1>11, <1>12, <1>13, <1>14 DEF WeakPart
<1>16. 0 \in 0..Len(q) BY <1>7
<1> QED BY <1>3, <1>9, <1>15, <1>16 DEF WInv

\* A list without its element after position p.
LEMMA Without ==
  ASSUME NEW q \in Seq(Block), NEW p \in 0..Len(q), p # Len(q)
  PROVE  \E r \in Seq(Block) :
           /\ Len(r) = Len(q) - 1
           /\ \A k \in 1..Len(r) : IF k <= p THEN k \in 1..Len(q) /\ r[k] = q[k]
                                             ELSE k + 1 \in 1..Len(q) /\ r[k] = q[k + 1]
<1> DEFINE n == Len(q) - 1
           r == [k \in 1..n |-> IF k <= p THEN q[k] ELSE q[k + 1]]
<1>1. Len(q) \in Nat /\ n \in Nat /\ \A k \in 1..Len(q) : q[k] \in Block BY ElementOfSeq
<1>2. \A k \in 1..n : k \in 1..Len(q) /\ k + 1 \in 1..Len(q) BY <1>1
<1>3. \A k \in 1..n : r[k] \in Block BY <1>1, <1>2
<1>4. r \in Seq(Block) /\ Len(r) = n BY <1>1, <1>3, IsASeq
<1>5. \A k \in 1..n : IF k <= p THEN k \in 1..Len(q) /\ r[k] = q[k]
                                ELSE k + 1 \in 1..Len(q) /\ r[k] = q[k + 1]
  BY <1>2
<1> HIDE DEF r
<1> QED BY <1>4, <1>5

\* Weak2Step: it goes past an array that is kept, or unlinks one that is not.
LEMMA Weak2Keeps ==
  ASSUME WInv, Weak2Step
  PROVE  WInv'
<1>0. Core /\ NoFinal /\ WTypeOK /\ MarkingOver BY DEF WInv
<1>1. PICK q \in Seq(Block) : \E p \in 0..Len(q) : WeakPart(q, p) BY DEF WInv
<1>2. PICK p \in 0..Len(q) : WeakPart(q, p) BY <1>1
<1> DEFINE c == Cur
<1>3. /\ MarkingDone /\ subphase = "weak2" /\ c # Nil /\ Yield("mark")
      /\ UNCHANGED <<unmarked, weak, subphase, finalvars>>
  BY DEF Weak2Step
<1>4. /\ Core' /\ NoFinal'
      /\ pc = "mark" /\ phase = "mark" /\ pc' \in {"mark", "mutator"}
      /\ UNCHANGED <<color, tag, field, roots, phase, sweep_hp>>
  BY <1>0, <1>3, YieldStep
<1>5. /\ Late /\ Late' /\ WeakArray' = WeakArray /\ KeptNow' = KeptNow /\ KeptNow = Colored("black")
      /\ Colored("blue")' = Colored("blue") /\ Colored("gray")' = Colored("gray")
  BY <1>3, <1>4 DEF Late, WeakArray, Colored, KeptNow
<1>6. Len(q) \in Nat /\ \A k \in 1..Len(q) : q[k] \in Block BY <1>1, ElementOfSeq
<1>7. p + 1 \in 1..Len(q) /\ c = q[p + 1] /\ p # Len(q)
  BY <1>2, <1>3, <1>4, <1>6, CurListed
<1>8. \/ color[c] # "white" /\ weak_prev' = c /\ UNCHANGED <<weak_list_head, weak_next>>
      \/ /\ color[c] = "white" /\ UNCHANGED weak_prev
         /\ IF weak_prev = Nil
            THEN weak_list_head' = weak_next[c] /\ UNCHANGED weak_next
            ELSE weak_next' = [weak_next EXCEPT ![weak_prev] = weak_next[c]]
                 /\ UNCHANGED weak_list_head
  BY DEF Weak2Step
<1> HIDE DEF c
<1>9. MarkingOver' BY <1>0, <1>4, <1>5 DEF MarkingOver
<1>10. /\ \A i, k \in 1..Len(q) : q[i] = q[k] => i = k
       /\ weak_list_head = IF Len(q) = 0 THEN Nil ELSE q[1]
       /\ \A k \in 1..Len(q) : q[k] \in WeakArray
       /\ \A k \in 1..Len(q) : weak_next[q[k]] = IF k = Len(q) THEN Nil ELSE q[k + 1]
       /\ weak_prev = IF p = 0 THEN Nil ELSE q[p]
       /\ \A a \in WeakArray : a \in KeptNow => \E k \in 1..Len(q) : q[k] = a
       /\ \A a \in WeakArray : weak[a] \notin Colored("blue")
       /\ \A k \in 1..Len(q) : weak[q[k]] \in KeptNow \cup {Nil}
       /\ \A k \in 1..p : color[q[k]] = "black"
  BY <1>2, <1>3, <1>4, <1>5 DEF WeakPart, Listed, Passed, Complete, PointersKept, ArraysKept
<1>11. c \in Block /\ c \in WeakArray BY <1>6, <1>7, <1>10
<1>12. CASE color[c] # "white"
  <2>1. weak_prev' = c /\ UNCHANGED <<weak_list_head, weak_next>> BY <1>8, <1>12
  <2>2. color[c] = "black"
    <3>1. color[c] # "gray" BY <1>0, <1>4, <1>5, <1>11 DEF MarkingOver, Colored
    <3>2. color[c] # "blue" BY <1>11 DEF WeakArray
    <3>3. color \in [Block -> {"white", "gray", "black", "blue"}] BY <1>0, Facts
    <3> QED BY <1>11, <1>12, <3>1, <3>2, <3>3
  <2>3. \A k \in 1..(p + 1) : color[q[k]] = "black"
    <3>1. \A k \in 1..(p + 1) : k \in 1..p \/ k = p + 1 BY <1>2, <1>6
    <3> QED BY <3>1, <2>2, <1>7, <1>10
  <2>4. Listed(q)' BY <1>5, <1>10, <2>1 DEF Listed
  <2>5. Passed(q, p + 1)' BY <1>4, <1>6, <1>7, <2>1 DEF Passed
  <2>6. Complete(q)' BY <1>5, <1>10 DEF Complete
  <2>7. PointersKept(q, p + 1)' BY <1>3, <1>4, <1>5, <1>10 DEF PointersKept
  <2>8. ArraysKept(q, p + 1)' BY <1>3, <1>4, <2>3 DEF ArraysKept
  <2>9. WTypeOK' BY <1>0, <1>3, <2>1 DEF WTypeOK
  <2>10. WeakPart(q, p + 1)' BY <2>4, <2>5, <2>6, <2>7, <2>8 DEF WeakPart
  <2>11. p + 1 \in 0..Len(q) BY <1>7
  <2> QED BY <1>4, <1>9, <2>9, <2>10, <2>11 DEF WInv
<1>13. CASE color[c] = "white"
  <2>1. PICK r \in Seq(Block) :
          /\ Len(r) = Len(q) - 1
          /\ \A k \in 1..Len(r) : IF k <= p THEN k \in 1..Len(q) /\ r[k] = q[k]
                                            ELSE k + 1 \in 1..Len(q) /\ r[k] = q[k + 1]
    BY <1>1, <1>2, <1>7, Without
  <2>2. /\ UNCHANGED weak_prev
        /\ IF weak_prev = Nil
           THEN weak_list_head' = weak_next[c] /\ UNCHANGED weak_next
           ELSE weak_next' = [weak_next EXCEPT ![weak_prev] = weak_next[c]]
                /\ UNCHANGED weak_list_head
    BY <1>8, <1>13
  <2>3. p # 0 => p \in 1..Len(q) /\ q[p] \in Block /\ q[p] # Nil /\ weak_prev = q[p]
    BY <1>2, <1>6, <1>10 DEF Block, Nil
  <2>4. weak_next[c] = IF p + 1 = Len(q) THEN Nil ELSE q[p + 2]
    <3>1. (p + 1) + 1 = p + 2 BY <1>6
    <3> QED BY <1>7, <1>10, <3>1
  <2>5. weak_next[c] \in Value
    BY <1>0, <1>11 DEF WTypeOK
  <2>6. /\ weak_next \in [Block -> Value] /\ WTypeOK'
        /\ \A x \in Block : weak_next'[x] = IF p # 0 /\ x = q[p] THEN weak_next[c] ELSE weak_next[x]
        /\ weak_list_head' = IF p = 0 THEN weak_next[c] ELSE weak_list_head
    BY <1>0, <1>3, <1>10, <2>2, <2>3, <2>5 DEF WTypeOK
  <2>7. p \in 0..Len(r) /\ Len(r) \in Nat BY <1>2, <1>6, <1>7, <2>1
  <2>8. Listed(r)'
    <3>1. \A i, k \in 1..Len(r) : r[i] = r[k] => i = k
      <4> SUFFICES ASSUME NEW i \in 1..Len(r), NEW k \in 1..Len(r), r[i] = r[k] PROVE i = k
        OBVIOUS
      <4> DEFINE I == IF i <= p THEN i ELSE i + 1
                 K == IF k <= p THEN k ELSE k + 1
      <4>1. I \in 1..Len(q) /\ K \in 1..Len(q) /\ q[I] = q[K] BY <2>1
      <4>2. I = K BY <4>1, <1>10
      <4> QED BY <4>2, <2>7
    <3>2. weak_list_head' = IF Len(r) = 0 THEN Nil ELSE r[1]
      <4>1. CASE p = 0
        <5>1. Len(r) = 0 <=> p + 1 = Len(q) BY <4>1, <2>1, <1>6
        <5>2. Len(r) # 0 => r[1] = q[2] BY <4>1, <2>1, <2>7
        <5> QED BY <4>1, <5>1, <5>2, <2>4, <2>6
      <4>2. CASE p # 0
        <5>1. Len(r) # 0 /\ Len(q) # 0 /\ 1 \in 1..Len(r) /\ 1 <= p BY <4>2, <2>1, <2>7, <1>7, <1>6
        <5>2. r[1] = q[1] BY <5>1, <2>1
        <5> QED BY <4>2, <5>1, <5>2, <2>6, <1>10
      <4> QED BY <4>1, <4>2
    <3>3. ASSUME NEW k \in 1..Len(r)
          PROVE  /\ r[k] \in WeakArray
                 /\ weak_next'[r[k]] = IF k = Len(r) THEN Nil ELSE r[k + 1]
      <4>0. r[k] \in WeakArray BY <2>1, <1>10
      <4>1. CASE k < p
        <5>1. k \in 1..Len(q) /\ r[k] = q[k] /\ k # Len(r) /\ k # Len(q) /\ q[k] # q[p] /\ q[k] \in Block
          BY <4>1, <2>1, <2>3, <2>7, <1>6, <1>10
        <5>2. k + 1 \in 1..Len(r) /\ k + 1 <= p BY <4>1, <2>7
        <5>3. r[k + 1] = q[k + 1] BY <5>2, <2>1
        <5>4. weak_next[q[k]] = q[k + 1] BY <5>1, <1>10
        <5>5. weak_next'[q[k]] = weak_next[q[k]] BY <5>1, <2>6
        <5> QED BY <4>0, <5>1, <5>3, <5>4, <5>5
      <4>2. CASE k = p
        <5>1. p # 0 /\ k \in 1..Len(q) /\ r[k] = q[p] /\ q[p] \in Block BY <4>2, <2>1, <2>3, <2>7
        <5>2. weak_next'[q[p]] = weak_next[c] BY <5>1, <2>6
        <5>3. k = Len(r) <=> p + 1 = Len(q) BY <4>2, <2>1, <1>6
        <5>4. k # Len(r) => k + 1 \in 1..Len(r) /\ ~(k + 1 <= p) /\ (k + 1) + 1 = p + 2
          BY <4>2, <2>7
        <5>5. k # Len(r) => r[k + 1] = q[p + 2] BY <5>4, <2>1
        <5> QED BY <4>0, <5>1, <5>2, <5>3, <5>5, <2>4
      <4>3. CASE k > p
        <5>1. ~(k <= p) BY <4>3, <2>7
        <5>2. k + 1 \in 1..Len(q) /\ r[k] = q[k + 1] BY <5>1, <2>1
        <5>3. p # 0 => q[k + 1] # q[p]
          <6>1. p # 0 => k + 1 # p BY <4>3, <2>7
          <6> QED BY <6>1, <2>3, <5>2, <1>10
        <5>4. weak_next'[q[k + 1]] = weak_next[q[k + 1]] BY <5>2, <5>3, <2>6, <1>6
        <5>5. weak_next[q[k + 1]] = IF k + 1 = Len(q) THEN Nil ELSE q[(k + 1) + 1]
          BY <5>2, <1>10
        <5>6. k + 1 = Len(q) <=> k = Len(r) BY <2>1, <1>6
        <5>7. k # Len(r) => k + 1 \in 1..Len(r) /\ ~(k + 1 <= p) BY <4>3, <2>7
        <5>8. k # Len(r) => r[k + 1] = q[(k + 1) + 1] BY <5>7, <2>1
        <5> QED BY <4>0, <5>2, <5>4, <5>5, <5>6, <5>8
      <4> QED BY <4>1, <4>2, <4>3, <2>7
    <3> QED BY <3>1, <3>2, <3>3, <1>5 DEF Listed
  <2>9. Passed(r, p)'
    <3>1. p # 0 => r[p] = q[p] BY <2>1, <2>7
    <3> QED BY <3>1, <1>3, <1>4, <1>10, <2>2 DEF Passed
  <2>10. Complete(r)'
    <3> SUFFICES ASSUME NEW a \in WeakArray, a \in KeptNow PROVE \E k \in 1..Len(r) : r[k] = a
      BY <1>5 DEF Complete
    <3>1. PICK k \in 1..Len(q) : q[k] = a BY <1>10
    <3>2. k # p + 1 BY <3>1, <1>5, <1>7, <1>13 DEF Colored
    <3>3. CASE k <= p
      <4>1. k \in 1..Len(r) BY <3>3, <2>7
      <4> QED BY <3>1, <3>3, <4>1, <2>1
    <3>4. CASE ~(k <= p)
      <4>1. k - 1 \in 1..Len(r) /\ ~(k - 1 <= p) /\ (k - 1) + 1 = k BY <3>2, <3>4, <2>1, <2>7, <1>6
      <4>2. r[k - 1] = q[(k - 1) + 1] BY <4>1, <2>1
      <4> QED BY <3>1, <4>1, <4>2
    <3> QED BY <3>3, <3>4
  <2>11. PointersKept(r, p)'
    <3>1. \A k \in 1..Len(r) : weak[r[k]] \in KeptNow \cup {Nil} BY <2>1, <1>10
    <3> QED BY <1>3, <1>4, <1>5, <1>10, <3>1 DEF PointersKept
  <2>12. ArraysKept(r, p)'
    <3>1. \A k \in 1..p : k \in 1..Len(r) /\ k <= p BY <2>7
    <3>2. \A k \in 1..p : color[r[k]] = "black" BY <3>1, <2>1, <1>10
    <3> QED BY <1>3, <1>4, <3>2 DEF ArraysKept
  <2>13. WeakPart(r, p)' BY <2>8, <2>9, <2>10, <2>11, <2>12 DEF WeakPart
  <2> QED BY <1>4, <1>9, <2>6, <2>7, <2>13 DEF WInv
<1> QED BY <1>12, <1>13

\* Without finalisers caml_final_update finds nothing to do.
LEMMA NothingToUpdate ==
  ASSUME NoFinal, caml_final_update
  PROVE  NoFinal'
<1> DEFINE D == {k \in DOMAIN final_table : Dead(final_table[k])}
           E == DOMAIN final_table \ D
<1>1. PICK dead \in InOrder(D), alive \in InOrder(E) :
        /\ final_table' = [k \in DOMAIN alive |-> Resolved(final_table[alive[k]])]
        /\ to_do' = to_do \o Reverse([k \in DOMAIN dead |-> Resolved(final_table[dead[k]])])
        /\ to_darken' = [j \in DOMAIN [k \in DOMAIN dead |-> Resolved(final_table[dead[k]])]
                           |-> [k \in DOMAIN dead |-> Resolved(final_table[dead[k]])][j].val]
  BY DEF caml_final_update
<1>2. DOMAIN final_table = {} BY DEF NoFinal
<1>3. D = {} /\ E = {} BY <1>2
<1>4. Cardinality(D) = 0 /\ Cardinality(E) = 0 BY <1>3, FS_EmptySet
<1>5. DOMAIN dead = {} /\ DOMAIN alive = {}
  <2>1. DOMAIN dead = 1..0 /\ DOMAIN alive = 1..0 BY <1>4 DEF InOrder
  <2> QED BY <2>1
<1> DEFINE batch == [k \in DOMAIN dead |-> Resolved(final_table[dead[k]])]
<1>6. batch = <<>> /\ final_table' = <<>>
  BY <1>1, <1>5
<1>7. to_darken' = [j \in DOMAIN batch |-> batch[j].val] /\ to_do' = <<>> \o Reverse(batch)
  BY <1>1 DEF NoFinal
<1> HIDE DEF batch
<1>8. to_darken' = <<>> BY <1>6, <1>7
<1>9. Reverse(<<>>) = <<>>
  <2>1. Len(<<>>) = 0 OBVIOUS
  <2> QED BY <2>1 DEF Reverse
<1>10. to_do' = <<>> BY <1>6, <1>7, <1>9
<1> QED BY <1>6, <1>8, <1>10 DEF NoFinal

\* The end of the subphases: every array on the list has been found black.
LEMMA EndStep ==
  ASSUME WInv, caml_final_update \/ FinalUpdated \/ InitSweepF
  PROVE  WInv'
<1>0. Core /\ NoFinal /\ WTypeOK /\ MarkingOver BY DEF WInv
<1>1. PICK q \in Seq(Block) : \E p \in 0..Len(q) : WeakPart(q, p) BY DEF WInv
<1>2. PICK p \in 0..Len(q) : WeakPart(q, p) BY <1>1
<1>3. Core' BY <1>0, UpdateStep, UpdatedStep, InitSweepStep
<1>4. NoFinal'
  <2>1. CASE caml_final_update BY <1>0, <2>1, NothingToUpdate
  <2>2. CASE FinalUpdated \/ InitSweepF
    BY <1>0, <2>2 DEF FinalUpdated, InitSweepF, finalvars, NoFinal
  <2> QED BY <2>1, <2>2
<1>5. /\ UNCHANGED <<color, tag, weak_list_head, weak_next, weak, weak_prev>>
      /\ phase = "mark" /\ subphase \in {"weak2", "final"}
  <2>1. UNCHANGED <<color, tag, weak_list_head, weak_next, weak, weak_prev>>
    BY DEF caml_final_update, FinalUpdated, InitSweepF, InitSweep, unmarked, weakvars
  <2>2. phase = "mark" BY <1>0, Facts DEF caml_final_update, FinalUpdated, InitSweepF, InitSweep, MarkingDone, Core, FControl
  <2>3. pc = "final" => subphase = "weak2" BY <1>2 DEF WeakPart, Passed
  <2> QED BY <2>1, <2>2, <2>3 DEF caml_final_update, FinalUpdated, InitSweepF
<1>6. /\ phase' \in {"mark", "sweep"} /\ pc' # "scan"
      /\ phase' = "mark" => subphase' \in {"weak2", "final"}
      /\ phase' = "sweep" => subphase = "final" /\ sweep_hp' = 1
      /\ pc' = "final" => subphase' = "weak2" /\ subphase = "weak2" /\ p = Len(q)
      /\ subphase' = "final" => (subphase = "weak2" => p = Len(q))
      /\ subphase' = "weak2" => subphase = "weak2"
  <2>1. CASE caml_final_update
    <3>1. /\ subphase = "weak2" /\ Cur = Nil /\ UNCHANGED <<phase, subphase>> /\ pc' = "final"
      BY <2>1 DEF caml_final_update, unmarked
    <3>2. Cur = IF p = Len(q) THEN Nil ELSE q[p + 1] BY <1>2, <1>5, <3>1, CurListed
    <3>3. p # Len(q) => q[p + 1] \in Block
      <4>1. p # Len(q) => p + 1 \in 1..Len(q) BY <1>1, <1>2
      <4> QED BY <4>1, <1>1, ElementOfSeq
    <3>4. p = Len(q) BY <3>1, <3>2, <3>3 DEF Block, Nil
    <3> QED BY <1>5, <3>1, <3>4
  <2>2. CASE FinalUpdated
    <3>1. pc = "final" /\ subphase' = "final" /\ phase' = phase /\ pc' = "mark"
      BY <2>2 DEF FinalUpdated, unmarked
    <3>2. p = Len(q) BY <1>2, <3>1 DEF WeakPart, Passed
    <3> QED BY <1>5, <3>1, <3>2
  <2>3. CASE InitSweepF
    BY <2>3 DEF InitSweepF, InitSweep
  <2> QED BY <2>1, <2>2, <2>3
<1>7. Late /\ Late' /\ WeakArray' = WeakArray /\ \A x : Colored(x)' = Colored(x)
  BY <1>5, <1>6 DEF Late, WeakArray, Colored
<1>8. KeptNow = Colored("black") /\ KeptNow' = KeptNow
  <2>1. phase' = "sweep" => Live' = Colored("black")
    BY <1>5, <1>6, HeapAssumption DEF Live, Colored, Block
  <2> QED BY <1>5, <1>6, <1>7, <2>1 DEF KeptNow
<1>9. WTypeOK' /\ MarkingOver'
  BY <1>0, <1>5, <1>6, <1>7 DEF WTypeOK, MarkingOver
<1>10. Listed(q)' BY <1>2, <1>5, <1>7 DEF WeakPart, Listed
<1>11. Passed(q, p)' BY <1>2, <1>5, <1>6 DEF WeakPart, Passed
<1>12. Complete(q)' BY <1>2, <1>7, <1>8 DEF WeakPart, Complete
<1>13. PointersKept(q, p)' BY <1>2, <1>5, <1>6, <1>7, <1>8 DEF WeakPart, PointersKept
<1>14. ArraysKept(q, p)'
  <2>0. \A k \in 1..Len(q) : q[k] \in Block BY <1>1, ElementOfSeq
  <2>1. phase' = "mark" /\ subphase' = "weak2" => \A k \in 1..p : color[q[k]] = "black"
    BY <1>2, <1>5, <1>6 DEF WeakPart, ArraysKept
  <2>2. ASSUME phase' = "sweep" \/ subphase' = "final", NEW k \in 1..Len(q)
        PROVE  q[k] \in KeptNow
    <3>1. CASE subphase = "final" BY <3>1, <1>2, <1>5 DEF WeakPart, ArraysKept
    <3>2. CASE subphase = "weak2"
      <4>1. p = Len(q) BY <3>2, <2>2, <1>6
      <4>2. color[q[k]] = "black" BY <3>2, <4>1, <1>2, <1>5 DEF WeakPart, ArraysKept
      <4> QED BY <4>2, <2>0, <1>8 DEF Colored
    <3> QED BY <3>1, <3>2, <1>5
  <2> QED BY <1>5, <1>8, <2>1, <2>2 DEF ArraysKept
<1>15. WeakPart(q, p)' BY <1>10, <1>11, <1>12, <1>13, <1>14 DEF WeakPart
<1> QED BY <1>3, <1>4, <1>9, <1>15 DEF WInv

-----------------------------------------------------------------------------
(* Sweeping.                                                               *)

\* A block that is freed is on no list, and no weak pointer leads to it.
LEMMA FreeStep ==
  ASSUME WInv, SweepStep, SweepBlock
  PROVE  WInv'
<1>0. Core /\ NoFinal /\ WTypeOK /\ MarkingOver BY DEF WInv
<1>1. PICK q \in Seq(Block) : \E p \in 0..Len(q) : WeakPart(q, p) BY DEF WInv
<1>2. PICK p \in 0..Len(q) : WeakPart(q, p) BY <1>1
<1>3. /\ UNCHANGED <<weak_list_head, weak_prev, subphase, finalvars>>
      /\ \A b \in Block : ~(color[b] # "blue" /\ color'[b] = "blue") =>
                             weak'[b] = weak[b] /\ weak_next'[b] = weak_next[b]
      /\ WTypeOK'
  BY <1>0 DEF SweepStep, WTypeOK, Value
<1>4. pc = "sweep" /\ phase = "sweep" /\ phase' = "sweep" /\ pc' # "final"
  BY <1>0, Facts DEF SweepBlock, Yield
<1>5. /\ Core' /\ [B!Next]_(B!vars)
      /\ \A b \in Block : color'[b] # "blue" => color[b] # "blue" /\ tag'[b] = tag[b]
  BY <1>0, <1>3, SweepBlockStep
<1>6. \A b \in Block : color[b] # "blue" => (b \in Live' <=> b \in Live)
  <2>1. Steady BY <1>0, <1>4, <1>5, SteadyStep
  <2> QED BY <1>4, <2>1 DEF Steady
<1>7. Late /\ Late' /\ KeptNow = Live /\ KeptNow' = Live' BY <1>4 DEF Late, KeptNow
<1>8. /\ \A b \in Live : b \in Block /\ color[b] # "blue"
      /\ \A b \in Live' : b \in Block /\ color'[b] # "blue"
  BY <1>4 DEF Live
<1>9. \A b \in Live : b \in Live' /\ color'[b] # "blue" /\ tag'[b] = tag[b]
                      /\ weak'[b] = weak[b] /\ weak_next'[b] = weak_next[b]
  BY <1>3, <1>5, <1>6, <1>8
<1>10. NoFinal' /\ MarkingOver' BY <1>0, <1>3, <1>4 DEF NoFinal, MarkingOver, finalvars
<1>11. \A k \in 1..Len(q) : q[k] \in Live BY <1>2, <1>4, <1>7 DEF WeakPart, ArraysKept
<1>12. Listed(q)'
  <2>1. \A k \in 1..Len(q) : q[k] \in WeakArray'
    BY <1>2, <1>8, <1>9, <1>11 DEF WeakPart, Listed, WeakArray
  <2> QED BY <1>2, <1>3, <1>9, <1>11, <2>1 DEF WeakPart, Listed
<1>13. Passed(q, p)' BY <1>4 DEF Passed
<1>14. Complete(q)'
  <2>1. \A a \in WeakArray' : a \in Block /\ a \in WeakArray /\ color[a] # "blue"
    BY <1>5 DEF WeakArray
  <2> QED BY <1>2, <1>6, <1>7, <2>1 DEF WeakPart, Complete
<1>15. PointersKept(q, p)'
  <2>1. \A k \in 1..Len(q) : weak'[q[k]] \in Live' \cup {Nil}
    BY <1>2, <1>7, <1>9, <1>11 DEF WeakPart, PointersKept
  <2> QED BY <1>4, <1>7, <2>1 DEF PointersKept
<1>16. ArraysKept(q, p)' BY <1>4, <1>7, <1>9, <1>11 DEF ArraysKept
<1>17. WeakPart(q, p)' BY <1>12, <1>13, <1>14, <1>15, <1>16 DEF WeakPart
<1> QED BY <1>3, <1>5, <1>10, <1>17 DEF WInv

\* The cycle ends with nothing allocated but what it kept.
LEMMA SweptStep ==
  ASSUME WInv, SweepStep, SweepDone
  PROVE  WInv'
<1>0. Core /\ NoFinal /\ WTypeOK /\ MarkingOver BY DEF WInv
<1>1. PICK q \in Seq(Block) : \E p \in 0..Len(q) : WeakPart(q, p) BY DEF WInv
<1>2. PICK p \in 0..Len(q) : WeakPart(q, p) BY <1>1
<1>3. /\ pc = "sweep" /\ phase = "sweep" /\ phase' = "idle" /\ pc' = "mutator" /\ sweep_hp = Limit
      /\ UNCHANGED <<color, tag, weak_list_head, weak_prev, subphase, finalvars>>
  BY <1>0, Facts DEF SweepStep, SweepDone
<1>4. \A b \in Block : weak'[b] = weak[b] /\ weak_next'[b] = weak_next[b]
  BY <1>3 DEF SweepStep
<1>5. WTypeOK' BY <1>0, <1>3 DEF SweepStep, WTypeOK
<1>6. Core' BY <1>0, <1>3, SweepDoneStep
<1>7. NoFinal' /\ ~Late' /\ Late /\ KeptNow = Live BY <1>0, <1>3 DEF NoFinal, finalvars, Late, KeptNow
<1>8. MarkingOver' BY <1>7 DEF MarkingOver
<1>9. \A b \in Block : color[b] # "blue" => b \in Live
  <2>1. \A b \in Block : color[b] # "gray"
    <3>1. B!SweepColors BY <1>0, Facts DEF B!IInv
    <3>2. B!Colored("gray") = {} BY <1>3, <3>1 DEF B!SweepColors
    <3> QED BY <3>2, SameBlocks DEF Colored
  <2>2. \A b \in Block : b < sweep_hp BY <1>3, HeapAssumption DEF Limit, Block
  <2>3. color \in [Block -> {"white", "gray", "black", "blue"}] BY <1>0, Facts
  <2> QED BY <1>3, <2>1, <2>2, <2>3 DEF Live
<1>10. /\ WeakArray' = WeakArray /\ Colored("blue")' = Colored("blue")
       /\ \A a \in WeakArray : a \in Block /\ color[a] # "blue"
  BY <1>3 DEF WeakArray, Colored
<1>11. \A k \in 1..Len(q) : q[k] \in Block BY <1>1, ElementOfSeq
<1>12. Listed(q)' BY <1>2, <1>3, <1>4, <1>10, <1>11 DEF WeakPart, Listed
<1>13. Passed(q, p)' BY <1>3 DEF Passed
<1>14. \A a \in WeakArray : \E k \in 1..Len(q) : q[k] = a
  BY <1>2, <1>7, <1>9, <1>10 DEF WeakPart, Complete
<1>15. Complete(q)' BY <1>10, <1>14 DEF Complete
<1>16. PointersKept(q, p)'
  <2>1. \A k \in 1..Len(q) : weak[q[k]] \in Live \cup {Nil} BY <1>2, <1>7 DEF WeakPart, PointersKept
  <2>2. \A a \in WeakArray : weak'[a] \notin Colored("blue")
    BY <1>3, <1>4, <1>10, <1>14, <2>1 DEF Live, Colored, Block, Nil
  <2> QED BY <1>3, <1>7, <1>10, <2>2 DEF PointersKept
<1>17. ArraysKept(q, p)' BY <1>3 DEF ArraysKept
<1>18. WeakPart(q, p)' BY <1>12, <1>13, <1>15, <1>16, <1>17 DEF WeakPart
<1> QED BY <1>5, <1>6, <1>7, <1>8, <1>18 DEF WInv

-----------------------------------------------------------------------------
(* The theorems about weak arrays.                                         *)

LEMMA WeakStutter ==
  ASSUME WInv, UNCHANGED <<vars, weakvars, subphase, final_table, to_do, to_darken>>
  PROVE  WInv'
<1>0. Core /\ NoFinal /\ WTypeOK /\ MarkingOver BY DEF WInv
<1>1. PICK q \in Seq(Block) : \E p \in 0..Len(q) : WeakPart(q, p) BY DEF WInv
<1>2. PICK p \in 0..Len(q) : WeakPart(q, p) BY <1>1
<1>3. UNCHANGED <<color, tag, field, roots, stack, markhp, phase, sweep_hp, pc, pending,
                  scan_v, scan_i, weak_list_head, weak_next, weak, weak_prev, subphase,
                  final_table, to_do, to_darken>>
  BY DEF vars, weakvars
<1>4. Core' BY <1>0, Stutter
<1>5. /\ Late' = Late /\ KeptNow' = KeptNow /\ WeakArray' = WeakArray
      /\ \A x : Colored(x)' = Colored(x)
  BY <1>3 DEF Late, KeptNow, Live, Colored, WeakArray
<1>6. Keep' = Keep
  <2>1. ToDarken' = ToDarken BY <1>3 DEF ToDarken, White
  <2>2. B!Seeds' = B!Seeds BY <1>3, <2>1 DEF B!Seeds, B!Colored
  <2>3. B!ToMark' = B!ToMark BY <1>3, <2>2 DEF B!ToMark, B!SeedClosed, B!Succ
  <2> QED BY <1>3, <2>3 DEF Keep, Colored
<1>7. NoFinal' /\ WTypeOK' /\ MarkingOver' BY <1>0, <1>3, <1>5 DEF NoFinal, WTypeOK, MarkingOver
<1>8. Listed(q)' /\ Passed(q, p)' /\ Complete(q)'
  BY <1>2, <1>3, <1>5 DEF WeakPart, Listed, Passed, Complete
<1>9. PointersKept(q, p)' /\ ArraysKept(q, p)'
  BY <1>2, <1>3, <1>5, <1>6 DEF WeakPart, PointersKept, ArraysKept
<1> QED BY <1>4, <1>7, <1>8, <1>9 DEF WInv, WeakPart

\* Without finalisers, every step keeps the invariant.
LEMMA WeakStep ==
  ASSUME WInv, MaxFinal = 0, [NextF]_allvars
  PROVE  WInv'
<1>0. Core /\ NoFinal /\ MarkingOver BY DEF WInv
<1>a. ASSUME Core', Seen, phase' = phase, UNCHANGED <<weakvars, subphase, finalvars>>,
             pc # "final", pc' # "final"
      PROVE  WInv'
  <2>1. Steady BY <1>0, <1>a, SteadyStep DEF Seen
  <2> QED BY <1>a, <2>1, Quiet DEF Seen
<1>1. CASE UNCHANGED allvars \/ caml_final_release
  <2>1. UNCHANGED <<vars, weakvars, subphase, final_table, to_do, to_darken>>
    BY <1>1 DEF allvars, finalvars, caml_final_release
  <2> QED BY <2>1, WeakStutter
<1>2. CASE MutatorF
  <2>1. CASE Mutator /\ UNCHANGED <<weakvars, subphase, finalvars>>
    <3>1. pc = "mutator" /\ UNCHANGED gcvars
      BY <2>1 DEF Mutator, Alloc, caml_modify, SetForward, Load, Drop
    <3>2. phase' = phase /\ pc # "final" /\ pc' # "final" BY <3>1 DEF gcvars
    <3>3. Core' /\ Seen BY <1>0, <2>1, MutatorStep
    <3> QED BY <1>a, <2>1, <3>2, <3>3
  <2>2. ~\E f \in roots \cup {Nil}, v \in roots : caml_final_register(f, v)
    <3>1. Len(final_table) = 0 /\ Len(to_do) = 0 BY <1>0 DEF NoFinal
    <3>2. ~(Len(final_table) + Len(to_do) < MaxFinal) BY <3>1
    <3> QED BY <3>2 DEF caml_final_register
  <2>3. CASE \E b \in Block : caml_weak_create(b) BY <2>3, CreateStep
  <2>4. ASSUME NEW a \in roots \cap WeakArray,
               \/ \E v \in roots \cup {Nil} : caml_weak_set(a, v)
               \/ caml_weak_get(a) \/ caml_weak_get_copy(a)
               \/ \E d \in roots \cap WeakArray : caml_weak_blit(a, d)
        PROVE  WInv'
    BY <2>4, SetStep, GetStep, BlitStep
  <2> QED BY <1>2, <2>1, <2>2, <2>3, <2>4 DEF MutatorF
<1>3. ~caml_final_do_calls /\ ~DarkenFinal
  BY <1>0 DEF NoFinal, caml_final_do_calls, DarkenFinal
<1>4. CASE StartSliceF
  <2>1. /\ phase' = phase /\ UNCHANGED <<weakvars, subphase, finalvars>> /\ pc # "final" /\ pc' # "final"
    BY <1>0, <1>4, Facts DEF StartSliceF
  <2>2. Core' /\ Seen BY <1>0, <1>4, StartStep
  <2> QED BY <1>a, <2>1, <2>2
<1>5. CASE MarkStep
  <2>1. /\ phase' = phase /\ UNCHANGED <<weakvars, subphase, finalvars>> /\ pc # "final" /\ pc' # "final"
    BY <1>5 DEF MarkStep, DarkenRoot, MarkPop, MarkField, MarkHeap, MarkImpure, Yield
  <2>2. Core' /\ Seen BY <1>0, <1>5, MarkStepKeeps
  <2> QED BY <1>a, <2>1, <2>2
<1>6. CASE SweepStep
  BY <1>6, FreeStep, SweptStep DEF SweepStep
<1>7. CASE CollectorF /\ ~MarkStep /\ ~SweepStep
  BY <1>3, <1>7, BeginStep, Weak1Keeps, Weak1DoneKeeps, Weak2Keeps, EndStep DEF CollectorF
<1> QED BY <1>1, <1>2, <1>3, <1>4, <1>5, <1>6, <1>7 DEF NextF

LEMMA WeakStart == InitF => WInv
<1> SUFFICES ASSUME InitF PROVE WInv
  OBVIOUS
<1>1. Core BY Start DEF FInv
<1>2. /\ weak_list_head = Nil /\ weak_next = [b \in Block |-> Nil] /\ weak = [b \in Block |-> Nil]
      /\ color = [b \in Block |-> "blue"] /\ phase = "idle" /\ pc = "mutator"
      /\ final_table = <<>> /\ to_do = <<>> /\ to_darken = <<>>
  BY DEF InitF, Init
<1>3. NoFinal /\ WTypeOK /\ ~Late BY <1>2 DEF NoFinal, WTypeOK, Value, Late
<1>4. MarkingOver BY <1>3 DEF MarkingOver
<1>5. WeakArray = {} BY <1>2 DEF WeakArray
<1>6. <<>> \in Seq(Block) /\ Len(<<>>) = 0 /\ 1..0 = {} /\ 0 \in 0..Len(<<>>) OBVIOUS
<1>7. Listed(<<>>) BY <1>2, <1>6 DEF Listed
<1>8. Passed(<<>>, 0) BY <1>2 DEF Passed
<1>9. Complete(<<>>) BY <1>5 DEF Complete
<1>10. PointersKept(<<>>, 0) BY <1>2, <1>3, <1>5 DEF PointersKept
<1>11. ArraysKept(<<>>, 0) BY <1>2 DEF ArraysKept
<1> QED BY <1>1, <1>3, <1>4, <1>6, <1>7, <1>8, <1>9, <1>10, <1>11 DEF WInv, WeakPart

\* The program reaches only blocks that are kept.
LEMMA ReachableKept ==
  ASSUME WInv
  PROVE  /\ StrongReachable \subseteq Live
         /\ Late => StrongReachable \subseteq KeptNow
<1>0. Core /\ NoFinal /\ MarkingOver BY DEF WInv
<1>1. roots \cup FinalRoots = roots BY <1>0, NoFinalRoots
<1>2. roots \subseteq Live /\ Closed(Live)
  BY <1>0, NoFinalRoots, SameBlocks DEF Core, FControl, B!IInv, B!LiveClosed, B!Closed, Closed
<1>3. Live \in SUBSET Block /\ KeptNow \in SUBSET Block BY DEF Live, KeptNow, Colored
<1>4. StrongReachable \subseteq Live BY <1>1, <1>2, <1>3 DEF StrongReachable
<1>5. Late => roots \subseteq KeptNow /\ (roots = {} \/ Closed(KeptNow))
  BY <1>0, RootsKept DEF Closed
<1>6. roots = {} => StrongReachable = {}
  <2>1. Closed({}) BY DEF Closed
  <2> QED BY <1>1, <2>1 DEF StrongReachable
<1>7. Late => StrongReachable \subseteq KeptNow
  BY <1>1, <1>3, <1>5, <1>6 DEF StrongReachable
<1> QED BY <1>4, <1>7

\* A set of naturals has a least element.
LEMMA LeastNat ==
  ASSUME NEW S \in SUBSET Nat, S # {}
  PROVE  \E m \in S : \A n \in S : ~(n < m)
<1> DEFINE R == OpToRel(<, Nat)
<1>1. IsWellFoundedOn(R, Nat)
  BY NatLessThanWellFounded
<1>2. \A x, y \in Nat : <<x, y>> \in R <=> x < y
  BY DEF OpToRel
<1> HIDE DEF R
<1>3. \E x \in S : \A y \in S : ~(<<y, x>> \in R)
  BY <1>1, WFMin
<1> QED BY <1>2, <1>3

\* The sequence q holds the arrays that weak_next leads to.
LEMMA ListReached ==
  ASSUME NEW q \in Seq(Block), Listed(q)
  PROVE  WeakList = {q[k] : k \in 1..Len(q)}
<1> DEFINE L == {q[k] : k \in 1..Len(q)}
<1>a. Len(q) \in Nat /\ \A k \in 1..Len(q) : q[k] \in Block BY ElementOfSeq
<1>1. Len(q) \in Nat /\ \A k \in 1..Len(q) : q[k] \in Block /\ q[k] # Nil
  BY <1>a DEF Block, Nil
<1>2. WeakList \subseteq L
  <2>1. weak_list_head # Nil => weak_list_head \in L
    <3>1. Len(q) # 0 => 1 \in 1..Len(q) BY <1>1
    <3> QED BY <3>1 DEF Listed
  <2>2. ASSUME NEW a \in L, weak_next[a] # Nil PROVE weak_next[a] \in L
    <3>1. PICK k \in 1..Len(q) : a = q[k] OBVIOUS
    <3>2. k # Len(q) /\ weak_next[a] = q[k + 1] BY <2>2, <3>1 DEF Listed
    <3>3. k + 1 \in 1..Len(q) BY <1>1, <3>2
    <3> QED BY <3>2, <3>3
  <2>3. L \in SUBSET Block BY <1>1
  <2> HIDE DEF L
  <2> QED BY <2>1, <2>2, <2>3 DEF WeakList
<1>3. L \subseteq WeakList
  <2> SUFFICES ASSUME NEW S \in SUBSET Block,
                      weak_list_head # Nil => weak_list_head \in S,
                      \A a \in S : weak_next[a] # Nil => weak_next[a] \in S
               PROVE  \A k \in 1..Len(q) : q[k] \in S
    BY <1>1 DEF WeakList
  <2> DEFINE M == {k \in 1..Len(q) : q[k] \notin S}
  <2> SUFFICES ASSUME M # {} PROVE FALSE
    OBVIOUS
  <2>1. M \in SUBSET Nat BY <1>1
  <2>2. PICK m \in M : \A n \in M : ~(n < m)
    <3> HIDE DEF M
    <3> QED BY <2>1, LeastNat
  <2>3. m \in 1..Len(q) /\ q[m] \notin S BY <2>2
  <2>4. CASE m = 1
    <3>1. weak_list_head = q[1] /\ q[1] # Nil BY <1>1, <2>3, <2>4 DEF Listed
    <3> QED BY <3>1, <2>3, <2>4
  <2>5. CASE m # 1
    <3>1. m - 1 \in 1..Len(q) /\ m - 1 < m /\ m - 1 # Len(q) /\ (m - 1) + 1 = m BY <1>1, <2>3, <2>5
    <3>2. q[m - 1] \in S BY <3>1, <2>2
    <3>3. weak_next[q[m - 1]] = q[(m - 1) + 1] BY <3>1 DEF Listed
    <3>4. weak_next[q[m - 1]] = q[m] BY <3>1, <3>3
    <3> QED BY <1>1, <2>3, <3>2, <3>4
  <2> QED BY <2>4, <2>5
<1> QED BY <1>2, <1>3

\* A weak pointer that the program can get at leads to an allocated block, and
\* the list of weak arrays holds allocated arrays only and misses none that the
\* program can reach (weak.c, major_gc.c), in a program without finalisers.
THEOREM WeakPointersSound ==
  ASSUME MaxFinal = 0
  PROVE  SpecF => [](WeakSound /\ NoStrongFree)
<1>1. WInv /\ [NextF]_allvars => WInv' BY WeakStep
<1>2. WInv => WeakSound /\ NoStrongFree
  <2> SUFFICES ASSUME WInv PROVE WeakSound /\ NoStrongFree
    OBVIOUS
  <2>1. PICK q \in Seq(Block) : \E p \in 0..Len(q) : WeakPart(q, p) BY DEF WInv
  <2>2. PICK p \in 0..Len(q) : WeakPart(q, p) BY <2>1
  <2>3. StrongReachable \subseteq Live /\ (Late => StrongReachable \subseteq KeptNow)
    BY ReachableKept
  <2>4. WeakList = {q[k] : k \in 1..Len(q)} BY <2>1, <2>2, ListReached DEF WeakPart
  <2>5. \A a \in StrongReachable \cap WeakArray : \E k \in 1..Len(q) : q[k] = a
    BY <2>2, <2>3 DEF WeakPart, Complete
  <2>6. StrongReachable \cap WeakArray \subseteq WeakList BY <2>4, <2>5
  <2>7. WeakList \subseteq WeakArray BY <2>2, <2>4 DEF WeakPart, Listed
  <2>8. \A a \in StrongReachable \cap WeakArray : weak[a] \notin Colored("blue")
    <3>1. CASE phase # "sweep" BY <3>1, <2>2 DEF WeakPart, PointersKept
    <3>2. CASE phase = "sweep"
      <4>1. \A k \in 1..Len(q) : weak[q[k]] \in Live \cup {Nil}
        BY <3>2, <2>2 DEF WeakPart, PointersKept, Late, KeptNow
      <4>2. \A b \in Live \cup {Nil} : b \notin Colored("blue")
        BY DEF Live, Colored, Block, Nil
      <4> QED BY <2>5, <4>1, <4>2
    <3> QED BY <3>1, <3>2
  <2>9. NoStrongFree BY <2>3 DEF NoStrongFree, Live, Colored
  <2> QED BY <2>6, <2>7, <2>8, <2>9 DEF WeakSound
<1> QED BY <1>1, <1>2, WeakStart, PTL DEF SpecF

\* The collector empties a weak pointer only when the program has lost the
\* block (mark_slice, sweep_slice), in a program without finalisers.
THEOREM ErasedAreDead ==
  ASSUME MaxFinal = 0
  PROVE  SpecF => EraseOnlyDead
<1>1. WInv /\ [NextF]_allvars => WInv' BY WeakStep
<1> DEFINE Only == pc # "mutator" =>
                     \A a \in StrongReachable \cap WeakArray :
                       weak[a] # Nil /\ weak'[a] = Nil => weak[a] \notin StrongReachable
<1>2. WInv /\ [NextF]_allvars => Only
  <2> SUFFICES ASSUME WInv, [NextF]_allvars, pc # "mutator",
                      NEW a \in StrongReachable \cap WeakArray,
                      weak[a] # Nil, weak'[a] = Nil
               PROVE  weak[a] \notin StrongReachable
    OBVIOUS
  <2>0. Core /\ NoFinal /\ WTypeOK BY DEF WInv
  <2>1. StrongReachable \subseteq Live BY ReachableKept
  <2>2. CASE Weak1Step
    <3>1. MarkingDone /\ weak' = [weak EXCEPT ![Cur] = Cleaned(weak[Cur])]
      BY <2>2 DEF Weak1Step
    <3>2. a \in Block /\ weak[a] \in Value BY <2>0 DEF WeakArray, WTypeOK
    <3>3. Cleaned(weak[a]) = Nil BY <2>0, <3>1, <3>2 DEF WTypeOK
    <3>4. StrongReachable \subseteq {b \in Block : color[b] = "black"}
      <4> DEFINE S == {b \in Block : color[b] = "black"}
      <4>1. roots \cup FinalRoots \subseteq S
        BY <2>0, <3>1, Marked, NoFinalRoots, Facts
      <4>2. Closed(S) BY <2>0, <3>1, Marked DEF Closed
      <4>3. S \in SUBSET Block OBVIOUS
      <4> HIDE DEF S
      <4>4. StrongReachable \subseteq S BY <4>1, <4>2, <4>3 DEF StrongReachable
      <4> QED BY <4>4 DEF S
    <3>5. CASE weak[a] \in Colored("blue") BY <3>5, <3>4 DEF Colored
    <3>6. CASE weak[a] \notin Colored("blue")
      BY <2>0, <3>1, <3>2, <3>3, <3>4, <3>6, CleanedPointer
    <3> QED BY <3>5, <3>6
  <2>3. CASE SweepStep
    <3>1. a \in Block /\ color[a] # "blue" /\ a \in Live BY <2>1 DEF WeakArray
    <3>2. weak'[a] = IF color'[a] = "blue" THEN Nil ELSE weak[a] BY <2>3, <3>1 DEF SweepStep
    <3>3. color'[a] = "blue" BY <3>2
    <3>4. CASE SweepDone BY <3>1, <3>3, <3>4 DEF SweepDone
    <3>5. CASE SweepBlock
      <4>1. WInv' BY <1>1
      <4>2. phase = "sweep" /\ phase' = "sweep" BY <2>0, <3>5, Facts DEF SweepBlock
      <4>3. [B!Next]_(B!vars)
        BY <2>0, <2>3, <3>5, SweepBlockStep DEF SweepStep
      <4>4. Steady
        <5>1. pc # "final" /\ pc' # "final" BY <3>5 DEF SweepBlock, Yield
        <5> QED BY <4>2, <4>3, <5>1, SteadyStep DEF WInv
      <4>5. a \in Live' BY <3>1, <4>2, <4>4 DEF Steady
      <4> QED BY <3>3, <4>2, <4>5 DEF Live
    <3> QED BY <2>3, <3>4, <3>5 DEF SweepStep
  <2>4. CASE ~Weak1Step /\ ~SweepStep
    <3>1. weak' = weak
      BY <2>4 DEF NextF, allvars, weakvars, MutatorF, Mutator, Alloc, caml_modify, SetForward, Load,
         Drop, caml_weak_create, caml_weak_set,
         caml_weak_get, caml_weak_get_copy, TakeWeak, caml_weak_blit, caml_final_register,
         caml_final_do_calls, caml_final_release, StartSliceF, CollectorF, CycleStartedF, MarkStep,
         MainDone, Weak1Done, Weak2Step, caml_final_update, DarkenFinal, FinalUpdated, InitSweepF
    <3> QED BY <3>1
  <2> QED BY <2>2, <2>3, <2>4
<1> HIDE DEF Only
<1>3. SpecF => [][Only]_allvars
  BY <1>1, <1>2, WeakStart, PTL DEF SpecF
<1> QED BY <1>3 DEF EraseOnlyDead, Only
=============================================================================
