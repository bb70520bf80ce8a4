---------------------------- MODULE MajorGCProofs ----------------------------
(***************************************************************************)
(* Proofs about the major collector: the colours, the gray stack and the   *)
(* sweep pointer keep every block that the mutator can reach, for any heap *)
(* size, any number of fields and any size of the gray stack.              *)
(***************************************************************************)
EXTENDS MajorGC, TLAPS

-----------------------------------------------------------------------------
(* The inductive invariant.                                                *)

\* How the control points of a slice, the phase and the colours go together.
Control ==
  /\ pc = "roots" => phase = "idle"
  /\ pc \in {"mark", "scan"} => phase = "mark"
  /\ pc = "sweep" => phase = "sweep"
  /\ phase = "sweep" => sweep_hp >= 1
  /\ phase # "mark" => markhp = NULL
  /\ pc = "scan" => color[scan_v] = "black"
  /\ phase = "idle" /\ pc = "mutator" =>
       \A b \in Block : color[b] \notin {"gray", "black"}

\* Fields that a block's tag does not give it hold no pointer.
Shape == \A b \in Block : \A i \in Fields \ Slots(tag[b]) : field[b][i] = Nil

IInv ==
  /\ TypeOK /\ Control /\ Shape
  /\ GrayStack /\ PureHeap
  /\ LiveClosed /\ SnapshotMarking /\ SweepColors

-----------------------------------------------------------------------------
(* Type correctness.                                                       *)

\* Push keeps the types of the three variables of the gray stack.
LEMMA PushType ==
  ASSUME TypeOK, NEW v \in Block, Push(v)
  PROVE  /\ gray_vals' \in Seq(Block)
         /\ gray_vals_size' \in Nat /\ gray_vals_size' >= 2
         /\ heap_is_pure' \in BOOLEAN
<1> DEFINE s == Append(gray_vals, v)
<1>1. s \in Seq(Block) /\ Len(s) = Len(gray_vals) + 1 /\ Len(gray_vals) \in Nat
  BY DEF TypeOK
<1>2. CASE ~(Len(s) >= gray_vals_size)
  <2>1. gray_vals' = s /\ UNCHANGED <<gray_vals_size, heap_is_pure>>
    BY <1>2 DEF Push
  <2> HIDE DEF s
  <2> QED BY <1>1, <2>1 DEF TypeOK
<1>3. CASE Len(s) >= gray_vals_size
  <2>1. realloc_gray_vals(s)
    BY <1>3 DEF Push
  <2>2. gray_vals_size \div 2 \in 0..Len(s)
    BY <1>1, <1>3 DEF TypeOK
  <2>3. SubSeq(s, 1, gray_vals_size \div 2) \in Seq(Block)
    BY <1>1, <2>2
  <2> HIDE DEF s
  <2>4. heap_is_pure' \in BOOLEAN
    BY <2>1 DEF realloc_gray_vals, TypeOK
  <2>5. gray_vals' \in Seq(Block)
    <3>1. gray_vals' \in {s, <<>>, SubSeq(s, 1, gray_vals_size \div 2)}
      BY <2>1 DEF realloc_gray_vals
    <3>2. <<>> \in Seq(Block)
      OBVIOUS
    <3> QED BY <1>1, <2>3, <3>1, <3>2
  <2>6. gray_vals_size' \in {gray_vals_size, 2 * gray_vals_size}
    BY <2>1 DEF realloc_gray_vals
  <2>7. gray_vals_size' \in Nat /\ gray_vals_size' >= 2
    BY <2>6 DEF TypeOK
  <2> QED BY <2>4, <2>5, <2>7
<1> QED BY <1>2, <1>3

\* caml_darken keeps the types of the colours and of the gray stack.
LEMMA DarkenType ==
  ASSUME TypeOK, NEW v \in Value, caml_darken(v)
  PROVE  /\ color' \in [Block -> {"white", "gray", "black", "blue"}]
         /\ gray_vals' \in Seq(Block)
         /\ gray_vals_size' \in Nat /\ gray_vals_size' >= 2
         /\ heap_is_pure' \in BOOLEAN
<1>1. CASE v \in Block /\ Shade(v)
  BY <1>1, PushType DEF Shade, TypeOK
<1>2. CASE ~(v \in Block /\ Shade(v))
  BY <1>2 DEF caml_darken, TypeOK, stack, Value
<1> QED BY <1>1, <1>2

\* Every step keeps the type invariant.
LEMMA TypeStep == TypeOK /\ [Next]_vars => TypeOK'
<1> SUFFICES ASSUME TypeOK, [Next]_vars PROVE TypeOK'
  OBVIOUS
<1> USE HeapAssumption, TagAssumption DEF Nil, NULL
<1>1. ASSUME NEW b \in Block, NEW t \in Tags, NEW init \in [Fields -> roots \cup {Nil}],
             Alloc(b, t, init)
      PROVE  TypeOK'
  <2>1. init \in [Fields -> Value]
    BY DEF TypeOK, Value
  <2> QED BY <1>1, <2>1 DEF Alloc, TypeOK, stack, gcvars, caml_allocation_color
<1>2. ASSUME NEW b \in roots, NEW i \in Fields, NEW val \in roots \cup {Nil},
             caml_modify(b, i, val)
      PROVE  TypeOK'
  <2>1. b \in Block /\ val \in Value /\ field[b][i] \in Value
    BY DEF TypeOK, Value
  <2>2. /\ color' \in [Block -> {"white", "gray", "black", "blue"}]
        /\ gray_vals' \in Seq(Block)
        /\ gray_vals_size' \in Nat /\ gray_vals_size' >= 2
        /\ heap_is_pure' \in BOOLEAN
    <3>1. CASE phase = "mark" BY <1>2, <2>1, <3>1, DarkenType DEF caml_modify
    <3>2. CASE phase # "mark" BY <1>2, <3>2 DEF caml_modify, TypeOK, stack
    <3> QED BY <3>1, <3>2
  <2>3. field' \in [Block -> [Fields -> Value]]
    BY <1>2, <2>1 DEF caml_modify, TypeOK
  <2> QED BY <1>2, <2>2, <2>3 DEF caml_modify, TypeOK, gcvars
<1>3. ASSUME NEW b \in roots, SetForward(b) \/ Load(b) \/ Drop(b)
      PROVE  TypeOK'
  <2>1. CASE SetForward(b) BY <2>1 DEF SetForward, TypeOK, stack, gcvars, AllTags
  <2>2. CASE Load(b) BY <2>2 DEF Load, Succ, TypeOK, stack, gcvars, Value
  <2>3. CASE Drop(b) BY <2>3 DEF Drop, TypeOK, stack, gcvars
  <2> QED BY <1>3, <2>1, <2>2, <2>3
<1>4. CASE StartSlice BY <1>4 DEF StartSlice, TypeOK, stack
<1>5. ASSUME NEW v \in pending, DarkenRoot(v) PROVE TypeOK'
  <2>1. v \in Value BY DEF TypeOK, Value
  <2> QED BY <1>5, <2>1, DarkenType DEF DarkenRoot, TypeOK
<1>6. CASE CycleStarted BY <1>6 DEF CycleStarted, Yield, TypeOK, stack, Limit
<1>7. CASE MarkPop
  <2> DEFINE v == gray_vals[Len(gray_vals)]
  <2>1. Len(gray_vals) \in Nat \ {0} /\ v \in Block
    BY <1>7 DEF MarkPop, TypeOK
  <2>2. SubSeq(gray_vals, 1, Len(gray_vals) - 1) \in Seq(Block)
    BY <2>1 DEF TypeOK
  <2>3. color' \in [Block -> {"white", "gray", "black", "blue"}]
    BY <1>7, <2>1 DEF MarkPop, TypeOK
  <2>4. 1 \in Fields BY DEF Fields
  <2> HIDE DEF v
  <2> QED BY <1>7, <2>1, <2>2, <2>3, <2>4 DEF MarkPop, Yield, TypeOK, Value, Fields, v
<1>8. CASE MarkField
  <2> DEFINE child == field[scan_v][scan_i]
  <2>1. scan_v \in Block /\ scan_i \in Fields /\ child \in Value
    BY <1>8 DEF MarkField, TypeOK
  <2>2. child # Nil => child \in Block /\ field[child][1] \in Value
    BY <2>1 DEF Value, TypeOK, Fields
  <2>3. field' \in [Block -> [Fields -> Value]]
    BY <1>8, <2>1, <2>2 DEF MarkField, TypeOK
  <2>4. /\ color' \in [Block -> {"white", "gray", "black", "blue"}]
        /\ gray_vals' \in Seq(Block)
        /\ gray_vals_size' \in Nat /\ gray_vals_size' >= 2
        /\ heap_is_pure' \in BOOLEAN
    <3>1. CASE child # Nil /\ color[child] = "white"
      BY <1>8, <2>2, <3>1, PushType DEF MarkField, Shade, TypeOK
    <3>2. CASE ~(child # Nil /\ color[child] = "white")
      BY <1>8, <3>2 DEF MarkField, TypeOK, stack
    <3> QED BY <3>1, <3>2
  <2> QED BY <1>8, <2>1, <2>3, <2>4 DEF MarkField, Yield, TypeOK, Value, Fields
<1>9. CASE MarkHeap
  <2>1. markhp \in 1..Limit BY <1>9 DEF MarkHeap, TypeOK
  <2>2. CASE markhp = Limit BY <1>9, <2>2 DEF MarkHeap, TypeOK, Limit
  <2>3. CASE markhp # Limit
    <3>1. markhp \in Block /\ markhp + 1 \in 0..Limit BY <2>1, <2>3 DEF Block, Limit
    <3>2. <<markhp>> \in Seq(Block) /\ << >> \in Seq(Block) BY <3>1
    <3> QED BY <1>9, <2>3, <3>1, <3>2 DEF MarkHeap, TypeOK
  <2> QED BY <2>2, <2>3
<1>10. CASE MarkImpure BY <1>10 DEF MarkImpure, TypeOK, Limit
<1>11. CASE InitSweep BY <1>11 DEF InitSweep, MarkingDone, TypeOK, stack, Limit
<1>12. CASE SweepBlock
  <2>1. sweep_hp \in 0..N /\ sweep_hp + 1 \in 0..Limit
    BY <1>12 DEF SweepBlock, TypeOK, Limit
  <2>2. [i \in Fields |-> Nil] \in [Fields -> Value] BY DEF Value
  <2>3. color' \in [Block -> {"white", "gray", "black", "blue"}]
    BY <1>12 DEF SweepBlock, TypeOK
  <2>4. field' \in [Block -> [Fields -> Value]]
    BY <1>12, <2>2 DEF SweepBlock, TypeOK
  <2>5. tag' \in [Block -> AllTags]
    BY <1>12 DEF SweepBlock, TypeOK, AllTags
  <2> QED BY <1>12, <2>1, <2>3, <2>4, <2>5 DEF SweepBlock, Yield, TypeOK, stack
<1>13. CASE SweepDone BY <1>13 DEF SweepDone, TypeOK, stack
<1>14. CASE UNCHANGED vars BY <1>14 DEF vars, TypeOK, stack
<1> QED BY <1>1, <1>2, <1>3, <1>4, <1>5, <1>6, <1>7, <1>8, <1>9, <1>10, <1>11, <1>12,
           <1>13, <1>14 DEF Next, Mutator, Collector

\* The type invariant of the collector and its mutator holds for every heap.
THEOREM TypeCorrect == Spec => []TypeOK
<1>1. Init => TypeOK
  BY HeapAssumption, GrayAssumption
     DEF Init, TypeOK, AllTags, Value, Nil, NULL, Limit
<1> QED BY <1>1, TypeStep, PTL DEF Spec
-----------------------------------------------------------------------------
(* The gray stack.                                                         *)

\* After Push the stack is the old one with v on top, or a part of that one
\* and an impure heap.
LEMMA PushFacts ==
  ASSUME TypeOK, GrayEntries, NEW v \in Block, Push(v)
  PROVE  /\ Len(gray_vals') \in 0..(Len(gray_vals) + 1)
         /\ Len(gray_vals') < gray_vals_size'
         /\ \A k \in 1..Len(gray_vals') :
              gray_vals'[k] = IF k = Len(gray_vals) + 1 THEN v ELSE gray_vals[k]
         /\ \/ gray_vals' = Append(gray_vals, v) /\ heap_is_pure' = heap_is_pure
            \/ heap_is_pure' = FALSE
<1> DEFINE s == Append(gray_vals, v)
<1>1. /\ s \in Seq(Block) /\ Len(s) = Len(gray_vals) + 1 /\ Len(gray_vals) \in Nat
      /\ \A k \in 1..Len(s) :
           s[k] = IF k = Len(gray_vals) + 1 THEN v ELSE gray_vals[k]
  BY DEF TypeOK
<1>2. CASE ~(Len(s) >= gray_vals_size)
  <2>1. gray_vals' = s /\ UNCHANGED <<gray_vals_size, heap_is_pure>>
    BY <1>2 DEF Push
  <2> QED BY <1>1, <1>2, <2>1 DEF TypeOK
<1>3. CASE Len(s) >= gray_vals_size
  <2>1. realloc_gray_vals(s)
    BY <1>3 DEF Push
  <2> DEFINE h == gray_vals_size \div 2
  <2>2. gray_vals_size \in Nat /\ gray_vals_size >= 2
    BY DEF TypeOK
  <2>3. Len(s) = gray_vals_size /\ h \in Nat /\ h < gray_vals_size
    BY <1>1, <1>3, <2>2 DEF TypeOK, GrayEntries
  <2>4. CASE gray_vals' = s /\ gray_vals_size' = 2 * gray_vals_size /\ UNCHANGED heap_is_pure
    BY <1>1, <2>2, <2>3, <2>4
  <2>5. CASE gray_vals' = <<>> /\ heap_is_pure' = FALSE /\ UNCHANGED gray_vals_size
    BY <1>1, <2>2, <2>5
  <2>6. CASE gray_vals' = SubSeq(s, 1, h) /\ heap_is_pure' = FALSE /\ UNCHANGED gray_vals_size
    <3> HIDE DEF s, h
    <3>1. Len(gray_vals') = h /\ \A k \in 1..h : gray_vals'[k] = s[k]
      BY <1>1, <2>3, <2>6
    <3> QED BY <1>1, <2>2, <2>3, <2>6, <3>1
  <2> QED BY <2>1, <2>4, <2>5, <2>6 DEF realloc_gray_vals
<1> QED BY <1>2, <1>3

\* Shading a white block keeps the stack well formed and a pure heap pure.
LEMMA ShadeStack ==
  ASSUME TypeOK, GrayEntries, PureHeap, NEW v \in Block, color[v] = "white", Shade(v)
  PROVE  GrayEntries' /\ (markhp' = markhp => PureHeap')
<1>1. /\ Len(gray_vals') \in 0..(Len(gray_vals) + 1)
      /\ Len(gray_vals') < gray_vals_size'
      /\ \A k \in 1..Len(gray_vals') :
           gray_vals'[k] = IF k = Len(gray_vals) + 1 THEN v ELSE gray_vals[k]
      /\ \/ gray_vals' = Append(gray_vals, v) /\ heap_is_pure' = heap_is_pure
         \/ heap_is_pure' = FALSE
  BY PushFacts DEF Shade
<1>2. \A b \in Block : color'[b] = IF b = v THEN "gray" ELSE color[b]
  BY DEF Shade, TypeOK
<1>3. \A k \in 1..Len(gray_vals) : gray_vals[k] \in Block /\ gray_vals[k] # v
  BY DEF TypeOK, GrayEntries
<1>4. Len(gray_vals) \in Nat
  BY DEF TypeOK
<1>5. GrayEntries'
  <2>1. \A k \in 1..Len(gray_vals') : color'[gray_vals'[k]] = "gray"
    BY <1>1, <1>2, <1>3, <1>4 DEF GrayEntries
  <2>2. \A k, l \in 1..Len(gray_vals') : gray_vals'[k] = gray_vals'[l] => k = l
    BY <1>1, <1>3, <1>4 DEF GrayEntries
  <2> QED BY <1>1, <2>1, <2>2 DEF GrayEntries
<1>6. ASSUME markhp' = markhp PROVE PureHeap'
  <2> SUFFICES ASSUME heap_is_pure', NEW b \in Block, color'[b] = "gray",
                      markhp = NULL \/ b < markhp
               PROVE  InStack(b)'
    BY <1>6 DEF PureHeap, Colored
  <2>1. gray_vals' = Append(gray_vals, v) /\ heap_is_pure
    BY <1>1
  <2>2. CASE b = v
    BY <1>4, <2>1, <2>2 DEF InStack, TypeOK
  <2>3. CASE b # v
    <3>1. InStack(b)
      BY <1>2, <2>1, <2>3 DEF PureHeap, Colored
    <3> QED BY <1>4, <2>1, <3>1 DEF InStack, TypeOK
  <2> QED BY <2>2, <2>3
<1> QED BY <1>5, <1>6

\* The whole effect of caml_darken on colours and on the gray stack.
LEMMA DarkenFacts ==
  ASSUME TypeOK, GrayEntries, PureHeap, NEW v \in Value, caml_darken(v)
  PROVE  /\ GrayEntries' /\ (markhp' = markhp => PureHeap')
         /\ v \in Block => color'[v] # "white"
         /\ \A b \in Block :
              \/ color'[b] = color[b]
              \/ /\ b = v /\ color[b] = "white"
                 /\ color'[b] = IF Scannable(tag[b]) THEN "gray" ELSE "black"
<1> USE DEF Nil
<1>0. v \in Block <=> v # Nil
  BY DEF Value, Block
<1>1. CASE v # Nil /\ color[v] = "white" /\ Scannable(tag[v]) /\ Shade(v)
  <2>1. \A b \in Block : color'[b] = IF b = v THEN "gray" ELSE color[b]
    BY <1>1 DEF Shade, TypeOK
  <2> QED BY <1>0, <1>1, <2>1, ShadeStack
<1>2. CASE /\ v # Nil /\ color[v] = "white" /\ ~Scannable(tag[v])
           /\ color' = [color EXCEPT ![v] = "black"] /\ UNCHANGED stack
  <2>1. \A b \in Block : color'[b] = IF b = v THEN "black" ELSE color[b]
    BY <1>2 DEF TypeOK
  <2>2. \A k \in 1..Len(gray_vals) : gray_vals[k] \in Block /\ gray_vals[k] # v
    BY <1>2 DEF TypeOK, GrayEntries
  <2>3. GrayEntries'
    BY <1>2, <2>1, <2>2 DEF GrayEntries, stack
  <2>4. markhp' = markhp => PureHeap'
    BY <1>2, <2>1 DEF PureHeap, InStack, Colored, stack
  <2> QED BY <1>0, <1>2, <2>1, <2>3, <2>4
<1>3. CASE (v # Nil => color[v] # "white") /\ UNCHANGED <<color, stack>>
  BY <1>0, <1>3 DEF GrayEntries, PureHeap, InStack, Colored, stack
<1> QED BY <1>1, <1>2, <1>3 DEF caml_darken

\* Every step keeps the gray stack well formed and PureHeap.
LEMMA GrayStep == IInv /\ [Next]_vars => GrayStack' /\ PureHeap'
<1> SUFFICES ASSUME IInv, [Next]_vars PROVE GrayStack' /\ PureHeap'
  OBVIOUS
<1> USE HeapAssumption DEF Nil, NULL
<1>0. TypeOK /\ Control /\ GrayStack /\ GrayEntries /\ PureHeap /\ SweepColors
  BY DEF IInv, GrayStack
<1>1. ASSUME NEW b \in Block, NEW t \in Tags, NEW init \in [Fields -> roots \cup {Nil}],
             Alloc(b, t, init)
      PROVE  GrayStack' /\ PureHeap'
  <2>1. \A c \in Block : color'[c] = "gray" <=> color[c] = "gray"
    BY <1>0, <1>1 DEF Alloc, TypeOK, caml_allocation_color
  <2>2. \A k \in 1..Len(gray_vals) : gray_vals[k] \in Block
    BY <1>0 DEF TypeOK
  <2>3. GrayEntries'
    BY <1>0, <1>1, <2>1, <2>2 DEF Alloc, GrayEntries, stack
  <2>4. PureHeap'
    BY <1>0, <1>1, <2>1 DEF Alloc, PureHeap, Colored, InStack, stack, gcvars
  <2> QED BY <1>0, <1>1, <2>3, <2>4 DEF Alloc, GrayStack, stack, gcvars
<1>2. ASSUME NEW b \in roots, NEW i \in Fields, NEW val \in roots \cup {Nil},
             caml_modify(b, i, val)
      PROVE  GrayStack' /\ PureHeap'
  <2>1. CASE phase = "mark"
    <3>1. field[b][i] \in Value /\ caml_darken(field[b][i])
      BY <1>0, <1>2, <2>1 DEF caml_modify, TypeOK
    <3>2. GrayEntries' /\ (markhp' = markhp => PureHeap')
      BY <1>0, <3>1, DarkenFacts
    <3> QED BY <1>0, <1>2, <2>1, <3>2 DEF caml_modify, GrayStack, gcvars
  <2>2. CASE phase # "mark"
    BY <1>0, <1>2, <2>2
    DEF caml_modify, GrayStack, GrayEntries, PureHeap, Colored, InStack, stack, gcvars
  <2> QED BY <2>1, <2>2
<1>3. ASSUME NEW b \in roots, SetForward(b) \/ Load(b) \/ Drop(b)
      PROVE  GrayStack' /\ PureHeap'
  BY <1>0, <1>3 DEF SetForward, Load, Drop, GrayStack, GrayEntries, PureHeap, Colored,
                    InStack, stack, gcvars
<1>4. CASE StartSlice
  BY <1>0, <1>4 DEF StartSlice, GrayStack, GrayEntries, PureHeap, Colored, InStack, stack
<1>5. ASSUME NEW v \in pending, DarkenRoot(v) PROVE GrayStack' /\ PureHeap'
  <2>1. v \in Value /\ caml_darken(v)
    BY <1>0, <1>5 DEF TypeOK, Value, DarkenRoot
  <2>2. GrayEntries' /\ (markhp' = markhp => PureHeap')
    BY <1>0, <2>1, DarkenFacts
  <2> QED BY <1>0, <1>5, <2>2 DEF DarkenRoot, GrayStack, Control
<1>6. CASE CycleStarted
  BY <1>0, <1>6 DEF CycleStarted, Control, GrayStack, GrayEntries, PureHeap, Colored,
                    InStack, stack
<1>7. CASE MarkPop
  <2> DEFINE n == Len(gray_vals)
             v == gray_vals[n]
  <2>1. n \in Nat \ {0} /\ v \in Block /\ \A k \in 1..n : gray_vals[k] \in Block
    BY <1>0, <1>7 DEF MarkPop, TypeOK
  <2>2. gray_vals' = SubSeq(gray_vals, 1, n - 1) /\ color' = [color EXCEPT ![v] = "black"]
    BY <1>7 DEF MarkPop
  <2>3. Len(gray_vals') = n - 1 /\ \A k \in 1..(n - 1) : gray_vals'[k] = gray_vals[k]
    <3> HIDE DEF n
    <3>1. gray_vals \in Seq(Block) /\ n - 1 \in 0..Len(gray_vals)
      BY <1>0, <2>1 DEF TypeOK, n
    <3> QED BY <2>1, <2>2, <3>1
  <2>4. \A c \in Block : color'[c] = IF c = v THEN "black" ELSE color[c]
    BY <1>0, <2>2 DEF TypeOK
  <2>5. UNCHANGED <<gray_vals_size, heap_is_pure, markhp, phase>> /\ phase = "mark"
    BY <1>0, <1>7 DEF MarkPop, Control
  <2> HIDE DEF v
  <2>6. \A k \in 1..(n - 1) : gray_vals[k] # v
    BY <1>0, <2>1 DEF GrayEntries, v
  <2> HIDE DEF n
  <2>7. GrayEntries'
    <3>1. \A k \in 1..Len(gray_vals') : color'[gray_vals'[k]] = "gray"
      BY <1>0, <2>1, <2>3, <2>4, <2>6 DEF GrayEntries, n
    <3>2. \A k, l \in 1..Len(gray_vals') : gray_vals'[k] = gray_vals'[l] => k = l
      BY <1>0, <2>1, <2>3 DEF GrayEntries, n
    <3>3. Len(gray_vals') < gray_vals_size'
      BY <1>0, <2>1, <2>3, <2>5 DEF GrayEntries, n, TypeOK
    <3> QED BY <3>1, <3>2, <3>3 DEF GrayEntries
  <2>8. PureHeap'
    <3> SUFFICES ASSUME heap_is_pure, NEW b \in Block, color'[b] = "gray",
                        markhp = NULL \/ b < markhp
                 PROVE  InStack(b)'
      BY <2>5 DEF PureHeap, Colored
    <3>1. b # v /\ InStack(b)
      BY <1>0, <2>4 DEF PureHeap, Colored
    <3>2. PICK k \in 1..n : gray_vals[k] = b
      BY <3>1 DEF InStack, n
    <3>3. k \in 1..(n - 1)
      BY <2>1, <3>1, <3>2 DEF v
    <3> QED BY <2>3, <3>2, <3>3 DEF InStack
  <2> QED BY <2>5, <2>7, <2>8 DEF GrayStack
<1>8. CASE MarkField
  <2> DEFINE child == field[scan_v][scan_i]
  <2>1. child \in Value /\ phase = "mark" /\ phase' = phase /\ markhp' = markhp
    BY <1>0, <1>8 DEF MarkField, TypeOK, Control
  <2>2. CASE child # Nil /\ color[child] = "white"
    <3>1. child \in Block /\ Shade(child)
      BY <1>8, <2>1, <2>2 DEF MarkField, Value
    <3>2. GrayEntries' /\ PureHeap'
      BY <1>0, <2>1, <2>2, <3>1, ShadeStack
    <3> QED BY <2>1, <3>2 DEF GrayStack
  <2>3. CASE ~(child # Nil /\ color[child] = "white")
    <3>1. UNCHANGED <<color, stack>>
      BY <1>8, <2>3 DEF MarkField
    <3> QED BY <1>0, <2>1, <3>1
            DEF GrayStack, GrayEntries, PureHeap, Colored, InStack, stack
  <2> QED BY <2>2, <2>3
<1>9. CASE MarkHeap
  <2>1. phase' = "mark" /\ gray_vals = <<>> /\ markhp \in 1..Limit
        /\ UNCHANGED <<color, gray_vals_size, heap_is_pure>>
    BY <1>0, <1>9 DEF MarkHeap, Control, TypeOK
  <2>2. \A b \in Block : ~InStack(b)
    BY <2>1 DEF InStack
  <2>3. CASE markhp = Limit
    <3>1. markhp' = NULL /\ gray_vals' = gray_vals
      BY <1>9, <2>3 DEF MarkHeap
    <3>2. heap_is_pure => \A b \in Block : color[b] # "gray"
      BY <1>0, <2>2, <2>3 DEF PureHeap, Colored, Block, Limit
    <3> QED BY <1>0, <2>1, <3>1, <3>2 DEF GrayStack, GrayEntries, PureHeap, Colored
  <2>4. CASE markhp # Limit
    <3>1. markhp' = markhp + 1 /\ markhp \in Block
          /\ gray_vals' = IF color[markhp] = "gray" THEN <<markhp>> ELSE <<>>
      BY <1>9, <2>1, <2>4 DEF MarkHeap, Block, Limit
    <3>2. PureHeap'
      BY <1>0, <2>1, <2>2, <3>1 DEF PureHeap, Colored, InStack, Block
    <3>3. GrayEntries'
      BY <1>0, <2>1, <3>1 DEF GrayEntries, TypeOK
    <3> QED BY <2>1, <3>2, <3>3 DEF GrayStack
  <2> QED BY <2>3, <2>4
<1>10. CASE MarkImpure
  BY <1>0, <1>10 DEF MarkImpure, Control, GrayStack, GrayEntries, PureHeap, Colored, Block
<1>11. CASE InitSweep
  BY <1>0, <1>11 DEF InitSweep, MarkingDone, GrayStack, GrayEntries, PureHeap, Colored,
                     InStack, stack
<1>12. CASE SweepBlock
  <2>1. phase = "sweep" /\ gray_vals = <<>> /\ phase' = phase /\ UNCHANGED stack
    BY <1>0, <1>12 DEF SweepBlock, Control, GrayStack
  <2>2. \A b \in Block : color'[b] # "gray"
    BY <1>0, <1>12, <2>1 DEF SweepBlock, SweepColors, Colored, TypeOK
  <2> QED BY <1>0, <2>1, <2>2 DEF GrayStack, GrayEntries, PureHeap, Colored, stack
<1>13. CASE SweepDone
  BY <1>0, <1>13 DEF SweepDone, Control, GrayStack, GrayEntries, PureHeap, Colored,
                     InStack, stack
<1>14. CASE UNCHANGED vars
  BY <1>0, <1>14 DEF vars, GrayStack, GrayEntries, PureHeap, Colored, InStack, stack
<1> QED BY <1>1, <1>2, <1>3, <1>4, <1>5, <1>6, <1>7, <1>8, <1>9, <1>10, <1>11, <1>12,
           <1>13, <1>14 DEF Next, Mutator, Collector

-----------------------------------------------------------------------------
(* Control points and the shape of blocks.                                 *)

\* Every step keeps Control.
LEMMA ControlStep == IInv /\ [Next]_vars => Control'
<1> SUFFICES ASSUME IInv, [Next]_vars PROVE Control'
  OBVIOUS
<1> USE HeapAssumption DEF Nil, NULL
<1>0. TypeOK /\ Control /\ GrayEntries /\ PureHeap /\ SweepColors
  BY DEF IInv, GrayStack
<1>1. ASSUME NEW b \in Block, NEW t \in Tags, NEW init \in [Fields -> roots \cup {Nil}],
             Alloc(b, t, init)
      PROVE  Control'
  BY <1>0, <1>1 DEF Alloc, Control, TypeOK, caml_allocation_color, gcvars
<1>2. ASSUME NEW b \in roots, NEW i \in Fields, NEW val \in roots \cup {Nil},
             caml_modify(b, i, val)
      PROVE  Control'
  BY <1>0, <1>2 DEF caml_modify, Control, gcvars
<1>3. ASSUME NEW b \in roots, SetForward(b) \/ Load(b) \/ Drop(b)
      PROVE  Control'
  BY <1>0, <1>3 DEF SetForward, Load, Drop, Control, gcvars
<1>4. CASE StartSlice BY <1>0, <1>4 DEF StartSlice, Control, TypeOK
<1>5. ASSUME NEW v \in pending, DarkenRoot(v) PROVE Control'
  BY <1>0, <1>5 DEF DarkenRoot, Control
<1>6. CASE CycleStarted BY <1>0, <1>6 DEF CycleStarted, Yield, Control
<1>7. CASE MarkPop
  <2>1. gray_vals[Len(gray_vals)] \in Block
    BY <1>0, <1>7 DEF MarkPop, TypeOK
  <2> QED BY <1>0, <1>7, <2>1 DEF MarkPop, Yield, Control, TypeOK
<1>8. CASE MarkField
  <2>1. scan_v \in Block /\ color[scan_v] = "black"
    BY <1>0, <1>8 DEF MarkField, Control, TypeOK
  <2>2. color'[scan_v] = "black"
    BY <1>0, <1>8, <2>1 DEF MarkField, Shade, TypeOK
  <2> QED BY <1>0, <1>8, <2>2 DEF MarkField, Yield, Control
<1>9. CASE MarkHeap BY <1>0, <1>9 DEF MarkHeap, Control
<1>10. CASE MarkImpure BY <1>0, <1>10 DEF MarkImpure, Control
<1>11. CASE InitSweep BY <1>0, <1>11 DEF InitSweep, MarkingDone, Control
<1>12. CASE SweepBlock
  <2>1. phase' = "sweep" /\ sweep_hp' = sweep_hp + 1 /\ sweep_hp >= 1 /\ sweep_hp \in Nat
    BY <1>0, <1>12 DEF SweepBlock, Control, TypeOK
  <2>2. sweep_hp' >= 1 BY <2>1
  <2> QED BY <1>0, <1>12, <2>1, <2>2 DEF SweepBlock, Yield, Control
<1>13. CASE SweepDone
  <2>1. \A b \in Block : color[b] \notin {"gray", "black"}
    BY <1>0, <1>13 DEF SweepDone, Control, SweepColors, Colored, Block, Limit
  <2> QED BY <1>0, <1>13, <2>1 DEF SweepDone, Control
<1>14. CASE UNCHANGED vars BY <1>0, <1>14 DEF vars, Control
<1> QED BY <1>1, <1>2, <1>3, <1>4, <1>5, <1>6, <1>7, <1>8, <1>9, <1>10, <1>11, <1>12,
           <1>13, <1>14 DEF Next, Mutator, Collector

\* Every step keeps Shape.
LEMMA ShapeStep == IInv /\ [Next]_vars => Shape'
<1> SUFFICES ASSUME IInv, [Next]_vars PROVE Shape'
  OBVIOUS
<1> USE HeapAssumption DEF Nil, NULL
<1>0. TypeOK /\ Control /\ Shape
  BY DEF IInv
<1>1. ASSUME NEW b \in Block, NEW t \in Tags, NEW init \in [Fields -> roots \cup {Nil}],
             Alloc(b, t, init)
      PROVE  Shape'
  BY <1>0, <1>1 DEF Alloc, Shape, TypeOK
<1>2. ASSUME NEW b \in roots, NEW i \in Fields, NEW val \in roots \cup {Nil},
             caml_modify(b, i, val)
      PROVE  Shape'
  BY <1>0, <1>2 DEF caml_modify, Shape, TypeOK
<1>3. ASSUME NEW b \in roots, SetForward(b) \/ Load(b) \/ Drop(b)
      PROVE  Shape'
  <2>1. CASE SetForward(b)
    BY <1>0, <2>1 DEF SetForward, Shape, TypeOK, Slots, Scannable
  <2>2. CASE Load(b) \/ Drop(b)
    BY <1>0, <2>2 DEF Load, Drop, Shape
  <2> QED BY <1>3, <2>1, <2>2
<1>4. CASE MarkField
  <2> DEFINE child == field[scan_v][scan_i]
  <2>1. scan_v \in Block /\ scan_i \in Fields /\ tag' = tag
    BY <1>0, <1>4 DEF MarkField, TypeOK
  <2>2. CASE child # Nil
    <3>1. scan_i \in Slots(tag[scan_v])
      BY <1>0, <2>1, <2>2 DEF Shape
    <3> QED BY <1>0, <1>4, <2>1, <3>1 DEF MarkField, Shape, TypeOK
  <2>3. CASE child = Nil
    BY <1>0, <1>4, <2>1, <2>3 DEF MarkField, Shape
  <2> QED BY <2>2, <2>3
<1>5. CASE SweepBlock
  BY <1>0, <1>5 DEF SweepBlock, Shape, TypeOK
<1>6. CASE \/ StartSlice \/ CycleStarted \/ MarkPop \/ MarkHeap \/ MarkImpure \/ InitSweep
           \/ SweepDone \/ UNCHANGED vars \/ \E v \in pending : DarkenRoot(v)
  BY <1>0, <1>6 DEF StartSlice, CycleStarted, MarkPop, MarkHeap, MarkImpure, InitSweep,
                    SweepDone, DarkenRoot, vars, Shape
<1> QED BY <1>1, <1>2, <1>3, <1>4, <1>5, <1>6 DEF Next, Mutator, Collector

-----------------------------------------------------------------------------
(* The blocks a cycle keeps.                                               *)

\* Once marking is over, black blocks are closed and hold the roots.
LEMMA MarkingEnds ==
  ASSUME IInv, MarkingDone
  PROVE  /\ \A b \in Block : color[b] # "gray"
         /\ \A b \in roots : color[b] = "black"
         /\ \A b \in Block : color[b] = "black" => \A c \in Succ(b) : color[c] = "black"
<1> USE DEF Nil, NULL
<1>0. /\ TypeOK /\ Control /\ PureHeap /\ LiveClosed /\ SnapshotMarking
      /\ phase = "mark" /\ pc = "mark"
  BY DEF IInv, MarkingDone, Control
<1>1. \A b \in Block : color[b] # "gray"
  BY <1>0 DEF PureHeap, MarkingDone, Colored, InStack
<1>2. ToMark = {}
  <2>1. SeedClosed({})
    BY <1>0, <1>1 DEF SeedClosed, Seeds, Colored
  <2> QED BY <2>1 DEF ToMark
<1>3. /\ roots \subseteq Block /\ \A b \in roots : color[b] # "blue"
      /\ \A b \in Block : color[b] # "blue" =>
           \A c \in Succ(b) : c \in Block /\ color[c] # "blue"
  BY <1>0 DEF LiveClosed, Closed, Live
<1>4. \A w \in Block : color[w] = "white" =>
        w \notin roots /\ \A b \in Block : color[b] = "black" => w \notin Succ(b)
  BY <1>0, <1>2 DEF SnapshotMarking, Colored
<1> QED BY <1>0, <1>1, <1>3, <1>4 DEF TypeOK

\* Every step keeps what the cycle keeps closed, and keeps SweepColors.
LEMMA LiveStep == IInv /\ [Next]_vars => LiveClosed' /\ SweepColors'
<1> SUFFICES ASSUME IInv, [Next]_vars PROVE LiveClosed' /\ SweepColors'
  OBVIOUS
<1> USE HeapAssumption DEF Nil, NULL
<1>0. /\ TypeOK /\ Control /\ GrayEntries /\ PureHeap /\ LiveClosed /\ SweepColors
  BY DEF IInv, GrayStack
<1>1. ASSUME NEW b \in Block, NEW t \in Tags, NEW init \in [Fields -> roots \cup {Nil}],
             Alloc(b, t, init)
      PROVE  LiveClosed' /\ SweepColors'
  <2>1. /\ phase' = phase /\ sweep_hp' = sweep_hp /\ roots' = roots \cup {b}
        /\ color[b] = "blue" /\ color'[b] = caml_allocation_color(b)
        /\ \A c \in Block : c # b => color'[c] = color[c] /\ field'[c] = field[c]
        /\ field'[b] = init
    BY <1>0, <1>1 DEF Alloc, TypeOK, gcvars
  <2>2. \A c \in Block : c \in Live' <=> c \in Live \/ c = b
    BY <1>0, <2>1 DEF Live, caml_allocation_color, TypeOK, Block, Limit
  <2>3. \A c \in Live : c # b
    BY <2>1 DEF Live
  <2>4. Succ(b)' \subseteq roots
    BY <2>1 DEF Succ
  <2>5. \A c \in Live : Succ(c)' = Succ(c)
    BY <2>1, <2>3 DEF Succ, Live
  <2>6. roots \subseteq Live /\ Live \subseteq Block /\ Live' \subseteq Block
    BY <1>0 DEF LiveClosed, Live
  <2>7. LiveClosed'
    BY <1>0, <2>1, <2>2, <2>4, <2>5, <2>6 DEF LiveClosed, Closed
  <2>8. SweepColors'
    BY <1>0, <2>1 DEF SweepColors, Colored, caml_allocation_color
  <2> QED BY <2>7, <2>8
<1>2. ASSUME NEW b \in roots, NEW i \in Fields, NEW val \in roots \cup {Nil},
             caml_modify(b, i, val)
      PROVE  LiveClosed' /\ SweepColors'
  <2>1. /\ b \in Block /\ field[b][i] \in Value
        /\ UNCHANGED <<phase, sweep_hp, roots>>
        /\ \A c \in Block, j \in Fields :
             field'[c][j] = IF c = b /\ j = i THEN val ELSE field[c][j]
    BY <1>0, <1>2 DEF caml_modify, TypeOK, gcvars
  <2>2. \A c \in Block : Succ(c)' \subseteq Succ(c) \cup roots
    BY <2>1 DEF Succ
  <2>3. \/ phase = "mark" /\ \A c \in Block : color'[c] = "blue" <=> color[c] = "blue"
        \/ phase # "mark" /\ color' = color
    <3>1. CASE phase = "mark"
      <4>1. caml_darken(field[b][i])
        BY <1>2, <3>1 DEF caml_modify
      <4>2. \A c \in Block :
              \/ color'[c] = color[c]
              \/ /\ c = field[b][i] /\ color[c] = "white"
                 /\ color'[c] = IF Scannable(tag[c]) THEN "gray" ELSE "black"
        BY <1>0, <2>1, <4>1, DarkenFacts
      <4> QED BY <3>1, <4>2
    <3>2. CASE phase # "mark" BY <1>2, <3>2 DEF caml_modify
    <3> QED BY <3>1, <3>2
  <2>4. Live' = Live
    BY <2>1, <2>3 DEF Live
  <2>5. LiveClosed'
    BY <1>0, <2>1, <2>2, <2>4 DEF LiveClosed, Closed, Live
  <2>6. SweepColors'
    BY <1>0, <2>1, <2>3 DEF SweepColors, Colored
  <2> QED BY <2>5, <2>6
<1>3. ASSUME NEW b \in roots, SetForward(b) \/ Load(b) \/ Drop(b)
      PROVE  LiveClosed' /\ SweepColors'
  <2>1. UNCHANGED <<color, field, phase, sweep_hp>> /\ roots' \subseteq roots \cup Succ(b)
    BY <1>3 DEF SetForward, Load, Drop, gcvars
  <2> QED BY <1>0, <2>1 DEF LiveClosed, Closed, Live, Succ, SweepColors, Colored
<1>4. CASE StartSlice \/ CycleStarted \/ MarkHeap \/ MarkImpure \/ UNCHANGED vars
  <2>1. /\ UNCHANGED <<color, field, roots, sweep_hp>>
        /\ phase' = phase \/ (phase = "idle" /\ phase' = "mark")
    BY <1>0, <1>4 DEF StartSlice, CycleStarted, MarkHeap, MarkImpure, vars, Control
  <2> QED BY <1>0, <2>1 DEF LiveClosed, Closed, Live, Succ, SweepColors, Colored
<1>5. ASSUME NEW v \in pending, DarkenRoot(v) PROVE LiveClosed' /\ SweepColors'
  <2>1. v \in Value /\ caml_darken(v) /\ UNCHANGED <<field, roots, phase>> /\ phase = "idle"
    BY <1>0, <1>5 DEF TypeOK, Value, DarkenRoot, Control
  <2>2. \A b \in Block :
           \/ color'[b] = color[b]
           \/ /\ b = v /\ color[b] = "white"
              /\ color'[b] = IF Scannable(tag[b]) THEN "gray" ELSE "black"
    BY <1>0, <2>1, DarkenFacts
  <2>3. Live' = Live
    BY <2>1, <2>2 DEF Live
  <2> QED BY <1>0, <2>1, <2>3 DEF LiveClosed, Closed, Succ, SweepColors
<1>6. CASE MarkPop
  <2> DEFINE v == gray_vals[Len(gray_vals)]
  <2>1. v \in Block /\ color[v] = "gray"
    BY <1>0, <1>6 DEF MarkPop, TypeOK, GrayEntries
  <2>2. /\ \A b \in Block : color'[b] = IF b = v THEN "black" ELSE color[b]
        /\ UNCHANGED <<field, roots, phase>> /\ phase = "mark"
    BY <1>0, <1>6 DEF MarkPop, TypeOK, Control
  <2>3. Live' = Live
    BY <2>1, <2>2 DEF Live
  <2> QED BY <1>0, <2>2, <2>3 DEF LiveClosed, Closed, Succ, SweepColors
<1>7. CASE MarkField
  <2> DEFINE child == field[scan_v][scan_i]
  <2>1. /\ scan_v \in Block /\ scan_i \in Fields /\ child \in Value
        /\ color[scan_v] = "black" /\ phase = "mark" /\ UNCHANGED <<roots, phase>>
    BY <1>0, <1>7 DEF MarkField, TypeOK, Control
  <2>2. \A b \in Block : color'[b] = color[b] \/ (color[b] = "white" /\ color'[b] = "gray")
    BY <1>0, <1>7 DEF MarkField, Shade, TypeOK, stack
  <2>3. Live' = Live
    BY <2>1, <2>2 DEF Live
  <2>4. child # Nil => child \in Live /\ (field[child][1] # Nil => field[child][1] \in Live)
    <3>1. ASSUME child # Nil PROVE child \in Live
      BY <1>0, <2>1, <3>1 DEF LiveClosed, Closed, Succ, Live
    <3>2. ASSUME child # Nil, field[child][1] # Nil PROVE field[child][1] \in Live
      BY <1>0, <3>1, <3>2 DEF LiveClosed, Closed, Succ, Fields
    <3> QED BY <3>1, <3>2
  <2>5. \A b \in Block, i \in Fields :
          field'[b][i] = field[b][i] \/ (child # Nil /\ field'[b][i] = field[child][1])
    BY <1>0, <1>7, <2>1 DEF MarkField, TypeOK
  <2>6. Closed(Live)'
    <3> SUFFICES ASSUME NEW b \in Live, NEW i \in Fields, field'[b][i] # Nil
                 PROVE  field'[b][i] \in Live
      BY <2>3 DEF Closed, Succ
    <3>1. b \in Block BY DEF Live
    <3> QED BY <1>0, <2>4, <2>5, <3>1 DEF LiveClosed, Closed, Succ
  <2> QED BY <1>0, <2>1, <2>3, <2>6 DEF LiveClosed, SweepColors
<1>8. CASE InitSweep
  <2>1. /\ \A b \in Block : color[b] # "gray"
        /\ \A b \in roots : color[b] = "black"
        /\ \A b \in Block : color[b] = "black" => \A c \in Succ(b) : color[c] = "black"
    BY <1>8, MarkingEnds DEF InitSweep
  <2>2. UNCHANGED <<color, field, roots>> /\ phase' = "sweep" /\ sweep_hp' = 1
    BY <1>8 DEF InitSweep
  <2>3. Live' = {b \in Block : color[b] = "black"}
    BY <2>2 DEF Live, Block
  <2>4. \A b \in Block : Succ(b) \subseteq Block
    BY <1>0 DEF TypeOK, Succ, Value
  <2>5. LiveClosed'
    <3>1. roots' \subseteq Live' BY <1>0, <2>1, <2>2, <2>3 DEF TypeOK
    <3>2. \A b \in Block : Succ(b)' = Succ(b) BY <2>2 DEF Succ
    <3> QED BY <2>1, <2>3, <2>4, <3>1, <3>2 DEF LiveClosed, Closed
  <2>6. SweepColors'
    BY <2>1, <2>2 DEF SweepColors, Colored, Block
  <2> QED BY <2>5, <2>6
<1>9. CASE SweepBlock
  <2>1. /\ phase = "sweep" /\ sweep_hp \in Block /\ UNCHANGED <<phase, roots>>
        /\ sweep_hp' = sweep_hp + 1
    BY <1>0, <1>9 DEF SweepBlock, Control, TypeOK, Block, Limit
  <2>2. /\ \A b \in Block : b # sweep_hp => color'[b] = color[b] /\ field'[b] = field[b]
        /\ color'[sweep_hp] = IF color[sweep_hp] \in {"white", "blue"} THEN "blue" ELSE "white"
        /\ color[sweep_hp] # "white" => field'[sweep_hp] = field[sweep_hp]
    BY <1>0, <1>9, <2>1 DEF SweepBlock, TypeOK
  <2>3. color[sweep_hp] # "gray" /\ color[sweep_hp] \in {"white", "black", "blue"}
    BY <1>0, <2>1 DEF SweepColors, Colored, TypeOK
  <2>4. \A b \in Block : b \in Live' <=> b \in Live
    BY <1>0, <2>1, <2>2, <2>3 DEF Live, SweepColors, Colored, Block
  <2>5. \A b \in Live : b \in Block /\ field'[b] = field[b]
    BY <2>1, <2>2 DEF Live, Block
  <2>6. LiveClosed'
    <3>1. Live' = Live BY <2>4 DEF Live
    <3>2. \A b \in Live : Succ(b)' = Succ(b) BY <2>5 DEF Succ
    <3> QED BY <1>0, <2>1, <3>1, <3>2 DEF LiveClosed, Closed
  <2>7. SweepColors'
    BY <1>0, <2>1, <2>2, <2>3 DEF SweepColors, Colored, Block
  <2> QED BY <2>6, <2>7
<1>10. CASE SweepDone
  <2>1. /\ phase = "sweep" /\ sweep_hp = Limit /\ phase' = "idle"
        /\ UNCHANGED <<color, field, roots>>
    BY <1>0, <1>10 DEF SweepDone, Control
  <2>2. Live' = Live
    BY <1>0, <2>1 DEF Live, SweepColors, Colored, TypeOK, Block, Limit
  <2> QED BY <1>0, <2>1, <2>2 DEF LiveClosed, Closed, Succ, SweepColors
<1> QED BY <1>1, <1>2, <1>3, <1>4, <1>5, <1>6, <1>7, <1>8, <1>9, <1>10
        DEF Next, Mutator, Collector

-----------------------------------------------------------------------------
(* Marking.                                                                *)

\* A step that darkens the blocks of T, and loses no path of white blocks
\* except through T, leaves every white block that was to be marked so.
LEMMA ToMarkMonotone ==
  ASSUME NEW T \in SUBSET Block,
         \A x \in T : color'[x] # "white",
         Seeds \subseteq Seeds' \cup T,
         \A x \in Block : color[x] \in {"white", "gray"} =>
           \/ color'[x] \in {"white", "gray"} /\ Succ(x) \subseteq Succ(x)' \cup T
           \/ Succ(x) \subseteq Seeds' \cup T
  PROVE  \A w \in ToMark : color'[w] = "white" => w \in ToMark'
<1> SUFFICES ASSUME NEW w \in ToMark, color'[w] = "white",
                    NEW S \in SUBSET Block, SeedClosed(S)'
             PROVE  w \in S
  BY DEF ToMark
<1>1. Seeds' \subseteq S
  BY DEF SeedClosed
<1>2. \A b \in Block : color'[b] = "gray" => b \in Seeds'
  BY DEF Seeds, Colored
<1>3. SeedClosed(S \cup T)
  <2>1. ASSUME NEW b \in S \cup T, color[b] \in {"white", "gray"}
        PROVE  Succ(b) \subseteq S \cup T
    <3>1. CASE color'[b] \in {"white", "gray"} /\ Succ(b) \subseteq Succ(b)' \cup T
      <4>1. b \in S
        BY <1>1, <1>2, <3>1
      <4>2. Succ(b)' \subseteq S
        BY <3>1, <4>1 DEF SeedClosed
      <4> QED BY <3>1, <4>2
    <3>2. CASE Succ(b) \subseteq Seeds' \cup T
      BY <1>1, <3>2
    <3> QED BY <2>1, <3>1, <3>2
  <2> QED BY <1>1, <2>1 DEF SeedClosed
<1>4. w \in S \cup T
  BY <1>3 DEF ToMark
<1> QED BY <1>4

\* The white successors of a block that is not black nor blue, and is to be
\* marked or gray, are to be marked.
LEMMA ToMarkClosed ==
  ASSUME TypeOK, NEW b \in Block, NEW c \in Succ(b),
         b \in ToMark \/ b \in Seeds, color[b] \in {"white", "gray"}
  PROVE  c \in ToMark
<1>1. c \in Block
  BY DEF Succ, TypeOK, Value
<1> QED BY <1>1 DEF ToMark, SeedClosed

\* The same in the next state.
LEMMA ToMarkClosedNext ==
  ASSUME TypeOK', NEW b \in Block, NEW c \in Succ(b)',
         b \in Seeds', color'[b] \in {"white", "gray"}
  PROVE  c \in ToMark'
<1>1. c \in Block
  BY DEF Succ, TypeOK, Value
<1> QED BY <1>1 DEF ToMark, SeedClosed

\* A white block that was to be marked still is, or has been darkened.
LEMMA ToMarkKept ==
  ASSUME IInv, [Next]_vars, phase = "mark" \/ pc = "roots", phase' = "mark" \/ pc' = "roots"
  PROVE  \A x \in ToMark : color'[x] = "white" => x \in ToMark'
<1> USE HeapAssumption DEF Nil, NULL
<1>0. TypeOK /\ Control /\ Shape /\ GrayEntries /\ PureHeap
  BY DEF IInv, GrayStack
\* A block without fields for pointers has no successors.
<1>b. \A x \in Block : ~Scannable(tag[x]) => Succ(x) = {}
  BY <1>0 DEF Shape, Slots, Succ
<1>1. ASSUME NEW b \in Block, NEW t \in Tags, NEW init \in [Fields -> roots \cup {Nil}],
             Alloc(b, t, init)
      PROVE  \A x \in ToMark : color'[x] = "white" => x \in ToMark'
  <2>1. /\ pc = "mutator" /\ pc' = pc /\ color[b] = "blue" /\ color'[b] # "gray"
        /\ \A c \in Block : c # b => color'[c] = color[c] /\ field'[c] = field[c]
    BY <1>0, <1>1 DEF Alloc, TypeOK, gcvars, caml_allocation_color
  <2>2. \A c \in Block : c # b => Succ(c)' = Succ(c)
    BY <2>1 DEF Succ
  <2>3. Seeds = Seeds'
    BY <2>1 DEF Seeds, Colored
  <2>5. \A x \in Block : color[x] \in {"white", "gray"} =>
          color'[x] \in {"white", "gray"} /\ Succ(x) \subseteq Succ(x)' \cup {}
    BY <2>1, <2>2
  <2> QED BY <2>3, <2>5, ToMarkMonotone
<1>2. ASSUME NEW b \in roots, NEW i \in Fields, NEW val \in roots \cup {Nil},
             caml_modify(b, i, val)
      PROVE  \A x \in ToMark : color'[x] = "white" => x \in ToMark'
  <2> DEFINE old == field[b][i]
             T   == {old} \ {Nil}
  <2>1. /\ phase = "mark" /\ pc = "mutator" /\ pc' = pc
        /\ b \in Block /\ old \in Value /\ caml_darken(old)
        /\ \A c \in Block, j \in Fields :
             field'[c][j] = IF c = b /\ j = i THEN val ELSE field[c][j]
    BY <1>0, <1>2 DEF caml_modify, TypeOK, gcvars, Control
  <2>2. /\ old \in Block => color'[old] # "white"
        /\ \A c \in Block :
             \/ color'[c] = color[c]
             \/ /\ c = old /\ color[c] = "white"
                /\ color'[c] = IF Scannable(tag[c]) THEN "gray" ELSE "black"
    BY <1>0, <2>1, DarkenFacts
  <2>3. T \in SUBSET Block /\ \A x \in T : color'[x] # "white"
    BY <2>1, <2>2 DEF Value
  <2>4. Seeds \subseteq Seeds' \cup T
    BY <2>1, <2>2 DEF Seeds, Colored
  <2>5. \A c \in Block : Succ(c) \subseteq Succ(c)' \cup T
    BY <2>1 DEF Succ
  <2>6. \A x \in Block : color[x] \in {"white", "gray"} =>
           \/ color'[x] \in {"white", "gray"} /\ Succ(x) \subseteq Succ(x)' \cup T
           \/ Succ(x) \subseteq Seeds' \cup T
    BY <1>b, <2>2, <2>5
  <2> HIDE DEF T
  <2> QED BY <2>3, <2>4, <2>6, ToMarkMonotone
<1>3. ASSUME NEW b \in roots, SetForward(b) \/ Load(b) \/ Drop(b)
      PROVE  \A x \in ToMark : color'[x] = "white" => x \in ToMark'
  <2>1. UNCHANGED <<color, field, pc, pending, scan_v, scan_i>>
    BY <1>3 DEF SetForward, Load, Drop, gcvars
  <2> QED BY <2>1 DEF ToMark, SeedClosed, Seeds, Colored, Succ
<1>4. CASE StartSlice
  <2>1. phase = "mark" /\ pc = "mutator" /\ pc' = "mark" /\ UNCHANGED <<color, field>>
    BY <1>0, <1>4 DEF StartSlice, Control
  <2> QED BY <2>1 DEF ToMark, SeedClosed, Seeds, Colored, Succ
<1>5. ASSUME NEW v \in pending, DarkenRoot(v)
      PROVE  \A x \in ToMark : color'[x] = "white" => x \in ToMark'
  <2>1. /\ v \in Block /\ v \in Value /\ caml_darken(v) /\ pending' = pending \ {v}
        /\ UNCHANGED <<field, pc>> /\ pc = "roots"
    BY <1>0, <1>5 DEF TypeOK, Value, DarkenRoot
  <2>2. /\ color'[v] # "white"
        /\ \A c \in Block :
             \/ color'[c] = color[c]
             \/ /\ c = v /\ color[c] = "white"
                /\ color'[c] = IF Scannable(tag[c]) THEN "gray" ELSE "black"
    BY <1>0, <2>1, DarkenFacts
  <2>3. Seeds \subseteq Seeds' \cup {v}
    BY <2>1, <2>2 DEF Seeds, Colored
  <2>4. \A c \in Block : Succ(c)' = Succ(c)
    BY <2>1 DEF Succ
  <2>5. \A x \in Block : color[x] \in {"white", "gray"} =>
           \/ color'[x] \in {"white", "gray"} /\ Succ(x) \subseteq Succ(x)' \cup {v}
           \/ Succ(x) \subseteq Seeds' \cup {v}
    BY <1>b, <2>2, <2>4
  <2> QED BY <2>1, <2>2, <2>3, <2>5, ToMarkMonotone
<1>6. CASE CycleStarted \/ MarkHeap \/ MarkImpure \/ UNCHANGED vars
  <2>1. /\ UNCHANGED <<color, field>>
        /\ Seeds' = Seeds
    BY <1>0, <1>6 DEF CycleStarted, Yield, MarkHeap, MarkImpure, vars, Control, Seeds, Colored
  <2> QED BY <2>1 DEF ToMark, SeedClosed, Succ
<1>7. CASE MarkPop
  <2> DEFINE v == gray_vals[Len(gray_vals)]
  <2>1. v \in Block /\ color[v] = "gray"
    BY <1>0, <1>7 DEF MarkPop, TypeOK, GrayEntries
  <2>2. /\ \A c \in Block : color'[c] = IF c = v THEN "black" ELSE color[c]
        /\ field' = field /\ pc = "mark"
        /\ Scannable(tag[v]) => pc' = "scan" /\ scan_v' = v /\ scan_i' = 1
    BY <1>0, <1>7 DEF MarkPop, TypeOK
  <2> HIDE DEF v
  <2>3. Succ(v) \subseteq Seeds'
    <3>1. CASE Scannable(tag[v]) BY <2>1, <2>2, <3>1 DEF Seeds, Succ, Fields
    <3>2. CASE ~Scannable(tag[v]) BY <1>b, <2>1, <3>2
    <3> QED BY <3>1, <3>2
  <2>4. Seeds \subseteq Seeds' \cup {v}
    BY <2>1, <2>2 DEF Seeds, Colored
  <2>5. \A c \in Block : Succ(c)' = Succ(c)
    BY <2>2 DEF Succ
  <2>6. \A x \in Block : color[x] \in {"white", "gray"} =>
           \/ color'[x] \in {"white", "gray"} /\ Succ(x) \subseteq Succ(x)' \cup {v}
           \/ Succ(x) \subseteq Seeds' \cup {v}
    BY <2>2, <2>3, <2>5
  <2> QED BY <2>1, <2>2, <2>4, <2>6, ToMarkMonotone
<1>8. CASE MarkField
  <2> DEFINE child == field[scan_v][scan_i]
             T == {child} \ {Nil}
  <2>1. /\ scan_v \in Block /\ scan_i \in Fields /\ child \in Value
        /\ color[scan_v] = "black" /\ phase = "mark" /\ pc = "scan"
        /\ \/ scan_i < F /\ pc' = "scan" /\ scan_v' = scan_v /\ scan_i' = scan_i + 1
           \/ scan_i = F /\ pc' # "scan"
    BY <1>0, <1>8 DEF MarkField, TypeOK, Control, Fields, Yield
  <2>2. /\ \A b \in Block : color'[b] = color[b] \/ (color[b] = "white" /\ color'[b] = "gray")
        /\ child # Nil => color'[child] # "white"
    BY <1>0, <1>8, <2>1 DEF MarkField, Shade, TypeOK, stack, Value
  <2>3. T \in SUBSET Block /\ \A x \in T : color'[x] # "white"
    BY <2>1, <2>2 DEF Value
  <2>4. /\ \A b \in Block, i \in Fields : b # scan_v \/ i # scan_i => field'[b][i] = field[b][i]
        /\ \/ field'[scan_v][scan_i] = child
           \/ child # Nil /\ field'[scan_v][scan_i] = field[child][1]
    BY <1>0, <1>8, <2>1 DEF MarkField, TypeOK
  <2>5. Seeds \subseteq Seeds' \cup T
    <3>0. \A x \in Seeds : x # Nil
      BY <2>1 DEF Seeds, Colored, Block
    <3> SUFFICES ASSUME NEW x \in Seeds, x # child PROVE x \in Seeds'
      BY <3>0
    <3>1. CASE x \in Block /\ color[x] = "gray"
      BY <2>2, <3>1 DEF Seeds, Colored
    <3>2. CASE ~(x \in Block /\ color[x] = "gray")
      <4>1. PICK i \in scan_i..F : x = field[scan_v][i] /\ x # Nil
        BY <2>1, <3>2 DEF Seeds, Colored
      <4>2. i \in Fields /\ i # scan_i /\ i \in (scan_i + 1)..F
        BY <2>1, <4>1 DEF Fields
      <4>3. pc' = "scan" /\ scan_v' = scan_v /\ scan_i' = scan_i + 1
        BY <2>1, <4>2 DEF Fields
      <4>4. x = field'[scan_v][i]
        BY <2>1, <2>4, <4>1, <4>2
      <4> QED BY <4>1, <4>2, <4>3, <4>4 DEF Seeds
    <3> QED BY <3>1, <3>2
  <2>6. \A x \in Block : x # scan_v => Succ(x)' = Succ(x)
    BY <2>4 DEF Succ
  <2>7. \A x \in Block : color[x] \in {"white", "gray"} =>
           \/ color'[x] \in {"white", "gray"} /\ Succ(x) \subseteq Succ(x)' \cup T
           \/ Succ(x) \subseteq Seeds' \cup T
    BY <2>1, <2>2, <2>6
  <2> HIDE DEF T
  <2> QED BY <2>3, <2>5, <2>7, ToMarkMonotone
<1>9. CASE InitSweep \/ SweepBlock \/ SweepDone
  BY <1>0, <1>9 DEF InitSweep, SweepBlock, SweepDone, Yield, Control
<1> QED BY <1>1, <1>2, <1>3, <1>4, <1>5, <1>6, <1>7, <1>8, <1>9
        DEF Next, Mutator, Collector

\* Every step keeps SnapshotMarking.
LEMMA SnapshotStep == IInv /\ [Next]_vars => SnapshotMarking'
<1> SUFFICES ASSUME IInv, [Next]_vars, phase' = "mark" \/ pc' = "roots",
                    NEW w \in Block, color'[w] = "white",
                    w \in roots' \/ \E b \in Block : color'[b] = "black" /\ w \in Succ(b)'
             PROVE  w \in ToMark'
  BY DEF SnapshotMarking, Colored
<1> USE HeapAssumption DEF Nil, NULL
<1>0. TypeOK /\ Control /\ Shape /\ GrayEntries /\ PureHeap /\ LiveClosed /\ TypeOK'
  BY TypeStep DEF IInv, GrayStack
\* What the invariant says of white blocks before the step.
<1>a. ASSUME phase = "mark" \/ pc = "roots", NEW x \in Block, color[x] = "white",
             x \in roots \/ \E b \in Block : color[b] = "black" /\ x \in Succ(b)
      PROVE  x \in ToMark
  BY <1>a DEF IInv, SnapshotMarking, Colored
\* A block without fields for pointers has no successors.
<1>b. \A x \in Block : ~Scannable(tag[x]) => Succ(x) = {}
  BY <1>0 DEF Shape, Slots, Succ
\* What is to be marked stays so.
<1>c. ASSUME phase = "mark" \/ pc = "roots"
      PROVE  \A x \in ToMark : color'[x] = "white" => x \in ToMark'
  BY <1>c, ToMarkKept
<1>1. ASSUME NEW b \in Block, NEW t \in Tags, NEW init \in [Fields -> roots \cup {Nil}],
             Alloc(b, t, init)
      PROVE  w \in ToMark'
  <2>1. /\ phase = "mark" /\ pc = "mutator" /\ pc' = pc
        /\ color[b] = "blue" /\ color'[b] = "black" /\ roots' = roots \cup {b}
        /\ \A c \in Block : c # b => color'[c] = color[c] /\ field'[c] = field[c]
        /\ field'[b] = init
    BY <1>0, <1>1 DEF Alloc, TypeOK, gcvars, caml_allocation_color, Control
  <2>2. Succ(b)' \subseteq roots /\ \A c \in Block : c # b => Succ(c)' = Succ(c)
    BY <2>1 DEF Succ
  <2>4. w \in ToMark
    BY <1>a, <2>1, <2>2
  <2> QED BY <2>1, <2>4, <1>c
<1>2. ASSUME NEW b \in roots, NEW i \in Fields, NEW val \in roots \cup {Nil},
             caml_modify(b, i, val)
      PROVE  w \in ToMark'
  <2> DEFINE old == field[b][i]
  <2>1. /\ phase = "mark" /\ pc = "mutator" /\ pc' = pc /\ roots' = roots
        /\ b \in Block /\ old \in Value /\ caml_darken(old)
        /\ \A c \in Block, j \in Fields :
             field'[c][j] = IF c = b /\ j = i THEN val ELSE field[c][j]
    BY <1>0, <1>2 DEF caml_modify, TypeOK, gcvars, Control
  <2>2. /\ old \in Block => color'[old] # "white"
        /\ \A c \in Block :
             \/ color'[c] = color[c]
             \/ /\ c = old /\ color[c] = "white"
                /\ color'[c] = IF Scannable(tag[c]) THEN "gray" ELSE "black"
    BY <1>0, <2>1, DarkenFacts
  <2>5. \A c \in Block : Succ(c)' \subseteq Succ(c) \cup roots
    BY <2>1 DEF Succ
  <2>8. color[w] = "white"
    BY <2>2
  <2>9. w \in ToMark
    <3>1. CASE w \in roots BY <1>a, <2>1, <2>8, <3>1
    <3>2. ASSUME NEW c \in Block, color'[c] = "black", w \in Succ(c)', w \notin roots
          PROVE  w \in ToMark
      <4>1. w \in Succ(c) BY <2>5, <3>2
      <4>2. color[c] = "black" BY <1>b, <2>2, <3>2, <4>1
      <4> QED BY <1>a, <2>1, <2>8, <4>1, <4>2
    <3> QED BY <2>1, <3>1, <3>2
  <2> QED BY <2>1, <2>9, <1>c
<1>3. ASSUME NEW b \in roots, SetForward(b) \/ Load(b) \/ Drop(b)
      PROVE  w \in ToMark'
  <2>1. /\ phase = "mark" /\ pc = "mutator"
        /\ UNCHANGED <<color, field, pc, pending, scan_v, scan_i>>
        /\ roots' \subseteq roots \cup Succ(b)
    BY <1>0, <1>3 DEF SetForward, Load, Drop, gcvars, Control
  <2>2. ToMark' = ToMark
    BY <2>1 DEF ToMark, SeedClosed, Seeds, Colored, Succ
  <2>3. \A c \in Block : Succ(c)' = Succ(c)
    BY <2>1 DEF Succ
  <2>4. CASE w \in roots \/ \E c \in Block : color[c] = "black" /\ w \in Succ(c)
    BY <1>a, <2>1, <2>2, <2>4
  <2>5. CASE w \in Succ(b)
    <3>1. b \in Block /\ color[b] \in {"white", "gray", "black"}
      BY <1>0, <2>1 DEF LiveClosed, Live, TypeOK
    <3>2. CASE color[b] = "black" BY <2>4, <2>5, <3>1, <3>2
    <3>3. CASE color[b] = "gray"
      <4>1. b \in Seeds BY <3>1, <3>3 DEF Seeds, Colored
      <4> QED BY <1>0, <2>2, <2>5, <3>1, <3>3, <4>1, ToMarkClosed
    <3>4. CASE color[b] = "white"
      <4>1. b \in ToMark BY <1>a, <2>1, <3>1, <3>4
      <4> QED BY <1>0, <2>2, <2>5, <3>1, <3>4, <4>1, ToMarkClosed
    <3> QED BY <3>1, <3>2, <3>3, <3>4
  <2> QED BY <2>1, <2>3, <2>4, <2>5
<1>4. CASE StartSlice
  <2>1. CASE phase = "idle"
    <3>1. /\ pc' = "roots" /\ pending' = roots
          /\ UNCHANGED <<color, field, roots>>
          /\ \A b \in Block : color[b] \notin {"gray", "black"}
      BY <1>0, <1>4, <2>1 DEF StartSlice, Control
    <3>2. w \in Seeds' BY <3>1 DEF Seeds
    <3> QED BY <3>2 DEF ToMark, SeedClosed
  <2>2. CASE phase # "idle"
    <3>1. /\ phase = "mark" /\ pc = "mutator" /\ pc' = "mark"
          /\ UNCHANGED <<color, field, roots>>
      BY <1>0, <1>4, <2>2 DEF StartSlice, TypeOK
    <3>2. ToMark' = ToMark
      BY <3>1 DEF ToMark, SeedClosed, Seeds, Colored, Succ
    <3>3. \A c \in Block : Succ(c)' = Succ(c) BY <3>1 DEF Succ
    <3> QED BY <1>a, <3>1, <3>2, <3>3
  <2> QED BY <2>1, <2>2
<1>5. ASSUME NEW v \in pending, DarkenRoot(v) PROVE w \in ToMark'
  <2>1. /\ v \in Block /\ v \in Value /\ caml_darken(v) /\ pending' = pending \ {v}
        /\ UNCHANGED <<field, roots, pc>> /\ pc = "roots"
    BY <1>0, <1>5 DEF TypeOK, Value, DarkenRoot
  <2>2. /\ color'[v] # "white"
        /\ \A c \in Block :
             \/ color'[c] = color[c]
             \/ /\ c = v /\ color[c] = "white"
                /\ color'[c] = IF Scannable(tag[c]) THEN "gray" ELSE "black"
    BY <1>0, <2>1, DarkenFacts
  <2>4. \A c \in Block : Succ(c)' = Succ(c)
    BY <2>1 DEF Succ
  <2>7. w \in ToMark
    BY <1>a, <1>b, <2>1, <2>2, <2>4
  <2> QED BY <2>1, <2>7, <1>c
<1>6. CASE CycleStarted \/ MarkHeap \/ MarkImpure \/ UNCHANGED vars
  <2>1. /\ UNCHANGED <<color, field, roots>>
        /\ Seeds' = Seeds
        /\ phase = "mark" \/ pc = "roots"
    BY <1>0, <1>6 DEF CycleStarted, Yield, MarkHeap, MarkImpure, vars, Control, Seeds, Colored
  <2>2. ToMark' = ToMark
    BY <2>1 DEF ToMark, SeedClosed, Succ
  <2>3. \A c \in Block : Succ(c)' = Succ(c) BY <2>1 DEF Succ
  <2> QED BY <1>a, <2>1, <2>2, <2>3
<1>7. CASE MarkPop
  <2> DEFINE v == gray_vals[Len(gray_vals)]
  <2>1. v \in Block /\ color[v] = "gray"
    BY <1>0, <1>7 DEF MarkPop, TypeOK, GrayEntries
  <2>2. /\ \A c \in Block : color'[c] = IF c = v THEN "black" ELSE color[c]
        /\ UNCHANGED <<field, roots>> /\ phase = "mark" /\ pc = "mark"
        /\ Scannable(tag[v]) => pc' = "scan" /\ scan_v' = v /\ scan_i' = 1
    BY <1>0, <1>7 DEF MarkPop, TypeOK, Control
  <2> HIDE DEF v
  <2>3. Succ(v) \subseteq Seeds'
    <3>1. CASE Scannable(tag[v]) BY <2>1, <2>2, <3>1 DEF Seeds, Succ, Fields
    <3>2. CASE ~Scannable(tag[v]) BY <1>b, <2>1, <3>2
    <3> QED BY <3>1, <3>2
  <2>5. \A c \in Block : Succ(c)' = Succ(c)
    BY <2>2 DEF Succ
  <2>8. CASE w \in Succ(v)
    BY <2>3, <2>8 DEF ToMark, SeedClosed
  <2>9. CASE w \notin Succ(v)
    <3>1. w \in ToMark BY <1>a, <2>2, <2>5, <2>9
    <3> QED BY <2>2, <3>1, <1>c
  <2> QED BY <2>8, <2>9
<1>8. CASE MarkField
  <2> DEFINE child == field[scan_v][scan_i]
  <2>1. /\ scan_v \in Block /\ scan_i \in Fields /\ child \in Value
        /\ color[scan_v] = "black" /\ phase = "mark" /\ pc = "scan" /\ roots' = roots
        /\ \/ scan_i < F /\ pc' = "scan" /\ scan_v' = scan_v /\ scan_i' = scan_i + 1
           \/ scan_i = F /\ pc' # "scan"
    BY <1>0, <1>8 DEF MarkField, TypeOK, Control, Fields, Yield
  <2>2. /\ \A b \in Block : color'[b] = color[b] \/ (color[b] = "white" /\ color'[b] = "gray")
        /\ child # Nil => color'[child] # "white"
    BY <1>0, <1>8, <2>1 DEF MarkField, Shade, TypeOK, stack, Value
  <2>4. /\ \A b \in Block, i \in Fields : b # scan_v \/ i # scan_i => field'[b][i] = field[b][i]
        /\ \/ field'[scan_v][scan_i] = child
           \/ child # Nil /\ field'[scan_v][scan_i] = field[child][1]
    BY <1>0, <1>8, <2>1 DEF MarkField, TypeOK
  <2>6. \A x \in Block : x # scan_v => Succ(x)' = Succ(x)
    BY <2>4 DEF Succ
  <2>9. color[w] = "white" /\ w # child
    BY <2>2, <2>1 DEF Value, Block
  <2>10. CASE w \in roots \/ \E b \in Block : color[b] = "black" /\ w \in Succ(b)
    BY <1>a, <1>c, <2>1, <2>9, <2>10
  \* The only new pointer is the one that bypasses a Forward block.
  <2>11. CASE child # Nil /\ w = field[child][1]
    <3>1. child \in Block /\ color[child] # "blue" /\ w \in Succ(child)
      BY <1>0, <2>1, <2>11 DEF Value, LiveClosed, Closed, Live, Succ, Fields, Block
    <3>2. CASE color[child] = "black" BY <2>10, <3>1, <3>2
    <3>3. CASE color[child] # "black"
      <4>1. PICK c \in Block : c = child
        BY <3>1
      <4>2. c # scan_v /\ w \in Succ(c)'
        BY <2>1, <2>6, <3>1, <3>3, <4>1
      <4>3. color'[c] = "gray"
        BY <1>0, <2>2, <2>11, <3>1, <3>3, <4>1 DEF TypeOK
      <4>4. c \in Seeds' BY <4>3 DEF Seeds, Colored
      <4> QED BY <1>0, <4>2, <4>3, <4>4, ToMarkClosedNext
    <3> QED BY <3>2, <3>3
  <2>12. ASSUME w \notin roots, NEW b \in Block, color'[b] = "black", w \in Succ(b)'
         PROVE  (\E c \in Block : color[c] = "black" /\ w \in Succ(c))
                \/ (child # Nil /\ w = field[child][1])
    <3>1. color[b] = "black" BY <2>2, <2>12
    <3>2. PICK i \in Fields : w = field'[b][i] /\ w # Nil
      BY <2>12 DEF Succ
    <3>3. CASE field'[b][i] = field[b][i]
      <4>1. w \in Succ(b) BY <3>2, <3>3 DEF Succ
      <4> QED BY <3>1, <4>1
    <3>4. CASE field'[b][i] # field[b][i]
      BY <2>4, <3>2, <3>4
    <3> QED BY <3>3, <3>4
  <2> QED BY <2>1, <2>10, <2>11, <2>12
<1>9. CASE InitSweep \/ SweepBlock \/ SweepDone
  BY <1>0, <1>9 DEF InitSweep, SweepBlock, SweepDone, Yield, Control
<1> QED BY <1>1, <1>2, <1>3, <1>4, <1>5, <1>6, <1>7, <1>8, <1>9
        DEF Next, Mutator, Collector

-----------------------------------------------------------------------------
(* The theorems.                                                           *)

\* Every step keeps the invariant.
LEMMA InvariantStep == IInv /\ [Next]_vars => IInv'
<1>1. IInv => TypeOK BY DEF IInv
<1> QED BY <1>1, TypeStep, ControlStep, ShapeStep, GrayStep, LiveStep, SnapshotStep DEF IInv

\* What is to be marked is allocated.
LEMMA ToMarkAllocated ==
  ASSUME IInv, phase = "mark"
  PROVE  \A x \in ToMark : x \in Block /\ color[x] # "blue"
<1> USE HeapAssumption DEF Nil, NULL
<1>0. TypeOK /\ Control /\ LiveClosed BY DEF IInv
<1> DEFINE S == {b \in Block : color[b] # "blue"}
<1>1. \A b \in S : Succ(b) \subseteq S BY <1>0 DEF LiveClosed, Closed, Live
<1>2. Seeds \subseteq S
  <2>1. pc # "roots" BY <1>0 DEF Control
  <2>2. pc = "scan" => scan_v \in S /\ scan_i \in Fields BY <1>0 DEF Control, TypeOK
  <2>3. pc = "scan" => {field[scan_v][i] : i \in scan_i..F} \ {Nil} \subseteq Succ(scan_v)
    BY <2>2 DEF Succ, Fields
  <2> QED BY <2>1, <2>2, <2>3, <1>1 DEF Seeds, Colored
<1>3. SeedClosed(S) BY <1>1, <1>2 DEF SeedClosed
<1> QED BY <1>3 DEF ToMark

\* What the cycle is bound to keep while marking is under way, it still keeps
\* after a step.
LEMMA KeepStep ==
  ASSUME IInv, [Next]_vars, phase = "mark", phase' = "mark"
  PROVE  \A x \in Block : color[x] \in {"gray", "black"} \/ x \in ToMark =>
                            color'[x] \in {"gray", "black"} \/ x \in ToMark'
<1> USE HeapAssumption DEF Nil, NULL
<1>0. TypeOK /\ Control /\ GrayEntries /\ PureHeap BY DEF IInv, GrayStack
<1> DEFINE Darker == \A x \in Block : /\ color[x] \in {"gray", "black"} => color'[x] \in {"gray", "black"}
                                      /\ color[x] = "white" => color'[x] \in {"white", "gray", "black"}
<1>a. ASSUME color' = color PROVE Darker BY <1>a
<1>1. ASSUME NEW b \in Block, NEW t \in Tags, NEW init \in [Fields -> roots \cup {Nil}],
             Alloc(b, t, init)
      PROVE  Darker
  BY <1>0, <1>1 DEF Alloc, TypeOK
<1>2. ASSUME NEW b \in roots, NEW i \in Fields, NEW val \in roots \cup {Nil},
             caml_modify(b, i, val)
      PROVE  Darker
  <2>1. field[b][i] \in Value /\ caml_darken(field[b][i]) BY <1>0, <1>2 DEF caml_modify, TypeOK
  <2> QED BY <1>0, <2>1, DarkenFacts
<1>3. ASSUME NEW b \in roots, SetForward(b) \/ Load(b) \/ Drop(b)
      PROVE  Darker
  BY <1>3 DEF SetForward, Load, Drop
<1>4. CASE StartSlice \/ MarkHeap \/ MarkImpure \/ UNCHANGED vars
  <2>1. color' = color BY <1>4 DEF StartSlice, MarkHeap, MarkImpure, vars
  <2>2. Darker BY <2>1
  <2> QED BY <2>2, <1>0, ToMarkAllocated, ToMarkKept DEF TypeOK
<1>5. CASE MarkPop
  <2>1. gray_vals[Len(gray_vals)] \in Block BY <1>0, <1>5 DEF MarkPop, TypeOK
  <2>2. Darker BY <1>0, <1>5, <2>1 DEF MarkPop, TypeOK
  <2> QED BY <2>2, <1>0, ToMarkAllocated, ToMarkKept DEF TypeOK
<1>6. CASE MarkField
  <2>1. Darker BY <1>0, <1>6 DEF MarkField, Shade, TypeOK
  <2> QED BY <2>1, <1>0, ToMarkAllocated, ToMarkKept DEF TypeOK
<1>7. /\ ~CycleStarted /\ ~InitSweep /\ ~SweepBlock /\ ~SweepDone
      /\ \A v \in pending : ~DarkenRoot(v)
  BY <1>0 DEF CycleStarted, InitSweep, SweepBlock, SweepDone, DarkenRoot, Control
<1>8. CASE Mutator
  <2>1. Darker BY <1>1, <1>2, <1>3, <1>8 DEF Mutator
  <2> QED BY <2>1, <1>0, ToMarkAllocated, ToMarkKept DEF TypeOK
<1> QED BY <1>4, <1>5, <1>6, <1>7, <1>8 DEF Next, Collector

\* Once nothing is gray any more, marking changes no colour and stays over:
\* the mutator meets black blocks only.
LEMMA MarkingStaysDone ==
  ASSUME IInv, [Next]_vars, phase = "mark", phase' = "mark", pc # "scan",
         \A b \in Block : color[b] # "gray"
  PROVE  /\ pc' # "scan" /\ \A b \in Block : color'[b] # "gray"
         /\ \A b \in Block : color[b] # "blue" => color'[b] = color[b]
<1> USE HeapAssumption DEF Nil, NULL
<1>0. TypeOK /\ Control /\ Shape /\ GrayEntries /\ PureHeap /\ LiveClosed /\ SnapshotMarking
  BY DEF IInv, GrayStack
<1>1. pc \in {"mutator", "mark"} BY <1>0 DEF TypeOK, Control
<1>2. ToMark = {}
  <2>1. SeedClosed({}) BY <1>1 DEF SeedClosed, Seeds, Colored
  <2> QED BY <2>1 DEF ToMark
<1>3. \A b \in roots : b \in Block /\ color[b] = "black" /\ \A c \in Succ(b) : color[c] = "black"
  <2>1. \A b \in Block : color[b] = "white" => b \notin roots
    BY <1>0, <1>2 DEF SnapshotMarking, Colored
  <2>2. \A b \in Block : color[b] = "black" => \A c \in Succ(b) : c \in Block /\ color[c] # "white"
    BY <1>0, <1>2 DEF SnapshotMarking, Colored, LiveClosed, Closed, Live
  <2>3. \A b \in Live : b \in Block /\ color[b] # "blue" BY DEF Live
  <2>4. \A b \in Block : color[b] = "black" => b \in Live BY DEF Live
  <2> QED BY <1>0, <2>1, <2>2, <2>3, <2>4 DEF LiveClosed, Closed, TypeOK
<1>4. ASSUME NEW b \in Block, NEW t \in Tags, NEW init \in [Fields -> roots \cup {Nil}],
             Alloc(b, t, init)
      PROVE  /\ pc' # "scan" /\ \A x \in Block : color'[x] # "gray"
             /\ \A x \in Block : color[x] # "blue" => color'[x] = color[x]
  BY <1>0, <1>1, <1>4 DEF Alloc, caml_allocation_color, gcvars, TypeOK
<1>5. ASSUME NEW b \in roots, NEW i \in Fields, NEW val \in roots \cup {Nil},
             caml_modify(b, i, val)
      PROVE  pc' = pc /\ color' = color
  <2>1. caml_darken(field[b][i]) /\ pc' = pc BY <1>5 DEF caml_modify, gcvars
  <2>2. field[b][i] # Nil => field[b][i] \in Succ(b) BY DEF Succ
  <2> QED BY <2>1, <2>2, <1>3 DEF caml_darken
<1>6. ASSUME NEW b \in roots, SetForward(b) \/ Load(b) \/ Drop(b)
      PROVE  pc' = pc /\ color' = color
  BY <1>6 DEF SetForward, Load, Drop, gcvars
<1>7. CASE StartSlice \/ UNCHANGED vars BY <1>1, <1>7 DEF StartSlice, vars
<1>8. ~MarkPop
  <2> SUFFICES ASSUME MarkPop PROVE FALSE OBVIOUS
  <2>1. gray_vals \in Seq(Block) /\ gray_vals # <<>> BY <1>0 DEF TypeOK, MarkPop
  <2>2. 1 \in 1..Len(gray_vals) /\ gray_vals[1] \in Block BY <2>1
  <2> QED BY <1>0, <2>2 DEF GrayEntries
<1>9. CASE MarkHeap \/ MarkImpure BY <1>1, <1>9 DEF MarkHeap, MarkImpure
<1>10. /\ ~MarkField /\ ~CycleStarted /\ ~InitSweep /\ ~SweepBlock /\ ~SweepDone
       /\ \A v \in pending : ~DarkenRoot(v)
  BY <1>1 DEF MarkField, CycleStarted, InitSweep, SweepBlock, SweepDone, DarkenRoot
<1> QED BY <1>4, <1>5, <1>6, <1>7, <1>8, <1>9, <1>10 DEF Next, Mutator, Collector

\* Sweeping frees no block that the cycle keeps, and keeps no other.
LEMMA LiveKept ==
  ASSUME IInv, [Next]_vars, phase = "sweep", phase' = "sweep"
  PROVE  \A b \in Block : color[b] # "blue" => (b \in Live' <=> b \in Live)
<1> USE HeapAssumption DEF Nil, NULL
<1>0. TypeOK /\ Control /\ SweepColors BY DEF IInv
<1>1. ASSUME NEW b \in Block, NEW t \in Tags, NEW init \in [Fields -> roots \cup {Nil}],
             Alloc(b, t, init)
      PROVE  \A x \in Block : color[x] # "blue" => (x \in Live' <=> x \in Live)
  BY <1>0, <1>1 DEF Alloc, gcvars, TypeOK, Live
<1>2. CASE SweepBlock
  <2>1. /\ sweep_hp \in Block /\ sweep_hp' = sweep_hp + 1
        /\ \A b \in Block : color'[b] = IF b # sweep_hp THEN color[b] ELSE
                           IF color[b] \in {"white", "blue"} THEN "blue" ELSE "white"
    BY <1>0, <1>2 DEF SweepBlock, TypeOK, Control, Block, Limit
  <2>2. \A b \in Block : color[b] = "black" => b >= sweep_hp
    BY <1>0 DEF SweepColors, Colored
  <2>3. \A b \in Block : color[b] \in {"white", "black", "blue"}
    BY <1>0 DEF SweepColors, Colored, TypeOK
  <2>4. ASSUME NEW b \in Block, b # sweep_hp PROVE b \in Live' <=> b \in Live
    <3>1. b < sweep_hp' <=> b < sweep_hp BY <2>1, <2>4 DEF Block
    <3> QED BY <2>1, <2>4, <3>1 DEF Live
  <2>5. PICK h \in Block : h = sweep_hp BY <2>1
  <2>6. h < sweep_hp' /\ ~(h < sweep_hp) BY <2>1, <2>5 DEF Block
  <2>7. color[h] # "blue" => (h \in Live' <=> h \in Live)
    BY <2>1, <2>3, <2>5, <2>6 DEF Live
  <2> QED BY <2>4, <2>5, <2>7
<1>3. ASSUME NEW b \in roots, NEW i \in Fields, NEW val \in roots \cup {Nil},
             caml_modify(b, i, val)
      PROVE  UNCHANGED <<color, phase, sweep_hp>>
  BY <1>3 DEF caml_modify, gcvars
<1>4. ASSUME NEW b \in roots, SetForward(b) \/ Load(b) \/ Drop(b)
      PROVE  UNCHANGED <<color, phase, sweep_hp>>
  BY <1>4 DEF SetForward, Load, Drop, gcvars
<1>5. CASE StartSlice \/ UNCHANGED vars
  <2>1. UNCHANGED <<color, phase, sweep_hp>> BY <1>5 DEF StartSlice, vars
  <2> QED BY <2>1 DEF Live
<1>6. /\ ~CycleStarted /\ ~MarkPop /\ ~MarkField /\ ~MarkHeap /\ ~MarkImpure /\ ~InitSweep
      /\ ~SweepDone /\ \A v \in pending : ~DarkenRoot(v)
  BY <1>0 DEF Control, CycleStarted, MarkPop, MarkField, MarkHeap, MarkImpure, InitSweep,
     MarkingDone, SweepDone, DarkenRoot
<1>7. UNCHANGED <<color, phase, sweep_hp>> =>
        \A b \in Block : color[b] # "blue" => (b \in Live' <=> b \in Live)
  BY DEF Live
<1> QED BY <1>1, <1>2, <1>3, <1>4, <1>5, <1>6, <1>7 DEF Next, Mutator, Collector

\* The mutator may get hold of a block that the cycle keeps by other means than
\* a field, as it does through a weak array, if it darkens the block while
\* marking is under way.
LEMMA TakeStep ==
  ASSUME IInv, pc = "mutator", NEW v \in Live, roots' = roots \cup {v},
         IF phase = "mark" THEN caml_darken(v) ELSE UNCHANGED <<color, stack>>,
         UNCHANGED <<tag, field, gcvars>>
  PROVE  /\ IInv'
         /\ \A x \in ToMark : color'[x] = "white" => x \in ToMark'
         /\ \A b \in Block :
              color'[b] = color[b] \/ (color[b] = "white" /\ color'[b] \in {"gray", "black"})
<1> USE HeapAssumption DEF Nil, NULL
<1>0. /\ TypeOK /\ Control /\ Shape /\ GrayEntries /\ GrayStack /\ PureHeap /\ LiveClosed
      /\ SnapshotMarking /\ SweepColors
  BY DEF IInv, GrayStack
<1>1. /\ v \in Block /\ v \in Value
      /\ UNCHANGED <<markhp, phase, sweep_hp, pc, pending, scan_v, scan_i, tag, field>>
  BY DEF Live, Value, gcvars
<1>2. /\ GrayEntries' /\ PureHeap' /\ (phase = "mark" => color'[v] # "white")
      /\ \A b \in Block :
           \/ color'[b] = color[b]
           \/ /\ b = v /\ color[b] = "white" /\ phase = "mark"
              /\ color'[b] = IF Scannable(tag[b]) THEN "gray" ELSE "black"
  <2>1. CASE phase = "mark" BY <1>0, <1>1, <2>1, DarkenFacts
  <2>2. CASE phase # "mark"
    BY <1>0, <1>1, <2>2 DEF GrayEntries, PureHeap, InStack, Colored, stack
  <2> QED BY <2>1, <2>2
<1>3. TypeOK'
  <2>1. /\ color' \in [Block -> {"white", "gray", "black", "blue"}]
        /\ gray_vals' \in Seq(Block)
        /\ gray_vals_size' \in Nat /\ gray_vals_size' >= 2
        /\ heap_is_pure' \in BOOLEAN
    <3>1. CASE phase = "mark" BY <1>0, <1>1, <3>1, DarkenType
    <3>2. CASE phase # "mark" BY <1>0, <3>2 DEF TypeOK, stack
    <3> QED BY <3>1, <3>2
  <2> QED BY <1>0, <1>1, <2>1 DEF TypeOK
<1>4. Control' BY <1>0, <1>1, <1>2 DEF Control
<1>5. Shape' BY <1>0, <1>1 DEF Shape
<1>6. GrayStack' BY <1>0, <1>1, <1>2 DEF GrayStack, stack
<1>7. Live' = Live BY <1>1, <1>2 DEF Live
<1>8. LiveClosed' BY <1>0, <1>1, <1>7 DEF LiveClosed, Closed, Succ
<1>9. SweepColors' BY <1>0, <1>1, <1>2 DEF SweepColors, Colored
<1>10. \A x \in ToMark : color'[x] = "white" => x \in ToMark'
  <2>1. CASE phase = "mark"
    <3>1. \A x \in Block : ~Scannable(tag[x]) => Succ(x) = {}
      BY <1>0 DEF Shape, Slots, Succ
    <3>2. \A c \in Block : Succ(c)' = Succ(c) BY <1>1 DEF Succ
    <3>3. Seeds \subseteq Seeds' \cup {v} BY <1>1, <1>2 DEF Seeds, Colored
    <3>4. \A x \in Block : color[x] \in {"white", "gray"} =>
            \/ color'[x] \in {"white", "gray"} /\ Succ(x) \subseteq Succ(x)' \cup {v}
            \/ Succ(x) \subseteq Seeds' \cup {v}
      BY <1>2, <3>1, <3>2
    <3> QED BY <1>1, <1>2, <2>1, <3>3, <3>4, ToMarkMonotone
  <2>2. CASE phase # "mark"
    <3>1. color' = color BY <2>2
    <3> QED BY <1>1, <3>1 DEF ToMark, SeedClosed, Seeds, Colored, Succ
  <2> QED BY <2>1, <2>2
<1>11. SnapshotMarking'
  <2> SUFFICES ASSUME phase = "mark", NEW w \in Block, color'[w] = "white",
                      w \in roots' \/ \E b \in Block : color'[b] = "black" /\ w \in Succ(b)'
               PROVE  w \in ToMark'
    BY <1>0, <1>1 DEF SnapshotMarking, Colored, Control
  <2>1. w # v /\ color[w] = "white" BY <1>2
  <2>2. \A x \in Block : ~Scannable(tag[x]) => Succ(x) = {}
    BY <1>0 DEF Shape, Slots, Succ
  <2>3. w \in roots \/ \E b \in Block : color[b] = "black" /\ w \in Succ(b)
    <3>1. \A c \in Block : Succ(c)' = Succ(c) BY <1>1 DEF Succ
    <3> QED BY <1>2, <2>1, <2>2, <3>1
  <2>4. w \in ToMark BY <1>0, <2>1, <2>3 DEF SnapshotMarking, Colored
  <2> QED BY <1>10, <2>4
<1>12. \A b \in Block :
          color'[b] = color[b] \/ (color[b] = "white" /\ color'[b] \in {"gray", "black"})
  BY <1>2
<1> QED BY <1>2, <1>3, <1>4, <1>5, <1>6, <1>8, <1>9, <1>10, <1>11, <1>12 DEF IInv

\* The invariant holds in every state.
THEOREM Invariance == Spec => []IInv
<1>1. Init => IInv
  <2> SUFFICES ASSUME Init PROVE IInv
    OBVIOUS
  <2> USE HeapAssumption, GrayAssumption DEF Init, Nil, NULL
  <2>1. TypeOK BY DEF TypeOK, AllTags, Value, Limit
  <2>2. Control BY DEF Control
  <2>3. Shape BY DEF Shape
  <2>4. GrayStack /\ PureHeap
    BY DEF GrayStack, GrayEntries, PureHeap, Colored
  <2>5. LiveClosed BY DEF LiveClosed, Closed, Live
  <2>6. SnapshotMarking /\ SweepColors BY DEF SnapshotMarking, SweepColors
  <2> QED BY <2>1, <2>2, <2>3, <2>4, <2>5, <2>6 DEF IInv
<1> QED BY <1>1, InvariantStep, PTL DEF Spec

\* The collector never frees a block that the mutator can reach: what the
\* cycle keeps is closed, holds the roots and has no free block.
THEOREM Safety == Spec => []NoReachableFree
<1>1. IInv => NoReachableFree
  <2> SUFFICES ASSUME IInv, NEW b \in Reachable PROVE color[b] # "blue"
    BY DEF NoReachableFree, Colored
  <2>1. roots \subseteq Live /\ Closed(Live) /\ Live \in SUBSET Block
    BY DEF IInv, LiveClosed, Live
  <2>2. b \in Live BY <2>1 DEF Reachable
  <2> QED BY <2>2 DEF Live
<1> QED BY <1>1, Invariance, PTL

\* Marking is snapshot-at-beginning, and a pure heap has its gray blocks on
\* the stack, which never overflows.
THEOREM MarkingSafe == Spec => [](SnapshotMarking /\ PureHeap /\ GrayStack)
<1>1. IInv => SnapshotMarking /\ PureHeap /\ GrayStack BY DEF IInv
<1> QED BY <1>1, Invariance, PTL

\* Sweeping meets no gray block, and no pointer leads out of what it keeps.
THEOREM SweepingSafe == Spec => [](SweepColors /\ LiveClosed)
<1>1. IInv => SweepColors /\ LiveClosed BY DEF IInv
<1> QED BY <1>1, Invariance, PTL

\* A step of the collector takes nothing from the mutator but Forward blocks
\* that a pointer now bypasses.
LEMMA GraphStep ==
  ASSUME IInv, [Next]_vars, pc # "mutator",
         NEW b \in Reachable, tag[b] # "Forward"
  PROVE  b \in Reachable'
<1> USE HeapAssumption DEF Nil, NULL
<1>0. TypeOK /\ Control /\ Shape /\ LiveClosed /\ SweepColors
  BY DEF IInv
<1>1. b \in Block
  BY DEF Reachable
<1> SUFFICES ASSUME NEW S \in SUBSET Block, roots' \subseteq S, Closed(S)'
             PROVE  b \in S
  BY <1>1 DEF Reachable
<1>2. CASE roots' = roots /\ field' = field
  <2>1. Closed(S) BY <1>2 DEF Closed, Succ
  <2> QED BY <1>2, <2>1 DEF Reachable
<1>3. CASE MarkField
  <2> DEFINE child == field[scan_v][scan_i]
  <2>1. scan_v \in Block /\ scan_i \in Fields /\ child \in Value /\ roots' = roots
    BY <1>0, <1>3 DEF MarkField, TypeOK
  <2>2. CASE child # Nil /\ ShortCircuits(child) /\ scan_v \in S
    <3> DEFINE f == field[child][1]
    <3>1. /\ child \in Block /\ tag[child] = "Forward"
          /\ field' = [field EXCEPT ![scan_v][scan_i] = f]
      BY <1>3, <2>1, <2>2 DEF MarkField, ShortCircuits, Value
    <3>2. /\ \A c \in Block, i \in Fields :
               c # scan_v \/ i # scan_i => field'[c][i] = field[c][i]
          /\ field'[scan_v][scan_i] = f
      BY <1>0, <2>1, <3>1 DEF TypeOK
    <3> HIDE DEF f
    <3>3. f # Nil => f \in S
      BY <2>1, <2>2, <3>2 DEF Closed, Succ
    <3>4. Succ(child) \subseteq S
      <4>1. \A i \in Fields : i # 1 => field[child][i] = Nil
        BY <1>0, <3>1 DEF Shape, Slots, Scannable
      <4> QED BY <3>3, <4>1 DEF Succ, f
    <3>5. \A c \in S, i \in Fields : field[c][i] # Nil => field[c][i] \in S \cup {child}
      <4> TAKE c \in S, i \in Fields
      <4>1. CASE c = scan_v /\ i = scan_i BY <4>1
      <4>2. CASE ~(c = scan_v /\ i = scan_i)
        BY <3>2, <4>2 DEF Closed, Succ
      <4> QED BY <4>1, <4>2
    <3>6. Closed(S \cup {child})
      BY <3>4, <3>5 DEF Closed, Succ
    <3>7. b \in S \cup {child}
      BY <2>1, <3>1, <3>6 DEF Reachable
    <3> QED BY <3>1, <3>7
  <2>3. CASE ~(child # Nil /\ ShortCircuits(child))
    BY <1>2, <1>3, <2>1, <2>3 DEF MarkField
  <2>4. CASE scan_v \notin S
    <3>1. \A c \in S, i \in Fields : field'[c][i] = field[c][i]
      BY <1>0, <1>3, <2>1, <2>4 DEF MarkField, TypeOK
    <3>2. Closed(S) BY <3>1 DEF Closed, Succ
    <3> QED BY <2>1, <3>2 DEF Reachable
  <2> QED BY <2>2, <2>3, <2>4
<1>4. CASE SweepBlock
  <2>1. /\ phase = "sweep" /\ sweep_hp \in Block /\ roots' = roots
    BY <1>0, <1>4 DEF SweepBlock, Control, TypeOK, Block, Limit
  <2>2. \A c \in Live : field'[c] = field[c]
    BY <1>0, <1>4, <2>1 DEF SweepBlock, TypeOK, Live, Block
  <2>3. Closed(S \cap Live)
    BY <1>0, <2>2 DEF Closed, Succ, LiveClosed
  <2>4. roots \subseteq S \cap Live
    BY <1>0, <2>1 DEF LiveClosed
  <2> QED BY <2>3, <2>4 DEF Reachable
<1>5. CASE \/ StartSlice \/ CycleStarted \/ MarkPop \/ MarkHeap \/ MarkImpure \/ InitSweep
           \/ SweepDone \/ UNCHANGED vars \/ \E v \in pending : DarkenRoot(v)
  BY <1>2, <1>5 DEF StartSlice, CycleStarted, MarkPop, MarkHeap, MarkImpure, InitSweep,
                    SweepDone, DarkenRoot, vars
<1>6. ~Mutator
  BY DEF Mutator, Alloc, caml_modify, SetForward, Load, Drop
<1> QED BY <1>3, <1>4, <1>5, <1>6 DEF Next, Collector

\* The collector never takes a block from the mutator, Forward blocks that
\* it bypasses apart.
THEOREM GraphKept == Spec => CollectorKeepsGraph
<1>1. IInv /\ [Next]_vars =>
        [pc # "mutator" => \A b \in Reachable \ Reachable' : tag[b] = "Forward"]_vars
  BY GraphStep
<1> QED BY <1>1, Invariance, PTL DEF Spec, CollectorKeepsGraph

=============================================================================
