---------------------------- MODULE MinorGCProofs ----------------------------
(***************************************************************************)
(* Proofs about the minor collector, for minor and major heaps, tables and *)
(* sets of roots of any size: the next collection always knows every word  *)
(* outside the minor heap that refers into it, and no pointer the program  *)
(* can reach leads to a block that a collection has freed.                 *)
(***************************************************************************)
EXTENDS MinorGC, FiniteSetTheorems, FunctionTheorems, SequenceTheorems, WellFoundedInduction, TLAPS

AllTags  == {"Block", "Box", "Forward", "Lazy", "Double"}
Headers  == AllTags \cup {"free", "fwd", "Weak"}
Vals     == Slots \cup {Null}
Words    == LocalRoots \cup GenRoots \cup (Slots \X Fields)
OldWords == Old \X Fields
Callers  == {<<"none">>} \cup ({"make_vect"} \X LocalRoots \X LocalRoots)

MTypeOK ==
  /\ hd \in [Slots -> Headers] /\ mem \in [Words -> Vals] /\ young_ptr \in 1 .. NY + 1
  /\ ref_table \in [entries : Seq(OldWords), size : Nat, limit : Nat]
  /\ weak_ref_table \in [entries : Seq(OldWords), size : Nat, limit : Nat]
  /\ caml_force_major_slice \in BOOLEAN
  /\ registered \subseteq GenRoots /\ roots_young \subseteq GenRoots /\ roots_old \subseteq GenRoots
  /\ pc \in {"mutator", "roots", "table", "mopup", "emptied", "make_vect"}
  /\ work \in Seq([from : Words, to : Words]) /\ call \in {<<>>} \cup (Vals \X Words)
  /\ oldify_todo_list \in Young \cup {Null} /\ caller \in Callers

\* A table is within its limit, and asks for a collection once it uses its reserve.
TableFits(t) ==
  /\ t.limit \in {t.size, t.size + TblReserve} /\ Len(t.entries) <= t.limit
  /\ t.size = 0 => t.limit = 0
  /\ t.limit # t.size => caml_force_major_slice

TablesInv == TableFits(ref_table) /\ TableFits(weak_ref_table)

InUse == {s \in Slots : Allocated(s)}

\* What a header says of a block, and that there is room to promote what is young.
HeapInv ==
  /\ \A s \in Old : hd[s] # "fwd"
  /\ \A s \in Young : /\ hd[s] # "Weak"
                      /\ hd[s] = "fwd" => mem[<<s, 1>>] \in Old
                      /\ hd[s] = "Double" => mem[<<s, 1>>] = Null /\ mem[<<s, 2>>] = Null
  /\ Cardinality(InUse) <= NO
  /\ caller # <<"none">> => Cardinality(InUse) < NO

ControlInv ==
  /\ pc \in {"mutator", "emptied", "make_vect"} => work = <<>> /\ call = <<>> /\ oldify_todo_list = Null
  /\ pc \in {"emptied", "make_vect"} =>
       /\ ref_table.entries = <<>> /\ ref_table.limit = ref_table.size
       /\ weak_ref_table.entries = <<>> /\ weak_ref_table.limit = weak_ref_table.size
  /\ pc = "mutator" => caller = <<"none">>
  /\ pc = "make_vect" => caller # <<"none">>

\* The words that the running loop and the running caml_oldify_one will store into.
Pending == {work[i].to : i \in 1 .. Len(work)} \cup (IF call = <<>> THEN {} ELSE {call[2]})

\* Those are roots, young global roots while these are scanned, and words of old blocks
\* in use, as are those in the tables.
WordsInv ==
  /\ Pending \subseteq LocalRoots \cup (IF pc = "roots" THEN roots_young ELSE {}) \cup OldWords
  /\ \A s \in Old, i \in Fields :
       <<s, i>> \in Pending \cup Entries(ref_table) \cup Entries(weak_ref_table) => Allocated(s)

\* During a collection a root that holds a young value is still to come.
RootsInv ==
  /\ \A w \in LocalRoots : pc # "mutator" /\ Is_young(mem[w]) => w \in Pending
  /\ \A g \in registered : /\ Is_young(mem[g]) => g \in roots_young /\ (pc # "mutator" => g \in Pending)
                           /\ Is_in_heap(mem[g]) => g \in roots_young \cup roots_old

Copy(v) == mem[<<v, 1>>]

\* The tables that are still to be looked at know the word.
Known(s, i) == IF hd[s] = "Weak" THEN <<s, i>> \in Entries(weak_ref_table)
               ELSE pc \in {"mutator", "roots"} /\ <<s, i>> \in Entries(ref_table)

\* The sequence q is the to-do list: its blocks are promoted, their copies are linked by
\* their second fields and nothing else will store into them.
Linked(q) ==
  /\ oldify_todo_list = IF Len(q) = 0 THEN Null ELSE q[1]
  /\ \A i \in 1 .. Len(q) :
       /\ hd[q[i]] = "fwd" /\ Allocated(Copy(q[i]))
       /\ mem[<<Copy(q[i]), 2>>] = IF i = Len(q) THEN Null ELSE q[i + 1]
       /\ \A j \in Fields : <<Copy(q[i]), j>> \notin Pending \cup Entries(ref_table)
  /\ \A i, k \in 1 .. Len(q) : Copy(q[i]) = Copy(q[k]) => i = k

\* A word of the major heap that refers to the minor heap is in a table, or among the
\* words to come, or belongs to a copy on the to-do list.
Covered(q) ==
  \A s \in Old, i \in Fields :
    Is_young(mem[<<s, i>>]) => Known(s, i) \/ <<s, i>> \in Pending \/ \E k \in 1 .. Len(q) : s = Copy(q[k])

TodoInv(S) == \E q \in S : Linked(q) /\ Covered(q)

MInv == MTypeOK /\ TablesInv /\ HeapInv /\ ControlInv /\ WordsInv /\ RootsInv /\ TodoInv(Seq(Young))

-----------------------------------------------------------------------------
(* Slots, sets and sequences.                                              *)

LEMMA SlotFacts ==
  /\ NY \in Nat /\ NO \in Nat /\ TblSize \in Nat \ {0} /\ TblReserve \in Nat \ {0}
  /\ Young \subseteq Slots /\ Old \subseteq Slots /\ Young \cap Old = {} /\ Slots = Young \cup Old
  /\ Null \notin Slots /\ Old \subseteq Nat
  /\ IsFiniteSet(Slots) /\ IsFiniteSet(Old) /\ Cardinality(Old) = NO
<1>1. NY \in Nat /\ NO \in Nat /\ TblSize \in Nat \ {0} /\ TblReserve \in Nat \ {0}
  BY MinorSizes
<1>2. IsFiniteSet(1 .. NY) /\ IsFiniteSet(NY + 1 .. NY + NO)
  BY <1>1, FS_Interval
<1>3. Cardinality(NY + 1 .. NY + NO) = NO
  <2>1. Cardinality(NY + 1 .. NY + NO) = IF NY + 1 > NY + NO THEN 0 ELSE NY + NO - (NY + 1) + 1
    BY <1>1, FS_Interval
  <2> QED BY <1>1, <2>1
<1>4. IsFiniteSet(Slots)
  BY <1>2, FS_Union DEF Slots, Young, Old
<1> QED BY <1>1, <1>2, <1>3, <1>4 DEF Slots, Young, Old, Null

LEMMA WordFacts ==
  /\ LocalRoots \subseteq Words /\ GenRoots \subseteq Words /\ LocalRoots \cap GenRoots = {}
  /\ \A s \in Slots, i \in Fields : /\ <<s, i>> \in Words /\ <<s, i>> \notin LocalRoots /\ <<s, i>> \notin GenRoots
                                    /\ (<<s, i>> \in OldWords <=> s \in Old)
  /\ OldWords \subseteq Words /\ 1 \in Fields /\ 2 \in Fields
BY MinorWords, SlotFacts DEF Words, OldWords, Fields

LEMMA RootWords ==
  (LocalRoots \cup GenRoots) \cap OldWords = {}
<1>1. OldWords \subseteq Slots \X Fields
  BY SlotFacts DEF OldWords
<1> QED BY <1>1, MinorWords

LEMMA LeastNat ==
  ASSUME NEW S \in SUBSET Nat, S # {}
  PROVE  \E m \in S : \A n \in S : n < m => FALSE
<1> DEFINE R == OpToRel(<, Nat)
<1>1. IsWellFoundedOn(R, Nat)
  BY NatLessThanWellFounded
<1>2. \A x, y \in Nat : <<x, y>> \in R <=> x < y
  BY DEF OpToRel
<1> HIDE DEF R
<1>3. \E x \in S : \A y \in S : ~(<<y, x>> \in R)
  BY <1>1, WFMin
<1> QED BY <1>2, <1>3

\* SetToSeq lists every element of a finite set.
LEMMA SetToSeqAll ==
  ASSUME NEW S, IsFiniteSet(S)
  PROVE  /\ SetToSeq(S) \in Seq(S)
         /\ \A x \in S : \E i \in 1 .. Len(SetToSeq(S)) : SetToSeq(S)[i] = x
<1> DEFINE n == Cardinality(S)
           D == 1 .. n
           f == SetToSeq(S)
<1>1. n \in Nat /\ ExistsBijection(D, S)
  BY FS_CardinalityType
<1>2. PICK b : b \in Bijection(D, S)
  BY <1>1 DEF ExistsBijection
<1>3. b \in [D -> S] /\ \A x, y \in D : b[x] = b[y] => x = y
  BY <1>2 DEF Bijection, Injection, IsInjective
<1>4. f \in [D -> S] /\ \A x, y \in D : f[x] = f[y] => x = y
  <2>1. \E g \in [D -> S] : IsInjective(g)
    BY <1>3 DEF IsInjective
  <2>2. f \in [D -> S] /\ IsInjective(f)
    BY <2>1 DEF SetToSeq
  <2> HIDE DEF f
  <2> QED BY <2>2 DEF IsInjective
<1> HIDE DEF f
<1>5. f \in Injection(D, S)
  BY <1>4 DEF Injection, IsInjective
<1>6. IsFiniteSet(D) /\ Cardinality(D) = n
  <2>1. IsFiniteSet(1 .. n) /\ Cardinality(1 .. n) = IF 1 > n THEN 0 ELSE n - 1 + 1
    BY <1>1, FS_Interval
  <2> QED BY <1>1, <2>1
<1>7. f \in Surjection(D, S)
  BY <1>5, <1>6, FS_Injection
<1>8. \A x \in S : \E i \in D : f[i] = x
  BY <1>7 DEF Surjection
<1>9. f \in Seq(S) /\ Len(f) = n
  BY <1>1, <1>4
<1> QED BY <1>8, <1>9 DEF f

-----------------------------------------------------------------------------
(* Reference tables.                                                        *)

TableType == [entries : Seq(OldWords), size : Nat, limit : Nat]

LEMMA AddFits ==
  ASSUME NEW t \in TableType, NEW p \in OldWords,
         t.limit \in {t.size, t.size + TblReserve}, Len(t.entries) <= t.limit, t.size = 0 => t.limit = 0
  PROVE  /\ Add(t, p) \in TableType /\ Entries(Add(t, p)) = Entries(t) \cup {p}
         /\ Add(t, p).limit \in {Add(t, p).size, Add(t, p).size + TblReserve}
         /\ Len(Add(t, p).entries) <= Add(t, p).limit
         /\ Add(t, p).size = 0 => Add(t, p).limit = 0
         /\ Add(t, p).limit # Add(t, p).size => t.limit # t.size \/ Urges(t)
<1> DEFINE r == IF Full(t) THEN caml_realloc_ref_table(t) ELSE t
           n == Len(t.entries)
<1>1. t.entries \in Seq(OldWords) /\ n \in Nat /\ t.size \in Nat /\ t.limit \in Nat
      /\ TblSize \in Nat \ {0} /\ TblReserve \in Nat \ {0}
  BY SlotFacts DEF TableType
<1>2. /\ r \in TableType /\ r.entries = t.entries /\ n < r.limit
      /\ r.limit \in {r.size, r.size + TblReserve} /\ (r.size = 0 => r.limit = 0)
      /\ r.limit # r.size => t.limit # t.size \/ Urges(t)
  <2>1. CASE ~Full(t)
    <3>1. r = t /\ n < t.limit
      BY <1>1, <2>1 DEF Full
    <3> QED BY <3>1
  <2>2. CASE Full(t) /\ t.size = 0
    <3>1. r = [entries |-> <<>>, size |-> TblSize, limit |-> TblSize]
      BY <2>2 DEF caml_realloc_ref_table, caml_alloc_table
    <3>2. n = 0
      BY <1>1, <2>2
    <3>3. t.entries = <<>>
      BY <1>1, <3>2, EmptySeq
    <3> HIDE DEF r
    <3> QED BY <1>1, <3>1, <3>2, <3>3 DEF TableType
  <2>3. CASE Full(t) /\ t.size # 0 /\ t.limit = t.size
    <3>1. r = [t EXCEPT !.limit = t.size + TblReserve] /\ Urges(t)
      BY <2>3 DEF caml_realloc_ref_table, Urges
    <3> HIDE DEF r
    <3>2. r.entries = t.entries /\ r.size = t.size /\ r.limit = t.size + TblReserve /\ r \in TableType
      BY <1>1, <3>1 DEF TableType
    <3> QED BY <1>1, <2>3, <3>1, <3>2
  <2>4. CASE Full(t) /\ t.size # 0 /\ t.limit # t.size
    <3> DEFINE a == [t EXCEPT !.size = 2 * t.size]
    <3>1. r = [a EXCEPT !.limit = 2 * t.size + TblReserve]
      <4>1. r = [t EXCEPT !.size = 2 * t.size, !.limit = 2 * t.size + TblReserve]
        BY <2>4 DEF caml_realloc_ref_table
      <4> HIDE DEF r
      <4> QED BY <4>1 DEF TableType
    <3>2. a \in TableType /\ a.entries = t.entries /\ a.size = 2 * t.size
      BY <1>1 DEF TableType
    <3> DEFINE m == 2 * t.size + TblReserve
    <3>3. m \in Nat
      BY <1>1
    <3> HIDE DEF r, a
    <3>4. r.entries = t.entries /\ r.size = 2 * t.size /\ r.limit = 2 * t.size + TblReserve /\ r \in TableType
      <4> HIDE DEF m
      <4>1. r = [a EXCEPT !.limit = m]
        BY <3>1 DEF m
      <4>2. r \in TableType /\ r.limit = m /\ r.size = a.size /\ r.entries = a.entries
        BY <3>2, <3>3, <4>1 DEF TableType
      <4> QED BY <3>2, <4>2 DEF m
    <3> QED BY <1>1, <2>4, <3>4
  <2> QED BY <2>1, <2>2, <2>3, <2>4
<1>3. Add(t, p) = [r EXCEPT !.entries = Append(@, p)]
  BY DEF Add
<1> HIDE DEF r
<1>4. /\ Add(t, p).entries = Append(t.entries, p) /\ Add(t, p).size = r.size /\ Add(t, p).limit = r.limit
      /\ Add(t, p) \in TableType
  <2>1. Append(t.entries, p) \in Seq(OldWords)
    BY <1>1
  <2> QED BY <1>2, <1>3, <2>1 DEF TableType
<1>5. Len(Append(t.entries, p)) = n + 1 /\ r.limit \in Nat
  BY <1>1, <1>2 DEF TableType
<1>6. Entries(Add(t, p)) = Entries(t) \cup {p}
  <2>1. \A i \in 1 .. n : Append(t.entries, p)[i] = t.entries[i]
    BY <1>1
  <2>2. Append(t.entries, p)[n + 1] = p
    BY <1>1
  <2>3. Entries(Add(t, p)) = {Append(t.entries, p)[i] : i \in 1 .. n + 1}
    BY <1>4, <1>5 DEF Entries
  <2>4. 1 .. n + 1 = (1 .. n) \cup {n + 1}
    BY <1>1
  <2> DEFINE e == Append(t.entries, p)
  <2> HIDE DEF e
  <2>5. {e[i] : i \in (1 .. n) \cup {n + 1}} = {e[i] : i \in 1 .. n} \cup {e[n + 1]}
    OBVIOUS
  <2>6. {e[i] : i \in 1 .. n} = {t.entries[i] : i \in 1 .. n}
    BY <2>1 DEF e
  <2> QED BY <2>2, <2>3, <2>4, <2>5, <2>6 DEF Entries, e
<1> QED BY <1>1, <1>2, <1>4, <1>5, <1>6
-----------------------------------------------------------------------------
(* The heap.                                                                *)

LEMMA InUseFinite ==
  IsFiniteSet(InUse) /\ InUse \subseteq Slots /\ Cardinality(InUse) \in Nat
BY SlotFacts, FS_Subset, FS_CardinalityType DEF InUse

\* caml_alloc_shr finds a free block, as long as all that is young can be promoted.
LEMMA FreeSlot ==
  ASSUME MTypeOK, HeapInv, Cardinality(InUse) < NO \/ \E v \in Young : Allocated(v)
  PROVE  FreeOld \in Old /\ hd[FreeOld] = "free"
<1>1. ASSUME \A s \in Old : hd[s] # "free" PROVE FALSE
  <2>1. Old \subseteq InUse
    BY <1>1, SlotFacts DEF HeapInv, InUse, Allocated
  <2>2. NO <= Cardinality(InUse) /\ (Cardinality(InUse) = NO => InUse = Old)
    BY <2>1, SlotFacts, InUseFinite, FS_Subset
  <2>3. Cardinality(InUse) = NO
    <3>1. Cardinality(InUse) <= NO
      BY DEF HeapInv
    <3> QED BY <2>2, <3>1, SlotFacts, InUseFinite
  <2>4. PICK v \in Young : Allocated(v)
    BY <2>3, SlotFacts
  <2>5. v \in InUse
    BY <2>4, SlotFacts DEF InUse
  <2> QED BY <2>2, <2>3, <2>5, SlotFacts
<1> DEFINE F == {s \in Old : hd[s] = "free"}
<1>2. F \in SUBSET Nat /\ F # {}
  BY <1>1, SlotFacts
<1>3. \E m \in F : \A n \in F : n < m => FALSE
  <2> HIDE DEF F
  <2> QED BY <1>2, LeastNat
<1>4. \E s \in Old : hd[s] = "free" /\ \A t \in Old : t < s => hd[t] # "free"
  BY <1>3
<1> QED BY <1>4 DEF FreeOld

\* The effect of Place: one more block at most.
LEMMA PlaceFacts ==
  ASSUME MTypeOK, NEW l \in LocalRoots, NEW s \in Slots, NEW t \in Headers, NEW a \in Vals, NEW b \in Vals,
         Place(l, s, t, <<a, b>>)
  PROVE  /\ hd' \in [Slots -> Headers] /\ mem' \in [Words -> Vals]
         /\ hd'[s] = t /\ (\A x \in Slots \ {s} : hd'[x] = hd[x])
         /\ mem'[l] = s /\ mem'[<<s, 1>>] = a /\ mem'[<<s, 2>>] = b
         /\ \A w \in Words \ {l, <<s, 1>>, <<s, 2>>} : mem'[w] = mem[w]
         /\ Cardinality(InUse') <= Cardinality(InUse) + 1
<1>1. hd \in [Slots -> Headers] /\ mem \in [Words -> Vals]
  BY DEF MTypeOK
<1>2. hd' = [hd EXCEPT ![s] = t] /\ mem' = [mem EXCEPT ![l] = s, ![<<s, 1>>] = a, ![<<s, 2>>] = b]
  BY DEF Place
<1>3. l \in Words /\ <<s, 1>> \in Words /\ <<s, 2>> \in Words /\ l # <<s, 1>> /\ l # <<s, 2>> /\ s \in Vals
  BY WordFacts DEF Vals
<1>4. /\ hd' \in [Slots -> Headers] /\ hd'[s] = t /\ (\A x \in Slots \ {s} : hd'[x] = hd[x])
  BY <1>1, <1>2
<1>5. /\ mem' \in [Words -> Vals] /\ mem'[l] = s /\ mem'[<<s, 1>>] = a /\ mem'[<<s, 2>>] = b
      /\ \A w \in Words \ {l, <<s, 1>>, <<s, 2>>} : mem'[w] = mem[w]
  <2> HIDE DEF Words, Vals
  <2> QED BY <1>1, <1>2, <1>3
<1>6. Cardinality(InUse') <= Cardinality(InUse) + 1
  <2>1. InUse' \subseteq InUse \cup {s} /\ InUse' \subseteq Slots
    BY <1>4 DEF InUse, Allocated
  <2>2. IsFiniteSet(InUse \cup {s}) /\ Cardinality(InUse \cup {s}) <= Cardinality(InUse) + 1
    <3>1. /\ IsFiniteSet(InUse \cup {s})
          /\ Cardinality(InUse \cup {s}) = IF s \in InUse THEN Cardinality(InUse) ELSE Cardinality(InUse) + 1
      BY InUseFinite, FS_AddElement
    <3> QED BY <3>1, InUseFinite
  <2>3. IsFiniteSet(InUse') /\ Cardinality(InUse') <= Cardinality(InUse \cup {s})
    BY <2>1, <2>2, FS_Subset
  <2>4. Cardinality(InUse) \in Nat /\ Cardinality(InUse') \in Nat /\ Cardinality(InUse \cup {s}) \in Nat
    BY <2>2, <2>3, InUseFinite, FS_CardinalityType
  <2> QED BY <2>2, <2>3, <2>4
<1> QED BY <1>4, <1>5, <1>6

-----------------------------------------------------------------------------
(* Between collections.                                                     *)

Idle == {"mutator", "emptied", "make_vect"}

\* Then only the tables are needed.
LEMMA IdleFacts ==
  ASSUME MInv, pc \in Idle
  PROVE  /\ Pending = {} /\ work = <<>> /\ call = <<>> /\ oldify_todo_list = Null
         /\ \A s \in Old, i \in Fields : Is_young(mem[<<s, i>>]) => Known(s, i)
<1>1. work = <<>> /\ call = <<>> /\ oldify_todo_list = Null
  BY DEF MInv, ControlInv, Idle
<1>2. Pending = {}
  BY <1>1 DEF Pending
<1>3. PICK q \in Seq(Young) : Linked(q) /\ Covered(q)
  BY DEF MInv, TodoInv
<1>4. Len(q) \in Nat /\ (Len(q) # 0 => q[1] \in Young)
  BY <1>3, ElementOfSeq
<1>5. Len(q) = 0
  BY <1>1, <1>3, <1>4, SlotFacts DEF Linked
<1> QED BY <1>1, <1>2, <1>3, <1>5 DEF Covered

LEMMA IdleKeeps ==
  ASSUME MTypeOK', TablesInv', HeapInv', ControlInv', pc' \in Idle,
         \A s \in Old, i \in Fields : <<s, i>> \in Entries(ref_table') \cup Entries(weak_ref_table') => Allocated(s)',
         pc' # "mutator" => \A w \in LocalRoots \cup registered' : ~Is_young(mem'[w]),
         \A g \in registered' : /\ Is_young(mem'[g]) => g \in roots_young'
                                /\ Is_in_heap(mem'[g]) => g \in roots_young' \cup roots_old',
         \A s \in Old, i \in Fields : Is_young(mem'[<<s, i>>]) => Known(s, i)'
  PROVE  MInv'
<1>1. work' = <<>> /\ call' = <<>> /\ oldify_todo_list' = Null
  BY DEF ControlInv, Idle
<1>2. Pending' = {}
  BY <1>1 DEF Pending
<1>3. WordsInv'
  BY <1>2 DEF WordsInv, Entries
<1>4. RootsInv'
  BY DEF RootsInv
<1>5. TodoInv(Seq(Young))'
  <2>1. <<>> \in Seq(Young) /\ Len(<<>>) = 0
    OBVIOUS
  <2>2. Linked(<<>>)'
    BY <1>1, <2>1 DEF Linked
  <2>3. Covered(<<>>)'
    BY DEF Covered
  <2> QED BY <2>1, <2>2, <2>3 DEF TodoInv
<1> QED BY <1>3, <1>4, <1>5 DEF MInv

-----------------------------------------------------------------------------
(* The program.                                                             *)

LEMMA MutatorKeeps ==
  ASSUME MInv, pc = "mutator", UNCHANGED collector, MTypeOK', TablesInv', HeapInv',
         \A s \in Old, i \in Fields : <<s, i>> \in Entries(ref_table') \cup Entries(weak_ref_table') => Allocated(s)',
         \A g \in registered' : /\ Is_young(mem'[g]) => g \in roots_young'
                                /\ Is_in_heap(mem'[g]) => g \in roots_young' \cup roots_old',
         \A s \in Old, i \in Fields : Is_young(mem'[<<s, i>>]) => Known(s, i)'
  PROVE  MInv'
<1>1. pc' = "mutator" /\ pc' \in Idle
  BY DEF collector, Idle
<1>2. ControlInv'
  BY <1>1 DEF collector, MInv, ControlInv
<1> QED BY <1>1, <1>2, IdleKeeps

LEMMA MutatorFacts ==
  ASSUME MInv, pc = "mutator"
  PROVE  /\ \A s \in Old, i \in Fields : Is_young(mem[<<s, i>>]) => Known(s, i)
         /\ \A s \in Old, i \in Fields : <<s, i>> \in Entries(ref_table) \cup Entries(weak_ref_table) => Allocated(s)
         /\ \A g \in registered : /\ Is_young(mem[g]) => g \in roots_young
                                  /\ Is_in_heap(mem[g]) => g \in roots_young \cup roots_old
         /\ MTypeOK /\ TablesInv /\ HeapInv /\ caller = <<"none">> /\ Values \subseteq Vals /\ Held \subseteq Vals
<1>1. pc \in Idle
  BY DEF Idle
<1>2. \A s \in Old, i \in Fields : Is_young(mem[<<s, i>>]) => Known(s, i)
  BY <1>1, IdleFacts
<1>3. \A s \in Old, i \in Fields : <<s, i>> \in Entries(ref_table) \cup Entries(weak_ref_table) => Allocated(s)
  BY DEF MInv, WordsInv
<1>4. MTypeOK /\ TablesInv /\ HeapInv /\ caller = <<"none">>
  BY DEF MInv, ControlInv
<1>5. Held \subseteq Vals
  <2>1. \A w \in LocalRoots \cup registered : mem[w] \in Vals
    BY <1>4, WordFacts DEF MTypeOK
  <2> QED BY <2>1 DEF Held
<1> QED BY <1>2, <1>3, <1>4, <1>5 DEF MInv, RootsInv, Values, Vals

LEMMA AllocKeeps ==
  ASSUME MInv, NEW l \in LocalRoots, NEW t \in Tags, NEW a \in Values, NEW b \in Values, Alloc_small(l, t, a, b)
  PROVE  MInv'
<1> DEFINE s == young_ptr - 1
<1>1. /\ pc = "mutator" /\ Cardinality(InUse) < NO /\ young_ptr > 1 /\ young_ptr' = s
      /\ (t # "Block" => b = Null) /\ (t = "Double" => a = Null)
      /\ Place(l, s, t, <<a, b>>) /\ UNCHANGED <<tables, genroots, collector>>
  BY DEF Alloc_small, Mutator, Room, InUse
<1>2. /\ \A x \in Old, i \in Fields : Is_young(mem[<<x, i>>]) => Known(x, i)
      /\ \A x \in Old, i \in Fields : <<x, i>> \in Entries(ref_table) \cup Entries(weak_ref_table) => Allocated(x)
      /\ \A g \in registered : /\ Is_young(mem[g]) => g \in roots_young
                               /\ Is_in_heap(mem[g]) => g \in roots_young \cup roots_old
      /\ MTypeOK /\ TablesInv /\ HeapInv /\ caller = <<"none">> /\ a \in Vals /\ b \in Vals
  BY <1>1, MutatorFacts
<1>3. s \in Young /\ s \in Slots /\ s \notin Old /\ s \in 1 .. NY + 1
  BY <1>1, <1>2, SlotFacts DEF MTypeOK, Young
<1>4. t \in AllTags /\ t \in Headers
  BY MinorSizes DEF AllTags, Headers
<1> HIDE DEF s
<1>5. /\ hd' \in [Slots -> Headers] /\ mem' \in [Words -> Vals]
      /\ hd'[s] = t /\ (\A x \in Slots \ {s} : hd'[x] = hd[x])
      /\ mem'[l] = s /\ mem'[<<s, 1>>] = a /\ mem'[<<s, 2>>] = b
      /\ \A w \in Words \ {l, <<s, 1>>, <<s, 2>>} : mem'[w] = mem[w]
      /\ Cardinality(InUse') <= Cardinality(InUse) + 1
  BY <1>1, <1>2, <1>3, <1>4, PlaceFacts
<1>6. /\ \A x \in Slots \ {s}, i \in Fields : mem'[<<x, i>>] = mem[<<x, i>>]
      /\ \A g \in GenRoots : mem'[g] = mem[g]
  BY <1>3, <1>5, WordFacts
<1>7. MTypeOK'
  BY <1>1, <1>2, <1>3, <1>5 DEF MTypeOK, tables, genroots, collector
<1>8. TablesInv'
  BY <1>1, <1>2 DEF TablesInv, TableFits, tables
<1>9. HeapInv'
  <2>1. Cardinality(InUse') <= NO
    <3>1. IsFiniteSet(InUse') /\ Cardinality(InUse') \in Nat
      BY SlotFacts, FS_Subset, FS_CardinalityType DEF InUse
    <3> QED BY <1>1, <1>5, <3>1, SlotFacts, InUseFinite
  <2>2. \A x \in Old : hd'[x] # "fwd"
    BY <1>2, <1>3, <1>5, SlotFacts DEF HeapInv
  <2>3. ASSUME NEW x \in Young
        PROVE  /\ hd'[x] # "Weak"
               /\ hd'[x] = "fwd" => mem'[<<x, 1>>] \in Old
               /\ hd'[x] = "Double" => mem'[<<x, 1>>] = Null /\ mem'[<<x, 2>>] = Null
    <3>1. CASE x = s
      BY <1>1, <1>4, <1>5, <3>1 DEF AllTags
    <3>2. CASE x # s
      BY <1>2, <1>5, <1>6, <3>2, SlotFacts, WordFacts DEF HeapInv
    <3> QED BY <3>1, <3>2
  <2> QED BY <1>1, <1>2, <2>1, <2>2, <2>3 DEF HeapInv, collector
<1>10. \A x \in Old : hd'[x] = hd[x]
  BY <1>3, <1>5, SlotFacts
<1>11. \A x \in Old, i \in Fields : <<x, i>> \in Entries(ref_table') \cup Entries(weak_ref_table') => Allocated(x)'
  BY <1>1, <1>2, <1>10 DEF Allocated, tables
<1>12. \A g \in registered' : /\ Is_young(mem'[g]) => g \in roots_young'
                              /\ Is_in_heap(mem'[g]) => g \in roots_young' \cup roots_old'
  BY <1>1, <1>2, <1>6 DEF genroots, MTypeOK
<1>13. \A x \in Old, i \in Fields : Is_young(mem'[<<x, i>>]) => Known(x, i)'
  BY <1>1, <1>2, <1>3, <1>6, <1>10, SlotFacts DEF Known, tables, collector
<1> QED BY <1>1, <1>7, <1>8, <1>9, <1>11, <1>12, <1>13, MutatorKeeps

\* A new block of the major heap.
LEMMA OldBlockFacts ==
  ASSUME MTypeOK, HeapInv, Cardinality(InUse) < NO, NEW l \in LocalRoots, NEW t \in {"Block", "Weak"},
         NEW a \in Vals, NEW b \in Vals, Place(l, FreeOld, t, <<a, b>>), caller' = <<"none">>
  PROVE  /\ FreeOld \in Old /\ hd[FreeOld] = "free" /\ hd' \in [Slots -> Headers] /\ mem' \in [Words -> Vals]
         /\ hd'[FreeOld] = t /\ (\A x \in Slots \ {FreeOld} : hd'[x] = hd[x])
         /\ mem'[<<FreeOld, 1>>] = a /\ mem'[<<FreeOld, 2>>] = b
         /\ \A x \in Slots \ {FreeOld}, i \in Fields : mem'[<<x, i>>] = mem[<<x, i>>]
         /\ \A g \in GenRoots : mem'[g] = mem[g]
         /\ HeapInv'
<1> DEFINE s == FreeOld
<1>1. s \in Old /\ hd[s] = "free" /\ s \in Slots /\ s \notin Young
  BY FreeSlot, SlotFacts
<1>2. t \in Headers
  BY DEF Headers, AllTags
<1> HIDE DEF s
<1>3. /\ hd' \in [Slots -> Headers] /\ mem' \in [Words -> Vals]
      /\ hd'[s] = t /\ (\A x \in Slots \ {s} : hd'[x] = hd[x])
      /\ mem'[l] = s /\ mem'[<<s, 1>>] = a /\ mem'[<<s, 2>>] = b
      /\ \A w \in Words \ {l, <<s, 1>>, <<s, 2>>} : mem'[w] = mem[w]
      /\ Cardinality(InUse') <= Cardinality(InUse) + 1
  <2>1. Place(l, s, t, <<a, b>>)
    BY DEF s
  <2> QED BY <1>1, <1>2, <2>1, PlaceFacts
<1>4. /\ \A x \in Slots \ {s}, i \in Fields : mem'[<<x, i>>] = mem[<<x, i>>]
      /\ \A g \in GenRoots : mem'[g] = mem[g]
  BY <1>1, <1>3, WordFacts
<1>5. HeapInv'
  <2>1. Cardinality(InUse') <= NO
    <3>1. IsFiniteSet(InUse') /\ Cardinality(InUse') \in Nat
      BY SlotFacts, FS_Subset, FS_CardinalityType DEF InUse
    <3> QED BY <1>3, <3>1, SlotFacts, InUseFinite
  <2>2. \A x \in Old : hd'[x] # "fwd"
    BY <1>1, <1>3, SlotFacts DEF HeapInv
  <2>3. ASSUME NEW x \in Young
        PROVE  /\ hd'[x] # "Weak"
               /\ hd'[x] = "fwd" => mem'[<<x, 1>>] \in Old
               /\ hd'[x] = "Double" => mem'[<<x, 1>>] = Null /\ mem'[<<x, 2>>] = Null
    <3>1. x \in Slots \ {s}
      BY <1>1, SlotFacts
    <3>2. hd'[x] = hd[x] /\ mem'[<<x, 1>>] = mem[<<x, 1>>] /\ mem'[<<x, 2>>] = mem[<<x, 2>>]
      BY <1>3, <1>4, <3>1, WordFacts
    <3> QED BY <3>2 DEF HeapInv
  <2> QED BY <2>1, <2>2, <2>3 DEF HeapInv
<1> QED BY <1>1, <1>3, <1>4, <1>5 DEF s

\* What caml_initialize does to a table.
LEMMA InitializeFacts ==
  ASSUME NEW t \in TableType, NEW p \in OldWords, NEW v \in Vals,
         t.limit \in {t.size, t.size + TblReserve}, Len(t.entries) <= t.limit, t.size = 0 => t.limit = 0,
         NEW u, u = caml_initialize(t, p, v)
  PROVE  /\ u \in TableType /\ Entries(t) \subseteq Entries(u) /\ Entries(u) \subseteq Entries(t) \cup {p}
         /\ Is_young(v) => p \in Entries(u)
         /\ u.limit \in {u.size, u.size + TblReserve} /\ Len(u.entries) <= u.limit
         /\ u.size = 0 => u.limit = 0
         /\ u.limit # u.size => t.limit # t.size \/ (Is_young(v) /\ Urges(t))
<1>1. CASE Is_young(v)
  <2>1. u = Add(t, p)
    BY <1>1 DEF caml_initialize
  <2> QED BY <1>1, <2>1, AddFits
<1>2. CASE ~Is_young(v)
  BY <1>2 DEF caml_initialize
<1> QED BY <1>1, <1>2

LEMMA MakeBlockKeeps ==
  ASSUME MInv, NEW l \in LocalRoots, NEW a \in Values, NEW b \in Values, MakeBlock(l, a, b)
  PROVE  MInv'
<1> DEFINE s == FreeOld
           t == caml_initialize(ref_table, <<s, 1>>, a)
           u == caml_initialize(t, <<s, 2>>, b)
<1>1. /\ pc = "mutator" /\ Cardinality(InUse) < NO /\ Place(l, s, "Block", <<a, b>>)
      /\ UNCHANGED <<young_ptr, weak_ref_table, genroots, collector>> /\ ref_table' = u
      /\ caml_force_major_slice' = (\/ caml_force_major_slice
                                    \/ Is_young(a) /\ Urges(ref_table)
                                    \/ Is_young(b) /\ Urges(t))
  BY DEF MakeBlock, Mutator, Room, InUse
<1>2. /\ \A x \in Old, i \in Fields : Is_young(mem[<<x, i>>]) => Known(x, i)
      /\ \A x \in Old, i \in Fields : <<x, i>> \in Entries(ref_table) \cup Entries(weak_ref_table) => Allocated(x)
      /\ \A g \in registered : /\ Is_young(mem[g]) => g \in roots_young
                               /\ Is_in_heap(mem[g]) => g \in roots_young \cup roots_old
      /\ MTypeOK /\ TablesInv /\ HeapInv /\ caller = <<"none">> /\ a \in Vals /\ b \in Vals
  BY <1>1, MutatorFacts
<1>3. caller' = <<"none">> /\ pc' = pc
  BY <1>1, <1>2 DEF collector
<1>4. /\ s \in Old /\ hd[s] = "free" /\ hd' \in [Slots -> Headers] /\ mem' \in [Words -> Vals]
      /\ hd'[s] = "Block" /\ (\A x \in Slots \ {s} : hd'[x] = hd[x])
      /\ mem'[<<s, 1>>] = a /\ mem'[<<s, 2>>] = b
      /\ \A x \in Slots \ {s}, i \in Fields : mem'[<<x, i>>] = mem[<<x, i>>]
      /\ \A g \in GenRoots : mem'[g] = mem[g]
      /\ HeapInv'
  BY <1>1, <1>2, <1>3, OldBlockFacts
<1>5. s \in Slots /\ <<s, 1>> \in OldWords /\ <<s, 2>> \in OldWords
  BY <1>4, SlotFacts, WordFacts
<1> HIDE DEF s
<1>6. ref_table \in TableType /\ ref_table.limit \in {ref_table.size, ref_table.size + TblReserve}
      /\ Len(ref_table.entries) <= ref_table.limit /\ (ref_table.size = 0 => ref_table.limit = 0)
      /\ (ref_table.limit # ref_table.size => caml_force_major_slice)
  BY <1>2 DEF MTypeOK, TableType, TablesInv, TableFits
<1>7. /\ t \in TableType /\ Entries(ref_table) \subseteq Entries(t) /\ Entries(t) \subseteq Entries(ref_table) \cup {<<s, 1>>}
      /\ Is_young(a) => <<s, 1>> \in Entries(t)
      /\ t.limit \in {t.size, t.size + TblReserve} /\ Len(t.entries) <= t.limit
      /\ t.size = 0 => t.limit = 0
      /\ t.limit # t.size => ref_table.limit # ref_table.size \/ (Is_young(a) /\ Urges(ref_table))
  <2>1. t = caml_initialize(ref_table, <<s, 1>>, a)
    OBVIOUS
  <2> DEFINE p == <<s, 1>>
  <2>2. p \in OldWords /\ a \in Vals /\ t = caml_initialize(ref_table, p, a)
    BY <1>2, <1>5, <2>1
  <2> HIDE DEF t, p
  <2>3. /\ t \in TableType /\ Entries(ref_table) \subseteq Entries(t) /\ Entries(t) \subseteq Entries(ref_table) \cup {p}
        /\ Is_young(a) => p \in Entries(t)
        /\ t.limit \in {t.size, t.size + TblReserve} /\ Len(t.entries) <= t.limit
        /\ t.size = 0 => t.limit = 0
        /\ t.limit # t.size => ref_table.limit # ref_table.size \/ (Is_young(a) /\ Urges(ref_table))
    BY <1>6, <2>2, InitializeFacts
  <2> QED BY <2>3 DEF p
<1> HIDE DEF t
<1>8. /\ u \in TableType /\ Entries(t) \subseteq Entries(u) /\ Entries(u) \subseteq Entries(t) \cup {<<s, 2>>}
      /\ Is_young(b) => <<s, 2>> \in Entries(u)
      /\ u.limit \in {u.size, u.size + TblReserve} /\ Len(u.entries) <= u.limit
      /\ u.size = 0 => u.limit = 0
      /\ u.limit # u.size => t.limit # t.size \/ (Is_young(b) /\ Urges(t))
  <2>1. u = caml_initialize(t, <<s, 2>>, b)
    OBVIOUS
  <2> DEFINE p == <<s, 2>>
  <2>2. p \in OldWords /\ b \in Vals /\ u = caml_initialize(t, p, b)
    BY <1>2, <1>5, <2>1
  <2> HIDE DEF u, p
  <2>3. /\ u \in TableType /\ Entries(t) \subseteq Entries(u) /\ Entries(u) \subseteq Entries(t) \cup {p}
        /\ Is_young(b) => p \in Entries(u)
        /\ u.limit \in {u.size, u.size + TblReserve} /\ Len(u.entries) <= u.limit
        /\ u.size = 0 => u.limit = 0
        /\ u.limit # u.size => t.limit # t.size \/ (Is_young(b) /\ Urges(t))
    BY <1>7, <2>2, InitializeFacts
  <2> QED BY <2>3 DEF p
<1> HIDE DEF u
<1>9. MTypeOK'
  <2>1. caml_force_major_slice' \in BOOLEAN
    BY <1>1
  <2> QED BY <1>1, <1>2, <1>4, <1>8, <2>1 DEF MTypeOK, TableType, genroots, collector
<1>10. TablesInv'
  <2>1. caml_force_major_slice => caml_force_major_slice'
    BY <1>1
  <2>2. TableFits(weak_ref_table)'
    BY <1>1, <1>2, <2>1 DEF TablesInv, TableFits
  <2>3. TableFits(ref_table)'
    BY <1>1, <1>6, <1>7, <1>8 DEF TableFits
  <2> QED BY <2>2, <2>3 DEF TablesInv
<1>11. \A x \in Old, i \in Fields : <<x, i>> \in Entries(ref_table') \cup Entries(weak_ref_table') => Allocated(x)'
  <2> SUFFICES ASSUME NEW x \in Old, NEW i \in Fields, <<x, i>> \in Entries(u) \cup Entries(weak_ref_table)
               PROVE  Allocated(x)'
    BY <1>1
  <2>1. CASE x = s
    BY <1>4, <2>1 DEF Allocated
  <2>2. CASE x # s
    <3>1. <<x, i>> \in Entries(ref_table) \cup Entries(weak_ref_table) /\ x \in Slots
      BY <1>7, <1>8, <2>2, SlotFacts
    <3> QED BY <1>2, <1>4, <2>2, <3>1 DEF Allocated
  <2> QED BY <2>1, <2>2
<1>12. \A g \in registered' : /\ Is_young(mem'[g]) => g \in roots_young'
                              /\ Is_in_heap(mem'[g]) => g \in roots_young' \cup roots_old'
  BY <1>1, <1>2, <1>4 DEF genroots, MTypeOK
<1>13. \A x \in Old, i \in Fields : Is_young(mem'[<<x, i>>]) => Known(x, i)'
  <2> SUFFICES ASSUME NEW x \in Old, NEW i \in Fields, Is_young(mem'[<<x, i>>])
               PROVE  Known(x, i)'
    OBVIOUS
  <2>1. CASE x = s
    <3>1. i = 1 \/ i = 2
      BY DEF Fields
    <3>2. <<s, i>> \in Entries(u)
      BY <1>4, <1>7, <1>8, <2>1, <3>1
    <3> QED BY <1>1, <1>3, <1>4, <2>1, <3>2 DEF Known
  <2>2. CASE x # s
    <3>1. x \in Slots \ {s} /\ Known(x, i)
      BY <1>2, <1>4, <2>2, SlotFacts
    <3> QED BY <1>1, <1>3, <1>4, <1>7, <1>8, <3>1 DEF Known
  <2> QED BY <2>1, <2>2
<1> QED BY <1>1, <1>4, <1>9, <1>10, <1>11, <1>12, <1>13, MutatorKeeps

\* Plain stores into a new block are allowed when what they store is not young.
LEMMA PlainBlockKeeps ==
  ASSUME MTypeOK, TablesInv, HeapInv, ControlInv, Cardinality(InUse) < NO,
         pc' = "mutator", caller' = <<"none">>, work' = <<>>, call' = <<>>, oldify_todo_list' = Null,
         NEW l \in LocalRoots, NEW t \in {"Block", "Weak"},
         NEW a \in Vals, NEW b \in Vals, Place(l, FreeOld, t, <<a, b>>), ~Is_young(a), ~Is_young(b),
         UNCHANGED <<young_ptr, tables, genroots>>,
         \A x \in Old, i \in Fields : Is_young(mem[<<x, i>>]) =>
           <<x, i>> \in Entries(IF hd[x] = "Weak" THEN weak_ref_table ELSE ref_table),
         \A x \in Old, i \in Fields : <<x, i>> \in Entries(ref_table) \cup Entries(weak_ref_table) => Allocated(x),
         \A g \in registered : /\ Is_young(mem[g]) => g \in roots_young
                               /\ Is_in_heap(mem[g]) => g \in roots_young \cup roots_old
  PROVE  MInv'
<1> DEFINE s == FreeOld
<1>1. /\ s \in Old /\ hd[s] = "free" /\ hd' \in [Slots -> Headers] /\ mem' \in [Words -> Vals]
      /\ hd'[s] = t /\ (\A x \in Slots \ {s} : hd'[x] = hd[x])
      /\ mem'[<<s, 1>>] = a /\ mem'[<<s, 2>>] = b
      /\ \A x \in Slots \ {s}, i \in Fields : mem'[<<x, i>>] = mem[<<x, i>>]
      /\ \A g \in GenRoots : mem'[g] = mem[g]
      /\ HeapInv'
  BY OldBlockFacts
<1> HIDE DEF s
<1>2. MTypeOK'
  BY <1>1 DEF MTypeOK, tables, genroots, Callers
<1>3. TablesInv'
  BY DEF TablesInv, TableFits, tables
<1>4. ControlInv'
  BY DEF ControlInv
<1>5. \A x \in Old, i \in Fields : <<x, i>> \in Entries(ref_table') \cup Entries(weak_ref_table') => Allocated(x)'
  <2> SUFFICES ASSUME NEW x \in Old, NEW i \in Fields, <<x, i>> \in Entries(ref_table) \cup Entries(weak_ref_table)
               PROVE  Allocated(x)'
    BY DEF tables
  <2>1. Allocated(x) /\ x \in Slots
    BY SlotFacts
  <2> QED BY <1>1, <2>1 DEF Allocated
<1>6. \A g \in registered' : /\ Is_young(mem'[g]) => g \in roots_young'
                             /\ Is_in_heap(mem'[g]) => g \in roots_young' \cup roots_old'
  BY <1>1 DEF genroots, MTypeOK
<1>7. \A x \in Old, i \in Fields : Is_young(mem'[<<x, i>>]) => Known(x, i)'
  <2> SUFFICES ASSUME NEW x \in Old, NEW i \in Fields, Is_young(mem'[<<x, i>>])
               PROVE  Known(x, i)'
    OBVIOUS
  <2>1. i = 1 \/ i = 2
    BY DEF Fields
  <2>2. x # s
    BY <1>1, <2>1
  <2>3. x \in Slots \ {s} /\ <<x, i>> \in Entries(IF hd[x] = "Weak" THEN weak_ref_table ELSE ref_table)
    BY <1>1, <2>2, SlotFacts
  <2> QED BY <1>1, <2>3 DEF Known, tables
<1>8. pc' \in Idle
  BY DEF Idle
<1> QED BY <1>1, <1>2, <1>3, <1>4, <1>5, <1>6, <1>7, <1>8, IdleKeeps

LEMMA PlainKeeps ==
  ASSUME MInv, NEW l \in LocalRoots,
         caml_weak_create(l) \/ \E k \in LocalRoots : caml_make_vect(l, k) /\ ~Is_young(mem[k])
  PROVE  MInv'
<1>1. PICK t \in {"Block", "Weak"}, a \in Vals :
        /\ pc = "mutator" /\ Cardinality(InUse) < NO /\ Place(l, FreeOld, t, <<a, a>>) /\ ~Is_young(a)
        /\ UNCHANGED <<young_ptr, tables, genroots, collector>>
  <2>1. CASE caml_weak_create(l)
    <3>1. Null \in Vals /\ ~Is_young(Null)
      BY SlotFacts DEF Vals, Is_young
    <3> QED BY <2>1, <3>1 DEF caml_weak_create, Mutator, Room, InUse
  <2>2. ASSUME NEW k \in LocalRoots, caml_make_vect(l, k), ~Is_young(mem[k])
        PROVE  \E t \in {"Block", "Weak"}, a \in Vals :
                 /\ pc = "mutator" /\ Cardinality(InUse) < NO /\ Place(l, FreeOld, t, <<a, a>>) /\ ~Is_young(a)
                 /\ UNCHANGED <<young_ptr, tables, genroots, collector>>
    <3>1. mem[k] \in Vals
      BY WordFacts DEF MInv, MTypeOK
    <3> QED BY <2>2, <3>1 DEF caml_make_vect, Mutator, Room, InUse
  <2> QED BY <2>1, <2>2
<1>2. /\ \A x \in Old, i \in Fields : Is_young(mem[<<x, i>>]) => Known(x, i)
      /\ \A x \in Old, i \in Fields : <<x, i>> \in Entries(ref_table) \cup Entries(weak_ref_table) => Allocated(x)
      /\ \A g \in registered : /\ Is_young(mem[g]) => g \in roots_young
                               /\ Is_in_heap(mem[g]) => g \in roots_young \cup roots_old
      /\ MTypeOK /\ TablesInv /\ HeapInv /\ ControlInv
  BY <1>1, MutatorFacts DEF MInv
<1>3. \A x \in Old, i \in Fields : Is_young(mem[<<x, i>>]) =>
        <<x, i>> \in Entries(IF hd[x] = "Weak" THEN weak_ref_table ELSE ref_table)
  BY <1>2 DEF Known
<1>4. pc' = "mutator" /\ caller' = <<"none">> /\ work' = <<>> /\ call' = <<>> /\ oldify_todo_list' = Null
  BY <1>1, <1>2 DEF collector, ControlInv
<1> QED BY <1>1, <1>2, <1>3, <1>4, PlainBlockKeeps

\* A store of v into a word of a block, with the barrier of Modify or of do_set.
LEMMA StoreKeeps ==
  ASSUME MInv, pc = "mutator", NEW s \in Slots, NEW i \in Fields, NEW v \in Vals,
         hd[s] \in {"Block", "Box", "Weak"}, hd[s] = "Weak" => s \in Old,
         mem' = [mem EXCEPT ![<<s, i>>] = v],
         UNCHANGED <<hd, young_ptr, genroots, collector>>,
         ref_table' \in TableType, weak_ref_table' \in TableType, TablesInv', caml_force_major_slice' \in BOOLEAN,
         Entries(ref_table) \subseteq Entries(ref_table'), Entries(weak_ref_table) \subseteq Entries(weak_ref_table'),
         Entries(ref_table') \cup Entries(weak_ref_table') \subseteq
           Entries(ref_table) \cup Entries(weak_ref_table) \cup {<<s, i>>},
         s \in Old /\ Is_young(v) => <<s, i>> \in Entries(IF hd[s] = "Weak" THEN weak_ref_table' ELSE ref_table')
  PROVE  MInv'
<1>1. /\ \A x \in Old, k \in Fields : Is_young(mem[<<x, k>>]) => Known(x, k)
      /\ \A x \in Old, k \in Fields : <<x, k>> \in Entries(ref_table) \cup Entries(weak_ref_table) => Allocated(x)
      /\ \A g \in registered : /\ Is_young(mem[g]) => g \in roots_young
                               /\ Is_in_heap(mem[g]) => g \in roots_young \cup roots_old
      /\ MTypeOK /\ HeapInv
  BY MutatorFacts
<1>2. <<s, i>> \in Words /\ \A g \in GenRoots : g \in Words /\ g # <<s, i>>
  BY WordFacts
<1>3. /\ mem' \in [Words -> Vals] /\ mem'[<<s, i>>] = v /\ \A w \in Words \ {<<s, i>>} : mem'[w] = mem[w]
  <2> HIDE DEF Words, Vals
  <2> QED BY <1>1, <1>2 DEF MTypeOK
<1>4. MTypeOK'
  BY <1>1, <1>3 DEF MTypeOK, TableType, genroots, collector
<1>5. HeapInv'
  <2>1. InUse' = InUse
    BY DEF InUse, Allocated
  <2>2. ASSUME NEW x \in Young, hd[x] \in {"fwd", "Double"}
        PROVE  mem'[<<x, 1>>] = mem[<<x, 1>>] /\ mem'[<<x, 2>>] = mem[<<x, 2>>]
    <3>1. x # s /\ <<x, 1>> \in Words /\ <<x, 2>> \in Words
      BY <2>2, SlotFacts, WordFacts
    <3> QED BY <1>3, <3>1
  <2> QED BY <1>1, <2>1, <2>2 DEF HeapInv, collector
<1>6. \A x \in Old, k \in Fields : <<x, k>> \in Entries(ref_table') \cup Entries(weak_ref_table') => Allocated(x)'
  <2> SUFFICES ASSUME NEW x \in Old, NEW k \in Fields, <<x, k>> \in Entries(ref_table') \cup Entries(weak_ref_table')
               PROVE  Allocated(x)
    BY DEF Allocated
  <2>1. <<x, k>> \in Entries(ref_table) \cup Entries(weak_ref_table) \/ x = s
    OBVIOUS
  <2> QED BY <1>1, <2>1 DEF Allocated
<1>7. \A g \in registered' : /\ Is_young(mem'[g]) => g \in roots_young'
                             /\ Is_in_heap(mem'[g]) => g \in roots_young' \cup roots_old'
  BY <1>1, <1>2, <1>3 DEF genroots, MTypeOK
<1>8. \A x \in Old, k \in Fields : Is_young(mem'[<<x, k>>]) => Known(x, k)'
  <2> SUFFICES ASSUME NEW x \in Old, NEW k \in Fields, Is_young(mem'[<<x, k>>])
               PROVE  Known(x, k)'
    OBVIOUS
  <2>1. CASE x = s /\ k = i
    BY <1>3, <2>1 DEF Known, collector
  <2>2. CASE ~(x = s /\ k = i)
    <3>1. <<x, k>> \in Words \ {<<s, i>>}
      BY <2>2, SlotFacts, WordFacts
    <3>2. Known(x, k)
      BY <1>1, <1>3, <3>1
    <3> QED BY <3>2 DEF Known, collector
  <2> QED BY <2>1, <2>2
<1> QED BY <1>4, <1>5, <1>6, <1>7, <1>8, MutatorKeeps

LEMMA ModifyKeeps ==
  ASSUME MInv, NEW s \in Held \ {Null}, NEW i \in Fields, NEW v \in Values, caml_modify(s, i, v)
  PROVE  MInv'
<1> DEFINE p == <<s, i>>
           enter == Is_in_heap(s) /\ NeedsEntry(mem[p], v)
<1>1. /\ pc = "mutator" /\ hd[s] \in {"Block", "Box"} /\ mem' = [mem EXCEPT ![p] = v]
      /\ ref_table' = IF enter THEN Add(ref_table, p) ELSE ref_table
      /\ caml_force_major_slice' = (caml_force_major_slice \/ (enter /\ Urges(ref_table)))
      /\ UNCHANGED <<hd, young_ptr, weak_ref_table, genroots, collector>>
  BY DEF caml_modify, Mutator
<1>2. /\ \A x \in Old, k \in Fields : Is_young(mem[<<x, k>>]) => Known(x, k)
      /\ MTypeOK /\ TablesInv /\ s \in Slots /\ v \in Vals
  BY <1>1, MutatorFacts DEF Vals
<1>3. ref_table \in TableType /\ weak_ref_table \in TableType /\ caml_force_major_slice' \in BOOLEAN
  BY <1>1, <1>2 DEF MTypeOK, TableType
<1>4. CASE enter
  <2>1. p \in OldWords
    BY <1>4 DEF OldWords, Is_in_heap
  <2> HIDE DEF p
  <2>2. ref_table' = Add(ref_table, p) /\ (caml_force_major_slice \/ Urges(ref_table) => caml_force_major_slice')
    BY <1>1, <1>4
  <2>3. /\ ref_table.limit \in {ref_table.size, ref_table.size + TblReserve} /\ Len(ref_table.entries) <= ref_table.limit
        /\ ref_table.size = 0 => ref_table.limit = 0
        /\ ref_table.limit # ref_table.size => caml_force_major_slice
    BY <1>2 DEF TablesInv, TableFits
  <2> DEFINE u == Add(ref_table, p)
  <2>4. /\ u \in TableType /\ Entries(u) = Entries(ref_table) \cup {p}
        /\ u.limit \in {u.size, u.size + TblReserve} /\ Len(u.entries) <= u.limit /\ (u.size = 0 => u.limit = 0)
        /\ u.limit # u.size => ref_table.limit # ref_table.size \/ Urges(ref_table)
    BY <1>3, <2>1, <2>3, AddFits
  <2> HIDE DEF u
  <2>5. ref_table' = u
    BY <2>2 DEF u
  <2>6. TablesInv'
    <3>1. TableFits(weak_ref_table)'
      BY <1>1, <1>2, <2>2 DEF TablesInv, TableFits
    <3>2. TableFits(ref_table)'
      BY <2>2, <2>3, <2>4, <2>5 DEF TableFits
    <3> QED BY <3>1, <3>2 DEF TablesInv
  <2>7. /\ Entries(ref_table) \subseteq Entries(ref_table') /\ weak_ref_table' = weak_ref_table
        /\ Entries(ref_table') \cup Entries(weak_ref_table') \subseteq
             Entries(ref_table) \cup Entries(weak_ref_table) \cup {p}
        /\ p \in Entries(ref_table') /\ ref_table' \in TableType
    BY <1>1, <2>4, <2>5
  <2> QED BY <1>1, <1>2, <1>3, <2>6, <2>7, StoreKeeps DEF p
<1>5. CASE ~enter
  <2>1. /\ ref_table' = ref_table /\ weak_ref_table' = weak_ref_table
        /\ caml_force_major_slice' <=> caml_force_major_slice
    BY <1>1, <1>5
  <2>2. TablesInv'
    BY <1>2, <2>1 DEF TablesInv, TableFits
  <2>3. s \in Old /\ Is_young(v) => p \in Entries(ref_table')
    <3>1. s \in Old /\ Is_young(v) => Is_young(mem[p])
      BY <1>5 DEF NeedsEntry, Is_in_heap
    <3> QED BY <1>1, <1>2, <2>1, <3>1 DEF Known
  <2>4. /\ Entries(ref_table) \subseteq Entries(ref_table') /\ Entries(weak_ref_table) \subseteq Entries(weak_ref_table')
        /\ Entries(ref_table') \cup Entries(weak_ref_table') \subseteq
             Entries(ref_table) \cup Entries(weak_ref_table) \cup {<<s, i>>}
    BY <2>1
  <2> HIDE DEF enter
  <2> QED BY <1>1, <1>2, <1>3, <2>1, <2>2, <2>3, <2>4, StoreKeeps
<1> QED BY <1>4, <1>5

LEMMA WeakSetKeeps ==
  ASSUME MInv, NEW s \in Held \ {Null}, NEW v \in Values, caml_weak_set(s, v)
  PROVE  MInv'
<1> DEFINE p == <<s, 1>>
           enter == NeedsEntry(mem[p], v)
<1>1. /\ pc = "mutator" /\ hd[s] = "Weak" /\ mem' = [mem EXCEPT ![p] = v]
      /\ weak_ref_table' = IF enter THEN Add(weak_ref_table, p) ELSE weak_ref_table
      /\ caml_force_major_slice' = (caml_force_major_slice \/ (enter /\ Urges(weak_ref_table)))
      /\ UNCHANGED <<hd, young_ptr, ref_table, genroots, collector>>
  BY DEF caml_weak_set, Mutator
<1>2. /\ \A x \in Old, k \in Fields : Is_young(mem[<<x, k>>]) => Known(x, k)
      /\ MTypeOK /\ TablesInv /\ HeapInv /\ s \in Slots /\ v \in Vals
  BY <1>1, MutatorFacts DEF Vals
<1>3. ref_table \in TableType /\ weak_ref_table \in TableType /\ caml_force_major_slice' \in BOOLEAN
  BY <1>1, <1>2 DEF MTypeOK, TableType
<1>4. s \in Old /\ 1 \in Fields /\ p \in OldWords
  BY <1>1, <1>2, SlotFacts, WordFacts DEF HeapInv
<1>5. CASE enter
  <2> HIDE DEF p
  <2>2. /\ weak_ref_table' = Add(weak_ref_table, p)
        /\ caml_force_major_slice \/ Urges(weak_ref_table) => caml_force_major_slice'
    BY <1>1, <1>5
  <2>3. /\ weak_ref_table.limit \in {weak_ref_table.size, weak_ref_table.size + TblReserve}
        /\ Len(weak_ref_table.entries) <= weak_ref_table.limit
        /\ weak_ref_table.size = 0 => weak_ref_table.limit = 0
        /\ weak_ref_table.limit # weak_ref_table.size => caml_force_major_slice
    BY <1>2 DEF TablesInv, TableFits
  <2> DEFINE u == Add(weak_ref_table, p)
  <2>4. /\ u \in TableType /\ Entries(u) = Entries(weak_ref_table) \cup {p}
        /\ u.limit \in {u.size, u.size + TblReserve} /\ Len(u.entries) <= u.limit /\ (u.size = 0 => u.limit = 0)
        /\ u.limit # u.size => weak_ref_table.limit # weak_ref_table.size \/ Urges(weak_ref_table)
    BY <1>3, <1>4, <2>3, AddFits
  <2> HIDE DEF u
  <2>5. weak_ref_table' = u
    BY <2>2 DEF u
  <2>6. TablesInv'
    <3>1. TableFits(ref_table)'
      BY <1>1, <1>2, <2>2 DEF TablesInv, TableFits
    <3>2. TableFits(weak_ref_table)'
      BY <2>2, <2>3, <2>4, <2>5 DEF TableFits
    <3> QED BY <3>1, <3>2 DEF TablesInv
  <2>7. /\ Entries(weak_ref_table) \subseteq Entries(weak_ref_table') /\ ref_table' = ref_table
        /\ Entries(ref_table') \cup Entries(weak_ref_table') \subseteq
             Entries(ref_table) \cup Entries(weak_ref_table) \cup {p}
        /\ p \in Entries(weak_ref_table') /\ weak_ref_table' \in TableType
    BY <1>1, <2>4, <2>5
  <2> QED BY <1>1, <1>2, <1>3, <1>4, <2>6, <2>7, StoreKeeps DEF p
<1>6. CASE ~enter
  <2>1. /\ ref_table' = ref_table /\ weak_ref_table' = weak_ref_table
        /\ caml_force_major_slice' <=> caml_force_major_slice
    BY <1>1, <1>6
  <2>2. TablesInv'
    BY <1>2, <2>1 DEF TablesInv, TableFits
  <2>3. Is_young(v) => p \in Entries(weak_ref_table')
    <3>1. Is_young(v) => Is_young(mem[p])
      BY <1>6 DEF NeedsEntry
    <3> QED BY <1>1, <1>2, <1>4, <2>1, <3>1 DEF Known
  <2>4. /\ Entries(ref_table) \subseteq Entries(ref_table') /\ Entries(weak_ref_table) \subseteq Entries(weak_ref_table')
        /\ Entries(ref_table') \cup Entries(weak_ref_table') \subseteq
             Entries(ref_table) \cup Entries(weak_ref_table) \cup {<<s, 1>>}
    BY <2>1
  <2> HIDE DEF enter
  <2> QED BY <1>1, <1>2, <1>3, <1>4, <2>1, <2>2, <2>3, <2>4, StoreKeeps
<1> QED BY <1>5, <1>6

\* A step of the program that changes a root at most, and the lists of global roots.
LEMMA RootKeeps ==
  ASSUME MInv, pc = "mutator", NEW w \in LocalRoots \cup GenRoots, NEW v \in Vals, mem' = [mem EXCEPT ![w] = v],
         UNCHANGED <<hd, young_ptr, tables, collector>>,
         registered' \subseteq GenRoots, roots_young' \subseteq GenRoots, roots_old' \subseteq GenRoots,
         \A g \in registered' : /\ Is_young(mem'[g]) => g \in roots_young'
                                /\ Is_in_heap(mem'[g]) => g \in roots_young' \cup roots_old'
  PROVE  MInv'
<1>1. /\ \A x \in Old, k \in Fields : Is_young(mem[<<x, k>>]) => Known(x, k)
      /\ \A x \in Old, k \in Fields : <<x, k>> \in Entries(ref_table) \cup Entries(weak_ref_table) => Allocated(x)
      /\ MTypeOK /\ TablesInv /\ HeapInv
  BY MutatorFacts
<1>2. w \in Words /\ \A x \in Slots, i \in Fields : <<x, i>> \in Words \ {w}
  BY WordFacts
<1>3. mem' \in [Words -> Vals] /\ \A u \in Words \ {w} : mem'[u] = mem[u]
  <2> HIDE DEF Words, Vals
  <2> QED BY <1>1, <1>2 DEF MTypeOK
<1>4. \A x \in Slots, i \in Fields : mem'[<<x, i>>] = mem[<<x, i>>]
  BY <1>2, <1>3
<1>5. MTypeOK'
  BY <1>1, <1>3 DEF MTypeOK, tables, collector
<1>6. TablesInv'
  BY <1>1 DEF TablesInv, TableFits, tables
<1>7. HeapInv'
  <2>1. InUse' = InUse
    BY DEF InUse, Allocated
  <2> QED BY <1>1, <1>4, <2>1, SlotFacts, WordFacts DEF HeapInv, collector
<1>8. \A x \in Old, k \in Fields : <<x, k>> \in Entries(ref_table') \cup Entries(weak_ref_table') => Allocated(x)'
  BY <1>1 DEF Allocated, tables
<1>9. \A x \in Old, k \in Fields : Is_young(mem'[<<x, k>>]) => Known(x, k)'
  BY <1>1, <1>4, SlotFacts DEF Known, tables, collector
<1> QED BY <1>5, <1>6, <1>7, <1>8, <1>9, MutatorKeeps

LEMMA LoadKeeps ==
  ASSUME MInv, NEW l \in LocalRoots,
         Drop(l) \/ \E s \in Held \ {Null}, i \in Fields : Load(l, s, i)
  PROVE  MInv'
<1>1. pc = "mutator" /\ UNCHANGED <<hd, young_ptr, tables, genroots, collector>>
  BY DEF Drop, Load, Mutator
<1>2. MTypeOK /\ Held \subseteq Vals /\ RootsInv
  BY <1>1, MutatorFacts DEF MInv
<1>3. PICK v \in Vals : mem' = [mem EXCEPT ![l] = v]
  <2>1. CASE Drop(l)
    BY <2>1 DEF Drop, Vals
  <2>2. ASSUME NEW s \in Held \ {Null}, NEW i \in Fields, Load(l, s, i)
        PROVE  \E v \in Vals : mem' = [mem EXCEPT ![l] = v]
    <3>1. s \in Slots
      BY <1>2 DEF Vals
    <3>2. mem[<<s, i>>] \in Vals
      BY <1>2, <3>1, WordFacts DEF MTypeOK
    <3> QED BY <2>2, <3>2 DEF Load
  <2> QED BY <2>1, <2>2
<1>4. \A g \in registered : mem'[g] = mem[g]
  BY <1>2, <1>3, WordFacts DEF MTypeOK
<1>5. /\ registered' \subseteq GenRoots /\ roots_young' \subseteq GenRoots /\ roots_old' \subseteq GenRoots
      /\ \A g \in registered' : /\ Is_young(mem'[g]) => g \in roots_young'
                                /\ Is_in_heap(mem'[g]) => g \in roots_young' \cup roots_old'
  BY <1>1, <1>2, <1>4 DEF RootsInv, MTypeOK, genroots
<1> QED BY <1>1, <1>3, <1>5, RootKeeps

LEMMA GlobalRootKeeps ==
  ASSUME MInv, NEW g \in GenRoots,
         \/ caml_remove_generational_global_root(g)
         \/ \E v \in Values : \/ caml_register_generational_global_root(g, v)
                              \/ caml_modify_generational_global_root(g, v)
  PROVE  MInv'
<1>1. pc = "mutator" /\ UNCHANGED <<hd, young_ptr, tables, collector>>
  BY DEF caml_remove_generational_global_root, caml_register_generational_global_root,
         caml_modify_generational_global_root, Mutator, heap
<1>2. /\ MTypeOK /\ Values \subseteq Vals
      /\ \A r \in registered : /\ Is_young(mem[r]) => r \in roots_young
                               /\ Is_in_heap(mem[r]) => r \in roots_young \cup roots_old
  BY <1>1, MutatorFacts
<1>3. /\ registered \subseteq GenRoots /\ roots_young \subseteq GenRoots /\ roots_old \subseteq GenRoots
      /\ mem \in [Words -> Vals] /\ g \in Words
  BY <1>2, WordFacts DEF MTypeOK
<1>4. CASE caml_remove_generational_global_root(g)
  <2>1. /\ mem' = [mem EXCEPT ![g] = mem[g]] /\ mem[g] \in Vals /\ mem' = mem /\ registered' = registered \ {g}
        /\ roots_young \ {g} \subseteq roots_young' /\ roots_young' \subseteq roots_young
        /\ roots_old \ {g} \subseteq roots_old' /\ roots_old' \subseteq roots_old
    BY <1>3, <1>4 DEF caml_remove_generational_global_root, heap
  <2>2. \A r \in registered' : /\ Is_young(mem'[r]) => r \in roots_young'
                               /\ Is_in_heap(mem'[r]) => r \in roots_young' \cup roots_old'
    BY <1>2, <2>1
  <2>3. registered' \subseteq GenRoots /\ roots_young' \subseteq GenRoots /\ roots_old' \subseteq GenRoots
    BY <1>3, <2>1
  <2> QED BY <1>1, <2>1, <2>2, <2>3, RootKeeps
<1>5. ASSUME NEW v \in Values, caml_register_generational_global_root(g, v) PROVE MInv'
  <2>1. /\ mem' = [mem EXCEPT ![g] = v] /\ v \in Vals /\ registered' = registered \cup {g}
        /\ roots_young \subseteq roots_young' /\ roots_young' \subseteq roots_young \cup {g}
        /\ roots_old \subseteq roots_old' /\ roots_old' \subseteq roots_old \cup {g}
        /\ (Is_young(v) => g \in roots_young') /\ (Is_in_heap(v) => g \in roots_old')
    BY <1>2, <1>5 DEF caml_register_generational_global_root
  <2>2. mem'[g] = v /\ \A r \in registered \ {g} : mem'[r] = mem[r]
    BY <1>3, <2>1, WordFacts
  <2>3. \A r \in registered' : /\ Is_young(mem'[r]) => r \in roots_young'
                               /\ Is_in_heap(mem'[r]) => r \in roots_young' \cup roots_old'
    BY <1>2, <2>1, <2>2
  <2>4. registered' \subseteq GenRoots /\ roots_young' \subseteq GenRoots /\ roots_old' \subseteq GenRoots
    BY <1>3, <2>1
  <2> QED BY <1>1, <2>1, <2>3, <2>4, RootKeeps
<1>6. ASSUME NEW v \in Values, caml_modify_generational_global_root(g, v) PROVE MInv'
  <2> DEFINE old == mem[g]
             toYoung == Is_young(v) /\ Is_in_heap(old)
             boxed == Is_block(v) /\ ~Is_block(old)
             unboxed == ~Is_block(v) /\ Is_block(old)
  <2>1. /\ mem' = [mem EXCEPT ![g] = v] /\ v \in Vals /\ old \in Vals /\ registered' = registered /\ g \in registered
        /\ roots_young' = (CASE toYoung \/ (boxed /\ Is_young(v)) -> roots_young \cup {g}
                             [] unboxed /\ Is_young(old) -> roots_young \ {g}
                             [] OTHER -> roots_young)
        /\ roots_old' = (CASE boxed /\ Is_in_heap(v) -> roots_old \cup {g}
                           [] toYoung \/ (unboxed /\ Is_in_heap(old)) -> roots_old \ {g}
                           [] OTHER -> roots_old)
    BY <1>2, <1>3, <1>6 DEF caml_modify_generational_global_root
  <2>2. mem'[g] = v /\ \A r \in registered \ {g} : mem'[r] = mem[r]
    BY <1>3, <2>1, WordFacts
  <2>3. /\ roots_young \ {g} \subseteq roots_young' /\ roots_young' \subseteq roots_young \cup {g}
        /\ roots_old \ {g} \subseteq roots_old' /\ roots_old' \subseteq roots_old \cup {g}
    BY <2>1
  <2>4. /\ v \in Young \/ v \in Old \/ v = Null
        /\ old \in Young \/ old \in Old \/ old = Null
        /\ Young \cap Old = {} /\ Null \notin Young /\ Null \notin Old
    BY <2>1, SlotFacts DEF Vals
  <2>5. /\ old \in Young => g \in roots_young
        /\ old \in Old => g \in roots_young \cup roots_old
    BY <1>2, <2>1 DEF Is_young, Is_in_heap
  <2>6. v \in Young => g \in roots_young'
    <3>1. CASE old \in Young
      BY <2>1, <2>4, <2>5, <3>1 DEF Is_young, Is_in_heap, Is_block
    <3>2. CASE old \in Old \/ old = Null
      BY <2>1, <2>4, <3>2 DEF Is_young, Is_in_heap, Is_block
    <3> QED BY <2>4, <3>1, <3>2
  <2>7. v \in Old => g \in roots_young' \cup roots_old'
    <3>1. CASE old = Null
      BY <2>1, <2>4, <3>1 DEF Is_young, Is_in_heap, Is_block
    <3>2. CASE old # Null
      <4>1. v \in Old => roots_young' = roots_young /\ roots_old' = roots_old
        BY <2>1, <2>4, <3>2 DEF Is_young, Is_in_heap, Is_block
      <4> QED BY <2>4, <2>5, <3>2, <4>1
    <3> QED BY <3>1, <3>2
  <2>8. \A r \in registered' : /\ Is_young(mem'[r]) => r \in roots_young'
                               /\ Is_in_heap(mem'[r]) => r \in roots_young' \cup roots_old'
    BY <1>2, <2>1, <2>2, <2>3, <2>6, <2>7 DEF Is_young, Is_in_heap
  <2>9. registered' \subseteq GenRoots /\ roots_young' \subseteq GenRoots /\ roots_old' \subseteq GenRoots
    BY <1>3, <2>1, <2>3
  <2> QED BY <1>1, <2>1, <2>8, <2>9, RootKeeps
<1> QED BY <1>4, <1>5, <1>6

-----------------------------------------------------------------------------
(* The loops of a collection.                                               *)

WorkItems == [from : Words, to : Words]

LEMMA InPlaceFacts ==
  ASSUME NEW W \in SUBSET Words, NEW ps \in Seq(W)
  PROVE  /\ InPlace(ps) \in Seq(WorkItems) /\ Len(InPlace(ps)) = Len(ps)
         /\ {InPlace(ps)[i].to : i \in 1 .. Len(InPlace(ps))} = {ps[i] : i \in 1 .. Len(ps)}
<1> DEFINE n == Len(ps)
           f == InPlace(ps)
<1>1. n \in Nat /\ \A i \in 1 .. n : ps[i] \in W /\ ps[i] \in Words
  BY ElementOfSeq
<1>2. f = [i \in 1 .. n |-> [from |-> ps[i], to |-> ps[i]]]
  BY DEF InPlace
<1> HIDE DEF f, n
<1>3. \A i \in 1 .. n : f[i] \in WorkItems /\ f[i].to = ps[i]
  BY <1>1, <1>2 DEF WorkItems
<1>4. f \in [1 .. n -> WorkItems]
  BY <1>2, <1>3
<1>5. f \in Seq(WorkItems) /\ Len(f) = n
  BY <1>1, <1>4
<1>6. {f[i].to : i \in 1 .. n} = {ps[i] : i \in 1 .. n}
  BY <1>3
<1> QED BY <1>5, <1>6 DEF f, n

\* What keeps the to-do list as it is.
LEMMA LinkedFrame ==
  ASSUME NEW q \in Seq(Young), Linked(q), oldify_todo_list' = oldify_todo_list,
         \A i \in 1 .. Len(q) :
           /\ hd'[q[i]] = "fwd" /\ mem'[<<q[i], 1>>] = Copy(q[i]) /\ hd'[Copy(q[i])] \notin {"free", "fwd"}
           /\ mem'[<<Copy(q[i]), 2>>] = mem[<<Copy(q[i]), 2>>]
           /\ \A j \in Fields : <<Copy(q[i]), j>> \notin Pending' \cup Entries(ref_table)'
  PROVE  Linked(q)'
<1>1. \A i \in 1 .. Len(q) :
        /\ hd'[q[i]] = "fwd" /\ hd'[mem'[<<q[i], 1>>]] \notin {"free", "fwd"}
        /\ mem'[<<mem'[<<q[i], 1>>], 2>>] = IF i = Len(q) THEN Null ELSE q[i + 1]
        /\ \A j \in Fields : <<mem'[<<q[i], 1>>], j>> \notin Pending' \cup Entries(ref_table)'
  BY DEF Linked
<1>2. \A i, k \in 1 .. Len(q) : mem'[<<q[i], 1>>] = mem'[<<q[k], 1>>] => i = k
  <2> SUFFICES ASSUME NEW i \in 1 .. Len(q), NEW k \in 1 .. Len(q), mem'[<<q[i], 1>>] = mem'[<<q[k], 1>>]
               PROVE  i = k
    OBVIOUS
  <2>1. Copy(q[i]) = Copy(q[k])
    OBVIOUS
  <2> QED BY <2>1 DEF Linked
<1>3. oldify_todo_list' = IF Len(q) = 0 THEN Null ELSE q[1]
  BY DEF Linked
<1> QED BY <1>1, <1>2, <1>3 DEF Linked, Copy, Allocated

\* The loop moves on, or a Forward block is followed: nothing else changes.
LEMMA SamePending ==
  ASSUME MInv, Collecting, UNCHANGED <<hd, mem, young_ptr, tables, genroots, pc, oldify_todo_list, caller>>,
         Pending' = Pending, work' \in Seq(WorkItems), call' \in {<<>>} \cup (Vals \X Words)
  PROVE  MInv'
<1>1. MTypeOK /\ TablesInv /\ HeapInv /\ WordsInv /\ RootsInv
  BY DEF MInv
<1>2. MTypeOK'
  BY <1>1 DEF MTypeOK, WorkItems, tables, genroots
<1>3. TablesInv' /\ HeapInv'
  BY <1>1 DEF TablesInv, TableFits, tables, HeapInv, InUse, Allocated
<1>4. ControlInv'
  BY DEF ControlInv, Collecting
<1>5. WordsInv' /\ RootsInv'
  BY <1>1 DEF WordsInv, RootsInv, Entries, Allocated, tables, genroots
<1>6. TodoInv(Seq(Young))'
  <2>1. PICK q \in Seq(Young) : Linked(q) /\ Covered(q)
    BY DEF MInv, TodoInv
  <2>2. Linked(q)'
    <3>1. Entries(ref_table)' = Entries(ref_table) /\ mem' = mem /\ hd' = hd
      BY DEF tables
    <3>2. \A i \in 1 .. Len(q) :
            /\ hd'[q[i]] = "fwd" /\ mem'[<<q[i], 1>>] = Copy(q[i]) /\ hd'[Copy(q[i])] \notin {"free", "fwd"}
            /\ mem'[<<Copy(q[i]), 2>>] = mem[<<Copy(q[i]), 2>>]
            /\ \A j \in Fields : <<Copy(q[i]), j>> \notin Pending' \cup Entries(ref_table)'
      BY <2>1, <3>1 DEF Linked, Copy, Allocated
    <3> QED BY <2>1, <3>2, LinkedFrame
  <2>3. Covered(q)'
    BY <2>1 DEF Covered, Copy, Known, Entries, tables
  <2> QED BY <2>1, <2>2, <2>3 DEF TodoInv
<1> QED BY <1>2, <1>3, <1>4, <1>5, <1>6 DEF MInv

LEMMA NextWordKeeps ==
  ASSUME MInv, NextWord
  PROVE  MInv'
<1>1. /\ Collecting /\ call = <<>> /\ work # <<>> /\ work' = Tail(work)
      /\ call' = <<mem[Head(work).from], Head(work).to>>
      /\ UNCHANGED <<hd, mem, young_ptr, tables, genroots, pc, oldify_todo_list, caller>>
  BY DEF NextWord, heap
<1>2. work \in Seq(WorkItems) /\ mem \in [Words -> Vals]
  BY DEF MInv, MTypeOK, WorkItems
<1>3. /\ Len(work) \in Nat /\ Len(work) # 0 /\ Head(work) = work[1] /\ Head(work) \in WorkItems
      /\ Tail(work) \in Seq(WorkItems) /\ Len(Tail(work)) = Len(work) - 1
      /\ \A i \in 1 .. Len(Tail(work)) : Tail(work)[i] = work[i + 1]
  BY <1>1, <1>2, HeadTailProperties, EmptySeq
<1>4. Head(work).from \in Words /\ Head(work).to \in Words
  BY <1>3 DEF WorkItems
<1>5. call' \in Vals \X Words /\ call' # <<>> /\ call'[2] = Head(work).to
  BY <1>1, <1>2, <1>4
<1>6. Pending' = Pending
  <2> DEFINE n == Len(work)
             R == {Tail(work)[i].to : i \in 1 .. (n - 1)}
  <2>1. Pending = {work[i].to : i \in 1 .. n}
    BY <1>1 DEF Pending
  <2>2. Pending' = R \cup {work[1].to}
    <3>1. Pending' = {work'[i].to : i \in 1 .. Len(work')} \cup (IF call' = <<>> THEN {} ELSE {call'[2]})
      BY DEF Pending
    <3>2. Pending' = {work'[i].to : i \in 1 .. Len(work')} \cup {call'[2]}
      BY <1>5, <3>1
    <3>3. Len(work') = n - 1
      BY <1>1, <1>3
    <3> QED BY <1>1, <1>3, <1>5, <3>2, <3>3
  <2>3. ASSUME NEW x \in Pending PROVE x \in Pending'
    <3>1. PICK i \in 1 .. n : x = work[i].to
      BY <2>1
    <3>2. CASE i = 1
      BY <2>2, <3>1, <3>2
    <3>3. CASE i # 1
      <4>1. i - 1 \in 1 .. (n - 1) /\ (i - 1) + 1 = i
        BY <1>3, <3>3
      <4>2. Tail(work)[i - 1] = work[i]
        BY <1>3, <4>1
      <4> QED BY <2>2, <3>1, <4>1, <4>2
    <3> QED BY <3>2, <3>3
  <2>4. ASSUME NEW x \in Pending' PROVE x \in Pending
    <3>1. CASE x = work[1].to
      BY <1>3, <2>1, <3>1
    <3>2. CASE x \in R
      <4>1. PICK i \in 1 .. (n - 1) : x = Tail(work)[i].to
        BY <3>2
      <4>2. i + 1 \in 1 .. n /\ Tail(work)[i] = work[i + 1]
        BY <1>3, <4>1
      <4> QED BY <2>1, <4>1, <4>2
    <3> QED BY <2>2, <3>1, <3>2
  <2> QED BY <2>3, <2>4
<1>7. work' \in Seq(WorkItems) /\ call' \in {<<>>} \cup (Vals \X Words)
  BY <1>1, <1>3, <1>5
<1> QED BY <1>1, <1>6, <1>7, SamePending

\* The arguments of the running caml_oldify_one.
LEMMA CallFacts ==
  ASSUME MInv, Collecting, call # <<>>
  PROVE  /\ call = <<call[1], call[2]>> /\ call[1] \in Vals /\ call[2] \in Words /\ call[2] \in Pending
         /\ call[2] \in LocalRoots \cup GenRoots \cup OldWords
         /\ \A s \in Young, i \in Fields : call[2] # <<s, i>>
         /\ \A s \in Old, i \in Fields : call[2] = <<s, i>> => Allocated(s)
<1>1. MTypeOK /\ WordsInv
  BY DEF MInv
<1>2. call \in Vals \X Words
  BY <1>1 DEF MTypeOK
<1>3. call = <<call[1], call[2]>> /\ call[1] \in Vals /\ call[2] \in Words /\ call[2] \in Pending
  BY <1>2 DEF Pending
<1>4. call[2] \in LocalRoots \cup GenRoots \cup OldWords
  BY <1>1, <1>3 DEF WordsInv, MTypeOK
<1>5. \A s \in Young, i \in Fields : call[2] # <<s, i>>
  BY <1>4, SlotFacts, WordFacts
<1>6. \A s \in Old, i \in Fields : call[2] = <<s, i>> => Allocated(s)
  BY <1>1, <1>3 DEF WordsInv
<1> QED BY <1>3, <1>4, <1>5, <1>6

LEMMA ForwardKeeps ==
  ASSUME MInv, OldifyForward
  PROVE  MInv'
<1> DEFINE v == call[1]
           c == call[2]
<1>1. /\ Collecting /\ call # <<>> /\ v \in Young /\ call' = <<mem[<<v, 1>>], c>>
      /\ UNCHANGED <<hd, mem, young_ptr, tables, genroots, pc, work, oldify_todo_list, caller>>
  BY DEF OldifyForward, heap, Is_young
<1>2. c \in Words
  BY <1>1, CallFacts
<1>3. mem[<<v, 1>>] \in Vals
  BY <1>1, SlotFacts, WordFacts DEF MInv, MTypeOK
<1> HIDE DEF v, c
<1>4. call' \in Vals \X Words /\ call' # <<>> /\ call'[2] = c
  BY <1>1, <1>2, <1>3
<1>5. Pending' = Pending
  BY <1>1, <1>4 DEF Pending, c
<1>6. work' \in Seq(WorkItems)
  BY <1>1 DEF MInv, MTypeOK, WorkItems
<1> QED BY <1>1, <1>4, <1>5, <1>6, SamePending

\* caml_oldify_one returns: the word holds a value that is not young.
LEMMA DoneKeeps ==
  ASSUME MInv, OldifyDone
  PROVE  MInv'
<1> DEFINE v == call[1]
           c == call[2]
           x == IF Is_young(v) THEN mem[<<v, 1>>] ELSE v
<1>1. /\ Collecting /\ call # <<>> /\ (Is_young(v) => hd[v] = "fwd") /\ mem' = [mem EXCEPT ![c] = x] /\ call' = <<>>
      /\ UNCHANGED <<hd, young_ptr, tables, genroots, pc, work, oldify_todo_list, caller>>
  BY DEF OldifyDone, Return
<1>2. MTypeOK /\ TablesInv /\ HeapInv /\ WordsInv /\ RootsInv
  BY DEF MInv
<1>3. /\ v \in Vals /\ c \in Words /\ c \in Pending /\ c \in LocalRoots \cup GenRoots \cup OldWords
      /\ \A s \in Young, i \in Fields : c # <<s, i>>
      /\ \A s \in Old, i \in Fields : c = <<s, i>> => Allocated(s)
  BY <1>1, CallFacts
<1>4. x \in Vals /\ ~Is_young(x)
  BY <1>1, <1>2, <1>3, SlotFacts DEF HeapInv, Is_young, Vals
<1> HIDE DEF x, v
<1>5. mem' \in [Words -> Vals] /\ mem'[c] = x /\ \A w \in Words \ {c} : mem'[w] = mem[w]
  <2>1. mem \in [Words -> Vals] /\ c \in Words /\ x \in Vals
    BY <1>2, <1>3, <1>4 DEF MTypeOK
  <2> HIDE DEF Words, Vals, c
  <2> QED BY <1>1, <2>1
<1>6. /\ Pending' = {work[i].to : i \in 1 .. Len(work)} /\ Pending' \subseteq Pending /\ Pending \subseteq Pending' \cup {c}
  BY <1>1 DEF Pending
<1> HIDE DEF c
<1>7. MTypeOK'
  BY <1>1, <1>2, <1>5 DEF MTypeOK, tables, genroots
<1>8. TablesInv'
  BY <1>1, <1>2 DEF TablesInv, TableFits, tables
<1>9. \A s \in Young, i \in Fields : mem'[<<s, i>>] = mem[<<s, i>>]
  BY <1>3, <1>5, SlotFacts, WordFacts
<1>10. HeapInv'
  <2>1. InUse' = InUse
    BY <1>1 DEF InUse, Allocated
  <2> QED BY <1>1, <1>2, <1>9, <2>1, WordFacts DEF HeapInv
<1>11. ControlInv'
  BY <1>1 DEF ControlInv, Collecting
<1>12. Entries(ref_table)' = Entries(ref_table) /\ Entries(weak_ref_table)' = Entries(weak_ref_table)
  BY <1>1 DEF tables
<1>13. WordsInv'
  BY <1>1, <1>2, <1>6, <1>12 DEF WordsInv, Allocated, genroots
<1>14. RootsInv'
  <2>1. ASSUME NEW w \in LocalRoots, Is_young(mem'[w]) PROVE w \in Pending'
    <3>1. w # c /\ w \in Words
      BY <1>4, <1>5, <2>1, WordFacts
    <3>2. w \in Pending
      BY <1>1, <1>2, <1>5, <2>1, <3>1 DEF RootsInv, Collecting
    <3> QED BY <1>6, <3>1, <3>2
  <2>2. ASSUME NEW g \in registered
        PROVE  /\ Is_young(mem'[g]) => g \in roots_young /\ g \in Pending'
               /\ Is_in_heap(mem'[g]) => g \in roots_young \cup roots_old
    <3>1. g \in GenRoots /\ g \in Words
      BY <1>2, WordFacts DEF MTypeOK
    <3>2. CASE g = c
      <4>1. g \notin LocalRoots /\ g \notin OldWords
        BY <3>1, WordFacts, RootWords
      <4>2. g \in roots_young
        BY <1>2, <1>3, <3>2, <4>1 DEF WordsInv
      <4> QED BY <1>4, <1>5, <3>2, <4>2
    <3>3. CASE g # c
      <4>1. mem'[g] = mem[g]
        BY <1>5, <3>1, <3>3
      <4> QED BY <1>1, <1>2, <1>6, <3>3, <4>1 DEF RootsInv, Collecting
    <3> QED BY <3>2, <3>3
  <2> QED BY <1>1, <2>1, <2>2 DEF RootsInv, genroots
<1>15. TodoInv(Seq(Young))'
  <2>1. PICK q \in Seq(Young) : Linked(q) /\ Covered(q)
    BY DEF MInv, TodoInv
  <2>2. \A i \in 1 .. Len(q) : q[i] \in Young /\ Copy(q[i]) \in Old
    BY <1>2, <2>1, ElementOfSeq DEF Linked, HeapInv, Copy
  <2>3. \A i \in 1 .. Len(q) :
          /\ hd'[q[i]] = "fwd" /\ mem'[<<q[i], 1>>] = Copy(q[i]) /\ hd'[Copy(q[i])] \notin {"free", "fwd"}
          /\ mem'[<<Copy(q[i]), 2>>] = mem[<<Copy(q[i]), 2>>]
          /\ \A j \in Fields : <<Copy(q[i]), j>> \notin Pending' \cup Entries(ref_table)'
    <3> SUFFICES ASSUME NEW i \in 1 .. Len(q)
                 PROVE  /\ hd'[q[i]] = "fwd" /\ mem'[<<q[i], 1>>] = Copy(q[i]) /\ hd'[Copy(q[i])] \notin {"free", "fwd"}
                        /\ mem'[<<Copy(q[i]), 2>>] = mem[<<Copy(q[i]), 2>>]
                        /\ \A j \in Fields : <<Copy(q[i]), j>> \notin Pending' \cup Entries(ref_table)'
      OBVIOUS
    <3>1. /\ hd[q[i]] = "fwd" /\ hd[Copy(q[i])] \notin {"free", "fwd"}
          /\ \A j \in Fields : <<Copy(q[i]), j>> \notin Pending \cup Entries(ref_table)
      BY <2>1 DEF Linked, Allocated
    <3>2. mem'[<<q[i], 1>>] = Copy(q[i])
      BY <1>9, <2>2, WordFacts DEF Copy
    <3>3. <<Copy(q[i]), 2>> \in Words \ {c}
      BY <1>3, <2>2, <3>1, SlotFacts, WordFacts
    <3> QED BY <1>1, <1>5, <1>6, <1>12, <3>1, <3>2, <3>3
  <2>4. Linked(q)'
    BY <1>1, <2>1, <2>3, LinkedFrame
  <2>5. Covered(q)'
    <3> SUFFICES ASSUME NEW s \in Old, NEW i \in Fields, Is_young(mem'[<<s, i>>])
                 PROVE  Known(s, i)' \/ <<s, i>> \in Pending' \/ \E k \in 1 .. Len(q) : s = mem'[<<q[k], 1>>]
      BY DEF Covered, Copy
    <3>1. <<s, i>> \in Words \ {c}
      BY <1>4, <1>5, SlotFacts, WordFacts
    <3>2. Is_young(mem[<<s, i>>])
      BY <1>5, <3>1
    <3>3. Known(s, i) \/ <<s, i>> \in Pending \/ \E k \in 1 .. Len(q) : s = Copy(q[k])
      BY <2>1, <3>2 DEF Covered
    <3>4. Known(s, i) => Known(s, i)'
      BY <1>1, <1>12 DEF Known
    <3> QED BY <1>6, <2>3, <3>1, <3>3, <3>4
  <2> QED BY <2>1, <2>4, <2>5 DEF TodoInv
<1> QED BY <1>7, <1>8, <1>10, <1>11, <1>13, <1>14, <1>15 DEF MInv

-----------------------------------------------------------------------------
(* Promotion.                                                               *)

\* The block v moves to the free slot r, and the word that is being oldified refers to
\* it there.
Moved(v, r, a, b) ==
  /\ r \in Old /\ hd[r] = "free" /\ \A i \in Fields : call[2] # <<r, i>>
  /\ hd' \in [Slots -> Headers] /\ mem' \in [Words -> Vals]
  /\ hd'[r] = hd[v] /\ hd'[v] = "fwd" /\ (\A s \in Slots \ {r, v} : hd'[s] = hd[s])
  /\ mem'[call[2]] = r /\ mem'[<<v, 1>>] = r /\ mem'[<<r, 1>>] = a /\ mem'[<<r, 2>>] = b
  /\ \A w \in Words \ {call[2], <<v, 1>>, <<r, 1>>, <<r, 2>>} : mem'[w] = mem[w]
  /\ HeapInv'

LEMMA PromoteFacts ==
  ASSUME MInv, Collecting, call # <<>>, NEW v \in Young, NEW r, NEW a \in Vals, NEW b \in Vals,
         Allocated(v), r = FreeOld, Promoted(v, r, <<a, b>>), UNCHANGED caller
  PROVE  Moved(v, r, a, b)
<1>1. MTypeOK /\ HeapInv
  BY DEF MInv
<1>2. r \in Old /\ hd[r] = "free" /\ v \in Slots /\ r \in Slots /\ r # v
  BY <1>1, FreeSlot, SlotFacts
<1> DEFINE c == call[2]
<1>3. /\ c \in Words /\ (\A s \in Young, i \in Fields : c # <<s, i>>)
      /\ \A s \in Old, i \in Fields : c = <<s, i>> => Allocated(s)
  BY CallFacts
<1>4. hd' = [hd EXCEPT ![r] = hd[v], ![v] = "fwd"]
  BY DEF Promoted
<1>5. mem' = [mem EXCEPT ![c] = r, ![<<v, 1>>] = r, ![<<r, 1>>] = a, ![<<r, 2>>] = b]
  BY DEF Promoted
<1> HIDE DEF c
<1>6. \A i \in Fields : c # <<r, i>>
  BY <1>2, <1>3 DEF Allocated
<1>7. c # <<v, 1>> /\ c # <<r, 1>> /\ c # <<r, 2>> /\ <<v, 1>> # <<r, 1>> /\ <<v, 1>> # <<r, 2>> /\ <<r, 1>> # <<r, 2>>
  BY <1>2, <1>3, <1>6, WordFacts
<1>8. <<v, 1>> \in Words /\ <<r, 1>> \in Words /\ <<r, 2>> \in Words /\ r \in Vals
  BY <1>2, WordFacts DEF Vals
<1>9. /\ hd' \in [Slots -> Headers] /\ hd'[r] = hd[v] /\ hd'[v] = "fwd" /\ \A s \in Slots \ {r, v} : hd'[s] = hd[s]
  <2>1. hd \in [Slots -> Headers] /\ hd[v] \in Headers /\ "fwd" \in Headers
    BY <1>1, <1>2 DEF MTypeOK, Headers
  <2> HIDE DEF Headers
  <2> QED BY <1>2, <1>4, <2>1
<1>10. /\ mem' \in [Words -> Vals] /\ mem'[c] = r /\ mem'[<<v, 1>>] = r /\ mem'[<<r, 1>>] = a /\ mem'[<<r, 2>>] = b
       /\ \A w \in Words \ {c, <<v, 1>>, <<r, 1>>, <<r, 2>>} : mem'[w] = mem[w]
  <2>1. mem \in [Words -> Vals]
    BY <1>1 DEF MTypeOK
  <2> DEFINE x == <<v, 1>>
             y == <<r, 1>>
             z == <<r, 2>>
  <2>2. /\ mem' = [mem EXCEPT ![c] = r, ![x] = r, ![y] = a, ![z] = b] /\ x \in Words /\ y \in Words /\ z \in Words
        /\ c # x /\ c # y /\ c # z /\ x # y /\ x # z /\ y # z
    BY <1>5, <1>7, <1>8
  <2> HIDE DEF x, y, z, Words, Vals
  <2>3. /\ mem' \in [Words -> Vals] /\ mem'[c] = r /\ mem'[x] = r /\ mem'[y] = a /\ mem'[z] = b
        /\ \A w \in Words \ {c, x, y, z} : mem'[w] = mem[w]
    BY <1>3, <1>8, <2>1, <2>2
  <2> QED BY <2>3 DEF x, y, z
<1>11. Cardinality(InUse') = Cardinality(InUse)
  <2>1. v \in InUse /\ r \notin InUse
    BY <1>2 DEF InUse, Allocated
  <2>2. InUse' = (InUse \ {v}) \cup {r}
    BY <1>2, <1>9 DEF InUse, Allocated
  <2>3. IsFiniteSet(InUse \ {v}) /\ Cardinality(InUse \ {v}) = Cardinality(InUse) - 1
    BY <2>1, InUseFinite, FS_RemoveElement
  <2>4. Cardinality((InUse \ {v}) \cup {r}) = Cardinality(InUse \ {v}) + 1
    BY <2>1, <2>3, FS_AddElement
  <2> QED BY <2>2, <2>3, <2>4, InUseFinite
<1>12. HeapInv'
  <2>1. ASSUME NEW s \in Old PROVE hd'[s] # "fwd"
    <3>1. CASE s = r
      BY <1>9, <3>1 DEF Allocated
    <3>2. CASE s # r
      BY <1>1, <1>9, <3>2, SlotFacts DEF HeapInv
    <3> QED BY <3>1, <3>2
  <2>2. ASSUME NEW s \in Young
        PROVE  /\ hd'[s] # "Weak"
               /\ hd'[s] = "fwd" => mem'[<<s, 1>>] \in Old
               /\ hd'[s] = "Double" => mem'[<<s, 1>>] = Null /\ mem'[<<s, 2>>] = Null
    <3>1. CASE s = v
      BY <1>2, <1>9, <1>10, <3>1
    <3>2. CASE s # v
      <4>1. s \in Slots /\ s # r
        BY <1>2, SlotFacts
      <4>2. ASSUME NEW i \in Fields PROVE mem'[<<s, i>>] = mem[<<s, i>>]
        <5> DEFINE p == <<s, i>>
        <5>1. p \in Words /\ p # c /\ p # <<v, 1>> /\ p # <<r, 1>> /\ p # <<r, 2>>
          BY <1>3, <3>2, <4>1, WordFacts
        <5> HIDE DEF p
        <5>2. mem'[p] = mem[p]
          BY <1>10, <5>1
        <5> QED BY <5>2 DEF p
      <4>3. hd'[s] = hd[s]
        BY <1>9, <3>2, <4>1
      <4> QED BY <1>1, <4>2, <4>3, WordFacts DEF HeapInv
    <3> QED BY <3>1, <3>2
  <2> QED BY <1>1, <1>11, <2>1, <2>2 DEF HeapInv
<1> QED BY <1>2, <1>6, <1>9, <1>10, <1>12 DEF c, Moved

\* What a promotion keeps, whether or not the to-do list grows: the words to come are
\* those of the loop, and the field of the copy that the tail call goes on with.
LEMMA PromoteRest ==
  ASSUME MInv, Collecting, call # <<>>, NEW v \in Young, NEW r, NEW a, NEW b,
         Allocated(v), Moved(v, r, a, b),
         UNCHANGED <<young_ptr, tables, genroots, pc, work, caller>>,
         oldify_todo_list' \in Young \cup {Null},
         call' = <<>> \/ \E x \in Vals : call' = <<x, <<r, 1>> >>
  PROVE  /\ MTypeOK' /\ TablesInv' /\ HeapInv' /\ ControlInv' /\ WordsInv' /\ RootsInv'
         /\ Pending' \subseteq Pending \cup {<<r, 1>>} /\ Pending \subseteq Pending' \cup {call[2]}
         /\ call' = <<>> => Pending' \subseteq Pending
<1>1. MTypeOK /\ TablesInv /\ HeapInv /\ WordsInv /\ RootsInv
  BY DEF MInv
<1> DEFINE c == call[2]
<1>2. /\ r \in Old /\ hd[r] = "free" /\ hd' \in [Slots -> Headers] /\ mem' \in [Words -> Vals]
      /\ hd'[r] = hd[v] /\ (\A s \in Slots \ {r, v} : hd'[s] = hd[s]) /\ mem'[c] = r
      /\ \A w \in Words \ {c, <<v, 1>>, <<r, 1>>, <<r, 2>>} : mem'[w] = mem[w]
      /\ HeapInv'
  BY DEF Moved
<1>3. c \in Words /\ c \in Pending /\ c \in LocalRoots \cup GenRoots \cup OldWords
  BY CallFacts
<1>4. r \in Slots /\ v \in Slots /\ <<r, 1>> \in Words /\ <<r, 1>> \in OldWords
  BY <1>2, SlotFacts, WordFacts
<1>5. call' = <<>> \/ (call' \in Vals \X Words /\ call' # <<>> /\ call'[2] = <<r, 1>>)
  BY <1>4
<1> DEFINE P == {work[i].to : i \in 1 .. Len(work)}
<1>6. Pending = P \cup {c}
  BY DEF Pending
<1>7. /\ Pending' = P \cup (IF call' = <<>> THEN {} ELSE {call'[2]})
  BY DEF Pending
<1> HIDE DEF P, c
<1>8. /\ Pending' \subseteq Pending \cup {<<r, 1>>} /\ Pending \subseteq Pending' \cup {c}
      /\ call' = <<>> => Pending' \subseteq Pending
  BY <1>5, <1>6, <1>7
<1>9. MTypeOK'
  <2>1. call' \in {<<>>} \cup (Vals \X Words)
    BY <1>5
  <2> QED BY <1>1, <1>2, <2>1 DEF MTypeOK, tables, genroots
<1>10. TablesInv'
  BY <1>1 DEF TablesInv, TableFits, tables
<1>11. ControlInv'
  BY DEF ControlInv, Collecting
<1>12. Entries(ref_table)' = Entries(ref_table) /\ Entries(weak_ref_table)' = Entries(weak_ref_table)
  BY DEF tables
<1>13. \A s \in Old : Allocated(s) \/ s = r => Allocated(s)'
  BY <1>2, <1>4, SlotFacts DEF Allocated
<1>14. WordsInv'
  <2>1. Pending' \subseteq LocalRoots \cup (IF pc' = "roots" THEN roots_young' ELSE {}) \cup OldWords
    BY <1>1, <1>4, <1>8 DEF WordsInv, genroots
  <2>2. ASSUME NEW s \in Old, NEW i \in Fields,
               <<s, i>> \in Pending' \cup Entries(ref_table)' \cup Entries(weak_ref_table)'
        PROVE  Allocated(s)'
    <3>1. CASE s = r
      BY <1>13, <3>1
    <3>2. CASE s # r
      <4>1. <<s, i>> # <<r, 1>>
        BY <3>2
      <4>2. <<s, i>> \in Pending \cup Entries(ref_table) \cup Entries(weak_ref_table)
        BY <1>8, <1>12, <2>2, <4>1
      <4> QED BY <1>1, <1>13, <4>2 DEF WordsInv
    <3> QED BY <3>1, <3>2
  <2> QED BY <2>1, <2>2 DEF WordsInv
<1>15. \A w \in (LocalRoots \cup GenRoots) \ {c} : mem'[w] = mem[w]
  <2> SUFFICES ASSUME NEW w \in (LocalRoots \cup GenRoots) \ {c} PROVE mem'[w] = mem[w]
    OBVIOUS
  <2>1. w \in Words /\ w # <<v, 1>> /\ w # <<r, 1>> /\ w # <<r, 2>>
    BY <1>4, WordFacts
  <2> QED BY <1>2, <2>1
<1>16. ~Is_young(mem'[c])
  BY <1>2, SlotFacts DEF Is_young
<1>17. RootsInv'
  <2>1. ASSUME NEW w \in LocalRoots, Is_young(mem'[w]) PROVE w \in Pending'
    <3>1. w # c
      BY <1>16, <2>1
    <3>2. w \in Pending
      BY <1>1, <1>15, <2>1, <3>1 DEF RootsInv, Collecting
    <3> QED BY <1>8, <3>1, <3>2
  <2>2. ASSUME NEW g \in registered
        PROVE  /\ Is_young(mem'[g]) => g \in roots_young /\ g \in Pending'
               /\ Is_in_heap(mem'[g]) => g \in roots_young \cup roots_old
    <3>1. g \in GenRoots
      BY <1>1 DEF MTypeOK
    <3>2. CASE g = c
      <4>1. g \notin LocalRoots /\ g \notin OldWords
        BY <3>1, WordFacts, RootWords
      <4>2. g \in roots_young
        BY <1>1, <1>3, <3>2, <4>1 DEF WordsInv
      <4> QED BY <1>16, <3>2, <4>2
    <3>3. CASE g # c
      <4>1. mem'[g] = mem[g]
        BY <1>15, <3>1, <3>3
      <4> QED BY <1>1, <1>8, <3>3, <4>1 DEF RootsInv, Collecting
    <3> QED BY <3>2, <3>3
  <2> QED BY <2>1, <2>2 DEF RootsInv, genroots
<1> QED BY <1>2, <1>8, <1>9, <1>10, <1>11, <1>14, <1>17 DEF c

\* A promotion leaves the to-do list as it is: the copies on it, and what they refer to.
LEMMA PromoteList ==
  ASSUME MInv, Collecting, call # <<>>, NEW v \in Young, NEW r, NEW a, NEW b,
         Allocated(v), Moved(v, r, a, b), UNCHANGED <<tables, pc, caller>>,
         NEW q \in Seq(Young), Linked(q), Covered(q),
         Pending' \subseteq Pending \cup {<<r, 1>>}, Pending \subseteq Pending' \cup {call[2]}
  PROVE  /\ \A i \in 1 .. Len(q) :
              /\ hd'[q[i]] = "fwd" /\ mem'[<<q[i], 1>>] = Copy(q[i]) /\ hd'[Copy(q[i])] \notin {"free", "fwd"}
              /\ mem'[<<Copy(q[i]), 2>>] = mem[<<Copy(q[i]), 2>>]
              /\ \A j \in Fields : <<Copy(q[i]), j>> \notin Pending' \cup Entries(ref_table)'
              /\ Copy(q[i]) # r
         /\ \A s \in Old \ {r}, i \in Fields :
              Is_young(mem'[<<s, i>>]) =>
                Known(s, i)' \/ <<s, i>> \in Pending' \/ \E k \in 1 .. Len(q) : s = Copy(q[k])
<1>1. MTypeOK /\ HeapInv
  BY DEF MInv
<1> DEFINE c == call[2]
<1>2. /\ r \in Old /\ hd[r] = "free"
      /\ (\A s \in Slots \ {r, v} : hd'[s] = hd[s]) /\ mem'[c] = r
      /\ (\A w \in Words \ {c, <<v, 1>>, <<r, 1>>, <<r, 2>>} : mem'[w] = mem[w])
  BY DEF Moved
<1>3. c \in Pending /\ (\A s \in Young, i \in Fields : c # <<s, i>>) /\ Pending \subseteq Pending' \cup {c}
  BY CallFacts
<1> HIDE DEF c
<1>4. r \in Slots /\ v \in Slots /\ v # r
  BY <1>2, SlotFacts
<1>5. Entries(ref_table)' = Entries(ref_table) /\ Entries(weak_ref_table)' = Entries(weak_ref_table)
  BY DEF tables
<1>6. ASSUME NEW i \in 1 .. Len(q)
      PROVE  /\ hd'[q[i]] = "fwd" /\ mem'[<<q[i], 1>>] = Copy(q[i]) /\ hd'[Copy(q[i])] \notin {"free", "fwd"}
             /\ mem'[<<Copy(q[i]), 2>>] = mem[<<Copy(q[i]), 2>>]
             /\ \A j \in Fields : <<Copy(q[i]), j>> \notin Pending' \cup Entries(ref_table)'
             /\ Copy(q[i]) # r
  <2> DEFINE y == q[i]
             z == Copy(y)
  <2>1. /\ hd[y] = "fwd" /\ hd[z] \notin {"free", "fwd"}
        /\ \A j \in Fields : <<z, j>> \notin Pending \cup Entries(ref_table)
    BY DEF Linked, Allocated
  <2>2. y \in Young /\ y \in Slots
    BY SlotFacts, ElementOfSeq
  <2>3. z \in Old /\ z \in Slots /\ z # v
    BY <1>1, <2>1, <2>2, SlotFacts DEF HeapInv, Copy
  <2>4. mem[<<y, 1>>] = z
    BY DEF Copy
  <2> HIDE DEF y, z
  <2>5. y # v /\ y # r /\ z # r
    BY <1>2, <2>1 DEF Allocated
  <2>6. hd'[y] = "fwd" /\ hd'[z] \notin {"free", "fwd"}
    BY <1>2, <2>1, <2>2, <2>3, <2>5
  <2>7. mem'[<<y, 1>>] = z
    <3> DEFINE p == <<y, 1>>
    <3>1. p \in Words /\ p # c /\ p # <<v, 1>> /\ p # <<r, 1>> /\ p # <<r, 2>>
      BY <1>3, <2>2, <2>5, WordFacts
    <3> HIDE DEF p
    <3>2. mem'[p] = mem[p]
      BY <1>2, <3>1
    <3> QED BY <2>4, <3>2 DEF p
  <2>8. mem'[<<z, 2>>] = mem[<<z, 2>>]
    <3> DEFINE p == <<z, 2>>
    <3>1. p \in Words /\ p # c /\ p # <<v, 1>> /\ p # <<r, 1>> /\ p # <<r, 2>>
      BY <1>3, <2>1, <2>3, <2>5, WordFacts
    <3> HIDE DEF p
    <3>2. mem'[p] = mem[p]
      BY <1>2, <3>1
    <3> QED BY <3>2 DEF p
  <2>9. \A j \in Fields : <<z, j>> \notin Pending' \cup Entries(ref_table)'
    <3> SUFFICES ASSUME NEW j \in Fields PROVE <<z, j>> \notin Pending' \cup Entries(ref_table)'
      OBVIOUS
    <3>1. <<z, j>> # <<r, 1>>
      BY <2>5
    <3> QED BY <1>5, <2>1, <3>1
  <2> QED BY <2>5, <2>6, <2>7, <2>8, <2>9 DEF y, z
<1>7. ASSUME NEW s \in Old \ {r}, NEW i \in Fields, Is_young(mem'[<<s, i>>])
      PROVE  Known(s, i)' \/ <<s, i>> \in Pending' \/ \E k \in 1 .. Len(q) : s = Copy(q[k])
  <2> DEFINE p == <<s, i>>
  <2>1. mem'[p] # r
    BY <1>2, <1>7, SlotFacts DEF Is_young
  <2>2. s \in Slots /\ s # v
    BY SlotFacts
  <2>3. p \in Words /\ p # <<v, 1>> /\ p # <<r, 1>> /\ p # <<r, 2>>
    BY <2>2, WordFacts
  <2>4. p # c
    BY <1>2, <2>1
  <2>5. mem'[p] = mem[p]
    <3> HIDE DEF p
    <3> QED BY <1>2, <2>3, <2>4
  <2>6. Known(s, i) \/ p \in Pending \/ \E k \in 1 .. Len(q) : s = Copy(q[k])
    BY <1>7, <2>5 DEF Covered
  <2>7. hd'[s] = hd[s]
    BY <1>2, <2>2
  <2>8. Known(s, i) => Known(s, i)'
    BY <1>5, <2>7 DEF Known
  <2>9. p \in Pending => p \in Pending'
    BY <1>3, <2>4
  <2> QED BY <2>6, <2>8, <2>9
<1> QED BY <1>6, <1>7

\* The copy holds nothing young: the to-do list stays.
LEMMA PlainPromoteKeeps ==
  ASSUME MInv, Collecting, call # <<>>, NEW v \in Young, NEW r, NEW a, NEW b,
         Allocated(v), Moved(v, r, a, b), ~Is_young(a), ~Is_young(b),
         UNCHANGED <<young_ptr, tables, genroots, pc, work, oldify_todo_list, caller>>,
         call' = <<>> \/ \E x \in Vals : call' = <<x, <<r, 1>> >>
  PROVE  MInv'
<1>1. oldify_todo_list' \in Young \cup {Null}
  BY DEF MInv, MTypeOK
<1>2. /\ MTypeOK' /\ TablesInv' /\ HeapInv' /\ ControlInv' /\ WordsInv' /\ RootsInv'
      /\ Pending' \subseteq Pending \cup {<<r, 1>>} /\ Pending \subseteq Pending' \cup {call[2]}
  <2>1. UNCHANGED <<young_ptr, tables, genroots, pc, work, caller>>
    OBVIOUS
  <2> QED BY <1>1, <2>1, PromoteRest
<1>3. PICK q \in Seq(Young) : Linked(q) /\ Covered(q)
  BY DEF MInv, TodoInv
<1>4. /\ \A i \in 1 .. Len(q) :
           /\ hd'[q[i]] = "fwd" /\ mem'[<<q[i], 1>>] = Copy(q[i]) /\ hd'[Copy(q[i])] \notin {"free", "fwd"}
           /\ mem'[<<Copy(q[i]), 2>>] = mem[<<Copy(q[i]), 2>>]
           /\ \A j \in Fields : <<Copy(q[i]), j>> \notin Pending' \cup Entries(ref_table)'
      /\ \A s \in Old \ {r}, i \in Fields :
           Is_young(mem'[<<s, i>>]) =>
             Known(s, i)' \/ <<s, i>> \in Pending' \/ \E k \in 1 .. Len(q) : s = Copy(q[k])
  <2>1. UNCHANGED <<tables, pc, caller>>
    OBVIOUS
  <2> QED BY <1>2, <1>3, <2>1, PromoteList
<1>5. Linked(q)'
  BY <1>3, <1>4, LinkedFrame
<1>6. Covered(q)'
  <2> SUFFICES ASSUME NEW s \in Old, NEW i \in Fields, Is_young(mem'[<<s, i>>])
               PROVE  Known(s, i)' \/ <<s, i>> \in Pending' \/ \E k \in 1 .. Len(q) : s = mem'[<<q[k], 1>>]
    BY DEF Covered, Copy
  <2>1. s # r
    BY DEF Moved, Fields
  <2>2. Known(s, i)' \/ <<s, i>> \in Pending' \/ \E k \in 1 .. Len(q) : s = Copy(q[k])
    BY <1>4, <2>1
  <2>3. \A k \in 1 .. Len(q) : mem'[<<q[k], 1>>] = Copy(q[k])
    BY <1>4
  <2> QED BY <2>2, <2>3
<1> QED BY <1>2, <1>3, <1>5, <1>6 DEF MInv, TodoInv

LEMMA SmallKeeps ==
  ASSUME MInv, OldifySmall \/ OldifyNoScan
  PROVE  MInv'
<1> DEFINE v == call[1]
           r == FreeOld
<1>1. /\ Collecting /\ call # <<>> /\ v \in Young
      /\ UNCHANGED <<young_ptr, tables, genroots, pc, work, oldify_todo_list, caller>>
      /\ Allocated(v)
  BY DEF OldifySmall, OldifyNoScan, Is_young, Scanned, Allocated
<1>2. /\ MTypeOK /\ HeapInv /\ v \in Slots /\ <<v, 1>> \in Words /\ <<v, 2>> \in Words
  BY <1>1, SlotFacts, WordFacts DEF MInv
<1>3. mem[<<v, 1>>] \in Vals /\ Null \in Vals /\ ~Is_young(Null)
  BY <1>2, SlotFacts DEF MTypeOK, Vals, Is_young
<1>4. /\ Promoted(v, r, <<Null, Null>>)
      /\ call' = <<>> \/ \E x \in Vals : call' = <<x, <<r, 1>> >>
  <2>1. CASE OldifySmall
    BY <1>3, <2>1 DEF OldifySmall
  <2>2. CASE OldifyNoScan
    <3>1. hd[v] = "Double" /\ Promoted(v, r, <<mem[<<v, 1>>], mem[<<v, 2>>]>>) /\ call' = <<>>
      BY <2>2 DEF OldifyNoScan, Return
    <3>2. mem[<<v, 1>>] = Null /\ mem[<<v, 2>>] = Null
      BY <1>1, <1>2, <3>1 DEF HeapInv
    <3> QED BY <3>1, <3>2
  <2> QED BY <2>1, <2>2
<1> HIDE DEF v, r
<1>5. UNCHANGED caller
  BY <1>1
<1>6. Moved(v, r, Null, Null)
  <2>1. r = FreeOld
    BY DEF r
  <2> QED BY <1>1, <1>3, <1>4, <1>5, <2>1, PromoteFacts
<1> QED BY <1>1, <1>3, <1>4, <1>6, PlainPromoteKeeps

\* The block goes on the to-do list.
LEMMA LargeKeeps ==
  ASSUME MInv, OldifyLarge
  PROVE  MInv'
<1> DEFINE v == call[1]
           r == FreeOld
           a == mem[<<v, 1>>]
           b == oldify_todo_list
<1>1. /\ Collecting /\ call # <<>> /\ v \in Young /\ oldify_todo_list' = v /\ call' = <<>>
      /\ UNCHANGED <<young_ptr, tables, genroots, pc, work, caller>>
      /\ Allocated(v) /\ Promoted(v, r, <<a, b>>)
  BY DEF OldifyLarge, Is_young, Scanned, Allocated, Return
<1>2. /\ MTypeOK /\ HeapInv /\ WordsInv /\ <<v, 1>> \in Words
  BY <1>1, SlotFacts, WordFacts DEF MInv
<1>3. a \in Vals /\ b \in Vals
  BY <1>2, SlotFacts DEF MTypeOK, Vals
<1>4. Moved(v, r, a, b)
  <2>1. r = FreeOld
    OBVIOUS
  <2> HIDE DEF v, r, a, b
  <2> QED BY <1>1, <1>3, <2>1, PromoteFacts
<1> HIDE DEF v, r, a
<1>5. /\ MTypeOK' /\ TablesInv' /\ HeapInv' /\ ControlInv' /\ WordsInv' /\ RootsInv'
      /\ Pending' \subseteq Pending /\ Pending' \subseteq Pending \cup {<<r, 1>>} /\ Pending \subseteq Pending' \cup {call[2]}
  <2>1. oldify_todo_list' \in Young \cup {Null}
    BY <1>1
  <2> HIDE DEF b
  <2> QED BY <1>1, <1>4, <2>1, PromoteRest
<1>6. PICK q \in Seq(Young) : Linked(q) /\ Covered(q)
  BY DEF MInv, TodoInv
<1>7. /\ \A i \in 1 .. Len(q) :
           /\ hd'[q[i]] = "fwd" /\ mem'[<<q[i], 1>>] = Copy(q[i]) /\ hd'[Copy(q[i])] \notin {"free", "fwd"}
           /\ mem'[<<Copy(q[i]), 2>>] = mem[<<Copy(q[i]), 2>>]
           /\ \A j \in Fields : <<Copy(q[i]), j>> \notin Pending' \cup Entries(ref_table)'
           /\ Copy(q[i]) # r
      /\ \A s \in Old \ {r}, i \in Fields :
           Is_young(mem'[<<s, i>>]) =>
             Known(s, i)' \/ <<s, i>> \in Pending' \/ \E k \in 1 .. Len(q) : s = Copy(q[k])
  <2> HIDE DEF b
  <2>1. UNCHANGED <<tables, pc, caller>>
    BY <1>1
  <2> QED BY <1>1, <1>4, <1>5, <1>6, <2>1, PromoteList
<1> DEFINE n == Len(q)
<1>8. n \in Nat /\ \A i \in 1 .. n : q[i] \in Young
  BY ElementOfSeq
<1>9. PICK u \in Seq(Young) : Len(u) = n + 1 /\ u[1] = v /\ \A i \in 1 .. n : u[i + 1] = q[i]
  <2> DEFINE u == <<v>> \o q
  <2>1. <<v>> \in Seq(Young) /\ Len(<<v>>) = 1 /\ <<v>>[1] = v
    BY <1>1
  <2>2. /\ u \in Seq(Young) /\ Len(u) = 1 + n
        /\ \A i \in 1 .. (1 + n) : u[i] = IF i <= 1 THEN <<v>>[i] ELSE q[i - 1]
    BY <2>1, ConcatProperties
  <2> HIDE DEF u
  <2> QED BY <1>8, <2>1, <2>2
<1>10. oldify_todo_list = (IF n = 0 THEN Null ELSE q[1])
       /\ \A i \in 1 .. n : mem[<<Copy(q[i]), 2>>] = IF i = n THEN Null ELSE q[i + 1]
  BY <1>6 DEF Linked
<1>11. /\ hd'[v] = "fwd" /\ mem'[<<v, 1>>] = r /\ hd'[r] \notin {"free", "fwd"} /\ mem'[<<r, 2>>] = b
       /\ \A j \in Fields : <<r, j>> \notin Pending' \cup Entries(ref_table)'
  <2>1. hd'[v] = "fwd" /\ mem'[<<v, 1>>] = r /\ hd'[r] = hd[v] /\ mem'[<<r, 2>>] = b /\ r \in Old /\ hd[r] = "free"
    BY <1>4 DEF Moved
  <2>2. Entries(ref_table)' = Entries(ref_table)
    BY <1>1 DEF tables
  <2>3. \A j \in Fields : <<r, j>> \notin Pending \cup Entries(ref_table)
    BY <1>2, <2>1 DEF WordsInv, Allocated
  <2> QED BY <1>1, <1>5, <2>1, <2>2, <2>3 DEF Allocated
<1> HIDE DEF n
<1>12. ASSUME NEW k \in 1 .. n + 1
       PROVE  k = 1 \/ \E i \in 1 .. n : k = i + 1 /\ u[k] = q[i]
  <2>1. CASE k = 1
    BY <2>1
  <2>2. CASE k # 1
    <3>1. k - 1 \in 1 .. n /\ k = (k - 1) + 1
      BY <1>8, <2>2
    <3>2. u[k] = q[k - 1]
      BY <1>9, <3>1
    <3> QED BY <3>1, <3>2
  <2> QED BY <2>1, <2>2
<1>13. \A k \in 1 .. n + 1 :
         /\ hd'[u[k]] = "fwd" /\ hd'[mem'[<<u[k], 1>>]] \notin {"free", "fwd"}
         /\ mem'[<<mem'[<<u[k], 1>>], 2>>] = IF k = n + 1 THEN Null ELSE u[k + 1]
         /\ \A j \in Fields : <<mem'[<<u[k], 1>>], j>> \notin Pending' \cup Entries(ref_table)'
  <2> SUFFICES ASSUME NEW k \in 1 .. n + 1
               PROVE  /\ hd'[u[k]] = "fwd" /\ hd'[mem'[<<u[k], 1>>]] \notin {"free", "fwd"}
                      /\ mem'[<<mem'[<<u[k], 1>>], 2>>] = IF k = n + 1 THEN Null ELSE u[k + 1]
                      /\ \A j \in Fields : <<mem'[<<u[k], 1>>], j>> \notin Pending' \cup Entries(ref_table)'
    OBVIOUS
  <2>1. CASE k = 1
    <3>1. b = IF 1 = n + 1 THEN Null ELSE u[1 + 1]
      <4>1. CASE n = 0
        BY <1>10, <4>1
      <4>2. CASE n # 0
        <5>1. 1 \in 1 .. n
          BY <1>8, <4>2
        <5> QED BY <1>8, <1>9, <1>10, <4>2, <5>1
      <4> QED BY <4>1, <4>2
    <3> HIDE DEF b
    <3> QED BY <1>9, <1>11, <2>1, <3>1
  <2>2. ASSUME NEW i \in 1 .. n, k = i + 1, u[k] = q[i]
        PROVE  /\ hd'[u[k]] = "fwd" /\ hd'[mem'[<<u[k], 1>>]] \notin {"free", "fwd"}
               /\ mem'[<<mem'[<<u[k], 1>>], 2>>] = IF k = n + 1 THEN Null ELSE u[k + 1]
               /\ \A j \in Fields : <<mem'[<<u[k], 1>>], j>> \notin Pending' \cup Entries(ref_table)'
    <3>1. /\ hd'[q[i]] = "fwd" /\ mem'[<<q[i], 1>>] = Copy(q[i]) /\ hd'[Copy(q[i])] \notin {"free", "fwd"}
          /\ mem'[<<Copy(q[i]), 2>>] = IF i = n THEN Null ELSE q[i + 1]
          /\ \A j \in Fields : <<Copy(q[i]), j>> \notin Pending' \cup Entries(ref_table)'
      BY <1>7, <1>10 DEF n
    <3>2. i = n <=> k = n + 1
      BY <1>8, <2>2
    <3>3. i # n => u[k + 1] = q[i + 1]
      <4>1. i # n => i + 1 \in 1 .. n
        BY <1>8
      <4> QED BY <1>9, <2>2, <4>1
    <3> QED BY <2>2, <3>1, <3>2, <3>3
  <2> QED BY <1>12, <2>1, <2>2
<1>14. \A i, k \in 1 .. n + 1 : mem'[<<u[i], 1>>] = mem'[<<u[k], 1>>] => i = k
  <2> SUFFICES ASSUME NEW i \in 1 .. n + 1, NEW k \in 1 .. n + 1, mem'[<<u[i], 1>>] = mem'[<<u[k], 1>>]
               PROVE  i = k
    OBVIOUS
  <2>1. mem'[<<u[1], 1>>] = r
    BY <1>9, <1>11
  <2>2. \A x \in 1 .. n : mem'[<<q[x], 1>>] = Copy(q[x]) /\ Copy(q[x]) # r
    BY <1>7 DEF n
  <2>3. \A x, y \in 1 .. n : Copy(q[x]) = Copy(q[y]) => x = y
    BY <1>6 DEF Linked, n
  <2>4. CASE i = 1
    <3>1. k = 1
      BY <1>12, <2>1, <2>2, <2>4
    <3> QED BY <2>4, <3>1
  <2>5. ASSUME NEW x \in 1 .. n, i = x + 1, u[i] = q[x] PROVE i = k
    <3>1. mem'[<<u[i], 1>>] = Copy(q[x]) /\ Copy(q[x]) # r
      BY <2>2, <2>5
    <3>2. PICK y \in 1 .. n : k = y + 1 /\ u[k] = q[y]
      BY <1>12, <2>1, <3>1
    <3>3. mem'[<<u[k], 1>>] = Copy(q[y])
      BY <2>2, <3>2
    <3>4. x = y
      BY <2>3, <3>1, <3>3
    <3> QED BY <2>5, <3>2, <3>4
  <2> QED BY <1>12, <2>4, <2>5
<1>15. Linked(u)'
  <2>1. Len(u) # 0 /\ Len(u) = n + 1 /\ oldify_todo_list' = u[1]
    BY <1>1, <1>8, <1>9
  <2> QED BY <1>13, <1>14, <2>1 DEF Linked, Copy, Allocated
<1>16. Covered(u)'
  <2> SUFFICES ASSUME NEW s \in Old, NEW i \in Fields, Is_young(mem'[<<s, i>>])
               PROVE  Known(s, i)' \/ <<s, i>> \in Pending' \/ \E k \in 1 .. n + 1 : s = mem'[<<u[k], 1>>]
    BY <1>9 DEF Covered, Copy
  <2>1. CASE s = r
    <3>1. 1 \in 1 .. n + 1
      BY <1>8
    <3> QED BY <1>9, <1>11, <2>1, <3>1
  <2>2. CASE s # r
    <3>1. Known(s, i)' \/ <<s, i>> \in Pending' \/ \E k \in 1 .. n : s = Copy(q[k])
      BY <1>7, <2>2 DEF n
    <3>2. ASSUME NEW k \in 1 .. n, s = Copy(q[k]) PROVE \E x \in 1 .. n + 1 : s = mem'[<<u[x], 1>>]
      <4>1. k + 1 \in 1 .. n + 1 /\ u[k + 1] = q[k]
        BY <1>8, <1>9
      <4>2. mem'[<<q[k], 1>>] = Copy(q[k])
        BY <1>7 DEF n
      <4> QED BY <3>2, <4>1, <4>2
    <3> QED BY <3>1, <3>2
  <2> QED BY <2>1, <2>2
<1>17. TodoInv(Seq(Young))'
  BY <1>9, <1>15, <1>16 DEF TodoInv
<1> QED BY <1>5, <1>17 DEF MInv

-----------------------------------------------------------------------------
(* From one loop to the next.                                               *)

\* The collection starts with the roots.
LEMMA StartKeeps ==
  ASSUME MInv, NEW k \in Callers, caml_empty_minor_heap(k), k # <<"none">> => Cardinality(InUse) < NO
  PROVE  MInv'
<1> DEFINE S == SetToSeq(LocalRoots)
           T == SetToSeq(roots_young)
           W == LocalRoots \cup roots_young
           ps == S \o T
<1>1. /\ pc = "mutator" /\ pc' = "roots" /\ caller' = k /\ work' = InPlace(ps)
      /\ UNCHANGED <<hd, mem, young_ptr, tables, genroots, call, oldify_todo_list>>
  BY DEF caml_empty_minor_heap, Mutator
<1>2. MTypeOK /\ TablesInv /\ HeapInv /\ WordsInv /\ RootsInv
  BY DEF MInv
<1>3. pc \in Idle
  BY <1>1 DEF Idle
<1>4. /\ Pending = {} /\ call = <<>> /\ oldify_todo_list = Null
      /\ \A s \in Old, i \in Fields : Is_young(mem[<<s, i>>]) => Known(s, i)
  BY <1>3, IdleFacts
<1>5. /\ IsFiniteSet(LocalRoots) /\ IsFiniteSet(roots_young) /\ roots_young \subseteq GenRoots
      /\ W \in SUBSET Words /\ W \cap OldWords = {}
  <2>1. roots_young \subseteq GenRoots
    BY <1>2 DEF MTypeOK
  <2> QED BY <2>1, MinorWords, FS_Subset, WordFacts, RootWords
<1>6. S \in Seq(LocalRoots) /\ \A x \in LocalRoots : \E i \in 1 .. Len(S) : S[i] = x
  BY <1>5, SetToSeqAll
<1>7. T \in Seq(roots_young) /\ \A x \in roots_young : \E i \in 1 .. Len(T) : T[i] = x
  BY <1>5, SetToSeqAll
<1> HIDE DEF S, T
<1>8. S \in Seq(W) /\ T \in Seq(W) /\ Len(S) \in Nat /\ Len(T) \in Nat
  <2>1. Len(S) \in Nat /\ Len(T) \in Nat /\ S \in [1 .. Len(S) -> LocalRoots] /\ T \in [1 .. Len(T) -> roots_young]
    BY <1>6, <1>7
  <2>2. S \in [1 .. Len(S) -> W] /\ T \in [1 .. Len(T) -> W]
    BY <2>1
  <2> QED BY <2>1, <2>2
<1>9. /\ ps \in Seq(W) /\ Len(ps) = Len(S) + Len(T)
      /\ \A i \in 1 .. Len(S) + Len(T) : ps[i] = IF i <= Len(S) THEN S[i] ELSE T[i - Len(S)]
  <2> HIDE DEF W
  <2> QED BY <1>8, ConcatProperties
<1> HIDE DEF ps
<1>10. {ps[i] : i \in 1 .. Len(ps)} = W
  <2>1. \A i \in 1 .. Len(ps) : ps[i] \in W
    <3> HIDE DEF W
    <3> QED BY <1>9, ElementOfSeq
  <2>2. ASSUME NEW x \in LocalRoots PROVE \E i \in 1 .. Len(ps) : ps[i] = x
    <3>1. PICK i \in 1 .. Len(S) : S[i] = x
      BY <1>6
    <3>2. i \in 1 .. Len(S) + Len(T) /\ i <= Len(S)
      BY <1>8
    <3> QED BY <1>9, <3>1, <3>2
  <2>3. ASSUME NEW x \in roots_young PROVE \E i \in 1 .. Len(ps) : ps[i] = x
    <3>1. PICK i \in 1 .. Len(T) : T[i] = x
      BY <1>7
    <3>2. i + Len(S) \in 1 .. Len(S) + Len(T) /\ ~(i + Len(S) <= Len(S)) /\ (i + Len(S)) - Len(S) = i
      BY <1>8
    <3> QED BY <1>9, <3>1, <3>2
  <2> QED BY <2>1, <2>2, <2>3
<1>11. /\ work' \in Seq(WorkItems)
       /\ {work'[i].to : i \in 1 .. Len(work')} = W
  <2> DEFINE f == InPlace(ps)
  <2>1. f \in Seq(WorkItems) /\ {f[i].to : i \in 1 .. Len(f)} = {ps[i] : i \in 1 .. Len(ps)}
    <3> HIDE DEF W
    <3> QED BY <1>5, <1>9, InPlaceFacts
  <2>2. work' = f
    BY <1>1
  <2> HIDE DEF f
  <2> QED BY <1>10, <2>1, <2>2
<1>12. Pending' = W
  <2>1. call' = <<>>
    BY <1>1, <1>4
  <2> QED BY <1>11, <2>1 DEF Pending
<1>13. MTypeOK'
  BY <1>1, <1>2, <1>11 DEF MTypeOK, WorkItems, tables, genroots
<1>14. TablesInv' /\ HeapInv'
  BY <1>1, <1>2 DEF TablesInv, TableFits, tables, HeapInv, InUse, Allocated
<1>15. ControlInv'
  BY <1>1 DEF ControlInv
<1>16. Entries(ref_table)' = Entries(ref_table) /\ Entries(weak_ref_table)' = Entries(weak_ref_table)
  BY <1>1 DEF tables
<1>17. WordsInv'
  <2>1. Pending' \subseteq LocalRoots \cup (IF pc' = "roots" THEN roots_young' ELSE {}) \cup OldWords
    BY <1>1, <1>12 DEF genroots
  <2>2. ASSUME NEW s \in Old, NEW i \in Fields,
               <<s, i>> \in Pending' \cup Entries(ref_table)' \cup Entries(weak_ref_table)'
        PROVE  Allocated(s)'
    <3>1. <<s, i>> \notin Pending'
      BY <1>5, <1>12, SlotFacts, WordFacts
    <3>2. Allocated(s)
      BY <1>2, <1>16, <2>2, <3>1 DEF WordsInv
    <3> QED BY <1>1, <3>2 DEF Allocated
  <2> QED BY <2>1, <2>2 DEF WordsInv
<1>18. RootsInv'
  BY <1>1, <1>2, <1>12 DEF RootsInv, genroots
<1>19. TodoInv(Seq(Young))'
  <2>1. <<>> \in Seq(Young) /\ Len(<<>>) = 0
    OBVIOUS
  <2>2. Linked(<<>>)'
    BY <1>1, <1>4, <2>1 DEF Linked
  <2>3. Covered(<<>>)'
    BY <1>1, <1>4, <1>16 DEF Covered, Known
  <2> QED BY <2>1, <2>2, <2>3 DEF TodoInv
<1> QED BY <1>13, <1>14, <1>15, <1>17, <1>18, <1>19 DEF MInv

\* The roots are done: the words of the reference table are next.
LEMMA RootsDoneKeeps ==
  ASSUME MInv, RootsDone
  PROVE  MInv'
<1>1. /\ pc = "roots" /\ call = <<>> /\ work = <<>> /\ pc' = "table" /\ work' = InPlace(ref_table.entries)
      /\ roots_old' = roots_old \cup roots_young /\ roots_young' = {}
      /\ UNCHANGED <<hd, mem, young_ptr, tables, registered, call, oldify_todo_list, caller>>
  BY DEF RootsDone, heap
<1>2. MTypeOK /\ TablesInv /\ HeapInv /\ WordsInv /\ RootsInv
  BY DEF MInv
<1>3. Pending = {}
  BY <1>1 DEF Pending
<1> DEFINE ps == ref_table.entries
<1>4. ps \in Seq(OldWords) /\ OldWords \in SUBSET Words
  BY <1>2, WordFacts DEF MTypeOK
<1>5. Entries(ref_table) = {ps[i] : i \in 1 .. Len(ps)} /\ Entries(ref_table) \subseteq OldWords
  <2>1. Entries(ref_table) = {ps[i] : i \in 1 .. Len(ps)}
    BY DEF Entries
  <2>2. \A i \in 1 .. Len(ps) : ps[i] \in OldWords
    <3> HIDE DEF ps
    <3> QED BY <1>4, ElementOfSeq
  <2> QED BY <2>1, <2>2
<1>6. work' \in Seq(WorkItems) /\ {work'[i].to : i \in 1 .. Len(work')} = {ps[i] : i \in 1 .. Len(ps)}
  <2> DEFINE f == InPlace(ps)
  <2>1. work' = f
    BY <1>1
  <2>2. f \in Seq(WorkItems) /\ {f[i].to : i \in 1 .. Len(f)} = {ps[i] : i \in 1 .. Len(ps)}
    <3> HIDE DEF ps
    <3> QED BY <1>4, InPlaceFacts
  <2> HIDE DEF f, ps
  <2> QED BY <2>1, <2>2
<1> HIDE DEF ps
<1>7. Pending' = Entries(ref_table)
  <2>1. call' = <<>>
    BY <1>1
  <2> QED BY <1>5, <1>6, <2>1 DEF Pending
<1>8. Entries(ref_table)' = Entries(ref_table) /\ Entries(weak_ref_table)' = Entries(weak_ref_table)
  BY <1>1 DEF tables
<1>9. MTypeOK'
  BY <1>1, <1>2, <1>6 DEF MTypeOK, WorkItems, tables
<1>10. TablesInv' /\ HeapInv'
  BY <1>1, <1>2 DEF TablesInv, TableFits, tables, HeapInv, InUse, Allocated
<1>11. ControlInv'
  BY <1>1 DEF ControlInv
<1>12. WordsInv'
  BY <1>1, <1>2, <1>5, <1>7, <1>8 DEF WordsInv, Allocated
<1>13. RootsInv'
  BY <1>1, <1>2, <1>3 DEF RootsInv
<1>14. TodoInv(Seq(Young))'
  <2>1. PICK q \in Seq(Young) : Linked(q) /\ Covered(q)
    BY DEF MInv, TodoInv
  <2>2. \A i \in 1 .. Len(q) :
          /\ hd'[q[i]] = "fwd" /\ mem'[<<q[i], 1>>] = Copy(q[i]) /\ hd'[Copy(q[i])] \notin {"free", "fwd"}
          /\ mem'[<<Copy(q[i]), 2>>] = mem[<<Copy(q[i]), 2>>]
          /\ \A j \in Fields : <<Copy(q[i]), j>> \notin Pending' \cup Entries(ref_table)'
    BY <1>1, <1>7, <1>8, <2>1 DEF Linked, Copy, Allocated
  <2>3. Linked(q)'
    BY <1>1, <2>1, <2>2, LinkedFrame
  <2>4. Covered(q)'
    <3> SUFFICES ASSUME NEW s \in Old, NEW i \in Fields, Is_young(mem[<<s, i>>])
                 PROVE  Known(s, i)' \/ <<s, i>> \in Pending' \/ \E k \in 1 .. Len(q) : s = Copy(q[k])
      BY <1>1 DEF Covered, Copy
    <3>1. Known(s, i) \/ \E k \in 1 .. Len(q) : s = Copy(q[k])
      BY <1>3, <2>1 DEF Covered
    <3>2. Known(s, i) => Known(s, i)' \/ <<s, i>> \in Pending'
      BY <1>1, <1>7, <1>8 DEF Known
    <3> QED BY <3>1, <3>2
  <2> QED BY <2>1, <2>3, <2>4 DEF TodoInv
<1> QED BY <1>9, <1>10, <1>11, <1>12, <1>13, <1>14 DEF MInv

\* The next block of the to-do list: its two fields are next.
LEMMA MopupKeeps ==
  ASSUME MInv, caml_oldify_mopup
  PROVE  MInv'
<1> DEFINE v == oldify_todo_list
           z == mem[<<v, 1>>]
<1>1. /\ pc \in {"table", "mopup"} /\ pc' = "mopup" /\ call = <<>> /\ work = <<>> /\ v # Null
      /\ oldify_todo_list' = mem[<<z, 2>>] /\ work' = MopupWork(v, z)
      /\ UNCHANGED <<hd, mem, young_ptr, tables, genroots, call, caller>>
  BY DEF caml_oldify_mopup, heap
<1>2. MTypeOK /\ TablesInv /\ HeapInv /\ WordsInv /\ RootsInv
  BY DEF MInv
<1>3. Pending = {}
  BY <1>1 DEF Pending
<1>4. PICK q \in Seq(Young) : Linked(q) /\ Covered(q)
  BY DEF MInv, TodoInv
<1> DEFINE n == Len(q)
<1>5. n \in Nat /\ (\A i \in 1 .. n : q[i] \in Young) /\ n # 0 /\ 1 \in 1 .. n /\ q[1] = v /\ q # <<>>
  <2>1. n \in Nat /\ \A i \in 1 .. n : q[i] \in Young
    BY ElementOfSeq
  <2>2. n # 0 /\ q[1] = v
    BY <1>1, <1>4 DEF Linked
  <2> QED BY <2>1, <2>2, EmptySeq
<1>6. \A i \in 1 .. n :
        /\ hd[q[i]] = "fwd" /\ hd[Copy(q[i])] \notin {"free", "fwd"}
        /\ mem[<<Copy(q[i]), 2>>] = IF i = n THEN Null ELSE q[i + 1]
        /\ \A j \in Fields : <<Copy(q[i]), j>> \notin Entries(ref_table)
  BY <1>4 DEF Linked, Allocated
<1>7. \A i, k \in 1 .. n : Copy(q[i]) = Copy(q[k]) => i = k
  BY <1>4 DEF Linked
<1>8. z = Copy(q[1])
  BY <1>5 DEF Copy
<1>9. v \in Young /\ z \in Old /\ hd[z] \notin {"free", "fwd"}
  <2>1. v \in Young /\ hd[v] = "fwd"
    BY <1>5, <1>6
  <2>2. z \in Old
    BY <1>2, <2>1 DEF HeapInv
  <2> QED BY <1>5, <1>6, <1>8, <2>1, <2>2
<1> HIDE DEF v, z, n
<1> DEFINE a == [from |-> <<z, 1>>, to |-> <<z, 1>>]
           b == [from |-> <<v, 2>>, to |-> <<z, 2>>]
<1>10. /\ <<z, 1>> \in Words /\ <<z, 2>> \in Words /\ <<v, 2>> \in Words
       /\ <<z, 1>> \in OldWords /\ <<z, 2>> \in OldWords
  BY <1>9, SlotFacts, WordFacts
<1>11. /\ a \in WorkItems /\ b \in WorkItems /\ a.to = <<z, 1>> /\ b.to = <<z, 2>> /\ work' = <<a, b>>
  BY <1>1, <1>10 DEF WorkItems, MopupWork
<1> HIDE DEF a, b
<1>12. work' \in Seq(WorkItems)
  BY <1>11
<1>13. Pending' = {<<z, 1>>, <<z, 2>>}
  <2>1. call' = <<>>
    BY <1>1
  <2>2. Len(work') = 2 /\ work'[1] = a /\ work'[2] = b /\ 1 .. 2 = {1, 2}
    BY <1>11
  <2>3. {work'[i].to : i \in 1 .. Len(work')} = {a.to, b.to}
    BY <2>2
  <2> QED BY <1>11, <2>1, <2>3 DEF Pending
<1>14. Entries(ref_table)' = Entries(ref_table) /\ Entries(weak_ref_table)' = Entries(weak_ref_table)
  BY <1>1 DEF tables
<1>15. oldify_todo_list' = IF n = 1 THEN Null ELSE q[2]
  <2>1. mem[<<z, 2>>] = IF 1 = n THEN Null ELSE q[1 + 1]
    BY <1>5, <1>6, <1>8
  <2> QED BY <1>1, <2>1
<1>16. MTypeOK'
  <2>1. oldify_todo_list' \in Young \cup {Null}
    BY <1>5, <1>15
  <2> QED BY <1>1, <1>2, <1>12, <2>1 DEF MTypeOK, WorkItems, tables, genroots
<1>17. TablesInv' /\ HeapInv'
  BY <1>1, <1>2 DEF TablesInv, TableFits, tables, HeapInv, InUse, Allocated
<1>18. ControlInv'
  BY <1>1 DEF ControlInv
<1>19. WordsInv'
  <2>1. Pending' \subseteq LocalRoots \cup (IF pc' = "roots" THEN roots_young' ELSE {}) \cup OldWords
    BY <1>10, <1>13
  <2>2. ASSUME NEW s \in Old, NEW i \in Fields,
               <<s, i>> \in Pending' \cup Entries(ref_table)' \cup Entries(weak_ref_table)'
        PROVE  Allocated(s)'
    <3>1. CASE <<s, i>> \in Pending'
      <4>1. s = z
        BY <1>13, <3>1
      <4> QED BY <1>1, <1>9, <4>1 DEF Allocated
    <3>2. CASE <<s, i>> \notin Pending'
      BY <1>1, <1>2, <1>14, <2>2, <3>2 DEF WordsInv, Allocated
    <3> QED BY <3>1, <3>2
  <2> QED BY <2>1, <2>2 DEF WordsInv
<1>20. RootsInv'
  BY <1>1, <1>2, <1>3 DEF RootsInv, genroots
<1> DEFINE u == Tail(q)
<1>21. /\ u \in Seq(Young) /\ Len(u) = n - 1 /\ \A i \in 1 .. (n - 1) : u[i] = q[i + 1]
  BY <1>5, HeadTailProperties DEF n
<1> HIDE DEF u
<1>22. \A i \in 1 .. (n - 1) : i + 1 \in 1 .. n /\ i + 1 # 1
  BY <1>5
<1>23. Linked(u)'
  <2>1. oldify_todo_list' = IF Len(u) = 0 THEN Null ELSE u[1]
    <3>1. CASE n = 1
      BY <1>15, <1>21, <3>1
    <3>2. CASE n # 1
      <4>1. 1 \in 1 .. (n - 1) /\ n - 1 # 0
        BY <1>5, <3>2
      <4> QED BY <1>15, <1>21, <3>2, <4>1
    <3> QED BY <3>1, <3>2
  <2>2. ASSUME NEW i \in 1 .. Len(u)
        PROVE  /\ hd[u[i]] = "fwd" /\ hd[Copy(u[i])] \notin {"free", "fwd"}
               /\ mem[<<Copy(u[i]), 2>>] = IF i = Len(u) THEN Null ELSE u[i + 1]
               /\ \A j \in Fields : <<Copy(u[i]), j>> \notin Pending' \cup Entries(ref_table)'
    <3>1. i \in 1 .. (n - 1) /\ u[i] = q[i + 1] /\ i + 1 \in 1 .. n /\ i + 1 # 1
      BY <1>21, <1>22
    <3>2. i # n - 1 => i + 1 \in 1 .. (n - 1)
      BY <1>5, <3>1
    <3>3. i # n - 1 => u[i + 1] = q[(i + 1) + 1]
      BY <1>21, <3>2
    <3>4. i = n - 1 <=> i + 1 = n
      BY <1>5, <3>1
    <3>5. Copy(u[i]) # z
      BY <1>5, <1>7, <1>8, <3>1
    <3>6. \A j \in Fields : <<Copy(u[i]), j>> \notin Pending'
      BY <1>13, <3>5
    <3>7. \A j \in Fields : <<Copy(u[i]), j>> \notin Entries(ref_table)'
      BY <1>6, <1>14, <3>1
    <3>8. hd[u[i]] = "fwd" /\ hd[Copy(u[i])] \notin {"free", "fwd"}
      BY <1>6, <3>1
    <3>9. mem[<<Copy(u[i]), 2>>] = IF i + 1 = n THEN Null ELSE q[(i + 1) + 1]
      BY <1>6, <3>1
    <3> QED BY <1>21, <3>3, <3>4, <3>6, <3>7, <3>8, <3>9
  <2>3. ASSUME NEW i \in 1 .. Len(u), NEW k \in 1 .. Len(u), Copy(u[i]) = Copy(u[k]) PROVE i = k
    <3>1. u[i] = q[i + 1] /\ i + 1 \in 1 .. n /\ u[k] = q[k + 1] /\ k + 1 \in 1 .. n
      BY <1>21, <1>22
    <3>2. i + 1 = k + 1
      BY <1>7, <2>3, <3>1
    <3> QED BY <3>2
  <2>4. \A x : Copy(x)' = Copy(x)
    BY <1>1 DEF Copy
  <2> QED BY <1>1, <2>1, <2>2, <2>3, <2>4 DEF Linked, Copy, Allocated
<1>24. Covered(u)'
  <2> SUFFICES ASSUME NEW s \in Old, NEW i \in Fields, Is_young(mem[<<s, i>>])
               PROVE  Known(s, i)' \/ <<s, i>> \in Pending' \/ \E k \in 1 .. Len(u) : s = Copy(u[k])
    BY <1>1 DEF Covered, Copy
  <2>1. Known(s, i) \/ \E k \in 1 .. n : s = Copy(q[k])
    BY <1>3, <1>4 DEF Covered, n
  <2>2. Known(s, i) => Known(s, i)'
    BY <1>1, <1>14 DEF Known
  <2>3. ASSUME NEW k \in 1 .. n, s = Copy(q[k]) PROVE <<s, i>> \in Pending' \/ \E x \in 1 .. Len(u) : s = Copy(u[x])
    <3>1. CASE k = 1
      BY <1>8, <1>13, <2>3, <3>1 DEF Fields
    <3>2. CASE k # 1
      <4>1. k - 1 \in 1 .. (n - 1) /\ (k - 1) + 1 = k
        BY <1>5, <3>2
      <4>2. u[k - 1] = q[k]
        BY <1>21, <4>1
      <4> QED BY <1>21, <2>3, <4>1, <4>2
    <3> QED BY <3>1, <3>2
  <2> QED BY <2>1, <2>2, <2>3
<1> QED BY <1>16, <1>17, <1>18, <1>19, <1>20, <1>21, <1>23, <1>24 DEF MInv, TodoInv

-----------------------------------------------------------------------------
(* The end of a collection.                                                 *)

\* Fewer blocks are in use.
LEMMA FewerInUse ==
  ASSUME HeapInv, caller' = caller, \A s \in Slots : Allocated(s)' => Allocated(s)
  PROVE  Cardinality(InUse') <= NO /\ (caller' # <<"none">> => Cardinality(InUse') < NO)
<1>1. InUse' \subseteq InUse
  BY DEF InUse
<1>2. Cardinality(InUse') <= Cardinality(InUse) /\ Cardinality(InUse') \in Nat /\ Cardinality(InUse) \in Nat
  BY <1>1, InUseFinite, FS_Subset, FS_CardinalityType
<1> QED BY <1>2, SlotFacts DEF HeapInv

\* What the end of a collection leaves: words of young blocks hold nothing, words of
\* the weak table what CleanWeak makes of them, and none refers to the minor heap.
LEMMA EmptyFacts ==
  ASSUME MInv, EmptyMinorHeap
  PROVE  /\ \A p \in Words : \/ p \in Young \X Fields /\ mem'[p] = Null
                             \/ mem'[p] \in {mem[p], Null}
                             \/ Is_young(mem[p]) /\ hd[mem[p]] = "fwd" /\ mem'[p] = Copy(mem[p])
         /\ \A p \in Young \X Fields : mem'[p] = Null
         /\ \A w \in LocalRoots \cup GenRoots : mem'[w] = mem[w]
         /\ \A w \in LocalRoots \cup registered : ~Is_young(mem'[w])
         /\ \A s \in Old, i \in Fields : ~Is_young(mem'[<<s, i>>])
         /\ hd' \in [Slots -> Headers] /\ (\A s \in Young : hd'[s] = "free") /\ \A s \in Old : hd'[s] = hd[s]
         /\ mem' \in [Words -> Vals]
<1>1. /\ pc \in {"table", "mopup"} /\ call = <<>> /\ work = <<>> /\ oldify_todo_list = Null
      /\ hd' = [s \in Slots |-> IF Is_young(s) THEN "free" ELSE hd[s]]
      /\ young_ptr' = NY + 1 /\ ref_table' = clear_table(ref_table) /\ weak_ref_table' = clear_table(weak_ref_table)
      /\ pc' = "emptied" /\ UNCHANGED <<caml_force_major_slice, genroots, work, call, oldify_todo_list, caller>>
  BY DEF EmptyMinorHeap
<1>2. MTypeOK /\ TablesInv /\ HeapInv /\ WordsInv /\ RootsInv
  BY DEF MInv
<1>3. mem' = [p \in Words |-> CASE p \in Entries(weak_ref_table) -> CleanWeak(p)
                                [] p \in Young \X Fields -> Null
                                [] OTHER -> mem[p]]
  BY <1>2 DEF EmptyMinorHeap, MTypeOK
<1>4. Pending = {}
  BY <1>1 DEF Pending
<1>5. \A s \in Old, i \in Fields : Is_young(mem[<<s, i>>]) => <<s, i>> \in Entries(weak_ref_table)
  <2>1. PICK q \in Seq(Young) : Linked(q) /\ Covered(q)
    BY DEF MInv, TodoInv
  <2>2. Len(q) \in Nat /\ (Len(q) # 0 => q[1] \in Young)
    BY <2>1, ElementOfSeq
  <2>3. Len(q) = 0
    BY <1>1, <2>1, <2>2, SlotFacts DEF Linked
  <2> QED BY <1>1, <1>4, <2>1, <2>3 DEF Covered, Known
<1>6. ref_table \in TableType /\ weak_ref_table \in TableType
  BY <1>2 DEF MTypeOK, TableType
<1>7. Entries(weak_ref_table) \subseteq OldWords
  <2>1. weak_ref_table.entries \in Seq(OldWords)
    BY <1>6 DEF TableType
  <2>2. \A i \in 1 .. Len(weak_ref_table.entries) : weak_ref_table.entries[i] \in OldWords
    BY <2>1, ElementOfSeq
  <2> QED BY <2>2 DEF Entries
<1>8. \A p \in Words : /\ CleanWeak(p) \in Vals /\ ~Is_young(CleanWeak(p))
                       /\ \/ CleanWeak(p) \in {mem[p], Null}
                          \/ Is_young(mem[p]) /\ hd[mem[p]] = "fwd" /\ CleanWeak(p) = Copy(mem[p])
  <2> SUFFICES ASSUME NEW p \in Words
               PROVE  /\ CleanWeak(p) \in Vals /\ ~Is_young(CleanWeak(p))
                      /\ \/ CleanWeak(p) \in {mem[p], Null}
                         \/ Is_young(mem[p]) /\ hd[mem[p]] = "fwd" /\ CleanWeak(p) = Copy(mem[p])
    OBVIOUS
  <2> DEFINE v == mem[p]
  <2>1. v \in Vals /\ Null \in Vals /\ ~Is_young(Null)
    BY <1>2, SlotFacts DEF MTypeOK, Vals, Is_young
  <2>2. CleanWeak(p) = CASE ~Is_young(v) -> v
                         [] Is_young(v) /\ hd[v] = "fwd" -> mem[<<v, 1>>]
                         [] OTHER -> Null
    BY DEF CleanWeak
  <2>3. Is_young(v) /\ hd[v] = "fwd" => mem[<<v, 1>>] \in Vals /\ ~Is_young(mem[<<v, 1>>])
    BY <1>2, SlotFacts DEF HeapInv, Is_young, Vals
  <2>4. mem[<<v, 1>>] = Copy(v)
    BY DEF Copy
  <2> HIDE DEF v
  <2>5. /\ CleanWeak(p) \in Vals /\ ~Is_young(CleanWeak(p))
        /\ CleanWeak(p) \in {v, Null} \/ (Is_young(v) /\ hd[v] = "fwd" /\ CleanWeak(p) = Copy(v))
    BY <2>1, <2>2, <2>3, <2>4
  <2> QED BY <2>5 DEF v
<1>9. \A p \in Words : \/ p \in Entries(weak_ref_table) /\ mem'[p] = CleanWeak(p)
                       \/ p \in Young \X Fields /\ mem'[p] = Null
                       \/ p \notin Entries(weak_ref_table) /\ p \notin Young \X Fields /\ mem'[p] = mem[p]
  BY <1>3
<1>10. mem' \in [Words -> Vals]
  <2>1. \A p \in Words : mem'[p] \in Vals
    BY <1>2, <1>8, <1>9 DEF MTypeOK, Vals
  <2> QED BY <1>3, <2>1
<1>11. \A w \in LocalRoots \cup GenRoots : mem'[w] = mem[w]
  <2> SUFFICES ASSUME NEW w \in LocalRoots \cup GenRoots PROVE mem'[w] = mem[w]
    OBVIOUS
  <2>1. w \in Words /\ w \notin Entries(weak_ref_table)
    BY <1>7, WordFacts, RootWords
  <2>2. w \notin Young \X Fields
    BY SlotFacts, MinorWords
  <2> QED BY <1>9, <2>1, <2>2
<1>12. \A s \in Old, i \in Fields : ~Is_young(mem'[<<s, i>>])
  <2> SUFFICES ASSUME NEW s \in Old, NEW i \in Fields PROVE ~Is_young(mem'[<<s, i>>])
    OBVIOUS
  <2>1. <<s, i>> \in Words /\ <<s, i>> \notin Young \X Fields
    BY SlotFacts, WordFacts
  <2> DEFINE p == <<s, i>>
  <2>2. Is_young(mem[p]) => p \in Entries(weak_ref_table)
    BY <1>5
  <2> HIDE DEF p
  <2>3. ~Is_young(mem'[p])
    BY <1>8, <1>9, <2>1, <2>2 DEF p
  <2> QED BY <2>3 DEF p
<1>13. hd' \in [Slots -> Headers] /\ (\A s \in Young : hd'[s] = "free") /\ \A s \in Old : hd'[s] = hd[s]
  <2>1. \A s \in Slots : hd'[s] = IF s \in Young THEN "free" ELSE hd[s]
    BY <1>1 DEF Is_young
  <2>2. hd' = [s \in Slots |-> hd'[s]]
    BY <1>1
  <2>3. \A s \in Slots : hd'[s] \in Headers
    BY <1>2, <2>1 DEF MTypeOK, Headers
  <2> QED BY <2>1, <2>2, <2>3, SlotFacts
<1>14. \A w \in LocalRoots \cup registered : ~Is_young(mem'[w])
  BY <1>1, <1>2, <1>4, <1>11 DEF RootsInv, MTypeOK
<1>15. \A p \in Young \X Fields : mem'[p] = Null
  <2> SUFFICES ASSUME NEW p \in Young \X Fields PROVE mem'[p] = Null
    OBVIOUS
  <2>1. p \in Words /\ p \notin OldWords
    BY SlotFacts DEF Words, OldWords
  <2> QED BY <1>7, <1>9, <2>1
<1>16. \A p \in Words : \/ p \in Young \X Fields /\ mem'[p] = Null
                        \/ mem'[p] \in {mem[p], Null}
                        \/ Is_young(mem[p]) /\ hd[mem[p]] = "fwd" /\ mem'[p] = Copy(mem[p])
  <2> SUFFICES ASSUME NEW p \in Words
               PROVE  \/ p \in Young \X Fields /\ mem'[p] = Null
                      \/ mem'[p] \in {mem[p], Null}
                      \/ Is_young(mem[p]) /\ hd[mem[p]] = "fwd" /\ mem'[p] = Copy(mem[p])
    OBVIOUS
  <2> QED BY <1>8, <1>9
<1> QED BY <1>10, <1>11, <1>12, <1>13, <1>14, <1>15, <1>16

LEMMA EmptyKeeps ==
  ASSUME MInv, EmptyMinorHeap
  PROVE  MInv'
<1>1. /\ pc \in {"table", "mopup"} /\ call = <<>> /\ work = <<>> /\ oldify_todo_list = Null
      /\ young_ptr' = NY + 1 /\ ref_table' = clear_table(ref_table) /\ weak_ref_table' = clear_table(weak_ref_table)
      /\ pc' = "emptied" /\ UNCHANGED <<caml_force_major_slice, genroots, work, call, oldify_todo_list, caller>>
  BY DEF EmptyMinorHeap
<1>2. MTypeOK /\ TablesInv /\ HeapInv /\ RootsInv
  BY DEF MInv
<1>3. ref_table \in TableType /\ weak_ref_table \in TableType
  BY <1>2 DEF MTypeOK, TableType
<1>4. /\ mem' \in [Words -> Vals]
      /\ \A w \in LocalRoots \cup GenRoots : mem'[w] = mem[w]
      /\ \A w \in LocalRoots \cup registered : ~Is_young(mem'[w])
      /\ \A s \in Old, i \in Fields : ~Is_young(mem'[<<s, i>>])
      /\ hd' \in [Slots -> Headers] /\ (\A s \in Young : hd'[s] = "free") /\ \A s \in Old : hd'[s] = hd[s]
  BY EmptyFacts
<1>5. \A t \in TableType : /\ clear_table(t) \in TableType /\ clear_table(t).entries = <<>>
                           /\ clear_table(t).size = t.size /\ clear_table(t).limit = t.size
  <2> SUFFICES ASSUME NEW t \in TableType
               PROVE  /\ clear_table(t) \in TableType /\ clear_table(t).entries = <<>>
                      /\ clear_table(t).size = t.size /\ clear_table(t).limit = t.size
    OBVIOUS
  <2> DEFINE e == [t EXCEPT !.entries = <<>>]
             m == t.size
  <2>1. clear_table(t) = [e EXCEPT !.limit = m]
    BY DEF clear_table, TableType
  <2>2. e \in TableType /\ e.entries = <<>> /\ e.size = t.size /\ m \in Nat
    <3>1. <<>> \in Seq(OldWords) /\ t.size \in Nat
      BY DEF TableType
    <3> DEFINE x == <<>>
    <3>2. e = [t EXCEPT !.entries = x] /\ x \in Seq(OldWords)
      BY <3>1
    <3> HIDE DEF x, e
    <3>3. e \in TableType /\ e.entries = x /\ e.size = t.size
      BY <3>2 DEF TableType
    <3> QED BY <3>1, <3>3 DEF x
  <2> HIDE DEF e, m
  <2>3. /\ clear_table(t) \in TableType /\ clear_table(t).entries = e.entries
        /\ clear_table(t).size = e.size /\ clear_table(t).limit = m
    BY <2>1, <2>2 DEF TableType
  <2> QED BY <2>2, <2>3 DEF m
<1>6. /\ ref_table' \in TableType /\ ref_table'.entries = <<>> /\ ref_table'.limit = ref_table'.size
      /\ weak_ref_table' \in TableType /\ weak_ref_table'.entries = <<>> /\ weak_ref_table'.limit = weak_ref_table'.size
  BY <1>1, <1>3, <1>5
<1>7. Entries(ref_table') = {} /\ Entries(weak_ref_table') = {}
  <2>1. Len(<<>>) = 0 /\ 1 .. 0 = {}
    OBVIOUS
  <2> QED BY <1>6, <2>1 DEF Entries
<1>8. MTypeOK'
  <2>1. young_ptr' \in 1 .. NY + 1
    BY <1>1, SlotFacts
  <2> QED BY <1>1, <1>2, <1>4, <1>6, <2>1 DEF MTypeOK, TableType, genroots
<1>9. TablesInv'
  <2>1. /\ ref_table'.size \in Nat /\ weak_ref_table'.size \in Nat /\ Len(<<>>) = 0
    BY <1>6 DEF TableType
  <2> QED BY <1>6, <2>1 DEF TablesInv, TableFits
<1>10. HeapInv'
  <2>1. \A s \in Slots : Allocated(s)' => Allocated(s)
    BY <1>4, SlotFacts DEF Allocated
  <2>2. Cardinality(InUse') <= NO /\ (caller' # <<"none">> => Cardinality(InUse') < NO)
    BY <1>1, <1>2, <2>1, FewerInUse
  <2> QED BY <1>2, <1>4, <2>2 DEF HeapInv
<1>11. ControlInv'
  BY <1>1, <1>6 DEF ControlInv
<1>12. \A w \in LocalRoots \cup registered' : ~Is_young(mem'[w])
  BY <1>1, <1>4 DEF genroots
<1>13. \A g \in registered' : /\ Is_young(mem'[g]) => g \in roots_young'
                              /\ Is_in_heap(mem'[g]) => g \in roots_young' \cup roots_old'
  BY <1>1, <1>2, <1>4 DEF RootsInv, MTypeOK, genroots
<1>14. pc' \in Idle
  BY <1>1 DEF Idle
<1> QED BY <1>4, <1>7, <1>8, <1>9, <1>10, <1>11, <1>12, <1>13, <1>14, IdleKeeps

\* Once the minor heap is empty nothing refers to it.
LEMMA EmptiedFacts ==
  ASSUME MInv, pc \in {"emptied", "make_vect"}
  PROVE  /\ MTypeOK /\ TablesInv /\ HeapInv /\ ControlInv
         /\ Entries(ref_table) = {} /\ Entries(weak_ref_table) = {}
         /\ ref_table.limit = ref_table.size /\ weak_ref_table.limit = weak_ref_table.size
         /\ \A w \in LocalRoots \cup registered : ~Is_young(mem[w])
         /\ \A g \in registered : Is_in_heap(mem[g]) => g \in roots_young \cup roots_old
         /\ \A s \in Old, i \in Fields : ~Is_young(mem[<<s, i>>])
<1>1. MTypeOK /\ TablesInv /\ HeapInv /\ ControlInv /\ RootsInv
  BY DEF MInv
<1>2. pc \in Idle /\ pc # "mutator" /\ pc # "roots"
  BY DEF Idle
<1>3. Pending = {} /\ \A s \in Old, i \in Fields : Is_young(mem[<<s, i>>]) => Known(s, i)
  BY <1>2, IdleFacts
<1>4. /\ Entries(ref_table) = {} /\ Entries(weak_ref_table) = {}
      /\ ref_table.limit = ref_table.size /\ weak_ref_table.limit = weak_ref_table.size
  <2>1. Len(<<>>) = 0 /\ 1 .. 0 = {}
    OBVIOUS
  <2> QED BY <1>1, <2>1 DEF Entries, ControlInv
<1>5. \A s \in Old, i \in Fields : ~Is_young(mem[<<s, i>>])
  BY <1>2, <1>3, <1>4 DEF Known
<1> QED BY <1>1, <1>2, <1>3, <1>4, <1>5 DEF RootsInv

LEMMA EmptiedKeeps ==
  ASSUME MInv, Emptied
  PROVE  MInv'
<1>1. /\ pc = "emptied" /\ caller = <<"none">> /\ pc' = "mutator"
      /\ UNCHANGED <<hd, mem, young_ptr, tables, genroots, work, call, oldify_todo_list, caller>>
  BY DEF Emptied
<1>2. /\ MTypeOK /\ TablesInv /\ HeapInv /\ ControlInv
      /\ Entries(ref_table) = {} /\ Entries(weak_ref_table) = {}
      /\ \A w \in LocalRoots \cup registered : ~Is_young(mem[w])
      /\ \A g \in registered : Is_in_heap(mem[g]) => g \in roots_young \cup roots_old
      /\ \A s \in Old, i \in Fields : ~Is_young(mem[<<s, i>>])
  BY <1>1, EmptiedFacts
<1>3. MTypeOK'
  BY <1>1, <1>2 DEF MTypeOK, tables, genroots
<1>4. TablesInv' /\ HeapInv'
  BY <1>1, <1>2 DEF TablesInv, TableFits, tables, HeapInv, InUse, Allocated
<1>5. ControlInv'
  BY <1>1, <1>2 DEF ControlInv
<1>6. pc' \in Idle
  BY <1>1 DEF Idle
<1> QED BY <1>1, <1>2, <1>3, <1>4, <1>5, <1>6, IdleKeeps DEF tables, genroots

\* The major collector frees blocks and erases weak pointers.
LEMMA SliceKeeps ==
  ASSUME MInv, Slice
  PROVE  MInv'
<1>1. PICK dead \in {{}, Freed} :
        /\ hd' = [s \in Slots |-> IF s \in dead THEN "free" ELSE hd[s]]
        /\ mem' = [p \in DOMAIN mem |->
                     IF p \in dead \X Fields
                        \/ (p \in Old \X Fields /\ hd[p[1]] = "Weak" /\ mem[p] \in dead)
                     THEN Null ELSE mem[p]]
  BY DEF Slice
<1>2. /\ pc = "emptied" /\ caml_force_major_slice' = FALSE
      /\ pc' = IF caller[1] = "make_vect" THEN "make_vect" ELSE "mutator"
      /\ UNCHANGED <<young_ptr, ref_table, weak_ref_table, genroots, work, call, oldify_todo_list, caller>>
  BY DEF Slice
<1>3. /\ MTypeOK /\ TablesInv /\ HeapInv /\ ControlInv
      /\ Entries(ref_table) = {} /\ Entries(weak_ref_table) = {}
      /\ ref_table.limit = ref_table.size /\ weak_ref_table.limit = weak_ref_table.size
      /\ \A w \in LocalRoots \cup registered : ~Is_young(mem[w])
      /\ \A g \in registered : Is_in_heap(mem[g]) => g \in roots_young \cup roots_old
      /\ \A s \in Old, i \in Fields : ~Is_young(mem[<<s, i>>])
  BY <1>2, EmptiedFacts
<1>4. dead \subseteq Old
  BY <1>1 DEF Freed
<1>5. \A p \in Words : mem'[p] = Null \/ mem'[p] = mem[p]
  BY <1>1, <1>3 DEF MTypeOK
<1>6. mem' \in [Words -> Vals] /\ ~Is_young(Null)
  <2>1. DOMAIN mem = Words /\ \A p \in Words : mem[p] \in Vals
    BY <1>3 DEF MTypeOK
  <2>2. \A p \in Words : mem'[p] \in Vals
    BY <1>5, <2>1 DEF Vals
  <2>3. mem' = [p \in Words |-> mem'[p]]
    BY <1>1, <2>1
  <2> QED BY <2>2, <2>3, SlotFacts DEF Is_young
<1>7. \A s \in Young, i \in Fields : mem'[<<s, i>>] = mem[<<s, i>>]
  <2> SUFFICES ASSUME NEW s \in Young, NEW i \in Fields PROVE mem'[<<s, i>>] = mem[<<s, i>>]
    OBVIOUS
  <2> DEFINE p == <<s, i>>
  <2>1. p \notin dead \X Fields /\ p \notin Old \X Fields
    BY <1>4, SlotFacts
  <2>2. p \in DOMAIN mem
    BY <1>3, SlotFacts, WordFacts DEF MTypeOK
  <2> HIDE DEF p
  <2>3. mem'[p] = mem[p]
    BY <1>1, <2>1, <2>2
  <2> QED BY <2>3 DEF p
<1>8. /\ hd' \in [Slots -> Headers] /\ (\A s \in Slots : hd'[s] = "free" \/ hd'[s] = hd[s])
      /\ \A s \in Young : hd'[s] = hd[s]
  <2>1. \A s \in Slots : hd'[s] = IF s \in dead THEN "free" ELSE hd[s]
    BY <1>1
  <2>2. hd' = [s \in Slots |-> hd'[s]]
    BY <1>1
  <2>3. \A s \in Slots : hd'[s] \in Headers
    BY <1>3, <2>1 DEF MTypeOK, Headers
  <2> QED BY <1>4, <2>1, <2>2, <2>3, SlotFacts
<1>9. MTypeOK'
  <2>1. pc' \in {"mutator", "make_vect"}
    BY <1>2
  <2> QED BY <1>2, <1>3, <1>6, <1>8, <2>1 DEF MTypeOK, genroots
<1>10. TablesInv'
  BY <1>2, <1>3 DEF TablesInv, TableFits
<1>11. HeapInv'
  <2>1. \A s \in Slots : Allocated(s)' => Allocated(s)
    BY <1>8 DEF Allocated
  <2>2. Cardinality(InUse') <= NO /\ (caller' # <<"none">> => Cardinality(InUse') < NO)
    BY <1>2, <1>3, <2>1, FewerInUse
  <2>3. \A s \in Old : hd'[s] # "fwd"
    BY <1>3, <1>8, SlotFacts DEF HeapInv
  <2>4. \A s \in Young : /\ hd'[s] # "Weak"
                         /\ hd'[s] = "fwd" => mem'[<<s, 1>>] \in Old
                         /\ hd'[s] = "Double" => mem'[<<s, 1>>] = Null /\ mem'[<<s, 2>>] = Null
    BY <1>3, <1>7, <1>8, WordFacts DEF HeapInv
  <2> QED BY <2>2, <2>3, <2>4 DEF HeapInv
<1>12. ControlInv'
  <2>1. caller \in Callers
    BY <1>3 DEF MTypeOK
  <2>2. caller[1] # "make_vect" => caller = <<"none">>
    BY <2>1 DEF Callers
  <2>3. caller[1] = "make_vect" => caller # <<"none">>
    <3>1. <<"none">>[1] = "none"
      OBVIOUS
    <3> QED BY <3>1
  <2> QED BY <1>2, <1>3, <2>2, <2>3 DEF ControlInv
<1>13. \A w \in LocalRoots \cup registered' : ~Is_young(mem'[w])
  <2>1. LocalRoots \cup registered \subseteq Words
    BY <1>3, WordFacts DEF MTypeOK
  <2> QED BY <1>2, <1>3, <1>5, <1>6, <2>1 DEF genroots
<1>14. \A g \in registered' : Is_in_heap(mem'[g]) => g \in roots_young' \cup roots_old'
  <2>1. registered \subseteq Words /\ ~Is_in_heap(Null)
    BY <1>3, WordFacts, SlotFacts DEF MTypeOK, Is_in_heap
  <2> QED BY <1>2, <1>3, <1>5, <2>1 DEF genroots
<1>15. \A s \in Old, i \in Fields : ~Is_young(mem'[<<s, i>>])
  BY <1>3, <1>5, <1>6, SlotFacts, WordFacts
<1>16. pc' \in Idle
  BY <1>2 DEF Idle
<1> QED BY <1>2, <1>3, <1>9, <1>10, <1>11, <1>12, <1>13, <1>14, <1>15, <1>16, IdleKeeps

LEMMA FillVectKeeps ==
  ASSUME MInv, FillVect
  PROVE  MInv'
<1> DEFINE l == caller[2]
           a == mem[caller[3]]
<1>1. /\ pc = "make_vect" /\ pc' = "mutator" /\ Place(l, FreeOld, "Block", <<a, a>>) /\ caller' = <<"none">>
      /\ UNCHANGED <<young_ptr, tables, genroots, work, call, oldify_todo_list>>
  BY DEF FillVect
<1>2. /\ MTypeOK /\ TablesInv /\ HeapInv /\ ControlInv
      /\ Entries(ref_table) = {} /\ Entries(weak_ref_table) = {}
      /\ \A w \in LocalRoots \cup registered : ~Is_young(mem[w])
      /\ \A g \in registered : Is_in_heap(mem[g]) => g \in roots_young \cup roots_old
      /\ \A s \in Old, i \in Fields : ~Is_young(mem[<<s, i>>])
  BY <1>1, EmptiedFacts
<1>3. caller \in {"make_vect"} \X LocalRoots \X LocalRoots /\ caller # <<"none">>
  BY <1>1, <1>2 DEF ControlInv, MTypeOK, Callers
<1>4. l \in LocalRoots /\ caller[3] \in LocalRoots
  BY <1>3
<1>5. a \in Vals /\ ~Is_young(a)
  BY <1>2, <1>4, WordFacts DEF MTypeOK
<1>6. Cardinality(InUse) < NO
  BY <1>2, <1>3 DEF HeapInv
<1>7. work' = <<>> /\ call' = <<>> /\ oldify_todo_list' = Null /\ UNCHANGED <<young_ptr, tables, genroots>>
  BY <1>1, <1>2 DEF ControlInv
<1> HIDE DEF l, a
<1>8. "Block" \in {"Block", "Weak"}
  OBVIOUS
<1> QED BY <1>1, <1>2, <1>4, <1>5, <1>6, <1>7, <1>8, PlainBlockKeeps

-----------------------------------------------------------------------------
(* The invariant holds, and with it YoungPointersKnown.                     *)

LEMMA MInit ==
  ASSUME Init
  PROVE  MInv
<1>1. /\ hd = [s \in Slots |-> "free"] /\ mem = [p \in Words |-> Null] /\ young_ptr = NY + 1
      /\ ref_table = NoTable /\ weak_ref_table = NoTable /\ caml_force_major_slice = FALSE
      /\ registered = {} /\ roots_young = {} /\ roots_old = {}
      /\ pc = "mutator" /\ work = <<>> /\ call = <<>> /\ oldify_todo_list = Null /\ caller = <<"none">>
  BY DEF Init, Words
<1>2. \A p \in Words : ~Is_young(mem[p]) /\ ~Is_in_heap(mem[p])
  BY <1>1, SlotFacts DEF Is_young, Is_in_heap
<1>3. NoTable \in TableType /\ NoTable.entries = <<>> /\ NoTable.size = 0 /\ NoTable.limit = 0
  <2>1. <<>> \in Seq(OldWords)
    OBVIOUS
  <2> QED BY <2>1 DEF NoTable, TableType
<1>4. MTypeOK
  <2>1. young_ptr \in 1 .. NY + 1
    BY <1>1, SlotFacts
  <2>2. hd \in [Slots -> Headers]
    BY <1>1 DEF Headers
  <2>3. mem \in [Words -> Vals]
    BY <1>1 DEF Vals
  <2>4. work \in Seq(WorkItems)
    BY <1>1
  <2>5. caller \in Callers
    BY <1>1 DEF Callers
  <2> QED BY <1>1, <1>3, <2>1, <2>2, <2>3, <2>4, <2>5 DEF MTypeOK, TableType, WorkItems
<1>5. TablesInv
  <2>1. Len(<<>>) = 0
    OBVIOUS
  <2> QED BY <1>1, <1>3, <2>1 DEF TablesInv, TableFits
<1>6. HeapInv
  <2>1. \A s \in Slots : hd[s] = "free"
    BY <1>1
  <2>2. InUse = {}
    BY <2>1 DEF InUse, Allocated
  <2>3. Cardinality(InUse) = 0
    BY <2>2, FS_EmptySet
  <2> QED BY <1>1, <2>1, <2>3, SlotFacts DEF HeapInv
<1>7. ControlInv
  BY <1>1 DEF ControlInv
<1>8. Pending = {}
  <2>1. Len(<<>>) = 0 /\ 1 .. 0 = {}
    OBVIOUS
  <2> QED BY <1>1, <2>1 DEF Pending
<1>9. Entries(ref_table) = {} /\ Entries(weak_ref_table) = {}
  <2>1. Len(<<>>) = 0 /\ 1 .. 0 = {}
    OBVIOUS
  <2> QED BY <1>1, <1>3, <2>1 DEF Entries
<1>10. WordsInv
  BY <1>8, <1>9 DEF WordsInv
<1>11. RootsInv
  BY <1>1 DEF RootsInv
<1>12. TodoInv(Seq(Young))
  <2>1. <<>> \in Seq(Young) /\ Len(<<>>) = 0
    OBVIOUS
  <2>2. Linked(<<>>)
    BY <1>1, <2>1 DEF Linked
  <2>3. Covered(<<>>)
    BY <1>2, SlotFacts, WordFacts DEF Covered
  <2> QED BY <2>1, <2>2, <2>3 DEF TodoInv
<1> QED BY <1>4, <1>5, <1>6, <1>7, <1>10, <1>11, <1>12 DEF MInv

LEMMA ProgramKeeps ==
  ASSUME MInv, Program
  PROVE  MInv'
<1>1. ASSUME NEW l \in LocalRoots, NEW t \in Tags, NEW a \in Values, NEW b \in Values, Alloc_small(l, t, a, b)
      PROVE  MInv'
  BY <1>1, AllocKeeps
<1>2. ASSUME NEW l \in LocalRoots, NEW a \in Values, NEW b \in Values, MakeBlock(l, a, b)
      PROVE  MInv'
  BY <1>2, MakeBlockKeeps
<1>3. ASSUME NEW l \in LocalRoots, NEW k \in LocalRoots, caml_make_vect(l, k)
      PROVE  MInv'
  <2>1. CASE ~Is_young(mem[k])
    BY <1>3, <2>1, PlainKeeps
  <2>2. CASE Is_young(mem[k])
    <3> DEFINE c == <<"make_vect", l, k>>
    <3>1. caml_empty_minor_heap(c) /\ Cardinality(InUse) < NO
      BY <1>3, <2>2 DEF caml_make_vect, Room, InUse
    <3>2. c \in Callers
      BY DEF Callers
    <3> HIDE DEF c
    <3> QED BY <3>1, <3>2, StartKeeps
  <2> QED BY <2>1, <2>2
<1>4. ASSUME NEW l \in LocalRoots,
             Drop(l) \/ (\E s \in Held \ {Null}, i \in Fields : Load(l, s, i)) \/ caml_weak_create(l)
      PROVE  MInv'
  BY <1>4, LoadKeeps, PlainKeeps
<1>5. ASSUME NEW s \in Held \ {Null}, NEW v \in Values, (\E i \in Fields : caml_modify(s, i, v)) \/ caml_weak_set(s, v)
      PROVE  MInv'
  BY <1>5, ModifyKeeps, WeakSetKeeps
<1>6. ASSUME NEW g \in GenRoots,
             \/ caml_remove_generational_global_root(g)
             \/ \E v \in Values : \/ caml_register_generational_global_root(g, v)
                                  \/ caml_modify_generational_global_root(g, v)
      PROVE  MInv'
  BY <1>6, GlobalRootKeeps
<1> QED BY <1>1, <1>2, <1>3, <1>4, <1>5, <1>6 DEF Program

LEMMA CollectorKeeps ==
  ASSUME MInv, Collector
  PROVE  MInv'
<1>1. CASE caml_empty_minor_heap(<<"none">>)
  <2> DEFINE c == <<"none">>
  <2>1. c \in Callers /\ c = <<"none">> /\ caml_empty_minor_heap(c)
    BY <1>1 DEF Callers
  <2> QED BY <2>1, StartKeeps
<1>2. CASE NextWord
  BY <1>2, NextWordKeeps
<1>3. CASE OldifyDone
  BY <1>3, DoneKeeps
<1>4. CASE OldifyLarge
  BY <1>4, LargeKeeps
<1>5. CASE OldifySmall \/ OldifyNoScan
  BY <1>5, SmallKeeps
<1>6. CASE OldifyForward
  BY <1>6, ForwardKeeps
<1>7. CASE RootsDone
  BY <1>7, RootsDoneKeeps
<1>8. CASE caml_oldify_mopup
  BY <1>8, MopupKeeps
<1>9. CASE EmptyMinorHeap
  BY <1>9, EmptyKeeps
<1>10. CASE Emptied
  BY <1>10, EmptiedKeeps
<1>11. CASE Slice
  BY <1>11, SliceKeeps
<1>12. CASE FillVect
  BY <1>12, FillVectKeeps
<1> QED BY <1>1, <1>2, <1>3, <1>4, <1>5, <1>6, <1>7, <1>8, <1>9, <1>10, <1>11, <1>12 DEF Collector

LEMMA StutterKeeps ==
  ASSUME MInv, UNCHANGED vars
  PROVE  MInv'
<1>1. UNCHANGED <<hd, mem, young_ptr, ref_table, weak_ref_table, caml_force_major_slice, registered, roots_young,
                  roots_old, pc, work, call, oldify_todo_list, caller>>
  BY DEF vars, heap, tables, genroots, collector
<1>2. MTypeOK' /\ TablesInv' /\ ControlInv'
  BY <1>1 DEF MInv, MTypeOK, TablesInv, TableFits, ControlInv
<1>3. Pending' = Pending /\ Entries(ref_table)' = Entries(ref_table) /\ Entries(weak_ref_table)' = Entries(weak_ref_table)
  BY <1>1 DEF Pending
<1>4. HeapInv' /\ WordsInv' /\ RootsInv'
  BY <1>1, <1>3 DEF MInv, HeapInv, InUse, Allocated, WordsInv, RootsInv
<1>5. PICK q \in Seq(Young) : Linked(q) /\ Covered(q)
  BY DEF MInv, TodoInv
<1>6. Linked(q)' /\ Covered(q)'
  <2>1. \A i \in 1 .. Len(q) :
          /\ hd'[q[i]] = "fwd" /\ mem'[<<q[i], 1>>] = Copy(q[i]) /\ hd'[Copy(q[i])] \notin {"free", "fwd"}
          /\ mem'[<<Copy(q[i]), 2>>] = mem[<<Copy(q[i]), 2>>]
          /\ \A j \in Fields : <<Copy(q[i]), j>> \notin Pending' \cup Entries(ref_table)'
    BY <1>1, <1>3, <1>5 DEF Linked, Copy, Allocated
  <2>2. Linked(q)'
    BY <1>1, <1>5, <2>1, LinkedFrame
  <2>3. Covered(q)'
    BY <1>1, <1>3, <1>5 DEF Covered, Copy, Known
  <2> QED BY <2>2, <2>3
<1> QED BY <1>2, <1>4, <1>5, <1>6 DEF MInv, TodoInv

LEMMA MInvKnown ==
  ASSUME MInv
  PROVE  YoungPointersKnown
<1>1. MTypeOK /\ TablesInv
  BY DEF MInv
<1>2. ASSUME NEW t \in TableType, TableFits(t) PROVE TableSound(t)
  <2>1. t.entries \in Seq(OldWords)
    BY DEF TableType
  <2>2. \A i \in 1 .. Len(t.entries) : t.entries[i] \in OldWords
    BY <2>1, ElementOfSeq
  <2>3. Entries(t) \subseteq Old \X Fields
    BY <2>2 DEF Entries, OldWords
  <2> QED BY <1>2, <2>3 DEF TableFits, TableSound
<1>3. TableSound(ref_table) /\ TableSound(weak_ref_table)
  BY <1>1, <1>2 DEF MTypeOK, TablesInv, TableType
<1>4. ASSUME pc = "mutator"
      PROVE  /\ \A s \in Old, i \in Fields : Is_young(mem[<<s, i>>]) => Known(s, i)
             /\ \A g \in registered : /\ Is_young(mem[g]) => g \in roots_young
                                      /\ Is_in_heap(mem[g]) => g \in roots_young \cup roots_old
  BY <1>4, MutatorFacts
<1> QED BY <1>3, <1>4 DEF YoungPointersKnown, Known

\* While the program runs, whatever it and the collector did before, every word outside
\* the minor heap that refers into it is known to the next minor collection: Modify,
\* caml_initialize, do_set and caml_make_vect have put it in a reference table, and
\* caml_register_generational_global_root and caml_modify_generational_global_root in
\* the list of young roots.  No table is overfull, and one that uses its reserve has
\* asked for a collection.  For heaps, tables and sets of roots of any size.
THEOREM YoungPointersStayKnown == Spec => []YoungPointersKnown
<1>1. Init => MInv
  BY MInit
<1>2. MInv /\ [Next]_vars => MInv'
  BY ProgramKeeps, CollectorKeeps, StutterKeeps DEF Next
<1>3. MInv => YoungPointersKnown
  BY MInvKnown
<1> QED BY <1>1, <1>2, <1>3, PTL DEF Spec

-----------------------------------------------------------------------------
(* No pointer leads to a block that is gone.                                *)

\* A block with the header t has a field i that can hold a pointer.
Has(t, i) == t \notin {"free", "Double"} /\ (i = 2 => t = "Block")

\* No word leads to a free block, but for C variables that are no longer registered.
SafeWords == \A w \in Words \ (GenRoots \ registered) : mem[w] # Null => hd[mem[w]] # "free"

\* Pointers are in fields that the collectors look at.
SafeFields == \A s \in Slots, i \in Fields : hd[s] # "fwd" /\ mem[<<s, i>>] # Null => Has(hd[s], i)

\* The second field of a promoted block is still to be moved to a copy that has one.
SafeCopies == \A s \in Young : hd[s] = "fwd" /\ mem[<<s, 2>>] # Null => hd[Copy(s)] = "Block"

\* The loops read the word they store into, or a field of the original of a copy.
SafeWork ==
  \A n \in 1 .. Len(work) :
    \/ work[n].from = work[n].to
    \/ \E v \in Young : hd[v] = "fwd" /\ work[n].from = <<v, 2>> /\ work[n].to = <<Copy(v), 2>>

SafeCall ==
  call # <<>> =>
    /\ call[1] # Null => \A s \in Slots, i \in Fields : call[2] = <<s, i>> => Has(hd[s], i)
    /\ \/ call[1] # Null => hd[call[1]] # "free"
       \/ call[2] \in GenRoots \ registered /\ ~Is_young(call[1])

\* A removed root that is left in the list of young roots does not hold a young value,
\* and the list is empty after the roots are scanned.
StaleRoots ==
  /\ \A g \in roots_young \ registered : ~Is_young(mem[g])
  /\ pc \notin {"mutator", "roots"} => roots_young = {}

\* Forward pointers exist during a collection only, which leaves the minor heap empty.
SafeHeaders ==
  /\ pc \in Idle => \A s \in Slots : hd[s] # "fwd"
  /\ pc \in {"emptied", "make_vect"} => \A s \in Young : hd[s] = "free"

SafeInv == SafeWords /\ SafeFields /\ SafeCopies /\ SafeWork /\ SafeCall /\ StaleRoots /\ SafeHeaders

\* Between collections only the words, the fields and the lists of roots are at stake.
LEMMA IdleSafe ==
  ASSUME MInv', pc' \in Idle, SafeWords', SafeFields', StaleRoots', SafeHeaders'
  PROVE  SafeInv'
<1>1. work' = <<>> /\ call' = <<>>
  BY DEF MInv, ControlInv, Idle
<1>2. SafeWork'
  <2>1. Len(<<>>) = 0 /\ 1 .. 0 = {}
    OBVIOUS
  <2> QED BY <1>1, <2>1 DEF SafeWork
<1>3. SafeCall'
  BY <1>1 DEF SafeCall
<1>4. SafeCopies'
  BY SlotFacts DEF SafeCopies, SafeHeaders
<1> QED BY <1>2, <1>3, <1>4 DEF SafeInv

\* What the program has in hand is no free block.
LEMMA ValuesSafe ==
  ASSUME MInv, SafeWords
  PROVE  /\ \A v \in Values : v \in Vals /\ (v # Null => hd[v] # "free")
         /\ \A s \in Held \ {Null} : s \in Slots /\ hd[s] # "free"
<1>1. mem \in [Words -> Vals] /\ registered \subseteq GenRoots
  BY DEF MInv, MTypeOK
<1>2. \A w \in LocalRoots \cup registered : w \in Words \ (GenRoots \ registered)
  BY <1>1, WordFacts
<1>3. \A v \in Held : v \in Vals /\ (v # Null => hd[v] # "free")
  BY <1>1, <1>2 DEF Held, SafeWords
<1>4. \A s \in Held \ {Null} : s \in Slots
  BY <1>3 DEF Vals
<1> QED BY <1>3, <1>4, WordFacts DEF Values, Vals

\* A new block with its fields.
LEMMA PlaceSafe ==
  ASSUME MInv, SafeInv, pc \in Idle, NEW l \in LocalRoots, NEW s \in Slots, NEW t \in Headers \ {"free", "fwd"},
         NEW a \in Vals, NEW b \in Vals, Place(l, s, t, <<a, b>>), UNCHANGED <<registered, roots_young>>,
         a # Null => hd[a] # "free" /\ t # "Double", b # Null => hd[b] # "free" /\ t = "Block"
  PROVE  /\ SafeWords' /\ SafeFields' /\ (\A x \in Slots : hd'[x] # "fwd")
         /\ \A g \in roots_young' \ registered' : ~Is_young(mem'[g])
<1>1. MTypeOK /\ registered \subseteq GenRoots /\ roots_young \subseteq GenRoots
  BY DEF MInv, MTypeOK
<1>2. /\ hd' \in [Slots -> Headers] /\ mem' \in [Words -> Vals]
      /\ hd'[s] = t /\ (\A x \in Slots \ {s} : hd'[x] = hd[x])
      /\ mem'[l] = s /\ mem'[<<s, 1>>] = a /\ mem'[<<s, 2>>] = b
      /\ \A w \in Words \ {l, <<s, 1>>, <<s, 2>>} : mem'[w] = mem[w]
  BY <1>1, PlaceFacts
<1>3. mem \in [Words -> Vals] /\ l \in Words /\ <<s, 1>> \in Words /\ <<s, 2>> \in Words
  BY <1>1, WordFacts DEF MTypeOK
<1>4. \A v \in Vals : v # Null /\ hd[v] # "free" => hd'[v] # "free"
  BY <1>2 DEF Vals
<1>5. SafeWords'
  <2> SUFFICES ASSUME NEW w \in Words, w \notin GenRoots \ registered, mem'[w] # Null
               PROVE  hd'[mem'[w]] # "free"
    BY DEF SafeWords
  <2>1. CASE w = l
    BY <1>2, <2>1
  <2>2. CASE w = <<s, 1>>
    BY <1>2, <1>4, <2>2
  <2>3. CASE w = <<s, 2>>
    BY <1>2, <1>4, <2>3
  <2>4. CASE w \notin {l, <<s, 1>>, <<s, 2>>}
    <3>1. mem'[w] = mem[w] /\ mem[w] \in Vals
      BY <1>2, <1>3, <2>4
    <3>2. hd[mem[w]] # "free"
      BY <3>1 DEF SafeInv, SafeWords
    <3> QED BY <1>4, <3>1, <3>2
  <2> QED BY <2>1, <2>2, <2>3, <2>4
<1>6. SafeFields'
  <2> SUFFICES ASSUME NEW x \in Slots, NEW i \in Fields, hd'[x] # "fwd", mem'[<<x, i>>] # Null
               PROVE  Has(hd'[x], i)
    BY DEF SafeFields
  <2>1. CASE x = s
    <3>1. i = 1 \/ i = 2
      BY DEF Fields
    <3> QED BY <1>2, <2>1, <3>1 DEF Has
  <2>2. CASE x # s
    <3> DEFINE p == <<x, i>>
    <3>1. p \in Words /\ p # l /\ p # <<s, 1>> /\ p # <<s, 2>>
      BY <2>2, WordFacts
    <3> HIDE DEF p
    <3>2. mem'[p] = mem[p]
      BY <1>2, <3>1
    <3>3. mem'[<<x, i>>] = mem[<<x, i>>] /\ hd'[x] = hd[x]
      BY <1>2, <2>2, <3>2 DEF p
    <3> QED BY <3>3 DEF SafeInv, SafeFields
  <2> QED BY <2>1, <2>2
<1>7. \A x \in Slots : hd'[x] # "fwd"
  BY <1>2 DEF SafeInv, SafeHeaders
<1>8. \A g \in roots_young' \ registered' : ~Is_young(mem'[g])
  <2> SUFFICES ASSUME NEW g \in roots_young \ registered PROVE ~Is_young(mem'[g])
    OBVIOUS
  <2>1. g \in Words /\ g \notin {l, <<s, 1>>, <<s, 2>>}
    BY <1>1, WordFacts
  <2> QED BY <1>2, <2>1 DEF SafeInv, StaleRoots
<1> QED BY <1>5, <1>6, <1>7, <1>8

\* A store into one word.
LEMMA StoreSafe ==
  ASSUME MInv, SafeInv, pc = "mutator", NEW c \in Words, NEW v \in Vals, mem' = [mem EXCEPT ![c] = v], hd' = hd,
         registered \cup (GenRoots \cap {c}) = registered' \cup (GenRoots \cap {c}),
         v # Null => hd[v] # "free" /\ \A s \in Slots, i \in Fields : c = <<s, i>> => Has(hd[s], i)
  PROVE  /\ SafeWords' /\ SafeFields' /\ (\A x \in Slots : hd'[x] # "fwd")
         /\ mem'[c] = v /\ \A w \in Words \ {c} : mem'[w] = mem[w]
<1>1. mem \in [Words -> Vals]
  BY DEF MInv, MTypeOK
<1>2. mem'[c] = v /\ \A w \in Words \ {c} : mem'[w] = mem[w]
  <2> HIDE DEF Words, Vals
  <2> QED BY <1>1
<1>3. SafeWords'
  <2> SUFFICES ASSUME NEW w \in Words, w \notin GenRoots \ registered', mem'[w] # Null
               PROVE  hd[mem'[w]] # "free"
    BY DEF SafeWords
  <2>1. CASE w = c
    BY <1>2, <2>1
  <2>2. CASE w # c
    <3>1. w \notin GenRoots \ registered /\ mem'[w] = mem[w]
      BY <1>2, <2>2
    <3> QED BY <3>1 DEF SafeInv, SafeWords
  <2> QED BY <2>1, <2>2
<1>4. SafeFields'
  <2> SUFFICES ASSUME NEW x \in Slots, NEW i \in Fields, hd[x] # "fwd", mem'[<<x, i>>] # Null
               PROVE  Has(hd[x], i)
    BY DEF SafeFields
  <2>1. CASE c = <<x, i>>
    BY <1>2, <2>1
  <2>2. CASE c # <<x, i>>
    <3> DEFINE p == <<x, i>>
    <3>1. p \in Words /\ p # c
      BY <2>2, WordFacts
    <3> HIDE DEF p
    <3>2. mem'[p] = mem[p]
      BY <1>2, <3>1
    <3> QED BY <3>2 DEF p, SafeInv, SafeFields
  <2> QED BY <2>1, <2>2
<1>5. \A x \in Slots : hd'[x] # "fwd"
  BY DEF SafeInv, SafeHeaders, Idle
<1> QED BY <1>2, <1>3, <1>4, <1>5

\* The words of a loop over roots or over a table are oldified in place.
LEMMA InPlaceSame ==
  ASSUME NEW ps, InPlace(ps) \in Seq(WorkItems)
  PROVE  \A i \in 1 .. Len(InPlace(ps)) : InPlace(ps)[i].from = InPlace(ps)[i].to
<1> DEFINE f == InPlace(ps)
<1>1. DOMAIN f = 1 .. Len(ps) /\ \A i \in 1 .. Len(ps) : f[i].from = f[i].to
  BY DEF InPlace
<1> HIDE DEF f
<1>2. DOMAIN f = 1 .. Len(f)
  BY DEF f
<1> QED BY <1>1, <1>2 DEF f

\* Neither the heap nor the call changes.
LEMMA LoopSafe ==
  ASSUME SafeInv, UNCHANGED <<hd, mem, registered, call>>, SafeWork', StaleRoots', pc' \notin Idle
  PROVE  SafeInv'
<1>1. SafeWords' /\ SafeFields' /\ SafeCopies' /\ SafeCall'
  BY DEF SafeInv, SafeWords, SafeFields, SafeCopies, SafeCall, Copy
<1>2. SafeHeaders'
  BY DEF SafeHeaders, Idle
<1> QED BY <1>1, <1>2 DEF SafeInv

LEMMA StartSafe ==
  ASSUME MInv, SafeInv, MInv', NEW k, caml_empty_minor_heap(k)
  PROVE  SafeInv'
<1> DEFINE ps == SetToSeq(LocalRoots) \o SetToSeq(roots_young)
<1>1. /\ pc = "mutator" /\ pc' = "roots" /\ work' = InPlace(ps) /\ UNCHANGED <<hd, mem, genroots, call>>
  BY DEF caml_empty_minor_heap, Mutator
<1> HIDE DEF ps
<1>2. InPlace(ps) \in Seq(WorkItems)
  BY <1>1 DEF MInv, MTypeOK, WorkItems
<1>3. \A i \in 1 .. Len(InPlace(ps)) : InPlace(ps)[i].from = InPlace(ps)[i].to
  BY <1>2, InPlaceSame
<1>4. SafeWork'
  BY <1>1, <1>3 DEF SafeWork
<1>5. StaleRoots'
  BY <1>1 DEF SafeInv, StaleRoots, genroots
<1> QED BY <1>1, <1>4, <1>5, LoopSafe DEF genroots, Idle

LEMMA ProgramSafe ==
  ASSUME MInv, SafeInv, Program, MInv'
  PROVE  SafeInv'
<1>1. /\ \A v \in Values : v \in Vals /\ (v # Null => hd[v] # "free")
      /\ \A s \in Held \ {Null} : s \in Slots /\ hd[s] # "free"
  BY ValuesSafe DEF SafeInv
<1>2. ASSUME NEW l \in LocalRoots, NEW s \in Slots, NEW t \in Headers \ {"free", "fwd"},
             NEW a \in Values, NEW b \in Values, pc = "mutator", Place(l, s, t, <<a, b>>),
             UNCHANGED genroots, UNCHANGED collector, t # "Block" => b = Null, t = "Double" => a = Null
      PROVE  SafeInv'
  <2>1. pc \in Idle /\ pc' = "mutator" /\ pc' \in Idle /\ UNCHANGED <<registered, roots_young>>
    BY <1>2 DEF Idle, collector, genroots
  <2>2. /\ a \in Vals /\ b \in Vals /\ (a # Null => hd[a] # "free" /\ t # "Double")
        /\ b # Null => hd[b] # "free" /\ t = "Block"
    BY <1>1, <1>2
  <2>3. /\ SafeWords' /\ SafeFields' /\ (\A x \in Slots : hd'[x] # "fwd")
        /\ \A g \in roots_young' \ registered' : ~Is_young(mem'[g])
    BY <1>2, <2>1, <2>2, PlaceSafe
  <2>4. StaleRoots' /\ SafeHeaders'
    BY <2>1, <2>3 DEF StaleRoots, SafeHeaders
  <2> QED BY <2>1, <2>3, <2>4, IdleSafe
<1>3. pc = "mutator" => MTypeOK /\ HeapInv /\ pc \in Idle
  BY DEF MInv, Idle
<1>4. ASSUME NEW l \in LocalRoots, NEW t \in Tags, NEW a \in Values, NEW b \in Values, Alloc_small(l, t, a, b)
      PROVE  SafeInv'
  <2>1. young_ptr - 1 \in Slots
    BY <1>3, <1>4, SlotFacts DEF Alloc_small, Mutator, MTypeOK, Young
  <2>2. t \in Headers \ {"free", "fwd"}
    BY MinorSizes DEF Headers, AllTags
  <2> QED BY <1>2, <1>4, <2>1, <2>2 DEF Alloc_small, Mutator
<1>5. Null \in Values /\ "Block" \in Headers \ {"free", "fwd"} /\ "Weak" \in Headers \ {"free", "fwd"}
  BY DEF Values, Headers, AllTags
<1>6. pc = "mutator" /\ Room => FreeOld \in Slots
  BY <1>3, FreeSlot, SlotFacts DEF Room, InUse
<1>7. ASSUME NEW l \in LocalRoots, NEW a \in Values, NEW b \in Values, MakeBlock(l, a, b)
      PROVE  SafeInv'
  BY <1>2, <1>5, <1>6, <1>7 DEF MakeBlock, Mutator
<1>8. ASSUME NEW l \in LocalRoots, caml_weak_create(l)
      PROVE  SafeInv'
  BY <1>2, <1>5, <1>6, <1>8 DEF caml_weak_create, Mutator
<1>9. ASSUME NEW l \in LocalRoots, NEW k \in LocalRoots, caml_make_vect(l, k), ~Is_young(mem[k])
      PROVE  SafeInv'
  <2>1. mem[k] \in Values
    BY DEF Values, Held
  <2> QED BY <1>2, <1>5, <1>6, <1>9, <2>1 DEF caml_make_vect, Mutator
<1>10. ASSUME NEW c \in Words, NEW v \in Vals, pc = "mutator", mem' = [mem EXCEPT ![c] = v], hd' = hd, UNCHANGED collector,
              registered \cup (GenRoots \cap {c}) = registered' \cup (GenRoots \cap {c}),
              v # Null => hd[v] # "free" /\ \A s \in Slots, i \in Fields : c = <<s, i>> => Has(hd[s], i),
              \A g \in roots_young' \ registered' : IF g = c THEN ~Is_young(v) ELSE g \in roots_young \ registered
       PROVE  SafeInv'
  <2>1. pc' = "mutator" /\ pc' \in Idle /\ roots_young' \subseteq GenRoots /\ GenRoots \subseteq Words
    BY <1>10, WordFacts DEF Idle, collector, MInv, MTypeOK
  <2>2. /\ SafeWords' /\ SafeFields' /\ (\A x \in Slots : hd'[x] # "fwd")
        /\ mem'[c] = v /\ \A w \in Words \ {c} : mem'[w] = mem[w]
    BY <1>10, StoreSafe
  <2>3. StaleRoots'
    BY <1>10, <2>1, <2>2 DEF StaleRoots, SafeInv
  <2>4. SafeHeaders'
    BY <2>1, <2>2 DEF SafeHeaders
  <2> QED BY <2>1, <2>2, <2>3, <2>4, IdleSafe
<1>11. registered \subseteq GenRoots /\ roots_young \subseteq GenRoots
  BY DEF MInv, MTypeOK
<1>12. ASSUME NEW l \in LocalRoots, NEW v \in Vals, v # Null => hd[v] # "free", pc = "mutator",
              mem' = [mem EXCEPT ![l] = v], hd' = hd, UNCHANGED genroots, UNCHANGED collector
       PROVE  SafeInv'
  <2>1. l \in Words /\ l \notin GenRoots /\ \A s \in Slots, i \in Fields : l # <<s, i>>
    BY WordFacts
  <2>2. \A g \in roots_young' \ registered' : g # l /\ g \in roots_young \ registered
    BY <1>11, <1>12, <2>1 DEF genroots
  <2>3. registered' = registered
    BY <1>12 DEF genroots
  <2> QED BY <1>10, <1>12, <2>1, <2>2, <2>3
<1>13. ASSUME NEW l \in LocalRoots, Drop(l)
       PROVE  SafeInv'
  BY <1>1, <1>5, <1>12, <1>13 DEF Drop, Mutator
<1>14. ASSUME NEW l \in LocalRoots, NEW s \in Held \ {Null}, NEW i \in Fields, Load(l, s, i)
       PROVE  SafeInv'
  <2>1. s \in Slots /\ <<s, i>> \in Words /\ <<s, i>> \notin GenRoots
    BY <1>1, WordFacts
  <2>2. mem[<<s, i>>] \in Vals /\ (mem[<<s, i>>] # Null => hd[mem[<<s, i>>]] # "free")
    BY <2>1 DEF MInv, MTypeOK, SafeInv, SafeWords
  <2> QED BY <1>12, <1>14, <2>2 DEF Load, Mutator
<1>15. ASSUME NEW s \in Slots, NEW i \in Fields, NEW v \in Values, pc = "mutator", Has(hd[s], i),
              mem' = [mem EXCEPT ![<<s, i>>] = v], hd' = hd, UNCHANGED genroots, UNCHANGED collector
       PROVE  SafeInv'
  <2> DEFINE c == <<s, i>>
  <2>1. /\ c \in Words /\ c \notin GenRoots /\ (\A x \in Slots, k \in Fields : c = <<x, k>> => Has(hd[x], k))
        /\ mem' = [mem EXCEPT ![c] = v]
    BY <1>15, WordFacts
  <2> HIDE DEF c
  <2>2. \A g \in roots_young' \ registered' : g # c /\ g \in roots_young \ registered
    BY <1>11, <1>15, <2>1 DEF genroots
  <2>3. registered' = registered
    BY <1>15 DEF genroots
  <2> QED BY <1>1, <1>10, <1>15, <2>1, <2>2, <2>3
<1>16. ASSUME NEW s \in Held \ {Null}, NEW v \in Values, NEW i \in Fields, caml_modify(s, i, v)
       PROVE  SafeInv'
  <2>1. /\ pc = "mutator" /\ hd[s] \in {"Block", "Box"} /\ i <= Wosize(hd[s]) /\ mem' = [mem EXCEPT ![<<s, i>>] = v]
        /\ hd' = hd /\ UNCHANGED genroots /\ UNCHANGED collector
    BY <1>16 DEF caml_modify, Mutator
  <2>2. Has(hd[s], i)
    BY <2>1 DEF Has, Wosize
  <2> QED BY <1>1, <1>15, <2>1, <2>2
<1>17. ASSUME NEW s \in Held \ {Null}, NEW v \in Values, caml_weak_set(s, v)
       PROVE  SafeInv'
  <2>1. /\ pc = "mutator" /\ hd[s] = "Weak" /\ mem' = [mem EXCEPT ![<<s, 1>>] = v]
        /\ hd' = hd /\ UNCHANGED genroots /\ UNCHANGED collector
    BY <1>17 DEF caml_weak_set, Mutator
  <2>2. Has(hd[s], 1) /\ 1 \in Fields
    BY <2>1 DEF Has, Fields
  <2> QED BY <1>1, <1>15, <2>1, <2>2
<1>18. ASSUME NEW g \in GenRoots, NEW v \in Values,
              \/ caml_register_generational_global_root(g, v)
              \/ caml_modify_generational_global_root(g, v)
       PROVE  SafeInv'
  <2>1. g \in Words /\ \A s \in Slots, i \in Fields : g # <<s, i>>
    BY WordFacts
  <2>2. /\ pc = "mutator" /\ mem' = [mem EXCEPT ![g] = v] /\ hd' = hd /\ UNCHANGED collector
        /\ registered' = registered \cup {g} /\ roots_young' \subseteq roots_young \cup {g}
    BY <1>18 DEF caml_register_generational_global_root, caml_modify_generational_global_root, Mutator
  <2>3. registered \cup (GenRoots \cap {g}) = registered' \cup (GenRoots \cap {g})
    BY <2>2
  <2>4. \A r \in roots_young' \ registered' : IF r = g THEN ~Is_young(v) ELSE r \in roots_young \ registered
    BY <2>2
  <2>5. v \in Vals /\ (v # Null => hd[v] # "free" /\ \A s \in Slots, i \in Fields : g = <<s, i>> => Has(hd[s], i))
    BY <1>1, <2>1
  <2> QED BY <1>10, <2>1, <2>2, <2>3, <2>4, <2>5
<1>19. ASSUME NEW g \in GenRoots, caml_remove_generational_global_root(g)
       PROVE  SafeInv'
  <2>1. /\ pc = "mutator" /\ mem' = mem /\ hd' = hd /\ UNCHANGED collector /\ registered' = registered \ {g}
        /\ roots_young' = IF Is_young(mem[g]) THEN roots_young \ {g} ELSE roots_young
    BY <1>19 DEF caml_remove_generational_global_root, Mutator, heap
  <2>2. pc' = "mutator" /\ pc' \in Idle
    BY <2>1 DEF Idle, collector
  <2>3. SafeWords' /\ SafeFields'
    BY <2>1 DEF SafeInv, SafeWords, SafeFields
  <2>4. StaleRoots' /\ SafeHeaders'
    BY <2>1, <2>2 DEF SafeInv, StaleRoots, SafeHeaders, Idle
  <2> QED BY <2>2, <2>3, <2>4, IdleSafe
<1>20. ASSUME NEW k, caml_empty_minor_heap(k)
       PROVE  SafeInv'
  BY <1>20, StartSafe
<1> QED
  <2>1. ASSUME NEW l \in LocalRoots, NEW k \in LocalRoots, caml_make_vect(l, k) PROVE SafeInv'
    BY <1>9, <1>20, <2>1 DEF caml_make_vect
  <2> QED BY <1>4, <1>7, <1>8, <1>13, <1>14, <1>16, <1>17, <1>18, <1>19, <2>1 DEF Program

\* The loops of a collection call caml_oldify_one with what is safe to store.
LEMMA NextWordSafe ==
  ASSUME MInv, SafeInv, NextWord
  PROVE  SafeInv'
<1>1. /\ Collecting /\ call = <<>> /\ work # <<>> /\ work' = Tail(work)
      /\ call' = <<mem[Head(work).from], Head(work).to>>
      /\ UNCHANGED <<hd, mem, genroots, pc>>
  BY DEF NextWord, heap
<1>2. work \in Seq(WorkItems) /\ mem \in [Words -> Vals] /\ roots_young \subseteq GenRoots
  BY DEF MInv, MTypeOK, WorkItems
<1>3. /\ Len(work) \in Nat /\ Len(work) # 0 /\ Head(work) = work[1] /\ Head(work) \in WorkItems
      /\ Len(Tail(work)) = Len(work) - 1
      /\ \A i \in 1 .. Len(Tail(work)) : Tail(work)[i] = work[i + 1]
  BY <1>1, <1>2, HeadTailProperties, EmptySeq
<1> DEFINE f == Head(work).from
           c == Head(work).to
<1>4. f \in Words /\ c \in Words /\ call'[1] = mem[f] /\ call'[2] = c /\ mem[f] \in Vals
  BY <1>1, <1>2, <1>3 DEF WorkItems
<1>5. c \in Pending /\ (f = c \/ \E v \in Young : hd[v] = "fwd" /\ f = <<v, 2>> /\ c = <<Copy(v), 2>>)
  <2>1. 1 \in 1 .. Len(work)
    BY <1>3
  <2> QED BY <1>3, <2>1 DEF Pending, SafeInv, SafeWork
<1> HIDE DEF f, c
<1>6. SafeCall'
  <2> SUFFICES /\ mem[f] # Null => \A s \in Slots, i \in Fields : c = <<s, i>> => Has(hd[s], i)
               /\ \/ mem[f] # Null => hd[mem[f]] # "free"
                  \/ c \in GenRoots \ registered /\ ~Is_young(mem[f])
    BY <1>1, <1>4 DEF SafeCall, genroots
  <2>1. CASE f = c
    <3>1. ASSUME NEW s \in Slots, NEW i \in Fields, c = <<s, i>>, mem[f] # Null PROVE Has(hd[s], i)
      <4>1. c \notin LocalRoots /\ c \notin GenRoots
        BY <3>1, WordFacts
      <4>2. s \in Old
        BY <1>2, <1>5, <3>1, <4>1, WordFacts DEF MInv, WordsInv
      <4>3. hd[s] # "fwd"
        BY <4>2 DEF MInv, HeapInv
      <4> QED BY <2>1, <3>1, <4>3 DEF SafeInv, SafeFields
    <3>2. CASE c \notin GenRoots \ registered
      BY <1>4, <2>1, <3>1, <3>2 DEF SafeInv, SafeWords
    <3>3. CASE c \in GenRoots \ registered
      <4>1. c \notin LocalRoots /\ c \notin OldWords
        BY <3>3, WordFacts, RootWords
      <4>2. c \in roots_young
        BY <1>5, <4>1 DEF MInv, WordsInv
      <4> QED BY <2>1, <3>1, <3>3, <4>2 DEF SafeInv, StaleRoots
    <3> QED BY <3>2, <3>3
  <2>2. ASSUME NEW v \in Young, hd[v] = "fwd", f = <<v, 2>>, c = <<Copy(v), 2>>
        PROVE  /\ mem[f] # Null => \A s \in Slots, i \in Fields : c = <<s, i>> => Has(hd[s], i)
               /\ mem[f] # Null => hd[mem[f]] # "free"
    <3>1. f \notin GenRoots
      BY <2>2, SlotFacts, WordFacts
    <3>2. mem[f] # Null => hd[Copy(v)] = "Block"
      BY <2>2 DEF SafeInv, SafeCopies
    <3>3. mem[f] # Null => hd[mem[f]] # "free"
      BY <1>4, <3>1 DEF SafeInv, SafeWords
    <3> QED BY <2>2, <3>2, <3>3 DEF Has
  <2> QED BY <1>5, <2>1, <2>2
<1>7. SafeWork'
  <2> SUFFICES ASSUME NEW n \in 1 .. Len(Tail(work))
               PROVE  \/ Tail(work)[n].from = Tail(work)[n].to
                      \/ \E v \in Young : /\ hd[v] = "fwd" /\ Tail(work)[n].from = <<v, 2>>
                                          /\ Tail(work)[n].to = <<Copy(v), 2>>
    BY <1>1 DEF SafeWork, Copy
  <2>1. n + 1 \in 1 .. Len(work) /\ Tail(work)[n] = work[n + 1]
    BY <1>3
  <2> QED BY <2>1 DEF SafeInv, SafeWork
<1>8. SafeWords' /\ SafeFields' /\ SafeCopies' /\ StaleRoots' /\ SafeHeaders'
  BY <1>1 DEF SafeInv, SafeWords, SafeFields, SafeCopies, StaleRoots, SafeHeaders, Copy, genroots
<1> QED BY <1>6, <1>7, <1>8 DEF SafeInv

LEMMA ForwardSafe ==
  ASSUME MInv, SafeInv, OldifyForward
  PROVE  SafeInv'
<1> DEFINE v == call[1]
           c == call[2]
<1>1. /\ Collecting /\ call # <<>> /\ v \in Young /\ call' = <<mem[<<v, 1>>], c>>
      /\ UNCHANGED <<hd, mem, genroots, pc, work>>
  BY DEF OldifyForward, heap, Is_young
<1>2. v \in Slots /\ v # Null /\ <<v, 1>> \in Words /\ <<v, 1>> \notin GenRoots
  BY <1>1, SlotFacts, WordFacts
<1>3. mem[<<v, 1>>] # Null => hd[mem[<<v, 1>>]] # "free"
  BY <1>2 DEF SafeInv, SafeWords
<1>4. \A s \in Slots, i \in Fields : c = <<s, i>> => Has(hd[s], i)
  BY <1>1, <1>2 DEF SafeInv, SafeCall
<1> HIDE DEF v, c
<1>5. call'[1] = mem[<<v, 1>>] /\ call'[2] = c
  BY <1>1
<1>6. SafeCall'
  BY <1>1, <1>3, <1>4, <1>5 DEF SafeCall
<1>7. SafeWords' /\ SafeFields' /\ SafeCopies' /\ SafeWork' /\ StaleRoots' /\ SafeHeaders'
  BY <1>1 DEF SafeInv, SafeWords, SafeFields, SafeCopies, SafeWork, StaleRoots, SafeHeaders, Copy, genroots
<1> QED BY <1>6, <1>7 DEF SafeInv

LEMMA DoneSafe ==
  ASSUME MInv, SafeInv, OldifyDone
  PROVE  SafeInv'
<1> DEFINE v == call[1]
           c == call[2]
           x == IF Is_young(v) THEN mem[<<v, 1>>] ELSE v
<1>1. /\ Collecting /\ call # <<>> /\ (Is_young(v) => hd[v] = "fwd") /\ mem' = [mem EXCEPT ![c] = x] /\ call' = <<>>
      /\ UNCHANGED <<hd, genroots, pc, work>>
  BY DEF OldifyDone, Return
<1>2. MTypeOK /\ HeapInv
  BY DEF MInv
<1>3. v \in Vals /\ c \in Words /\ \A s \in Young, i \in Fields : c # <<s, i>>
  BY <1>1, CallFacts
<1>4. x \in Vals /\ ~Is_young(x) /\ (Is_young(v) => x \in Old)
  BY <1>1, <1>2, <1>3, SlotFacts DEF HeapInv, Is_young, Vals
<1>5. (x # Null => hd[x] # "free") \/ c \in GenRoots \ registered
  <2>1. CASE Is_young(v)
    <3>1. <<v, 1>> \in Words \ GenRoots
      BY <2>1, SlotFacts, WordFacts DEF Is_young
    <3> QED BY <2>1, <3>1 DEF SafeInv, SafeWords
  <2>2. CASE ~Is_young(v)
    BY <1>1, <2>2 DEF SafeInv, SafeCall
  <2> QED BY <2>1, <2>2
<1>6. x # Null => \A s \in Slots, i \in Fields : c = <<s, i>> => Has(hd[s], i)
  <2>1. x # Null => v # Null
    BY SlotFacts DEF Is_young
  <2> QED BY <1>1, <2>1 DEF SafeInv, SafeCall
<1> HIDE DEF x, v
<1>7. mem'[c] = x /\ \A w \in Words \ {c} : mem'[w] = mem[w]
  <2>1. mem \in [Words -> Vals]
    BY <1>2 DEF MTypeOK
  <2> HIDE DEF Words, Vals, c
  <2> QED BY <1>1, <1>3, <2>1
<1> HIDE DEF c
<1>8. \A s \in Young, i \in Fields : mem'[<<s, i>>] = mem[<<s, i>>]
  BY <1>3, <1>7, SlotFacts, WordFacts
<1>9. SafeWords'
  BY <1>1, <1>5, <1>7 DEF SafeInv, SafeWords, genroots
<1>10. SafeFields'
  <2> SUFFICES ASSUME NEW s \in Slots, NEW i \in Fields, hd[s] # "fwd", mem'[<<s, i>>] # Null
               PROVE  Has(hd[s], i)
    BY <1>1 DEF SafeFields
  <2>1. CASE c = <<s, i>>
    BY <1>6, <1>7, <2>1
  <2>2. CASE c # <<s, i>>
    <3> DEFINE p == <<s, i>>
    <3>1. p \in Words /\ p # c
      BY <2>2, WordFacts
    <3> HIDE DEF p
    <3>2. mem'[p] = mem[p]
      BY <1>7, <3>1
    <3> QED BY <3>2 DEF p, SafeInv, SafeFields
  <2> QED BY <2>1, <2>2
<1>11. SafeCopies' /\ SafeWork'
  BY <1>1, <1>8, WordFacts DEF SafeInv, SafeCopies, SafeWork, Copy
<1>12. StaleRoots'
  <2>1. \A g \in roots_young \ registered : g \in Words
    BY <1>2, WordFacts DEF MTypeOK
  <2> QED BY <1>1, <1>4, <1>7, <2>1 DEF SafeInv, StaleRoots, genroots
<1>13. SafeCall' /\ SafeHeaders'
  BY <1>1 DEF SafeInv, SafeCall, SafeHeaders
<1> QED BY <1>9, <1>10, <1>11, <1>12, <1>13 DEF SafeInv

\* A promotion, with the fields a and b of the copy.
LEMMA MovedSafe ==
  ASSUME MInv, SafeInv, Collecting, call # <<>>, NEW v \in Young, v = call[1], Allocated(v),
         NEW r, NEW a \in Vals, NEW b \in Vals, Moved(v, r, a, b), UNCHANGED <<genroots, pc, work>>,
         a # Null => hd[a] # "free" /\ hd[v] # "Double", b # Null => hd[b] # "free" /\ hd[v] = "Block",
         \/ call' = <<>>
         \/ hd[v] # "Double" /\ call' = <<mem[<<v, 1>>], <<r, 1>> >>
  PROVE  SafeInv'
<1> DEFINE c == call[2]
<1>1. /\ r \in Old /\ hd[r] = "free" /\ (\A i \in Fields : c # <<r, i>>)
      /\ hd'[r] = hd[v] /\ hd'[v] = "fwd" /\ (\A s \in Slots \ {r, v} : hd'[s] = hd[s])
      /\ mem'[c] = r /\ mem'[<<v, 1>>] = r /\ mem'[<<r, 1>>] = a /\ mem'[<<r, 2>>] = b
      /\ \A w \in Words \ {c, <<v, 1>>, <<r, 1>>, <<r, 2>>} : mem'[w] = mem[w]
  BY DEF Moved
<1>2. /\ v \in Slots /\ v # Null /\ r \in Slots /\ r # Null /\ ~Is_young(r) /\ r # v /\ hd[v] \notin {"free", "fwd"}
      /\ <<v, 1>> \in Words \ GenRoots
  BY <1>1, SlotFacts, WordFacts DEF Is_young, Allocated
<1>3. /\ c \in Words /\ (\A s \in Young, i \in Fields : c # <<s, i>>)
      /\ \A s \in Slots, i \in Fields : c = <<s, i>> => Has(hd[s], i)
  BY <1>2, CallFacts DEF SafeInv, SafeCall
<1>4. mem \in [Words -> Vals] /\ registered' = registered /\ roots_young' = roots_young
  BY DEF MInv, MTypeOK, genroots
<1> HIDE DEF c
<1>5. \A z \in Slots : hd[z] # "free" => hd'[z] # "free"
  BY <1>1, <1>2
<1>6. \A z \in Vals : (z # Null => hd[z] # "free") => (z # Null => hd'[z] # "free")
  BY <1>5 DEF Vals
<1>7. ASSUME NEW s \in Slots, NEW i \in Fields, s # r, ~(s = v /\ i = 1), c # <<s, i>>
      PROVE  mem'[<<s, i>>] = mem[<<s, i>>]
  <2> DEFINE p == <<s, i>>
  <2>1. p \in Words /\ p # c /\ p # <<v, 1>> /\ p # <<r, 1>> /\ p # <<r, 2>>
    BY <1>7, WordFacts
  <2> HIDE DEF p
  <2>2. mem'[p] = mem[p]
    BY <1>1, <2>1
  <2> QED BY <2>2 DEF p
<1>8. SafeWords'
  <2> SUFFICES ASSUME NEW w \in Words, w \notin GenRoots \ registered, mem'[w] # Null
               PROVE  hd'[mem'[w]] # "free"
    BY <1>4 DEF SafeWords
  <2>1. CASE w = c \/ w = <<v, 1>>
    BY <1>1, <1>2, <2>1
  <2>2. CASE w = <<r, 1>>
    BY <1>1, <1>6, <2>2
  <2>3. CASE w = <<r, 2>>
    BY <1>1, <1>6, <2>3
  <2>4. CASE w \notin {c, <<v, 1>>, <<r, 1>>, <<r, 2>>}
    <3>1. mem'[w] = mem[w] /\ mem[w] \in Vals
      BY <1>1, <1>4, <2>4
    <3>2. hd[mem[w]] # "free"
      BY <3>1 DEF SafeInv, SafeWords
    <3> QED BY <1>6, <3>1, <3>2
  <2> QED BY <2>1, <2>2, <2>3, <2>4
<1>9. SafeFields'
  <2> SUFFICES ASSUME NEW s \in Slots, NEW i \in Fields, hd'[s] # "fwd", mem'[<<s, i>>] # Null
               PROVE  Has(hd'[s], i)
    BY DEF SafeFields
  <2>1. CASE s = r
    <3>1. i = 1 \/ i = 2
      BY DEF Fields
    <3> QED BY <1>1, <1>2, <2>1, <3>1 DEF Has
  <2>2. CASE s # r
    <3>1. s # v /\ hd'[s] = hd[s]
      BY <1>1, <2>2
    <3>2. CASE c = <<s, i>>
      BY <1>3, <3>1, <3>2
    <3>3. CASE c # <<s, i>>
      <4>1. mem'[<<s, i>>] = mem[<<s, i>>]
        BY <1>7, <2>2, <3>1, <3>3
      <4> QED BY <3>1, <4>1 DEF SafeInv, SafeFields
    <3> QED BY <3>2, <3>3
  <2> QED BY <2>1, <2>2
<1>10. ASSUME NEW s \in Young, hd'[s] = "fwd", s # v
       PROVE  s \in Slots /\ hd[s] = "fwd" /\ mem'[<<s, 1>>] = Copy(s) /\ mem'[<<s, 2>>] = mem[<<s, 2>>] /\ Copy(s) \in Old
  <2>1. s \in Slots /\ s # r
    BY <1>1, SlotFacts
  <2>2. hd[s] = "fwd"
    BY <1>1, <1>10, <2>1
  <2>3. mem'[<<s, 1>>] = mem[<<s, 1>>] /\ mem'[<<s, 2>>] = mem[<<s, 2>>]
    BY <1>3, <1>7, <1>10, <2>1, WordFacts
  <2> QED BY <2>1, <2>2, <2>3 DEF Copy, MInv, HeapInv
<1>11. SafeCopies'
  <2> SUFFICES ASSUME NEW s \in Young, hd'[s] = "fwd", mem'[<<s, 2>>] # Null
               PROVE  hd'[mem'[<<s, 1>>]] = "Block"
    BY DEF SafeCopies, Copy
  <2>1. CASE s = v
    <3>1. 2 \in Fields /\ c # <<v, 2>>
      BY <1>3, WordFacts
    <3>2. mem[<<v, 2>>] # Null
      BY <1>2, <1>7, <2>1, <3>1
    <3>3. hd[v] = "Block"
      BY <1>2, <3>1, <3>2 DEF SafeInv, SafeFields, Has
    <3> QED BY <1>1, <2>1, <3>3
  <2>2. CASE s # v
    <3>1. hd[s] = "fwd" /\ mem'[<<s, 1>>] = Copy(s) /\ mem'[<<s, 2>>] = mem[<<s, 2>>] /\ Copy(s) \in Old
      BY <1>10, <2>2
    <3>2. hd[Copy(s)] = "Block"
      BY <3>1 DEF SafeInv, SafeCopies
    <3>3. Copy(s) \in Slots \ {r, v}
      BY <1>1, <3>1, <3>2, SlotFacts
    <3> QED BY <1>1, <3>1, <3>2, <3>3
  <2> QED BY <2>1, <2>2
<1>12. SafeWork'
  <2> SUFFICES ASSUME NEW n \in 1 .. Len(work), work[n].from # work[n].to
               PROVE  \E u \in Young : hd'[u] = "fwd" /\ work[n].from = <<u, 2>> /\ work[n].to = <<mem'[<<u, 1>>], 2>>
    BY DEF SafeWork, Copy
  <2>1. PICK u \in Young : hd[u] = "fwd" /\ work[n].from = <<u, 2>> /\ work[n].to = <<Copy(u), 2>>
    BY DEF SafeInv, SafeWork
  <2>2. u # v /\ u # r /\ u \in Slots
    BY <1>1, <1>2, <2>1, SlotFacts
  <2>3. hd'[u] = "fwd"
    BY <1>1, <2>1, <2>2
  <2>4. mem'[<<u, 1>>] = Copy(u)
    BY <1>10, <2>2, <2>3
  <2> QED BY <2>1, <2>3, <2>4
<1>13. SafeCall'
  <2>1. CASE call' = <<>>
    BY <2>1 DEF SafeCall
  <2>2. CASE hd[v] # "Double" /\ call' = <<mem[<<v, 1>>], <<r, 1>> >>
    <3>1. call'[1] = mem[<<v, 1>>] /\ call'[2] = <<r, 1>>
      BY <2>2
    <3>2. mem[<<v, 1>>] \in Vals /\ (mem[<<v, 1>>] # Null => hd[mem[<<v, 1>>]] # "free")
      BY <1>2, <1>4 DEF SafeInv, SafeWords
    <3>3. Has(hd'[r], 1)
      BY <1>1, <1>2, <2>2 DEF Has
    <3> QED BY <1>6, <3>1, <3>2, <3>3 DEF SafeCall
  <2> QED BY <2>1, <2>2
<1>14. StaleRoots'
  <2> SUFFICES ASSUME NEW g \in roots_young \ registered PROVE ~Is_young(mem'[g])
    BY <1>4 DEF SafeInv, StaleRoots
  <2>1. g \in Words /\ \A s \in Slots, i \in Fields : g # <<s, i>>
    BY WordFacts DEF MInv, MTypeOK
  <2>2. CASE g = c
    BY <1>1, <1>2, <2>2
  <2>3. CASE g # c
    <3>1. mem'[g] = mem[g]
      BY <1>1, <1>2, <2>1, <2>3, WordFacts
    <3> QED BY <3>1 DEF SafeInv, StaleRoots
  <2> QED BY <2>2, <2>3
<1>15. SafeHeaders'
  BY DEF SafeHeaders, Collecting, Idle
<1> QED BY <1>8, <1>9, <1>11, <1>12, <1>13, <1>14, <1>15 DEF SafeInv

LEMMA PromoteSafe ==
  ASSUME MInv, SafeInv, OldifyLarge \/ OldifySmall \/ OldifyNoScan
  PROVE  SafeInv'
<1> DEFINE v == call[1]
           r == FreeOld
           x == mem[<<v, 1>>]
<1>1. /\ Collecting /\ call # <<>> /\ v \in Young /\ Allocated(v)
      /\ UNCHANGED <<genroots, pc, work>> /\ UNCHANGED caller
  BY DEF OldifyLarge, OldifySmall, OldifyNoScan, Is_young, Scanned, Allocated
<1>2. v \in Slots /\ <<v, 1>> \in Words \ GenRoots
  BY <1>1, SlotFacts, WordFacts
<1>3. x \in Vals /\ Null \in Vals /\ (x # Null => hd[x] # "free")
  BY <1>2 DEF MInv, MTypeOK, Vals, SafeInv, SafeWords
<1>4. CASE OldifyLarge
  <2> DEFINE b == oldify_todo_list
  <2>1. hd[v] = "Block" /\ Promoted(v, r, <<x, b>>) /\ call' = <<>>
    BY <1>4 DEF OldifyLarge, Return
  <2>2. b \in Vals
    BY SlotFacts DEF MInv, MTypeOK, Vals
  <2>3. b # Null => hd[b] # "free"
    <3>1. PICK q \in Seq(Young) : Linked(q)
      BY DEF MInv, TodoInv
    <3>2. Len(q) \in Nat
      OBVIOUS
    <3>3. b # Null => Len(q) # 0 /\ b = q[1] /\ 1 \in 1 .. Len(q)
      BY <3>1, <3>2 DEF Linked
    <3> QED BY <3>1, <3>3 DEF Linked
  <2>4. r = FreeOld /\ v = call[1]
    OBVIOUS
  <2> HIDE DEF v, r, x, b
  <2>5. Moved(v, r, x, b)
    BY <1>1, <1>3, <2>1, <2>2, <2>4, PromoteFacts
  <2> QED BY <1>1, <1>3, <2>1, <2>2, <2>3, <2>4, <2>5, MovedSafe
<1>5. CASE OldifySmall \/ OldifyNoScan
  <2>1. /\ Promoted(v, r, <<Null, Null>>)
        /\ call' = <<>> \/ (hd[v] # "Double" /\ call' = <<mem[<<v, 1>>], <<r, 1>> >>)
    <3>1. CASE OldifySmall
      BY <3>1 DEF OldifySmall, Scanned
    <3>2. CASE OldifyNoScan
      <4>1. hd[v] = "Double" /\ Promoted(v, r, <<mem[<<v, 1>>], mem[<<v, 2>>]>>) /\ call' = <<>>
        BY <3>2 DEF OldifyNoScan, Return
      <4>2. mem[<<v, 1>>] = Null /\ mem[<<v, 2>>] = Null
        BY <1>1, <4>1 DEF MInv, HeapInv
      <4> QED BY <4>1, <4>2
    <3> QED BY <1>5, <3>1, <3>2
  <2>2. r = FreeOld /\ v = call[1]
    OBVIOUS
  <2> HIDE DEF v, r, x
  <2>3. Moved(v, r, Null, Null)
    BY <1>1, <1>3, <2>1, <2>2, PromoteFacts
  <2> QED BY <1>1, <1>3, <2>1, <2>2, <2>3, MovedSafe
<1> QED BY <1>4, <1>5

LEMMA RootsDoneSafe ==
  ASSUME MInv, SafeInv, RootsDone, MInv'
  PROVE  SafeInv'
<1> DEFINE ps == ref_table.entries
<1>1. /\ pc' = "table" /\ work' = InPlace(ps) /\ roots_young' = {} /\ UNCHANGED <<hd, mem, registered, call>>
  BY DEF RootsDone, heap
<1> HIDE DEF ps
<1>2. InPlace(ps) \in Seq(WorkItems)
  BY <1>1 DEF MInv, MTypeOK, WorkItems
<1>3. \A i \in 1 .. Len(InPlace(ps)) : InPlace(ps)[i].from = InPlace(ps)[i].to
  BY <1>2, InPlaceSame
<1>4. SafeWork'
  BY <1>1, <1>3 DEF SafeWork
<1>5. StaleRoots'
  BY <1>1 DEF StaleRoots
<1> QED BY <1>1, <1>4, <1>5, LoopSafe DEF Idle

LEMMA MopupSafe ==
  ASSUME MInv, SafeInv, caml_oldify_mopup
  PROVE  SafeInv'
<1> DEFINE v == oldify_todo_list
           z == Copy(v)
<1>1. /\ pc \in {"table", "mopup"} /\ pc' = "mopup" /\ v # Null /\ work' = MopupWork(v, z)
      /\ UNCHANGED <<hd, mem, genroots, call>>
  BY DEF caml_oldify_mopup, heap, Copy
<1>2. v \in Young
  BY <1>1 DEF MInv, MTypeOK
<1>3. hd[v] = "fwd"
  <2>1. PICK q \in Seq(Young) : Linked(q)
    BY DEF MInv, TodoInv
  <2>2. Len(q) \in Nat
    OBVIOUS
  <2>3. Len(q) # 0 /\ v = q[1] /\ 1 \in 1 .. Len(q)
    BY <1>1, <2>1, <2>2 DEF Linked
  <2> QED BY <2>1, <2>3 DEF Linked
<1> HIDE DEF v
<1>4. SafeWork'
  <2> HIDE DEF z
  <2>1. Len(work') = 2 /\ work'[1].from = work'[1].to /\ work'[2].from = <<v, 2>> /\ work'[2].to = <<z, 2>>
    BY <1>1 DEF MopupWork
  <2>2. mem'[<<v, 1>>] = z
    BY <1>1 DEF Copy, z
  <2>3. \A n \in 1 .. 2 : n = 1 \/ n = 2
    OBVIOUS
  <2> QED BY <1>1, <1>2, <1>3, <2>1, <2>2, <2>3 DEF SafeWork, Copy
<1>5. StaleRoots'
  BY <1>1 DEF SafeInv, StaleRoots, genroots
<1> QED BY <1>1, <1>4, <1>5, LoopSafe DEF Idle, genroots

LEMMA EmptySafe ==
  ASSUME MInv, SafeInv, EmptyMinorHeap, MInv'
  PROVE  SafeInv'
<1>1. pc \in {"table", "mopup"} /\ pc' = "emptied" /\ UNCHANGED genroots
  BY DEF EmptyMinorHeap
<1>2. /\ \A p \in Words : \/ p \in Young \X Fields /\ mem'[p] = Null
                          \/ mem'[p] \in {mem[p], Null}
                          \/ Is_young(mem[p]) /\ hd[mem[p]] = "fwd" /\ mem'[p] = Copy(mem[p])
      /\ \A w \in LocalRoots \cup registered : ~Is_young(mem'[w])
      /\ \A s \in Old, i \in Fields : ~Is_young(mem'[<<s, i>>])
      /\ (\A s \in Young : hd'[s] = "free") /\ \A s \in Old : hd'[s] = hd[s]
      /\ mem' \in [Words -> Vals]
  BY EmptyFacts
<1>3. MTypeOK /\ HeapInv /\ mem \in [Words -> Vals]
  BY DEF MInv, MTypeOK
<1>4. \A z \in Vals : (z # Null => hd[z] # "free") /\ ~Is_young(z) => (z # Null => hd'[z] # "free")
  BY <1>2, SlotFacts DEF Vals, Is_young
<1>5. \A v \in Young : hd[v] = "fwd" => Copy(v) \in Old /\ hd[Copy(v)] # "free"
  <2> SUFFICES ASSUME NEW v \in Young, hd[v] = "fwd" PROVE Copy(v) \in Old /\ hd[Copy(v)] # "free"
    OBVIOUS
  <2>1. <<v, 1>> \in Words \ GenRoots /\ Copy(v) \in Old
    BY <1>3, SlotFacts, WordFacts DEF HeapInv, Copy
  <2>2. Copy(v) # Null
    BY <2>1, SlotFacts
  <2> QED BY <2>1, <2>2 DEF SafeInv, SafeWords, Copy
<1>6. SafeWords'
  <2> SUFFICES ASSUME NEW w \in Words, w \notin GenRoots \ registered, mem'[w] # Null
               PROVE  hd'[mem'[w]] # "free"
    BY <1>1 DEF SafeWords, genroots
  <2>1. ~Is_young(mem'[w])
    <3>1. CASE w \in LocalRoots \cup GenRoots
      BY <1>2, <3>1
    <3>2. CASE w \in Slots \X Fields
      <4>1. PICK s \in Slots, i \in Fields : w = <<s, i>>
        BY <3>2
      <4>2. CASE s \in Old
        BY <1>2, <4>1, <4>2
      <4>3. CASE s \in Young
        <5>1. w \in Young \X Fields /\ w \notin OldWords
          BY <4>1, <4>3, WordFacts, SlotFacts
        <5>2. mem'[w] = Null
          BY <5>1, EmptyFacts
        <5> QED BY <5>2
      <4> QED BY <4>2, <4>3, SlotFacts
    <3> QED BY <3>1, <3>2 DEF Words
  <2>2. mem'[w] \in Vals /\ hd[mem'[w]] # "free"
    <3>1. CASE mem'[w] = mem[w]
      BY <1>2, <3>1 DEF SafeInv, SafeWords
    <3>2. CASE Is_young(mem[w]) /\ hd[mem[w]] = "fwd" /\ mem'[w] = Copy(mem[w])
      BY <1>2, <1>5, <3>2 DEF Is_young
    <3> QED BY <1>2, <3>1, <3>2
  <2> QED BY <1>4, <2>1, <2>2
<1>7. SafeFields'
  <2> SUFFICES ASSUME NEW s \in Slots, NEW i \in Fields, mem'[<<s, i>>] # Null PROVE Has(hd'[s], i)
    BY DEF SafeFields
  <2>1. s \in Old
    <3>1. s \in Young => <<s, i>> \in Young \X Fields
      OBVIOUS
    <3> QED BY <3>1, EmptyFacts, SlotFacts
  <2>2. mem[<<s, i>>] # Null
    <3>1. <<s, i>> \in Words /\ ~Is_young(Null)
      BY WordFacts, SlotFacts DEF Is_young
    <3> DEFINE p == <<s, i>>
    <3>2. p \in Words /\ p \notin Young \X Fields /\ mem'[p] # Null
      BY <2>1, <3>1, SlotFacts
    <3> HIDE DEF p
    <3>3. mem[p] # Null
      BY <1>2, <3>1, <3>2
    <3> QED BY <3>3 DEF p
  <2>3. hd[s] # "fwd" /\ hd'[s] = hd[s]
    BY <1>2, <1>3, <2>1 DEF HeapInv
  <2> QED BY <2>2, <2>3 DEF SafeInv, SafeFields
<1>8. StaleRoots'
  BY <1>1 DEF SafeInv, StaleRoots, genroots
<1>9. SafeHeaders'
  BY <1>2, <1>3, SlotFacts DEF SafeHeaders, HeapInv
<1> QED BY <1>1, <1>6, <1>7, <1>8, <1>9, IdleSafe DEF Idle

LEMMA EmptiedSafe ==
  ASSUME SafeInv, Emptied, MInv'
  PROVE  SafeInv'
<1>1. pc = "emptied" /\ pc' = "mutator" /\ UNCHANGED <<hd, mem, genroots>>
  BY DEF Emptied
<1>2. SafeWords' /\ SafeFields' /\ StaleRoots' /\ SafeHeaders'
  BY <1>1 DEF SafeInv, SafeWords, SafeFields, StaleRoots, SafeHeaders, genroots, Idle
<1> QED BY <1>1, <1>2, IdleSafe DEF Idle

LEMMA FillVectSafe ==
  ASSUME MInv, SafeInv, FillVect, MInv'
  PROVE  SafeInv'
<1> DEFINE l == caller[2]
           a == mem[caller[3]]
<1>1. /\ pc = "make_vect" /\ pc' = "mutator" /\ Place(l, FreeOld, "Block", <<a, a>>) /\ UNCHANGED genroots
  BY DEF FillVect
<1>2. MTypeOK /\ HeapInv /\ ControlInv
  BY DEF MInv
<1>3. caller \in {"make_vect"} \X LocalRoots \X LocalRoots /\ caller # <<"none">>
  BY <1>1, <1>2 DEF ControlInv, MTypeOK, Callers
<1>4. l \in LocalRoots /\ caller[3] \in LocalRoots
  BY <1>3
<1>5. a \in Vals /\ (a # Null => hd[a] # "free")
  BY <1>2, <1>4, WordFacts DEF MTypeOK, SafeInv, SafeWords
<1>6. FreeOld \in Slots
  BY <1>2, <1>3, FreeSlot, SlotFacts DEF HeapInv
<1>7. pc \in Idle /\ pc' \in Idle /\ UNCHANGED <<registered, roots_young>> /\ "Block" \in Headers \ {"free", "fwd"}
  BY <1>1 DEF Idle, genroots, Headers, AllTags
<1> HIDE DEF l, a
<1>8. /\ SafeWords' /\ SafeFields' /\ (\A x \in Slots : hd'[x] # "fwd")
      /\ \A g \in roots_young' \ registered' : ~Is_young(mem'[g])
  <2>1. (a # Null => hd[a] # "free" /\ "Block" # "Double") /\ (a # Null => hd[a] # "free" /\ "Block" = "Block")
    BY <1>5
  <2> QED BY <1>1, <1>4, <1>5, <1>6, <1>7, <2>1, PlaceSafe
<1>9. StaleRoots' /\ SafeHeaders'
  BY <1>1, <1>8 DEF StaleRoots, SafeHeaders
<1> QED BY <1>7, <1>8, <1>9, IdleSafe

-----------------------------------------------------------------------------
(* What the roots lead to.                                                  *)

Spread(X) == X \cup UNION {Points(s) : s \in {t \in X : Scanned(hd[t])}}

\* R[n] is what B leads to in n steps.
Layers(R, B, k) == R = [n \in 0 .. k |-> IF n = 0 THEN B ELSE Spread(R[n - 1])]

LEMMA LayersExist ==
  ASSUME NEW B, NEW k \in Nat
  PROVE  \E R : Layers(R, B, k)
<1> DEFINE S == {n \in Nat : ~\E R : Layers(R, B, n)}
<1>1. ASSUME S # {} PROVE FALSE
  <2>1. S \in SUBSET Nat
    OBVIOUS
  <2>2. PICK m \in S : \A n \in S : n < m => FALSE
    <3> HIDE DEF S
    <3> QED BY <1>1, <2>1, LeastNat
  <2>3. m \in Nat /\ ~\E R : Layers(R, B, m)
    OBVIOUS
  <2>4. CASE m = 0
    <3> DEFINE R == [n \in 0 .. 0 |-> B]
    <3>1. \A n \in 0 .. 0 : n = 0
      OBVIOUS
    <3>2. Layers(R, B, 0)
      BY <3>1 DEF Layers
    <3> QED BY <2>3, <2>4, <3>2
  <2>5. CASE m # 0
    <3>1. m - 1 \in Nat /\ m - 1 < m
      BY <2>3, <2>5
    <3>2. m - 1 \notin S
      <4> HIDE DEF S
      <4> QED BY <2>2, <3>1
    <3>3. PICK h : Layers(h, B, m - 1)
      BY <3>1, <3>2
    <3> DEFINE R == [n \in 0 .. m |-> IF n = m THEN Spread(h[m - 1]) ELSE h[n]]
    <3>4. \A n \in 0 .. (m - 1) : h[n] = IF n = 0 THEN B ELSE Spread(h[n - 1])
      BY <3>3 DEF Layers
    <3>5. \A n \in 0 .. m : R[n] = IF n = 0 THEN B ELSE Spread(R[n - 1])
      <4> SUFFICES ASSUME NEW n \in 0 .. m PROVE R[n] = IF n = 0 THEN B ELSE Spread(R[n - 1])
        OBVIOUS
      <4>1. CASE n = m
        <5>1. n # 0 /\ n - 1 \in 0 .. m /\ n - 1 # m /\ R[n] = Spread(h[m - 1])
          BY <2>3, <2>5, <4>1
        <5>2. R[n - 1] = h[m - 1]
          BY <4>1, <5>1
        <5> QED BY <5>1, <5>2
      <4>2. CASE n # m
        <5>1. n \in 0 .. (m - 1) /\ R[n] = h[n]
          BY <2>3, <4>2
        <5>2. n # 0 => n - 1 \in 0 .. m /\ n - 1 # m
          BY <2>3, <4>2
        <5>3. n # 0 => R[n - 1] = h[n - 1]
          BY <5>2
        <5> QED BY <3>4, <5>1, <5>3
      <4> QED BY <4>1, <4>2
    <3>6. Layers(R, B, m)
      <4>1. R = [n \in 0 .. m |-> R[n]]
        OBVIOUS
      <4> HIDE DEF R
      <4>2. [n \in 0 .. m |-> R[n]] = [n \in 0 .. m |-> IF n = 0 THEN B ELSE Spread(R[n - 1])]
        BY <3>5
      <4> QED BY <4>1, <4>2 DEF Layers
    <3> QED BY <2>3, <3>6
  <2> QED BY <2>4, <2>5
<1> QED BY <1>1

LEMMA ReachLayers ==
  \E R : Layers(R, Held \ {Null}, NY + NO) /\ Reach = R[NY + NO]
<1> DEFINE R == CHOOSE g : g = [n \in 0 .. NY + NO |->
                                  IF n = 0 THEN Held \ {Null}
                                  ELSE g[n - 1] \cup UNION {Points(s) : s \in {t \in g[n - 1] : Scanned(hd[t])}}]
<1>1. NY + NO \in Nat
  BY SlotFacts
<1>2. \E g : g = [n \in 0 .. NY + NO |->
                    IF n = 0 THEN Held \ {Null}
                    ELSE g[n - 1] \cup UNION {Points(s) : s \in {t \in g[n - 1] : Scanned(hd[t])}}]
  <2>1. PICK g : Layers(g, Held \ {Null}, NY + NO)
    BY <1>1, LayersExist
  <2> QED BY <2>1 DEF Layers, Spread
<1>3. R = [n \in 0 .. NY + NO |->
             IF n = 0 THEN Held \ {Null}
             ELSE R[n - 1] \cup UNION {Points(s) : s \in {t \in R[n - 1] : Scanned(hd[t])}}]
  BY <1>2
<1>4. Reach = R[NY + NO]
  BY DEF Reach
<1> HIDE DEF R
<1>5. Layers(R, Held \ {Null}, NY + NO)
  BY <1>3 DEF Layers, Spread
<1> QED BY <1>4, <1>5

\* What the major collector starts from, and what it leaves.
MajorRoots == {mem[r] : r \in LocalRoots \cup roots_old} \ {Null}

LEMMA FreedLayers ==
  \E R : Layers(R, MajorRoots, NO) /\ Freed = Old \ R[NO]
<1> DEFINE R == CHOOSE g : g = [n \in 0 .. NO |->
                                  IF n = 0 THEN {mem[r] : r \in LocalRoots \cup roots_old} \ {Null}
                                  ELSE g[n - 1] \cup UNION {Points(s) : s \in {t \in g[n - 1] : Scanned(hd[t])}}]
<1>1. NO \in Nat
  BY SlotFacts
<1>2. \E g : g = [n \in 0 .. NO |->
                    IF n = 0 THEN {mem[r] : r \in LocalRoots \cup roots_old} \ {Null}
                    ELSE g[n - 1] \cup UNION {Points(s) : s \in {t \in g[n - 1] : Scanned(hd[t])}}]
  <2>1. PICK g : Layers(g, MajorRoots, NO)
    BY <1>1, LayersExist
  <2> QED BY <2>1 DEF Layers, Spread, MajorRoots
<1>3. R = [n \in 0 .. NO |->
             IF n = 0 THEN {mem[r] : r \in LocalRoots \cup roots_old} \ {Null}
             ELSE R[n - 1] \cup UNION {Points(s) : s \in {t \in R[n - 1] : Scanned(hd[t])}}]
  BY <1>2
<1>4. Freed = Old \ R[NO]
  BY DEF Freed
<1> HIDE DEF R
<1>5. Layers(R, MajorRoots, NO)
  BY <1>3 DEF Layers, Spread, MajorRoots
<1> QED BY <1>4, <1>5

LEMMA PointsFacts ==
  ASSUME MTypeOK, NEW s \in Slots
  PROVE  Points(s) \subseteq Slots /\ \A v \in Points(s) : \E i \in Fields : v = mem[<<s, i>>] /\ v # Null
<1>1. 1 .. Wosize(hd[s]) \subseteq Fields
  BY DEF Wosize, Fields
<1>2. \A i \in Fields : mem[<<s, i>>] \in Vals
  BY WordFacts DEF MTypeOK
<1> QED BY <1>1, <1>2 DEF Points, Vals

\* A pointer in a block that the collectors scan is one of its Points.
LEMMA FieldPoints ==
  ASSUME NEW s \in Slots, NEW i \in Fields, Has(hd[s], i), mem[<<s, i>>] # Null
  PROVE  mem[<<s, i>>] \in Points(s)
<1>1. i \in 1 .. Wosize(hd[s])
  BY DEF Wosize, Fields, Has
<1> QED BY <1>1 DEF Points

Scans(X) == {t \in X : Scanned(hd[t])}

\* The mark phase reaches a fixed point: each round scans a block that was not scanned
\* before, and there are NO of them.
LEMMA LiveClosed ==
  ASSUME MTypeOK, \A s \in Young : hd[s] = "free"
  PROVE  /\ \A v \in MajorRoots : v \notin Freed
         /\ \A s \in Old \ Freed : Scanned(hd[s]) => \A v \in Points(s) : v \notin Freed
<1>1. PICK R : Layers(R, MajorRoots, NO) /\ Freed = Old \ R[NO]
  BY FreedLayers
<1>2. \A n \in 0 .. NO : R[n] = IF n = 0 THEN MajorRoots ELSE Spread(R[n - 1])
  BY <1>1 DEF Layers
<1>3. NO \in Nat
  BY SlotFacts
<1>4. \A X : X \subseteq Spread(X) /\ Spread(X) = X \cup UNION {Points(s) : s \in Scans(X)}
  BY DEF Spread, Scans
<1>5. ASSUME NEW X \in SUBSET Slots
      PROVE  /\ Spread(X) \subseteq Slots /\ Scans(X) \subseteq Old
             /\ IsFiniteSet(Scans(X)) /\ Cardinality(Scans(X)) \in Nat /\ Cardinality(Scans(X)) <= NO
  <2>1. Spread(X) \subseteq Slots
    BY <1>4, PointsFacts DEF Scans
  <2>2. Scans(X) \subseteq Old
    BY SlotFacts DEF Scans, Scanned
  <2>3. IsFiniteSet(Scans(X)) /\ Cardinality(Scans(X)) <= NO
    BY <2>2, SlotFacts, FS_Subset
  <2> QED BY <2>1, <2>2, <2>3, FS_CardinalityType
<1>6. MajorRoots \subseteq Slots
  <2>1. \A r \in LocalRoots \cup roots_old : mem[r] \in Vals
    BY WordFacts DEF MTypeOK
  <2> QED BY <2>1 DEF MajorRoots, Vals
<1> DEFINE P(n) == /\ R[n] \in SUBSET Slots /\ MajorRoots \subseteq R[n]
                   /\ Spread(R[n]) \subseteq R[n] \/ Cardinality(Scans(R[n])) >= n + 1
           S == {n \in 0 .. NO : ~P(n)}
<1>7. ASSUME S # {} PROVE FALSE
  <2>1. S \in SUBSET Nat
    OBVIOUS
  <2>2. PICK m \in S : \A n \in S : n < m => FALSE
    <3> HIDE DEF S
    <3> QED BY <1>7, <2>1, LeastNat
  <2>3. m \in 0 .. NO /\ ~P(m)
    OBVIOUS
  <2>4. CASE m = 0
    <3>1. R[0] = MajorRoots
      BY <1>2, <1>3
    <3>2. CASE Scans(MajorRoots) = {}
      BY <1>4, <1>6, <2>3, <2>4, <3>1, <3>2
    <3>3. CASE Scans(MajorRoots) # {}
      <4>1. Cardinality(Scans(MajorRoots)) # 0 /\ Cardinality(Scans(MajorRoots)) \in Nat
        BY <1>5, <1>6, <3>3, FS_EmptySet
      <4> QED BY <1>6, <2>3, <2>4, <3>1, <4>1
    <3> QED BY <3>2, <3>3
  <2>5. CASE m # 0
    <3> DEFINE X == R[m - 1]
               Y == R[m]
    <3>1. m \in Nat /\ m - 1 \in 0 .. NO /\ m - 1 < m /\ Y = Spread(X)
      BY <1>2, <1>3, <2>3, <2>5
    <3>2. m - 1 \notin S
      <4> HIDE DEF S
      <4> QED BY <2>2, <3>1
    <3>3. P(m - 1)
      BY <3>1, <3>2
    <3>4. /\ X \in SUBSET Slots /\ MajorRoots \subseteq X
          /\ Spread(X) \subseteq X \/ Cardinality(Scans(X)) >= m
      BY <3>1, <3>3
    <3>5. /\ Y \in SUBSET Slots /\ MajorRoots \subseteq Y /\ X \subseteq Y
          /\ ~(Spread(Y) \subseteq Y) /\ ~(Cardinality(Scans(Y)) >= m + 1)
      BY <1>4, <1>5, <2>3, <3>1, <3>4
    <3> HIDE DEF X, Y, P, S
    <3>6. ~(Spread(X) \subseteq X)
      <4>1. Spread(X) \subseteq X => Y = X
        BY <3>1, <3>5
      <4> QED BY <3>5, <4>1
    <3>7. Scans(X) \subseteq Scans(Y) /\ Scans(Y) # Scans(X)
      <4>1. Scans(Y) = Scans(X) => Spread(Y) \subseteq Y
        BY <1>4, <3>1
      <4> QED BY <3>5, <4>1 DEF Scans
    <3>8. PICK t \in Scans(Y) : t \notin Scans(X)
      BY <3>7
    <3>9. /\ IsFiniteSet(Scans(X)) /\ Cardinality(Scans(X)) \in Nat
          /\ IsFiniteSet(Scans(Y)) /\ Cardinality(Scans(Y)) \in Nat
      BY <1>5, <3>4, <3>5
    <3>10. Cardinality(Scans(X) \cup {t}) = Cardinality(Scans(X)) + 1
      BY <3>8, <3>9, FS_AddElement
    <3>11. Cardinality(Scans(X) \cup {t}) <= Cardinality(Scans(Y))
      <4>1. Scans(X) \cup {t} \subseteq Scans(Y)
        BY <3>7, <3>8
      <4> QED BY <3>9, <4>1, FS_Subset
    <3> QED BY <3>1, <3>4, <3>5, <3>6, <3>9, <3>10, <3>11
  <2> QED BY <2>4, <2>5
<1>8. P(NO)
  BY <1>3, <1>7
<1>9. MajorRoots \subseteq R[NO] /\ Spread(R[NO]) \subseteq R[NO]
  <2>1. Cardinality(Scans(R[NO])) \in Nat /\ Cardinality(Scans(R[NO])) <= NO
    BY <1>5, <1>8
  <2> QED BY <1>3, <1>8, <2>1
<1>10. \A s \in R[NO] : Scanned(hd[s]) => Points(s) \subseteq R[NO]
  BY <1>4, <1>9 DEF Scans
<1> QED BY <1>1, <1>9, <1>10

LEMMA SliceSafe ==
  ASSUME MInv, SafeInv, Slice, MInv'
  PROVE  SafeInv'
<1>1. PICK dead \in {{}, Freed} :
        /\ hd' = [s \in Slots |-> IF s \in dead THEN "free" ELSE hd[s]]
        /\ mem' = [p \in DOMAIN mem |->
                     IF p \in dead \X Fields
                        \/ (p \in Old \X Fields /\ hd[p[1]] = "Weak" /\ mem[p] \in dead)
                     THEN Null ELSE mem[p]]
  BY DEF Slice
<1>2. pc = "emptied" /\ pc' \in {"make_vect", "mutator"} /\ UNCHANGED genroots
  BY DEF Slice
<1>3. MTypeOK /\ mem \in [Words -> Vals] /\ hd \in [Slots -> Headers]
  BY DEF MInv, MTypeOK
<1>4. (\A s \in Slots : hd[s] # "fwd") /\ (\A s \in Young : hd[s] = "free") /\ roots_young = {}
  BY <1>2 DEF SafeInv, SafeHeaders, StaleRoots, Idle
<1>5. dead \subseteq Old /\ (dead = {} \/ dead = Freed)
  BY <1>1 DEF Freed
<1>6. \A w \in LocalRoots \cup registered : mem[w] \notin dead
  <2> SUFFICES ASSUME NEW w \in LocalRoots \cup registered, mem[w] \in Freed PROVE FALSE
    BY <1>5
  <2>1. mem[w] \in Old /\ mem[w] # Null
    BY SlotFacts DEF Freed
  <2>2. w \in LocalRoots \cup roots_old
    BY <1>4, <2>1 DEF MInv, RootsInv, Is_in_heap
  <2>3. mem[w] \in MajorRoots
    BY <2>1, <2>2 DEF MajorRoots
  <2> QED BY <1>3, <1>4, <2>3, LiveClosed
<1>7. ASSUME NEW s \in Slots, NEW i \in Fields, mem'[<<s, i>>] # Null
      PROVE  /\ mem'[<<s, i>>] = mem[<<s, i>>] /\ s \in Old \ dead
             /\ Has(hd[s], i) /\ mem[<<s, i>>] \notin dead
  <2> DEFINE p == <<s, i>>
  <2>1. p \in Words /\ p[1] = s /\ p \in DOMAIN mem
    BY <1>3, WordFacts
  <2>2. /\ mem'[p] = mem[p] /\ p \notin dead \X Fields
        /\ ~(p \in Old \X Fields /\ hd[p[1]] = "Weak" /\ mem[p] \in dead)
    <3> HIDE DEF p
    <3>1. mem'[p] # Null
      BY <1>7 DEF p
    <3> QED BY <1>1, <2>1, <3>1
  <2>3. Has(hd[s], i)
    BY <1>4, <1>7, <2>2 DEF SafeInv, SafeFields
  <2>4. s \in Old /\ s \notin dead
    BY <1>4, <2>2, <2>3, SlotFacts DEF Has
  <2>5. mem[<<s, i>>] \in Points(s)
    BY <1>7, <2>2, <2>3, FieldPoints
  <2>6. hd[s] # "Weak" => Scanned(hd[s])
    BY <1>3, <1>4, <2>3 DEF Has, Scanned, Headers, AllTags
  <2>7. mem[<<s, i>>] \notin dead
    <3>1. CASE hd[s] = "Weak"
      BY <2>1, <2>2, <2>4, <3>1
    <3>2. CASE hd[s] # "Weak"
      BY <1>3, <1>4, <1>5, <2>4, <2>5, <2>6, <3>2, LiveClosed
    <3> QED BY <3>1, <3>2
  <2> QED BY <2>2, <2>3, <2>4, <2>7
<1>8. \A v \in Slots : v \notin dead => hd'[v] = hd[v]
  BY <1>1
<1>9. SafeWords'
  <2> SUFFICES ASSUME NEW w \in Words, w \notin GenRoots \ registered, mem'[w] # Null
               PROVE  hd'[mem'[w]] # "free"
    BY <1>2 DEF SafeWords, genroots
  <2>1. mem'[w] = mem[w] /\ mem[w] \notin dead
    <3>1. CASE w \in LocalRoots \cup GenRoots
      <4>1. mem'[w] = mem[w]
        BY <1>1, <1>3
      <4> QED BY <1>6, <3>1, <4>1
    <3>2. CASE w \in Slots \X Fields
      <4>1. PICK s \in Slots, i \in Fields : w = <<s, i>>
        BY <3>2
      <4> QED BY <1>7, <4>1
    <3> QED BY <3>1, <3>2 DEF Words
  <2>2. mem[w] \in Slots /\ hd[mem[w]] # "free"
    BY <1>3, <2>1 DEF Vals, SafeInv, SafeWords
  <2> QED BY <1>8, <2>1, <2>2
<1>10. SafeFields'
  BY <1>7, <1>8 DEF SafeFields
<1>11. StaleRoots'
  BY <1>2, <1>4 DEF StaleRoots, genroots
<1>12. SafeHeaders'
  BY <1>1, <1>4, SlotFacts DEF SafeHeaders
<1> QED BY <1>2, <1>9, <1>10, <1>11, <1>12, IdleSafe DEF Idle

LEMMA SafeInit ==
  ASSUME Init
  PROVE  SafeInv
<1>1. /\ hd = [s \in Slots |-> "free"] /\ mem = [p \in Words |-> Null]
      /\ roots_young = {} /\ pc = "mutator" /\ work = <<>> /\ call = <<>>
  BY DEF Init, Words
<1>2. \A p \in Words : mem[p] = Null
  BY <1>1
<1>3. \A s \in Slots : hd[s] = "free"
  BY <1>1
<1>4. SafeWords /\ SafeFields
  BY <1>2, WordFacts DEF SafeWords, SafeFields
<1>5. SafeWork
  <2>1. Len(<<>>) = 0 /\ 1 .. 0 = {}
    OBVIOUS
  <2> QED BY <1>1, <2>1 DEF SafeWork
<1>6. SafeCopies /\ SafeCall /\ StaleRoots /\ SafeHeaders
  BY <1>1, <1>3, SlotFacts DEF SafeCopies, SafeCall, StaleRoots, SafeHeaders
<1> QED BY <1>4, <1>5, <1>6 DEF SafeInv

LEMMA CollectorSafe ==
  ASSUME MInv, SafeInv, Collector, MInv'
  PROVE  SafeInv'
<1>1. caml_empty_minor_heap(<<"none">>) => SafeInv'
  BY StartSafe
<1> QED BY <1>1, NextWordSafe, DoneSafe, PromoteSafe, ForwardSafe, RootsDoneSafe, MopupSafe, EmptySafe,
           EmptiedSafe, SliceSafe, FillVectSafe DEF Collector

LEMMA StutterSafe ==
  ASSUME SafeInv, UNCHANGED vars
  PROVE  SafeInv'
<1>1. UNCHANGED <<hd, mem, registered, roots_young, pc, work, call>>
  BY DEF vars, heap, genroots, collector
<1> QED BY <1>1 DEF SafeInv, SafeWords, SafeFields, SafeCopies, SafeWork, SafeCall, StaleRoots, SafeHeaders, Copy

LEMMA SafeNoDangling ==
  ASSUME MInv, SafeInv
  PROVE  NoDangling
<1> SUFFICES ASSUME pc = "mutator"
             PROVE  \A v \in Reach : /\ Allocated(v)
                                     /\ hd[v] = "Weak" /\ mem[<<v, 1>>] # Null => Allocated(mem[<<v, 1>>])
  BY DEF NoDangling
<1>1. MTypeOK /\ SafeWords /\ \A s \in Slots : hd[s] # "fwd"
  BY DEF MInv, SafeInv, SafeHeaders, Idle
<1>2. PICK R : Layers(R, Held \ {Null}, NY + NO) /\ Reach = R[NY + NO]
  BY ReachLayers
<1>3. \A n \in 0 .. NY + NO : R[n] = IF n = 0 THEN Held \ {Null} ELSE Spread(R[n - 1])
  BY <1>2 DEF Layers
<1>4. NY + NO \in Nat
  BY SlotFacts
<1>5. \A s \in Slots, i \in Fields : mem[<<s, i>>] # Null => mem[<<s, i>>] \in InUse
  <2> SUFFICES ASSUME NEW s \in Slots, NEW i \in Fields, mem[<<s, i>>] # Null PROVE mem[<<s, i>>] \in InUse
    OBVIOUS
  <2>1. <<s, i>> \in Words \ GenRoots
    BY WordFacts
  <2>2. mem[<<s, i>>] \in Slots /\ hd[mem[<<s, i>>]] # "free"
    BY <1>1, <2>1 DEF MTypeOK, Vals, SafeWords
  <2> QED BY <1>1, <2>2 DEF InUse, Allocated
<1>6. \A s \in Held \ {Null} : s \in InUse
  BY <1>1, ValuesSafe DEF InUse, Allocated
<1>7. ASSUME NEW X \in SUBSET InUse PROVE Spread(X) \subseteq InUse
  <2>1. \A s \in X : Points(s) \subseteq InUse
    BY <1>1, <1>5, PointsFacts DEF InUse
  <2> QED BY <2>1 DEF Spread
<1> DEFINE S == {n \in 0 .. NY + NO : ~(R[n] \subseteq InUse)}
<1>8. ASSUME S # {} PROVE FALSE
  <2>1. S \in SUBSET Nat
    OBVIOUS
  <2>2. PICK m \in S : \A n \in S : n < m => FALSE
    <3> HIDE DEF S
    <3> QED BY <1>8, <2>1, LeastNat
  <2>3. m \in 0 .. NY + NO /\ ~(R[m] \subseteq InUse)
    OBVIOUS
  <2>4. m # 0
    BY <1>3, <1>6, <2>3
  <2>5. m - 1 \in 0 .. NY + NO /\ m - 1 < m /\ R[m] = Spread(R[m - 1])
    BY <1>3, <1>4, <2>3, <2>4
  <2>6. m - 1 \notin S
    <3> HIDE DEF S
    <3> QED BY <2>2, <2>5
  <2> QED BY <1>7, <2>3, <2>5, <2>6
<1>9. Reach \subseteq InUse
  BY <1>2, <1>4, <1>8
<1> QED BY <1>5, <1>9, WordFacts DEF InUse

\* While the program runs, no pointer it can reach leads to a block that is gone: what a
\* minor collection frees, because caml_oldify_one and caml_oldify_mopup did not promote
\* it, and what the slice after it frees, because neither a root nor a listed global root
\* leads to it, is nothing that a root, a field or a weak pointer still holds.  For heaps,
\* tables and sets of roots of any size.
THEOREM NothingDangles == Spec => []NoDangling
<1>1. Init => MInv /\ SafeInv
  BY MInit, SafeInit
<1>2. MInv /\ SafeInv /\ [Next]_vars => MInv' /\ SafeInv'
  <2>1. MInv /\ [Next]_vars => MInv'
    BY ProgramKeeps, CollectorKeeps, StutterKeeps DEF Next
  <2>2. MInv /\ SafeInv /\ [Next]_vars /\ MInv' => SafeInv'
    BY ProgramSafe, CollectorSafe, StutterSafe DEF Next
  <2> QED BY <2>1, <2>2
<1>3. MInv /\ SafeInv => NoDangling
  BY SafeNoDangling
<1> QED BY <1>1, <1>2, <1>3, PTL DEF Spec
=============================================================================
