----------------------------- MODULE GcCtrlProofs -----------------------------
(***************************************************************************)
(* Proofs about the control of the collector: the settings, the            *)
(* collections and the size of heap chunks, for every setting a program    *)
(* may ask for.                                                            *)
(***************************************************************************)
EXTENDS GcCtrl, TLAPS

\* Whole multiples.
LEMMA TimesMod == ASSUME NEW k \in Int, NEW p \in Nat \ {0} PROVE (k * p) % p = 0 /\ (k * p) \div p = k
<1> DEFINE d == (k * p) \div p
           m == (k * p) % p
<1>1. d \in Int /\ m \in 0 .. p - 1 /\ k * p = p * d + m
  BY DEF d, m
<1>2. k - d \in Int /\ p * (k - d) = m
  BY <1>1
<1>3. CASE k - d >= 1
  BY <1>1, <1>2, <1>3
<1>4. CASE k - d <= -1
  BY <1>1, <1>2, <1>4
<1>5. k = d
  BY <1>1, <1>2, <1>3, <1>4
<1>6. m = 0
  BY <1>1, <1>2, <1>5
<1> QED BY <1>5, <1>6 DEF d, m

\* Quotient and remainder are what they are.
LEMMA ModUnique ==
  ASSUME NEW x \in Int, NEW p \in Nat \ {0}, NEW q \in Int, NEW r \in 0 .. p - 1, x = q * p + r
  PROVE  x % p = r /\ x \div p = q
<1> DEFINE d == x \div p
           m == x % p
<1>1. d \in Int /\ m \in 0 .. p - 1 /\ x = p * d + m
  BY DEF d, m
<1>2. q - d \in Int /\ p * (q - d) = m - r
  BY <1>1
<1>3. CASE q - d >= 1
  BY <1>1, <1>2, <1>3
<1>4. CASE q - d <= -1
  BY <1>1, <1>2, <1>4
<1>5. q = d
  BY <1>1, <1>2, <1>3, <1>4
<1>6. m = r
  BY <1>1, <1>2, <1>5
<1> QED BY <1>5, <1>6 DEF d, m

LEMMA DivMod ==
  ASSUME NEW x \in Int, NEW p \in Nat \ {0}
  PROVE  x \div p \in Int /\ x % p \in 0 .. p - 1 /\ x = p * (x \div p) + (x % p)
<1> DEFINE d == x \div p
           m == x % p
<1>1. d \in Int /\ m \in 0 .. p - 1
  BY DEF d, m
<1>2. x = p * d + m
  BY DEF d, m
<1> QED BY <1>1, <1>2 DEF d, m

LEMMA WholeTimes ==
  ASSUME NEW x \in Int, NEW p \in Nat \ {0}, x % p = 0
  PROVE  x \div p \in Int /\ x = p * (x \div p)
<1> DEFINE d == x \div p
<1>1. d \in Int /\ x = p * d + (x % p)
  BY DivMod
<1>2. p * d \in Int
  BY <1>1
<1> HIDE DEF d
<1>3. x = p * d
  BY <1>1, <1>2
<1> QED BY <1>1, <1>3 DEF d

\* What whole multiples are left after wrapping around are whole multiples.
LEMMA ModWhole ==
  ASSUME NEW x \in Int, NEW p \in Nat \ {0}, NEW a \in Nat \ {0}, x % p = 0, a % p = 0
  PROVE  (x % a) % p = 0
<1> DEFINE j == x \div p
           k == a \div p
           d == x \div a
           y == x % a
<1>1. j \in Int /\ x = p * j
  BY WholeTimes
<1>2. k \in Int /\ a = p * k
  BY WholeTimes
<1>3. d \in Int /\ y \in Int /\ x = a * d + y
  BY DivMod
<1> HIDE DEF j, k, d, y
<1>4. k * d \in Int
  BY <1>2, <1>3
<1>5. a * d = p * (k * d)
  BY <1>2, <1>3
<1>6. p * j - p * (k * d) = (j - k * d) * p
  BY <1>1, <1>4
<1>7. y = (j - k * d) * p /\ j - k * d \in Int
  BY <1>1, <1>3, <1>4, <1>5, <1>6
<1>8. y % p = 0
  BY <1>7, TimesMod
<1> QED BY <1>8 DEF y

\* Below the end of the address space there is room for one more page.
LEMMA PageLeft ==
  ASSUME NEW x \in Int, NEW p \in Nat \ {0}, NEW a \in Nat \ {0}, x % p = 0, a % p = 0, x < a
  PROVE  x + p <= a
<1> DEFINE j == x \div p
           k == a \div p
<1>1. j \in Int /\ x = p * j
  BY WholeTimes
<1>2. k \in Int /\ a = p * k
  BY WholeTimes
<1> HIDE DEF j, k
<1>3. a - x = p * (k - j)
  BY <1>1, <1>2
<1>4. CASE k - j <= 0
  <2>1. j - k \in Nat /\ p * (j - k) >= 0
    BY <1>1, <1>2, <1>4
  <2> QED BY <1>1, <1>2, <2>1
<1>5. CASE k - j >= 1
  <2>1. k - j - 1 \in Nat /\ p * (k - j - 1) >= 0
    BY <1>1, <1>2, <1>5
  <2>2. p * (k - j - 1) = p * (k - j) - p
    BY <1>1, <1>2
  <2> QED BY <1>3, <2>1, <2>2
<1> QED BY <1>1, <1>2, <1>4, <1>5

-----------------------------------------------------------------------------
(* Integers of the program and words of C.                                 *)

\* A word that the program can name.
Kept(x) == \E v \in OCamlInts : x = uintnat(v)

LEMMA Quarter ==
  /\ Addresses \div 4 \in Nat /\ Addresses = 4 * (Addresses \div 4) /\ Addresses \div 2 = 2 * (Addresses \div 4)
  /\ Addresses \div 4 > 500
<1>1. Addresses \in Nat \ {0} /\ Addresses % 4 = 0 /\ 500 \in OCamlInts
  BY GcCtrlAssumption
<1> QED BY <1>1 DEF OCamlInts

LEMMA Converted ==
  ASSUME NEW v \in OCamlInts
  PROVE  /\ v \in Int /\ uintnat(v) \in 0 .. Addresses - 1 /\ Reported(uintnat(v)) = v
         /\ v >= 0 => uintnat(v) = v
<1> DEFINE q == Addresses \div 4
<1>0. q \in Nat /\ Addresses = 4 * q /\ Addresses \div 2 = 2 * q /\ q > 500
  BY Quarter
<1>1. v \in Int /\ -q <= v /\ v <= q - 1
  BY <1>0 DEF OCamlInts
<1> HIDE DEF q
<1>2. CASE v >= 0
  <2>1. v % (4 * q) = v
    BY <1>0, <1>1, <1>2, ModUnique
  <2>2. v % (2 * q) = v
    BY <1>0, <1>1, <1>2, ModUnique
  <2> QED BY <1>0, <1>1, <1>2, <2>1, <2>2 DEF uintnat, Reported, q
<1>3. CASE v < 0
  <2>1. v % (4 * q) = v + 4 * q
    <3>1. v = (-1) * (4 * q) + (v + 4 * q)
      BY <1>0, <1>1
    <3> QED BY <1>0, <1>1, <1>3, <3>1, ModUnique
  <2>2. (v + 4 * q) % (2 * q) = v + 2 * q
    <3>1. v + 4 * q = 1 * (2 * q) + (v + 2 * q)
      BY <1>0, <1>1
    <3> QED BY <1>0, <1>1, <1>3, <3>1, ModUnique
  <2> QED BY <1>0, <1>1, <1>3, <2>1, <2>2 DEF uintnat, Reported, q
<1> QED BY <1>1, <1>2, <1>3

LEMMA KeptReported ==
  ASSUME NEW x, Kept(x)
  PROVE  x \in 0 .. Addresses - 1 /\ Reported(x) \in OCamlInts /\ uintnat(Reported(x)) = x
BY Converted DEF Kept

LEMMA SmallKept ==
  ASSUME NEW k \in Int, 0 <= k, k < Addresses \div 4
  PROVE  k \in OCamlInts /\ Kept(k) /\ Reported(k) = k /\ uintnat(k) = k
<1>1. k \in OCamlInts
  BY Quarter DEF OCamlInts
<1> QED BY <1>1, Converted DEF Kept

-----------------------------------------------------------------------------
(* Collections.                                                            *)

Phases == {"idle", "mark", "sweep"}
GcStates ==
  [size : Int, memory : Nat, memories : Nat, young : SUBSET (Nat \X Nat), leaked : SUBSET Nat, stuck : SUBSET Nat,
   used : BOOLEAN, refs : BOOLEAN, incr : Int, pf : Int, pm : Int, policy : Int, verb : Int, stack : Int, heap : Int,
   phase : Phases, fl : {"start", "moved"}, compactions : Nat, early : BOOLEAN, lost : BOOLEAN, raised : BOOLEAN]

\* What no collection touches.
Settings(g) == <<g.size, g.memory, g.memories, g.young, g.leaked, g.stuck, g.incr, g.pf, g.pm, g.policy, g.verb, g.stack, g.heap, g.lost>>

\* h is what collections make of g.
Collected(g, h) ==
  /\ h \in GcStates /\ ~h.early /\ Settings(h) = Settings(g)
  /\ h.compactions >= g.compactions
  /\ h.compactions > g.compactions => g.pm < NoCompaction

LEMMA CollectedTwice ==
  ASSUME NEW g \in GcStates, NEW h, Collected(g, h), NEW k, Collected(h, k)
  PROVE  Collected(g, k)
BY DEF Collected, Settings, GcStates

LEMMA EmptyCollects ==
  ASSUME NEW g \in GcStates, ~g.early
  PROVE  Collected(g, caml_empty_minor_heap(g)) /\ ~caml_empty_minor_heap(g).used /\ caml_empty_minor_heap(g).raised = g.raised
<1> DEFINE h == caml_empty_minor_heap(g)
<1>1. h \in GcStates
  BY DEF GcStates, caml_empty_minor_heap
<1>2. Settings(h) = Settings(g) /\ h.compactions = g.compactions
  BY DEF GcStates, caml_empty_minor_heap, Settings
<1>3. h.used = FALSE /\ h.raised = g.raised /\ h.early = g.early
  BY Zenon DEF GcStates, caml_empty_minor_heap
<1>4. h.compactions \in Nat
  BY <1>1 DEF GcStates
<1> QED BY <1>1, <1>2, <1>3, <1>4 DEF Collected

\* Gc.max_overhead keeps the collector from compacting by itself.
LEMMA OverheadLow ==
  ASSUME NEW fw, NEW hp, NEW cap \in Int, NEW pm \in Int, OverheadReaches(fw, hp, cap, pm)
  PROVE  cap >= pm
BY DEF OverheadReaches

LEMMA FinishCollects ==
  ASSUME NEW g \in GcStates, ~g.early
  PROVE  LET h == caml_finish_major_cycle(g) IN
         Collected(g, h) /\ h.phase = "idle" /\ h.used = g.used /\ h.raised = g.raised
BY DEF Collected, Settings, GcStates, Phases, caml_finish_major_cycle

\* The heap may be compacted: between two cycles, and with the minor heap empty.
LEMMA CompactAllowed ==
  ASSUME NEW g \in GcStates, ~g.early, g.phase = "idle", ~g.used
  PROVE  LET h == caml_compact_heap(g) IN
         /\ h \in GcStates /\ ~h.early /\ Settings(h) = Settings(g) /\ ~h.used /\ h.raised = g.raised
         /\ h.compactions = g.compactions + 1
<1> DEFINE h == caml_compact_heap(g)
<1>1. h = [g EXCEPT !.compactions = g.compactions + 1, !.early = FALSE, !.fl = "start"]
  <2>1. (g.early \/ g.phase # "idle" \/ g.used) = FALSE
    OBVIOUS
  <2> QED BY <2>1, Zenon DEF caml_compact_heap
<1> HIDE DEF h
<1>2. h \in GcStates
  <2>1. g.compactions + 1 \in Nat
    BY DEF GcStates
  <2> QED BY <1>1, <2>1 DEF GcStates
<1>3. Settings(h) = Settings(g) /\ h.compactions = g.compactions + 1
  BY <1>1 DEF GcStates, Settings
<1>4. h.used = g.used /\ h.raised = g.raised /\ h.early = FALSE
  BY <1>1, Zenon DEF GcStates
<1> QED BY <1>2, <1>3, <1>4 DEF h

LEMMA MaybeCollects ==
  ASSUME NEW g \in GcStates, NEW m, ~g.early, ~g.used
  PROVE  LET h == caml_compact_heap_maybe(g, m) IN Collected(g, h) /\ ~h.used /\ h.raised = g.raised
<1> DEFINE f == caml_finish_major_cycle(g)
           c == caml_compact_heap(f)
<1>1. Collected(g, f) /\ f.phase = "idle" /\ ~f.used /\ f.raised = g.raised
  BY FinishCollects
<1>2. f \in GcStates /\ ~f.early
  BY <1>1 DEF Collected
<1>3. c \in GcStates /\ ~c.early /\ Settings(c) = Settings(f) /\ ~c.used /\ c.raised = f.raised /\ c.compactions = f.compactions + 1
  BY <1>1, <1>2, CompactAllowed
<1>4. CASE caml_compact_heap_maybe(g, m) = g
  BY <1>4 DEF Collected, GcStates
<1>5. CASE caml_compact_heap_maybe(g, m) = c /\ g.pm < NoCompaction
  BY <1>1, <1>3, <1>5 DEF Collected, GcStates
<1>6. caml_compact_heap_maybe(g, m) = g \/ (caml_compact_heap_maybe(g, m) = c /\ g.pm < NoCompaction)
  BY DEF caml_compact_heap_maybe
<1> QED BY <1>4, <1>5, <1>6

LEMMA TestCollects ==
  ASSUME NEW g \in GcStates, NEW m, ~g.early, ~g.used, g.phase = "idle"
  PROVE  Collected(g, test_and_compact(g, m))
<1> DEFINE c == caml_compact_heap(g)
<1>1. c \in GcStates /\ ~c.early /\ Settings(c) = Settings(g) /\ c.compactions = g.compactions + 1
  BY CompactAllowed
<1>2. CASE test_and_compact(g, m) = g
  BY <1>2 DEF Collected, GcStates
<1>3. CASE test_and_compact(g, m) = c /\ OverheadReaches(m.cur, m.heap, NoCompaction - 1, g.pm)
  <2>1. NoCompaction - 1 >= g.pm
    BY <1>3, OverheadLow, GcCtrlAssumption DEF GcStates
  <2> QED BY <1>1, <1>3, <2>1, GcCtrlAssumption DEF Collected, GcStates
<1>4. test_and_compact(g, m) = g \/ (test_and_compact(g, m) = c /\ OverheadReaches(m.cur, m.heap, NoCompaction - 1, g.pm))
  BY DEF test_and_compact
<1> QED BY <1>2, <1>3, <1>4

LEMMA SliceCollects ==
  ASSUME NEW g \in GcStates, NEW m, ~g.early, ~g.used, NEW h \in caml_major_collection_slice(g, m)
  PROVE  Collected(g, h) /\ ~h.used /\ h.raised = g.raised
<1> DEFINE i == [g EXCEPT !.phase = "idle"]
<1>1. i \in GcStates /\ ~i.early /\ ~i.used /\ Collected(g, i) /\ i.raised = g.raised
  BY DEF GcStates, Phases, Collected, Settings
<1>2. CASE h = g
  BY <1>2 DEF Collected, GcStates
<1>3. CASE h = caml_compact_heap_maybe(i, m)
  <2>1. Collected(i, h) /\ ~h.used /\ h.raised = i.raised
    BY <1>1, <1>3, MaybeCollects
  <2> QED BY <1>1, <2>1, CollectedTwice
<1>4. CASE \E p \in {"mark", "sweep"} : h = [g EXCEPT !.phase = p]
  BY <1>4 DEF GcStates, Phases, Collected, Settings
<1> QED BY <1>2, <1>3, <1>4 DEF caml_major_collection_slice

LEMMA CallsCollect ==
  ASSUME NEW g \in GcStates, ~g.early, NEW h \in caml_final_do_calls(g)
  PROVE  Collected(g, h) /\ (h.raised /\ ~g.raised => h.used = g.used)
<1>1. CASE h = g
  BY <1>1 DEF Collected, GcStates
<1>2. CASE h = [g EXCEPT !.raised = TRUE]
  <2>1. h \in GcStates
    BY <1>2 DEF GcStates
  <2>2. Settings(h) = Settings(g) /\ h.compactions = g.compactions
    BY <1>2 DEF GcStates, Settings
  <2>3. h.used = g.used /\ h.early = g.early
    BY <1>2, Zenon DEF GcStates
  <2> QED BY <2>1, <2>2, <2>3 DEF Collected, GcStates
<1>3. CASE \E p \in {g.phase, "mark"} : h = [g EXCEPT !.used = TRUE, !.refs = TRUE, !.fl = "moved", !.phase = p]
  <2>1. PICK p \in {g.phase, "mark"} : h = [g EXCEPT !.used = TRUE, !.refs = TRUE, !.fl = "moved", !.phase = p]
    BY <1>3
  <2>2. p \in Phases
    BY DEF GcStates, Phases
  <2>3. h \in GcStates
    BY <2>1, <2>2 DEF GcStates
  <2>4. Settings(h) = Settings(g) /\ h.compactions = g.compactions
    BY <2>1 DEF GcStates, Settings
  <2>5. h.raised = g.raised /\ h.early = g.early
    BY <2>1, Zenon DEF GcStates
  <2> QED BY <2>3, <2>4, <2>5 DEF Collected, GcStates
<1> QED BY <1>1, <1>2, <1>3 DEF caml_final_do_calls

LEMMA MinorCollects ==
  ASSUME NEW g \in GcStates, NEW m, ~g.early, ~g.raised, NEW h \in caml_minor_collection(g, m)
  PROVE  Collected(g, h) /\ ~h.used
<1> DEFINE e == caml_empty_minor_heap(g)
           finalised == Then(caml_major_collection_slice(e, m), caml_final_do_calls)
<1>1. Collected(g, e) /\ ~e.used /\ ~e.raised /\ e \in GcStates /\ ~e.early
  BY EmptyCollects DEF Collected
<1>2. ASSUME NEW f \in finalised PROVE Collected(g, f) /\ (f.raised => ~f.used)
  <2>1. PICK s \in caml_major_collection_slice(e, m) : f \in (IF s.raised THEN {s} ELSE caml_final_do_calls(s))
    BY <1>2 DEF finalised, Then
  <2>2. Collected(e, s) /\ ~s.used /\ ~s.raised
    BY <1>1, <2>1, SliceCollects
  <2>3. s \in GcStates /\ ~s.early /\ f \in caml_final_do_calls(s) /\ Collected(g, s)
    BY <1>1, <2>1, <2>2, CollectedTwice DEF Collected
  <2>4. Collected(s, f) /\ (f.raised => f.used = s.used)
    BY <2>2, <2>3, CallsCollect
  <2> QED BY <2>2, <2>3, <2>4, CollectedTwice
<1>3. PICK f \in finalised : h \in (IF f.raised THEN {f} ELSE {caml_empty_minor_heap(f)})
  BY DEF caml_minor_collection, Then
<1>4. CASE f.raised
  BY <1>2, <1>3, <1>4
<1>5. CASE ~f.raised
  <2>1. f \in GcStates /\ ~f.early /\ Collected(g, f)
    BY <1>2, <1>3 DEF Collected
  <2>2. h = caml_empty_minor_heap(f)
    BY <1>3, <1>5
  <2> QED BY <2>1, <2>2, EmptyCollects, CollectedTwice
<1> QED BY <1>4, <1>5

LEMMA MajorCollects ==
  ASSUME NEW g \in GcStates, NEW m, ~g.early, NEW h \in caml_gc_major(g, m)
  PROVE  Collected(g, h)
<1> DEFINE e == caml_empty_minor_heap(g)
           f == caml_finish_major_cycle(e)
           t == test_and_compact(f, m)
<1>1. Collected(g, e) /\ ~e.used /\ e \in GcStates /\ ~e.early
  BY EmptyCollects DEF Collected
<1>2. Collected(e, f) /\ f.phase = "idle" /\ ~f.used /\ f \in GcStates /\ ~f.early
  BY <1>1, FinishCollects DEF Collected
<1>3. Collected(f, t) /\ t \in GcStates /\ ~t.early
  BY <1>2, TestCollects DEF Collected
<1>4. Collected(g, t)
  BY <1>1, <1>2, <1>3, CollectedTwice
<1>5. Collected(t, h)
  BY <1>3, CallsCollect DEF caml_gc_major
<1> QED BY <1>4, <1>5, CollectedTwice

LEMMA FullMajorCollects ==
  ASSUME NEW g \in GcStates, NEW m, ~g.early, NEW h \in caml_gc_full_major(g, m)
  PROVE  Collected(g, h)
<1> DEFINE e == caml_empty_minor_heap(g)
           f == caml_finish_major_cycle(e)
<1>1. Collected(g, e) /\ e \in GcStates /\ ~e.early
  BY EmptyCollects DEF Collected
<1>2. Collected(e, f) /\ f \in GcStates /\ ~f.early
  BY <1>1, FinishCollects DEF Collected
<1>3. PICK k \in caml_final_do_calls(f) : h \in (IF k.raised THEN {k} ELSE caml_gc_major(k, m))
  BY DEF caml_gc_full_major, Then
<1>4. Collected(f, k) /\ k \in GcStates /\ ~k.early
  BY <1>2, <1>3, CallsCollect DEF Collected
<1>5. Collected(g, k)
  BY <1>1, <1>2, <1>4, CollectedTwice
<1>6. h = k \/ Collected(k, h)
  BY <1>3, <1>4, MajorCollects
<1> QED BY <1>4, <1>5, <1>6, CollectedTwice

\* Gc.compact compacts whatever the settings are.
LEMMA CompactionCompacts ==
  ASSUME NEW g \in GcStates, NEW m, ~g.early, NEW h \in caml_gc_compaction(g, m)
  PROVE  h \in GcStates /\ ~h.early
<1> DEFINE e == caml_empty_minor_heap(g)
           f == caml_finish_major_cycle(e)
           k == caml_finish_major_cycle(f)
           c == caml_compact_heap(k)
<1>1. ~e.used /\ e \in GcStates /\ ~e.early
  BY EmptyCollects DEF Collected
<1>2. ~f.used /\ f \in GcStates /\ ~f.early
  BY <1>1, FinishCollects DEF Collected
<1>3. ~k.used /\ k.phase = "idle" /\ k \in GcStates /\ ~k.early
  BY <1>2, FinishCollects DEF Collected
<1>4. c \in GcStates /\ ~c.early
  BY <1>3, CompactAllowed
<1>5. Collected(c, h)
  BY <1>4, CallsCollect DEF caml_gc_compaction
<1> QED BY <1>5 DEF Collected

\* The state of a program that asks for collections.
Answered == res = [ops |-> res.ops, last |-> res.last, before |-> res.before, gc |-> res.gc]
AskInv ==
  job.part = "gcask" =>
    /\ Answered
    /\ res.gc \in GcStates /\ ~res.gc.early
    /\ res.before = <<>> \/ \E b \in GcStates :
         res.before = <<b>> /\ (res.gc.compactions > b.compactions => res.gc.pm < NoCompaction \/ res.last = "compaction")

LEMMA PagesType == ASSUME NEW memory \in Nat, NEW size PROVE PagesOf(memory, size) \in SUBSET (Nat \X Nat)
BY DEF PagesOf

LEMMA BytesType == ASSUME NEW n \in Int PROVE Bsize_wsize(n) \in Nat /\ Bsize_wsize(n) < Addresses
<1> USE GcCtrlAssumption
<1>1. WordSize * n \in Int /\ Addresses \in Nat \ {0}
  OBVIOUS
<1>2. (WordSize * n) % Addresses \in 0 .. Addresses - 1
  BY <1>1
<1> QED BY <1>1, <1>2 DEF Bsize_wsize

LEMMA InitStates ==
  ASSUME NEW minor \in Int, NEW major \in Nat, NEW incr \in Nat, NEW pf \in Nat, NEW pm \in Int
  PROVE  LET g == caml_init_gc(minor, major, incr, pf, pm) IN g \in GcStates /\ ~g.early
<1> USE GcCtrlAssumption
<1>1. norm_minsize(minor) \in Int /\ Bsize_wsize(norm_minsize(minor)) \in Int
  <2>1. norm_minsize(minor) \in Int
    BY DEF norm_minsize
  <2> QED BY <2>1, BytesType
<1>2. ASSUME NEW i \in Nat PROVE Bsize_wsize(norm_heapincr(i)) \in Int
  <2> DEFINE x == (i + PageWords - 1) % Addresses
  <2>1. x \in Int
    OBVIOUS
  <2> HIDE DEF x
  <2>2. (x \div PageWords) * PageWords \in Int
    BY <2>1
  <2>3. norm_heapincr(i) \in Int
    BY <2>2 DEF norm_heapincr, x
  <2> QED BY <2>3, BytesType
<1>3. PageBytes \in Nat \ {0}
  BY DEF PageBytes
<1>4. ASSUME NEW r \in Int PROVE clip_heap_chunk_size(r) \in Int
  <2> DEFINE a == IF r < WordSize * Heap_chunk_min THEN WordSize * Heap_chunk_min ELSE r
             b == (a + PageBytes - 1) % Addresses
  <2>1. a \in Int
    OBVIOUS
  <2>2. Addresses \in Nat \ {0}
    OBVIOUS
  <2> HIDE DEF a
  <2>3. b \in Int
    BY <1>3, <2>1, <2>2, DivMod
  <2> HIDE DEF b
  <2>4. (b \div PageBytes) * PageBytes \in Int
    BY <1>3, <2>3
  <2> QED BY <2>4 DEF clip_heap_chunk_size, a, b
<1>5. norm_pfree(pf) \in Int /\ norm_pmax(pm) \in Int /\ caml_change_max_stack_size(0) \in Int
  BY DEF norm_pfree, norm_pmax, caml_change_max_stack_size
<1>6. PagesOf(1, Bsize_wsize(norm_minsize(minor))) \in SUBSET (Nat \X Nat)
  BY PagesType
<1>7. Bsize_wsize(norm_heapincr(incr)) \in Int /\ clip_heap_chunk_size(Bsize_wsize(norm_heapincr(major))) \in Int
  BY <1>2, <1>4
<1> QED BY <1>1, <1>5, <1>6, <1>7 DEF caml_init_gc, GcStates, Phases

LEMMA RunStates ==
  ASSUME Answered, res.gc \in GcStates, Run
  PROVE  /\ Answered' /\ res'.gc \in GcStates /\ res'.gc.used /\ res'.gc.early = res.gc.early
         /\ Settings(res'.gc) = Settings(res.gc) /\ res'.gc.compactions = res.gc.compactions
         /\ res'.before = res.before /\ res'.last = res.last
<1> DEFINE g == [res.gc EXCEPT !.used = TRUE, !.refs = TRUE, !.fl = "moved"]
<1>1. res' = [res EXCEPT !.gc.used = TRUE, !.gc.refs = TRUE, !.gc.fl = "moved"]
  BY DEF Run
<1>2. res' = [ops |-> res.ops, last |-> res.last, before |-> res.before, gc |-> g]
  BY <1>1 DEF Answered, GcStates
<1>3. res'.gc = g /\ res'.before = res.before /\ res'.last = res.last /\ Answered'
  BY <1>2 DEF Answered
<1>4. g \in GcStates
  BY DEF GcStates
<1>5. Settings(g) = Settings(res.gc) /\ g.compactions = res.gc.compactions
  BY DEF GcStates, Settings
<1>6. g.used = TRUE /\ g.early = res.gc.early
  BY Zenon DEF GcStates
<1> QED BY <1>3, <1>4, <1>5, <1>6

LEMMA AskKeeps == AskInv /\ GcCtrlNext => AskInv'
<1> SUFFICES ASSUME AskInv, GcCtrlNext, job.part = "gcask", job' = job PROVE AskInv'
  BY DEF AskInv, GcCtrlNext
<1>0. Answered /\ res.gc \in GcStates /\ ~res.gc.early
  BY DEF AskInv
<1>1. CASE Run
  <2>1. /\ Answered' /\ res'.gc \in GcStates /\ ~res'.gc.early /\ res'.gc.pm = res.gc.pm
        /\ res'.gc.compactions = res.gc.compactions /\ res'.before = res.before /\ res'.last = res.last
    BY <1>0, <1>1, RunStates DEF Settings
  <2> QED BY <2>1 DEF AskInv
<1> DEFINE g == [res.gc EXCEPT !.raised = FALSE]
           m == job.measure
<1>2. g \in GcStates /\ g.compactions = res.gc.compactions /\ g.pm = res.gc.pm
  BY <1>0 DEF GcStates
<1>3. ~g.early /\ ~g.raised
  BY <1>0, Zenon DEF GcStates
<1> HIDE DEF g
<1>4. ASSUME NEW last, NEW after, GcAsk(last, after), \A h \in after : Collected(g, h) PROVE AskInv'
  <2>1. PICK h \in after : res' = [ops |-> res.ops + 1, last |-> last, before |-> <<res.gc>>, gc |-> h]
    BY <1>4 DEF GcAsk
  <2>2. Answered' /\ res'.gc = h /\ res'.before = <<res.gc>>
    BY <2>1 DEF Answered
  <2>3. Collected(g, h)
    BY <1>4
  <2>4. h \in GcStates /\ ~h.early /\ h.pm = res.gc.pm /\ (h.compactions > res.gc.compactions => h.pm < NoCompaction)
    BY <1>2, <2>3 DEF Collected, Settings
  <2> QED BY <1>0, <2>2, <2>4 DEF AskInv
<1>5. ASSUME NEW after, GcAsk("compaction", after), \A h \in after : h \in GcStates /\ ~h.early PROVE AskInv'
  <2>1. PICK h \in after : res' = [ops |-> res.ops + 1, last |-> "compaction", before |-> <<res.gc>>, gc |-> h]
    BY <1>5 DEF GcAsk
  <2>2. Answered' /\ res'.gc = h /\ res'.before = <<res.gc>> /\ res'.last = "compaction"
    BY <2>1 DEF Answered
  <2>3. h \in GcStates /\ ~h.early
    BY <1>5
  <2> QED BY <1>0, <2>2, <2>3 DEF AskInv
<1>6. CASE GcAsk("minor", caml_gc_minor(g, m))
  <2>1. \A h \in caml_gc_minor(g, m) : Collected(g, h)
    BY <1>2, <1>3, MinorCollects DEF caml_gc_minor
  <2> QED BY <1>4, <1>6, <2>1
<1>7. CASE GcAsk("major", caml_gc_major(g, m))
  BY <1>2, <1>3, <1>4, <1>7, MajorCollects
<1>8. CASE GcAsk("full", caml_gc_full_major(g, m))
  BY <1>2, <1>3, <1>4, <1>8, FullMajorCollects
<1>9. CASE GcAsk("slice", caml_gc_major_slice(g, m))
  <2> DEFINE e == caml_empty_minor_heap(g)
  <2>1. Collected(g, e) /\ ~e.used /\ e \in GcStates /\ ~e.early
    BY <1>2, <1>3, EmptyCollects DEF Collected
  <2>2. \A h \in caml_gc_major_slice(g, m) : Collected(e, h)
    BY <2>1, SliceCollects DEF caml_gc_major_slice
  <2>3. \A h \in caml_gc_major_slice(g, m) : Collected(g, h)
    BY <1>2, <2>1, <2>2, CollectedTwice
  <2> QED BY <1>4, <1>9, <2>3
<1>10. CASE GcAsk("compaction", caml_gc_compaction(g, m))
  BY <1>2, <1>3, <1>5, <1>10, CompactionCompacts
<1> QED BY <1>1, <1>6, <1>7, <1>8, <1>9, <1>10 DEF GcCtrlNext, g

\* gc_ctrl.c, compact.c, minor_gc.c: the heap is compacted only between two cycles and with the minor
\* heap empty, whatever finalisation functions do between the passes of Gc.full_major, and with a
\* max_overhead of NoCompaction or more by Gc.compact alone: for any measures of the heap, any limit
\* and any number of requests.
THEOREM CollectionsStaySound == GcCtrlSpec => []CollectionsSound
<1>1. GcCtrlInit => AskInv
  <2> SUFFICES ASSUME GcCtrlInit, job.part = "gcask" PROVE AskInv
    BY DEF AskInv
  <2>1. PICK pm \in {0, 50, 100, NoCompaction - 1, NoCompaction, NoCompaction + 1} :
          res = [ops |-> 0, last |-> "none", before |-> <<>>, gc |-> caml_init_gc(0, 0, 0, 80, pm)]
    BY DEF GcCtrlInit
  <2>2. pm \in Int
    BY GcCtrlAssumption
  <2>3. caml_init_gc(0, 0, 0, 80, pm) \in GcStates /\ ~caml_init_gc(0, 0, 0, 80, pm).early
    BY <2>2, InitStates
  <2> QED BY <2>1, <2>3 DEF AskInv, Answered
<1>2. AskInv /\ [GcCtrlNext]_vars => AskInv'
  BY AskKeeps DEF AskInv, Answered, vars
<1>3. AskInv => CollectionsSound
  <2> SUFFICES ASSUME AskInv, job.part = "gcask" PROVE CollectionsSound
    BY DEF CollectionsSound
  <2>1. CASE res.before = <<>>
    BY <2>1 DEF AskInv, CollectionsSound
  <2>2. CASE res.before # <<>>
    BY <2>2 DEF AskInv, CollectionsSound
  <2> QED BY <2>1, <2>2
<1> QED BY <1>1, <1>2, <1>3, PTL DEF GcCtrlSpec

-----------------------------------------------------------------------------
(* Sizes.                                                                  *)

\* Rounding up to whole pages.
LEMMA RoundUp ==
  ASSUME NEW x \in Int, NEW p \in Nat \ {0}
  PROVE  LET y == ((x + p - 1) \div p) * p IN y \in Int /\ y >= x /\ y <= x + p - 1 /\ y % p = 0
<1> DEFINE d == (x + p - 1) \div p
           m == (x + p - 1) % p
<1>1. d \in Int /\ m \in 0 .. p - 1 /\ x + p - 1 = p * d + m
  BY DEF d, m
<1>2. (d * p) % p = 0
  BY <1>1, TimesMod
<1> QED BY <1>1, <1>2 DEF d, m

LEMMA WholeIsRound ==
  ASSUME NEW x \in Int, NEW p \in Nat \ {0}, x % p = 0
  PROVE  ((x + p - 1) \div p) * p = x
<1> DEFINE d == x \div p
           e == (x + p - 1) \div p
           m == (x + p - 1) % p
<1>1. d \in Int /\ x = p * d
  BY WholeTimes
<1>2. e \in Int /\ m \in 0 .. p - 1 /\ x + p - 1 = p * e + m
  BY DEF e, m
<1>3. p * (e - d) = p - 1 - m
  BY <1>1, <1>2
<1>4. CASE e - d >= 1
  BY <1>1, <1>2, <1>3, <1>4
<1>5. CASE e - d <= -1
  BY <1>1, <1>2, <1>3, <1>5
<1>6. e = d
  BY <1>1, <1>2, <1>4, <1>5
<1> QED BY <1>1, <1>6 DEF d, e

LEMMA TimesMono ==
  ASSUME NEW w \in Nat, NEW a \in Int, NEW b \in Int, a <= b
  PROVE  w * a <= w * b
<1>1. b - a \in Nat /\ w * (b - a) >= 0
  OBVIOUS
<1> QED BY <1>1

LEMMA PageBytesType ==
  /\ PageBytes \in Nat \ {0} /\ PageBytes = PageWords * WordSize
  /\ Addresses % PageBytes = 0 /\ Addresses % WordSize = 0
<1> USE GcCtrlAssumption
<1>1. PageBytes \in Nat \ {0} /\ PageBytes = PageWords * WordSize /\ Addresses % PageBytes = 0
  BY DEF PageBytes
<1> DEFINE k == Addresses \div PageBytes
<1>2. k \in Int /\ Addresses = PageBytes * k
  <2>1. Addresses \in Int
    OBVIOUS
  <2> QED BY ONLY <1>1, <2>1, WholeTimes DEF k
<1> HIDE DEF k
<1>3. PageWords * k \in Int /\ Addresses = (PageWords * k) * WordSize
  BY <1>1, <1>2
<1>4. Addresses % WordSize = 0
  BY <1>3, TimesMod
<1> QED BY <1>1, <1>4

\* The smallest chunk, and a page after it, have addresses.
LEMMA ChunkMin ==
  /\ WordSize * Heap_chunk_min \in Nat /\ WordSize * Heap_chunk_min + PageBytes <= Addresses
<1> USE GcCtrlAssumption, PageBytesType
<1>1. WordSize * (Heap_chunk_min + PageWords) = WordSize * Heap_chunk_min + PageBytes
  OBVIOUS
<1> QED BY <1>1

\* An increment has whole pages, and is not too small, in words.
LEMMA HeapIncr ==
  ASSUME NEW i \in Int
  PROVE  norm_heapincr(i) \in Nat /\ norm_heapincr(i) % PageWords = 0 /\ norm_heapincr(i) >= Heap_chunk_min
<1> USE GcCtrlAssumption
<1> DEFINE x == (i + PageWords - 1) % Addresses
           d == x \div PageWords
<1>1. x \in Nat /\ d \in Nat
  OBVIOUS
<1> HIDE DEF d
<1>2. (d * PageWords) % PageWords = 0 /\ d * PageWords \in Nat
  BY <1>1, TimesMod
<1>3. norm_heapincr(i) = IF d * PageWords < Heap_chunk_min THEN Heap_chunk_min ELSE d * PageWords
  BY DEF norm_heapincr, d
<1> QED BY <1>2, <1>3

\* In bytes it has whole pages, whether or not it wrapped around.
LEMMA IncrementBytes ==
  ASSUME NEW i \in Int
  PROVE  LET incr == Bsize_wsize(norm_heapincr(i)) IN incr \in Nat /\ incr < Addresses /\ incr % PageBytes = 0
<1> USE GcCtrlAssumption
<1> DEFINE n == norm_heapincr(i)
           k == n \div PageWords
<1>1. n \in Nat /\ n % PageWords = 0
  BY HeapIncr
<1>2. k \in Int /\ n = PageWords * k
  <2>1. n \in Int /\ PageWords \in Nat \ {0}
    BY <1>1
  <2> QED BY ONLY <1>1, <2>1, WholeTimes DEF k
<1> HIDE DEF n, k
<1>3. WordSize * n = k * PageBytes /\ WordSize * n \in Int
  BY <1>1, <1>2, PageBytesType
<1>4. (WordSize * n) % PageBytes = 0
  BY <1>2, <1>3, PageBytesType, TimesMod
<1>5. ((WordSize * n) % Addresses) % PageBytes = 0
  BY <1>3, <1>4, PageBytesType, ModWhole
<1> QED BY <1>1, <1>5, BytesType DEF Bsize_wsize, n

\* Where what is asked for has addresses, it is what there is, or more.
LEMMA IncrementEnough ==
  ASSUME NEW i \in Int, i >= 0, WordSize * (i + PageWords) <= Addresses
  PROVE  LET incr == Bsize_wsize(norm_heapincr(i))
             whole == ((i + PageWords - 1) \div PageWords) * PageWords
         IN /\ incr >= WordSize * i /\ incr >= WordSize * Heap_chunk_min
            /\ norm_heapincr(i) = (IF whole < Heap_chunk_min THEN Heap_chunk_min ELSE whole) /\ incr = WordSize * norm_heapincr(i)
<1> USE GcCtrlAssumption
<1> DEFINE whole == ((i + PageWords - 1) \div PageWords) * PageWords
           n == norm_heapincr(i)
<1>1. i + PageWords - 1 \in 0 .. Addresses - 1
  <2>1. 1 * (i + PageWords) <= WordSize * (i + PageWords)
    <3>1. (i + PageWords) * 1 <= (i + PageWords) * WordSize
      BY TimesMono
    <3> QED BY <3>1
  <2> QED BY <2>1
<1>2. (i + PageWords - 1) % Addresses = i + PageWords - 1
  BY <1>1, ModUnique
<1>3. n = IF whole < Heap_chunk_min THEN Heap_chunk_min ELSE whole
  BY <1>2 DEF norm_heapincr
<1>4. whole \in Int /\ whole >= i /\ whole <= i + PageWords - 1
  BY RoundUp
<1> HIDE DEF whole
<1>5. n \in Nat /\ n >= i /\ n >= Heap_chunk_min /\ (n <= i + PageWords - 1 \/ n = Heap_chunk_min)
  BY <1>3, <1>4
<1> HIDE DEF n
<1>6. WordSize * n < Addresses
  <2>1. CASE n <= i + PageWords - 1
    <3>1. WordSize * (n + 1) <= WordSize * (i + PageWords)
      BY <1>5, <2>1, TimesMono
    <3>2. WordSize * (n + 1) = WordSize * n + WordSize
      BY <1>5
    <3> QED BY <1>5, <3>1, <3>2
  <2>2. CASE n = Heap_chunk_min
    BY <2>2, ChunkMin, PageBytesType
  <2> QED BY <1>5, <2>1, <2>2
<1>7. WordSize * n \in Nat
  BY <1>5
<1>8. (WordSize * n) % Addresses = WordSize * n
  BY <1>6, <1>7, ModUnique
<1>9. WordSize * n >= WordSize * i /\ WordSize * n >= WordSize * Heap_chunk_min
  BY <1>5, TimesMono
<1> QED BY <1>3, <1>8, <1>9 DEF Bsize_wsize, n, whole

LEMMA ClipWhole ==
  ASSUME NEW r \in Int
  PROVE  clip_heap_chunk_size(r) \in Nat /\ clip_heap_chunk_size(r) % PageBytes = 0
<1> USE GcCtrlAssumption, PageBytesType
<1> DEFINE a == IF r < WordSize * Heap_chunk_min THEN WordSize * Heap_chunk_min ELSE r
           x == (a + PageBytes - 1) % Addresses
           d == x \div PageBytes
<1>1. a \in Int
  OBVIOUS
<1>2. x \in Nat
  BY <1>1
<1>3. d \in Nat
  BY <1>2
<1>4. clip_heap_chunk_size(r) = d * PageBytes
  BY DEF clip_heap_chunk_size
<1> HIDE DEF d
<1>5. (d * PageBytes) % PageBytes = 0 /\ d * PageBytes \in Nat
  BY <1>3, TimesMod
<1> QED BY <1>4, <1>5

LEMMA ClipFits ==
  ASSUME NEW r \in Nat, r + PageBytes <= Addresses
  PROVE  clip_heap_chunk_size(r) >= r /\ clip_heap_chunk_size(r) >= WordSize * Heap_chunk_min
<1> DEFINE a == IF r < WordSize * Heap_chunk_min THEN WordSize * Heap_chunk_min ELSE r
<1>0. PageBytes \in Nat \ {0} /\ Addresses \in Nat \ {0}
  BY PageBytesType, GcCtrlAssumption
<1>1. a \in Nat /\ a >= r /\ a >= WordSize * Heap_chunk_min /\ a + PageBytes <= Addresses
  BY <1>0, ChunkMin
<1>2. clip_heap_chunk_size(r) = (((a + PageBytes - 1) % Addresses) \div PageBytes) * PageBytes
  BY DEF clip_heap_chunk_size
<1> HIDE DEF a
<1>3. a + PageBytes - 1 \in 0 .. Addresses - 1
  BY <1>0, <1>1
<1>4. (a + PageBytes - 1) % Addresses = a + PageBytes - 1
  BY <1>0, <1>3, ModUnique
<1>5. clip_heap_chunk_size(r) = ((a + PageBytes - 1) \div PageBytes) * PageBytes
  BY <1>2, <1>4
<1>6. ((a + PageBytes - 1) \div PageBytes) * PageBytes >= a
  BY <1>0, <1>1, RoundUp
<1>7. clip_heap_chunk_size(r) \in Nat
  BY ClipWhole
<1> QED BY <1>1, <1>5, <1>6, <1>7, ChunkMin

\* What a job on the size of a chunk has computed.
ChunkInv ==
  job.part = "chunk" =>
    /\ \E i \in Increments : job.incr = Bsize_wsize(norm_heapincr(uintnat(i)))
    /\ job.request \in 0 .. Addresses - 1
    /\ res.ops = 0 \/ (res.ops = 1 /\ res.chunk = <<caml_round_heap_chunk_size(job.incr, job.request)>>)

LEMMA ChunkFits ==
  ASSUME NEW i \in Increments, NEW request \in 0 .. Addresses - 1
  PROVE  LET incr == Bsize_wsize(norm_heapincr(uintnat(i)))
             c == caml_round_heap_chunk_size(incr, request)
         IN ~c.raised => c.size % PageBytes = 0 /\ c.size >= request /\ c.size >= incr /\ c.size >= WordSize * Heap_chunk_min
<1> DEFINE incr == Bsize_wsize(norm_heapincr(uintnat(i)))
           c == caml_round_heap_chunk_size(incr, request)
           asked == IF request < incr THEN incr ELSE request
           result == clip_heap_chunk_size(asked)
           least == WordSize * Heap_chunk_min
<1>0. uintnat(i) \in Int /\ request \in Nat /\ request < Addresses /\ Addresses \in Nat \ {0}
  BY GcCtrlAssumption, Converted
<1>1. incr \in Nat /\ incr < Addresses /\ incr % PageBytes = 0
  BY <1>0, IncrementBytes
<1>2. incr + PageBytes <= Addresses
  BY <1>0, <1>1, PageLeft, PageBytesType
<1>3. asked \in Nat /\ result \in Nat /\ result % PageBytes = 0
  <2>1. asked \in Nat
    BY <1>0, <1>1
  <2> QED BY <2>1, ClipWhole
<1>4. c = IF result < request THEN [raised |-> TRUE, size |-> 0] ELSE [raised |-> FALSE, size |-> result]
  BY DEF caml_round_heap_chunk_size
<1>5. least \in Nat /\ least + PageBytes <= Addresses
  BY ChunkMin
<1>6. CASE request < incr
  <2>1. result >= incr /\ result >= least
    BY <1>1, <1>2, <1>6, ClipFits
  <2> HIDE DEF incr, result, c, least, asked
  <2> QED BY <1>0, <1>1, <1>3, <1>4, <1>5, <1>6, <2>1 DEF incr, c, least
<1>7. CASE incr <= request /\ request < least
  <2>1. request + PageBytes <= Addresses /\ asked = request
    BY <1>0, <1>1, <1>5, <1>7, PageBytesType
  <2>2. result >= least
    BY <1>0, <2>1, ClipFits
  <2> HIDE DEF incr, result, c, least, asked
  <2> QED BY <1>0, <1>1, <1>3, <1>4, <1>5, <1>7, <2>2 DEF incr, c, least
<1>8. CASE incr <= request /\ least <= request
  <2> HIDE DEF incr, result, c, least, asked
  <2> QED BY <1>0, <1>1, <1>3, <1>4, <1>5, <1>8 DEF incr, c, least
<1> QED BY <1>0, <1>1, <1>5, <1>6, <1>7, <1>8

\* major_gc.c: a new chunk has whole pages and room for what was asked and for the increment, or
\* Out_of_memory is raised: rounding up a request near the end of the address space never wraps around
\* to a small chunk, for any size of pages, of words and of the address space.
THEOREM ChunksStaySound == GcCtrlSpec => []ChunksSound
<1>1. GcCtrlInit => ChunkInv
  <2> SUFFICES ASSUME GcCtrlInit, job.part = "chunk" PROVE ChunkInv
    BY DEF ChunkInv
  <2>1. PICK incr \in Increments, request \in 0 .. Addresses - 1 :
          /\ job = [part |-> "chunk", incr |-> Bsize_wsize(norm_heapincr(uintnat(incr))), request |-> request]
          /\ res = [ops |-> 0, chunk |-> <<>>]
    BY DEF GcCtrlInit
  <2> QED BY <2>1 DEF ChunkInv
<1>2. ChunkInv /\ [GcCtrlNext]_vars => ChunkInv'
  <2> SUFFICES ASSUME ChunkInv, [GcCtrlNext]_vars, job.part = "chunk" PROVE ChunkInv'
    BY DEF ChunkInv, GcCtrlNext, vars
  <2>1. CASE res' = [ops |-> 1, chunk |-> <<caml_round_heap_chunk_size(job.incr, job.request)>>] /\ job' = job
    BY <2>1 DEF ChunkInv
  <2>2. CASE UNCHANGED vars
    BY <2>2 DEF ChunkInv, vars
  <2> QED BY <2>1, <2>2 DEF GcCtrlNext
<1>3. ChunkInv => ChunksSound
  <2> SUFFICES ASSUME ChunkInv, job.part = "chunk", res.ops = 1 PROVE ChunksSound
    BY DEF ChunksSound
  <2>1. PICK i \in Increments : job.incr = Bsize_wsize(norm_heapincr(uintnat(i)))
    BY DEF ChunkInv
  <2>2. res.chunk[1] = caml_round_heap_chunk_size(job.incr, job.request) /\ job.request \in 0 .. Addresses - 1
    BY DEF ChunkInv
  <2> QED BY <2>1, <2>2, ChunkFits DEF ChunksSound
<1> QED BY <1>1, <1>2, <1>3, PTL DEF GcCtrlSpec

-----------------------------------------------------------------------------
(* Settings.                                                               *)

\* What holds of the parameters and of the minor heap at all times.
Settled(g) ==
  /\ g.size % WordSize = 0 /\ g.size >= Minor_heap_min /\ (g.memory > 1 => g.size <= Minor_heap_max)
  /\ g.size <= WordSize * Minor_heap_max
  /\ g.memory <= g.memories
  /\ PagesOf(g.memory, g.size) \subseteq g.young
  /\ \A p \in g.young : p \in PagesOf(g.memory, g.size) \/ p[1] \in g.leaked \cup g.stuck
  /\ g.incr >= 0 /\ g.incr < Addresses /\ g.incr % PageBytes = 0
  /\ g.pf > 0 /\ g.policy \in {0, 1} /\ g.stack >= StackInUse
  /\ Kept(g.pf) /\ Kept(g.pm) /\ Kept(g.verb) /\ Kept(g.stack)
  /\ g.heap % PageBytes = 0 /\ g.heap >= WordSize * Heap_chunk_min
  /\ ~g.lost

LEMMA SettledSame ==
  ASSUME NEW g, NEW h, Settings(g) = Settings(h), Settled(g)
  PROVE  Settled(h)
<1>1. /\ g.size = h.size /\ g.memory = h.memory /\ g.memories = h.memories /\ g.young = h.young /\ g.leaked = h.leaked
      /\ g.stuck = h.stuck /\ g.incr = h.incr /\ g.pf = h.pf /\ g.pm = h.pm /\ g.verb = h.verb /\ g.policy = h.policy /\ g.stack = h.stack /\ g.heap = h.heap
      /\ g.lost = h.lost
  BY DEF Settings
<1> QED BY <1>1, Zenon DEF Settled

\* The sizes of a minor heap in bytes are integers of the program.
LEMMA MinorMax ==
  /\ Minor_heap_max \in Nat /\ Minor_heap_max < Addresses \div 4 /\ Minor_heap_max <= WordSize * Minor_heap_max
  /\ WordSize * Minor_heap_max \in Nat /\ WordSize * Minor_heap_max < Addresses
<1>1. Minor_heap_max \in Nat /\ WordSize \in Nat /\ WordSize >= 4 /\ WordSize * Minor_heap_max < Addresses
  BY GcCtrlAssumption
<1>2. Minor_heap_max * 4 <= Minor_heap_max * WordSize
  BY <1>1, TimesMono
<1>3. Minor_heap_max * WordSize = WordSize * Minor_heap_max /\ WordSize * Minor_heap_max \in Nat
  BY <1>1
<1> QED BY <1>1, <1>2, <1>3, Quarter

LEMMA MinSize ==
  ASSUME NEW v, v.minor \in OCamlInts
  PROVE  LET s == newminsize(v) IN
         /\ s \in Int /\ s % WordSize = 0 /\ s >= Minor_heap_min /\ s <= Minor_heap_max
         /\ WordSize * v.minor \in Minor_heap_min .. Minor_heap_max => s = WordSize * v.minor
<1> DEFINE x == WordSize * v.minor
           y == x % Addresses
           z == intnat(y)
<1>0. WordSize \in Nat \ {0} /\ Addresses \in Nat \ {0} /\ v.minor \in Int /\ Addresses % WordSize = 0
  BY GcCtrlAssumption, PageBytesType, Converted
<1>1. x \in Int /\ x % WordSize = 0
  <2>1. (v.minor * WordSize) % WordSize = 0 /\ x = v.minor * WordSize /\ x \in Int
    BY <1>0, TimesMod
  <2> QED BY <2>1
<1> HIDE DEF x
<1>2. y \in Int /\ y % WordSize = 0
  <2>1. y \in 0 .. Addresses - 1
    BY <1>0, <1>1
  <2>2. y % WordSize = 0
    BY <1>0, <1>1, ModWhole
  <2> QED BY <1>0, <2>1, <2>2
<1>3. x \in Minor_heap_min .. Minor_heap_max => y = x /\ x < Addresses \div 2
  <2> SUFFICES ASSUME x \in Minor_heap_min .. Minor_heap_max PROVE y = x /\ x < Addresses \div 2
    OBVIOUS
  <2>1. Minor_heap_min \in Nat
    BY GcCtrlAssumption
  <2>2. x \in 0 .. Addresses - 1 /\ x < Addresses \div 2
    BY <1>0, <1>1, <2>1, MinorMax, Quarter
  <2>3. x = 0 * Addresses + x
    BY <1>0, <1>1
  <2> QED BY <1>0, <1>1, <2>2, <2>3, ModUnique
<1> HIDE DEF y
<1>4. z \in Int /\ z % WordSize = 0
  <2>1. CASE z = y
    BY <1>2, <2>1
  <2>2. CASE z = y - Addresses
    <3> DEFINE j == y \div WordSize
               k == Addresses \div WordSize
    <3>1. j \in Int /\ y = WordSize * j
      BY <1>0, <1>2, WholeTimes
    <3>2. k \in Int /\ Addresses = WordSize * k
      BY <1>0, WholeTimes
    <3> HIDE DEF j, k
    <3>3. y - Addresses = (j - k) * WordSize /\ j - k \in Int
      BY <1>0, <3>1, <3>2
    <3>4. ((j - k) * WordSize) % WordSize = 0 /\ (j - k) * WordSize \in Int
      BY <1>0, <3>3, TimesMod
    <3> QED BY <2>2, <3>3, <3>4
  <2> QED BY <2>1, <2>2 DEF intnat
<1>5. x \in Minor_heap_min .. Minor_heap_max => z = x
  BY <1>3 DEF intnat
<1> HIDE DEF z
<1>6. newminsize(v) = norm_minsize(z)
  BY DEF newminsize, Bsize_wsize, x, y, z
<1>7. /\ Minor_heap_min \in Nat /\ Minor_heap_max \in Nat /\ Minor_heap_min <= Minor_heap_max
      /\ Minor_heap_min % WordSize = 0 /\ Minor_heap_max % WordSize = 0
  BY GcCtrlAssumption
<1>8. /\ norm_minsize(z) \in Int /\ norm_minsize(z) % WordSize = 0
      /\ norm_minsize(z) >= Minor_heap_min /\ norm_minsize(z) <= Minor_heap_max
      /\ z \in Minor_heap_min .. Minor_heap_max => norm_minsize(z) = z
  BY <1>4, <1>7 DEF norm_minsize
<1> QED BY <1>5, <1>6, <1>8 DEF x

\* A new minor heap, or an exception and the old one.
LEMMA ReplaceSettles ==
  ASSUME NEW g \in GcStates, ~g.early, ~g.used, ~g.raised, Settled(g), NEW size \in Int,
         size % WordSize = 0, size >= Minor_heap_min, size <= Minor_heap_max, NEW nomem
  PROVE  LET h == Replace(g, size, nomem) IN
         /\ h \in GcStates /\ ~h.early /\ ~h.used /\ Settled(h) /\ h.incr = g.incr
         /\ IF h.raised THEN h.memory = g.memory /\ h.size = g.size ELSE h.size = size
<1> DEFINE memory == g.memories + 1
           new == {p \in PagesOf(memory, size) : nomem[1] = "add" => p[2] <= nomem[2]}
           h == Replace(g, size, nomem)
<1>1. /\ memory \in Nat /\ g.memory \in Nat /\ g.memory # memory /\ g.memory + 1 <= memory
      /\ PagesOf(memory, size) \in SUBSET (Nat \X Nat)
  BY PagesType DEF GcStates, Settled
<1>2. new \in SUBSET (Nat \X Nat) /\ g.young \cup new \in SUBSET (Nat \X Nat)
  BY <1>1 DEF GcStates
<1>3. PagesOf(memory, size) \cap PagesOf(g.memory, g.size) = {}
  BY <1>1 DEF PagesOf
<1>4. \A p \in PagesOf(memory, size) : p[1] = memory
  BY DEF PagesOf
<1>4a. \A p \in PagesOf(g.memory, g.size) : p[1] = g.memory
  BY DEF PagesOf
<1>5. CASE nomem[1] = "malloc"
  <2>1. h = [g EXCEPT !.raised = TRUE]
    BY <1>5 DEF Replace
  <2> HIDE DEF h
  <2>2. h \in GcStates
    BY <2>1 DEF GcStates
  <2>3. Settings(h) = Settings(g)
    BY <2>1 DEF GcStates, Settings
  <2>4. h.used = g.used /\ h.early = g.early /\ h.raised = TRUE
    BY <2>1, Zenon DEF GcStates
  <2>5. h.memory = g.memory /\ h.size = g.size /\ h.incr = g.incr
    BY <2>3 DEF Settings
  <2> QED BY <2>2, <2>3, <2>4, <2>5, SettledSame DEF h
<1>6. CASE nomem[1] = "add"
  <2>1. h = [g EXCEPT !.young = g.young \cup new, !.memories = memory, !.raised = TRUE, !.leaked = g.leaked \cup {memory}]
    BY <1>6 DEF Replace, GcStates
  <2> HIDE DEF h, memory, new
  <2>2. h \in GcStates
    <3>1. g.leaked \cup {memory} \in SUBSET Nat
      BY <1>1 DEF GcStates
    <3> QED BY <1>1, <1>2, <2>1, <3>1 DEF GcStates
  <2>3. h.used = g.used /\ h.early = g.early /\ h.raised = TRUE /\ h.lost = g.lost
    BY <2>1, Zenon DEF GcStates
  <2>4. /\ h.size = g.size /\ h.memory = g.memory /\ h.memories = memory /\ h.young = g.young \cup new
        /\ h.leaked = g.leaked \cup {memory} /\ h.stuck = g.stuck /\ h.incr = g.incr /\ h.pf = g.pf /\ h.pm = g.pm /\ h.verb = g.verb /\ h.policy = g.policy
        /\ h.stack = g.stack /\ h.heap = g.heap
    BY <2>1 DEF GcStates
  <2>5. \A p \in h.young : p \in PagesOf(h.memory, h.size) \/ p[1] \in h.leaked \cup h.stuck
    <3>1. \A p \in new : p[1] \in h.leaked
      BY <1>4, <2>4 DEF new
    <3> QED BY <2>4, <3>1 DEF Settled
  <2>6. h.memory <= h.memories
    BY <1>1, <2>4
  <2>7. Settled(h)
    BY <2>3, <2>4, <2>5, <2>6 DEF Settled
  <2> QED BY <2>2, <2>3, <2>4, <2>7 DEF h
<1>7. CASE nomem[1] \notin {"malloc", "add"}
  <2> DEFINE young == IF nomem[1] = "remove" THEN g.young \cup new ELSE (g.young \cup new) \ PagesOf(g.memory, g.size)
             stuck == IF nomem[1] = "remove" THEN g.stuck \cup {g.memory} ELSE g.stuck
  <2>0. (g.lost \/ g.used) = FALSE
    BY DEF Settled
  <2>1. h = [g EXCEPT !.young = young, !.memories = memory, !.stuck = stuck, !.lost = FALSE, !.memory = memory, !.size = size,
                      !.refs = FALSE]
    <3> DEFINE marked == [g EXCEPT !.young = g.young \cup new, !.memories = memory]
    <3>1. h = [marked EXCEPT !.young = IF nomem[1] = "remove" THEN @ ELSE @ \ PagesOf(g.memory, g.size),
                             !.stuck = IF nomem[1] = "remove" THEN @ \cup {g.memory} ELSE @,
                             !.lost = g.lost \/ g.used, !.memory = memory, !.size = size, !.refs = FALSE]
      BY <1>7, Zenon DEF Replace
    <3>2. h = [marked EXCEPT !.young = IF nomem[1] = "remove" THEN @ ELSE @ \ PagesOf(g.memory, g.size),
                             !.stuck = IF nomem[1] = "remove" THEN @ \cup {g.memory} ELSE @,
                             !.lost = FALSE, !.memory = memory, !.size = size, !.refs = FALSE]
      BY <2>0, <3>1
    <3> HIDE DEF h
    <3> QED BY <3>2 DEF GcStates
  <2>2. new = PagesOf(memory, size)
    BY <1>7
  <2>3. young \in SUBSET (Nat \X Nat) /\ stuck \in SUBSET Nat
    BY <1>1, <1>2 DEF GcStates
  <2>4. \A p \in young : p \in PagesOf(memory, size) \/ p[1] \in g.leaked \cup stuck
    BY <1>4a, <2>2 DEF Settled
  <2>5. PagesOf(memory, size) \subseteq young
    BY <1>3, <2>2
  <2> HIDE DEF h, memory, new, young, stuck
  <2>6. h \in GcStates
    BY <1>1, <2>1, <2>3 DEF GcStates
  <2>7. h.used = g.used /\ h.early = g.early /\ h.raised = g.raised /\ h.lost = FALSE
    BY <2>1, Zenon DEF GcStates
  <2>8. /\ h.size = size /\ h.memory = memory /\ h.memories = memory /\ h.young = young
        /\ h.leaked = g.leaked /\ h.stuck = stuck /\ h.incr = g.incr /\ h.pf = g.pf /\ h.pm = g.pm /\ h.verb = g.verb /\ h.policy = g.policy
        /\ h.stack = g.stack /\ h.heap = g.heap
    BY <2>1 DEF GcStates
  <2>9. size <= WordSize * Minor_heap_max
    BY MinorMax
  <2>10. Settled(h)
    BY <1>1, <2>4, <2>5, <2>7, <2>8, <2>9 DEF Settled
  <2> QED BY <2>6, <2>7, <2>8, <2>10 DEF h
<1> QED BY <1>5, <1>6, <1>7

\* Gc.set up to the size of the minor heap.
Parameters(g, v) ==
  [g EXCEPT !.verb = uintnat(v.verb), !.stack = caml_change_max_stack_size(uintnat(v.stack)), !.pf = norm_pfree(uintnat(v.pf)),
            !.pm = norm_pmax(uintnat(v.pm)), !.incr = Bsize_wsize(norm_heapincr(uintnat(v.incr)))]
Assigned(g, v) ==
  IF norm_policy(v.policy) # g.policy THEN caml_set_allocation_policy(Parameters(g, v), norm_policy(v.policy)) ELSE Parameters(g, v)

\* The increment that Gc.set makes of one that Gc.get reports.
Raised(incr) == IF incr < WordSize * Heap_chunk_min THEN WordSize * Heap_chunk_min ELSE incr

\* The increment is enough for what was asked, where that has addresses.
EnoughFor(i, incr) ==
  i >= 0 /\ WordSize * (i + PageWords) <= Addresses => incr >= WordSize * i /\ incr >= WordSize * Heap_chunk_min

LEMMA GcSetSplit ==
  ASSUME NEW g, NEW v, NEW nomem, NEW m
  PROVE  LET size == newminsize(v) IN
         caml_gc_set(g, v, nomem, m) = IF size # g.size THEN caml_set_minor_heap_size(Assigned(g, v), size, nomem, m) ELSE {Assigned(g, v)}
BY DEF caml_gc_set, Assigned, Parameters

LEMMA AssignedSettles ==
  ASSUME NEW g \in GcStates, ~g.early, Settled(g), NEW v \in Asked
  PROVE  LET q == Assigned(g, v) IN
         /\ q \in GcStates /\ ~q.early /\ q.raised = g.raised /\ q.used = g.used /\ Settled(q)
         /\ q.size = g.size /\ q.memory = g.memory /\ EnoughFor(v.incr, q.incr)
<1> DEFINE p == Parameters(g, v)
           q == Assigned(g, v)
           pol == norm_policy(v.policy)
           fl == IF pol # g.policy THEN "start" ELSE g.fl
           stack == caml_change_max_stack_size(uintnat(v.stack))
           pf == norm_pfree(uintnat(v.pf))
           pm == norm_pmax(uintnat(v.pm))
           verb == uintnat(v.verb)
           incr == Bsize_wsize(norm_heapincr(uintnat(v.incr)))
<1>0. /\ v.incr \in OCamlInts /\ v.pf \in OCamlInts /\ v.verb \in OCamlInts /\ v.pm \in OCamlInts /\ v.stack \in OCamlInts
      /\ v.policy \in OCamlInts
  BY DEF Asked
<1>1. /\ stack \in Int /\ stack >= StackInUse /\ Kept(stack)
      /\ pf \in Int /\ pf > 0 /\ Kept(pf)
      /\ pm \in Int /\ Kept(pm) /\ verb \in Int /\ Kept(verb) /\ pol \in {0, 1}
  <2>1. stack \in Int /\ stack >= StackInUse /\ Kept(stack)
    <3>1. uintnat(v.stack) \in Int /\ Kept(uintnat(v.stack))
      BY <1>0, Converted DEF Kept
    <3>2. StackInUse \in Nat /\ StackInUse \in OCamlInts
      BY GcCtrlAssumption
    <3>3. StackInUse \in Int /\ Kept(StackInUse)
      BY <3>2, Converted DEF Kept
    <3> QED BY <3>1, <3>3 DEF caml_change_max_stack_size
  <2>2. pf \in Int /\ pf > 0 /\ Kept(pf)
    <3>1. uintnat(v.pf) \in Int /\ Kept(uintnat(v.pf))
      BY <1>0, Converted DEF Kept
    <3>2. Kept(1)
      BY SmallKept, Quarter
    <3> QED BY <3>1, <3>2 DEF norm_pfree
  <2>3. pm \in Int /\ Kept(pm) /\ verb \in Int /\ Kept(verb)
    BY <1>0, Converted DEF Kept, norm_pmax
  <2>4. pol \in {0, 1}
    BY DEF norm_policy
  <2> QED BY <2>1, <2>2, <2>3, <2>4
<1>2. incr \in Nat /\ incr < Addresses /\ incr % PageBytes = 0 /\ EnoughFor(v.incr, incr)
  <2>1. uintnat(v.incr) \in Int /\ v.incr \in Int /\ (v.incr >= 0 => uintnat(v.incr) = v.incr)
    BY <1>0, Converted
  <2>2. incr \in Nat /\ incr < Addresses /\ incr % PageBytes = 0
    BY <2>1, IncrementBytes
  <2> QED BY <2>1, <2>2, IncrementEnough DEF EnoughFor
<1>3. q = [p EXCEPT !.policy = pol, !.fl = fl]
  <2>1. CASE pol # g.policy
    BY <2>1 DEF Assigned, caml_set_allocation_policy
  <2>2. CASE pol = g.policy
    <3>1. p = [p EXCEPT !.policy = g.policy, !.fl = g.fl]
      BY DEF Parameters, GcStates
    <3> QED BY <2>2, <3>1 DEF Assigned
  <2> QED BY <2>1, <2>2
<1>4. p = [g EXCEPT !.verb = verb, !.stack = stack, !.pf = pf, !.pm = pm, !.incr = incr]
  BY DEF Parameters
<1> HIDE DEF p, q, pol, stack, pf, pm, verb, incr
<1>5. p \in GcStates /\ fl \in {"start", "moved"}
  <2>1. incr \in Int
    BY <1>2
  <2> QED BY <1>1, <1>4, <2>1 DEF GcStates
<1>6. /\ p.size = g.size /\ p.memory = g.memory /\ p.memories = g.memories /\ p.young = g.young /\ p.leaked = g.leaked
      /\ p.stuck = g.stuck /\ p.heap = g.heap /\ p.incr = incr /\ p.pf = pf /\ p.pm = pm /\ p.verb = verb /\ p.stack = stack
  BY <1>4 DEF GcStates
<1>7. p.early = g.early /\ p.raised = g.raised /\ p.used = g.used /\ p.lost = g.lost
  BY <1>4, Zenon DEF GcStates
<1> HIDE DEF fl
<1>8. q \in GcStates
  <2>1. pol \in Int
    BY <1>1
  <2>2. [p EXCEPT !.policy = pol, !.fl = fl] \in GcStates
    BY <1>5, <2>1 DEF GcStates
  <2> QED BY <1>3, <2>2
<1>9. /\ q.size = p.size /\ q.memory = p.memory /\ q.memories = p.memories /\ q.young = p.young /\ q.leaked = p.leaked
      /\ q.stuck = p.stuck /\ q.heap = p.heap /\ q.incr = p.incr /\ q.pf = p.pf /\ q.pm = p.pm /\ q.verb = p.verb
      /\ q.stack = p.stack /\ q.policy = pol
  BY <1>3, <1>5 DEF GcStates
<1>10. q.early = p.early /\ q.raised = p.raised /\ q.used = p.used /\ q.lost = p.lost
  BY <1>3, <1>5, Zenon DEF GcStates
<1>11. q.incr >= 0
  BY <1>2, <1>6, <1>9
<1>12. Settled(q)
  BY <1>1, <1>2, <1>6, <1>7, <1>9, <1>10, <1>11 DEF Settled
<1> QED BY <1>2, <1>6, <1>7, <1>8, <1>9, <1>10, <1>12 DEF q

\* An increment that is reported and assigned again.
LEMMA IncrementAgain ==
  ASSUME NEW incr \in Int, incr >= 0, incr < Addresses, incr % PageBytes = 0
  PROVE  LET n == Reported(incr \div WordSize) IN n \in OCamlInts /\ Bsize_wsize(norm_heapincr(uintnat(n))) = Raised(incr)
<1> DEFINE n == incr \div WordSize
           k == incr \div PageBytes
<1>0. /\ WordSize \in Nat \ {0} /\ WordSize >= 4 /\ PageWords \in Nat \ {0} /\ Addresses \in Nat \ {0} /\ Heap_chunk_min \in Nat
      /\ PageBytes \in Nat \ {0} /\ PageBytes = PageWords * WordSize /\ Addresses % PageBytes = 0
  BY GcCtrlAssumption, PageBytesType
<1>1. k \in Int /\ incr = PageBytes * k
  BY <1>0, WholeTimes
<1> HIDE DEF k
<1>2. PageWords * k \in Int /\ incr = (PageWords * k) * WordSize
  BY <1>0, <1>1
<1>3. n = PageWords * k /\ n \in Int /\ incr = WordSize * n
  <2> DEFINE w == PageWords * k
  <2>1. w \in Int /\ incr = w * WordSize
    BY <1>2
  <2> HIDE DEF w
  <2>2. (w * WordSize) \div WordSize = w
    BY <1>0, <2>1, TimesMod
  <2>3. n = w
    BY <2>1, <2>2
  <2>4. w * WordSize = WordSize * w
    BY <1>0, <2>1
  <2> QED BY <2>1, <2>3, <2>4 DEF w
<1> HIDE DEF n
<1>4. n % PageWords = 0
  <2>1. (k * PageWords) % PageWords = 0 /\ k * PageWords = PageWords * k
    BY <1>0, <1>1, TimesMod
  <2> QED BY <1>3, <2>1
<1>5. n >= 0
  <2>1. CASE n <= -1
    <3>1. WordSize * n <= WordSize * (-1)
      BY <1>0, <1>3, <2>1, TimesMono
    <3> QED BY <1>0, <1>3, <3>1
  <2> QED BY <1>3, <2>1
<1>6. n < Addresses \div 4
  <2>1. n * 4 <= n * WordSize
    BY <1>0, <1>3, <1>5, TimesMono
  <2> QED BY <1>0, <1>3, <2>1, Quarter
<1>7. n \in OCamlInts /\ Reported(n) = n /\ uintnat(n) = n
  BY <1>3, <1>5, <1>6, SmallKept
<1>8. WordSize * (n + PageWords) <= Addresses
  <2>1. incr + PageBytes <= Addresses
    BY <1>0, PageLeft
  <2>2. WordSize * (n + PageWords) = WordSize * n + PageBytes
    BY <1>0, <1>3
  <2> QED BY <1>3, <2>1, <2>2
<1>9. ((n + PageWords - 1) \div PageWords) * PageWords = n
  BY <1>0, <1>3, <1>4, WholeIsRound
<1>10. /\ norm_heapincr(n) = (IF n < Heap_chunk_min THEN Heap_chunk_min ELSE n)
       /\ Bsize_wsize(norm_heapincr(n)) = WordSize * norm_heapincr(n)
  BY <1>3, <1>5, <1>8, <1>9, IncrementEnough
<1>11. n < Heap_chunk_min <=> incr < WordSize * Heap_chunk_min
  <2>1. CASE n < Heap_chunk_min
    <3>1. WordSize * (n + 1) <= WordSize * Heap_chunk_min
      BY <1>0, <1>3, <2>1, TimesMono
    <3>2. WordSize * (n + 1) = WordSize * n + WordSize
      BY <1>0, <1>3
    <3> QED BY <1>0, <1>3, <2>1, <3>1, <3>2
  <2>2. CASE Heap_chunk_min <= n
    <3>1. WordSize * Heap_chunk_min <= WordSize * n
      BY <1>0, <1>3, <2>2, TimesMono
    <3> QED BY <1>0, <1>3, <2>2, <3>1
  <2> QED BY <1>0, <1>3, <2>1, <2>2
<1>12. Bsize_wsize(norm_heapincr(n)) = Raised(incr)
  BY <1>3, <1>10, <1>11 DEF Raised
<1> QED BY <1>7, <1>12 DEF n

\* Gc.set (Gc.get ()) assigns what is there.
LEMMA AssignedSame ==
  ASSUME NEW g \in GcStates, Settled(g)
  PROVE  /\ Assigned(g, caml_gc_get(g)) = [g EXCEPT !.incr = Raised(g.incr)]
         /\ WordSize * caml_gc_get(g).minor = g.size /\ caml_gc_get(g) \in Asked
<1> DEFINE v == caml_gc_get(g)
<1>1. v.incr \in OCamlInts /\ Bsize_wsize(norm_heapincr(uintnat(v.incr))) = Raised(g.incr)
  <2>1. g.incr \in Int /\ g.incr >= 0 /\ g.incr < Addresses /\ g.incr % PageBytes = 0
    BY DEF GcStates, Settled
  <2> QED BY <2>1, IncrementAgain DEF caml_gc_get
<1>2. v.verb \in OCamlInts /\ uintnat(v.verb) = g.verb
  BY KeptReported DEF caml_gc_get, Settled
<1>3. v.pm \in OCamlInts /\ norm_pmax(uintnat(v.pm)) = g.pm
  BY KeptReported DEF caml_gc_get, Settled, norm_pmax
<1>4. v.stack \in OCamlInts /\ caml_change_max_stack_size(uintnat(v.stack)) = g.stack
  <2>1. v.stack \in OCamlInts /\ uintnat(v.stack) = g.stack
    BY KeptReported DEF caml_gc_get, Settled
  <2>2. g.stack >= StackInUse /\ g.stack \in Int /\ StackInUse \in Int
    BY GcCtrlAssumption DEF Settled, GcStates
  <2> HIDE DEF v
  <2> QED BY <2>1, <2>2 DEF caml_change_max_stack_size
<1>5. v.pf \in OCamlInts /\ norm_pfree(uintnat(v.pf)) = g.pf
  <2>1. v.pf \in OCamlInts /\ uintnat(v.pf) = g.pf
    BY KeptReported DEF caml_gc_get, Settled
  <2>2. g.pf > 0 /\ g.pf \in Int
    BY DEF Settled, GcStates
  <2> HIDE DEF v
  <2> QED BY <2>1, <2>2 DEF norm_pfree
<1>6. v.policy \in OCamlInts /\ norm_policy(v.policy) = g.policy
  <2>1. g.policy \in {0, 1}
    BY DEF Settled
  <2>2. Reported(g.policy) = g.policy /\ g.policy \in OCamlInts
    BY <2>1, SmallKept, Quarter
  <2> QED BY <2>1, <2>2 DEF caml_gc_get, norm_policy
<1>7. v.minor \in OCamlInts /\ WordSize * v.minor = g.size
  <2> DEFINE d == g.size \div WordSize
  <2>0. /\ g.size \in Int /\ g.size % WordSize = 0 /\ g.size >= Minor_heap_min /\ Minor_heap_min \in Nat
        /\ g.size <= WordSize * Minor_heap_max /\ WordSize \in Nat \ {0} /\ Minor_heap_max \in Nat
    BY GcCtrlAssumption DEF GcStates, Settled
  <2>1. d \in Int /\ g.size = WordSize * d
    BY <2>0, WholeTimes
  <2> HIDE DEF d
  <2>2. d >= 0
    <3>1. CASE d <= -1
      <4>1. WordSize * d <= WordSize * (-1)
        BY <2>0, <2>1, <3>1, TimesMono
      <4> QED BY <2>0, <2>1, <4>1
    <3> QED BY <2>1, <3>1
  <2>3. d <= Minor_heap_max
    <3>1. CASE d >= Minor_heap_max + 1
      <4>1. WordSize * (Minor_heap_max + 1) <= WordSize * d
        BY <2>0, <2>1, <3>1, TimesMono
      <4>2. WordSize * (Minor_heap_max + 1) = WordSize * Minor_heap_max + WordSize
        BY <2>0
      <4>3. WordSize * Minor_heap_max \in Int
        BY <2>0
      <4> QED BY <2>0, <2>1, <4>1, <4>2, <4>3
    <3> QED BY <2>0, <2>1, <3>1
  <2>4. d < Addresses \div 4
    BY <2>1, <2>3, MinorMax, Quarter
  <2>5. Reported(d) = d /\ d \in OCamlInts
    BY <2>1, <2>2, <2>4, SmallKept
  <2>6. v.minor = Reported(d)
    BY DEF caml_gc_get, d
  <2> QED BY <2>1, <2>5, <2>6
<1>8. v \in Asked
  <2>1. v = [minor |-> v.minor, incr |-> v.incr, pf |-> v.pf, verb |-> v.verb, pm |-> v.pm, stack |-> v.stack, policy |-> v.policy]
    BY DEF caml_gc_get
  <2> HIDE DEF v
  <2> QED BY <1>1, <1>2, <1>3, <1>4, <1>5, <1>6, <1>7, <2>1 DEF Asked
<1> HIDE DEF v
<1>9. Parameters(g, v) = [g EXCEPT !.incr = Raised(g.incr)]
  <2>1. Parameters(g, v) = [g EXCEPT !.verb = g.verb, !.stack = g.stack, !.pf = g.pf, !.pm = g.pm, !.incr = Raised(g.incr)]
    BY <1>1, <1>2, <1>3, <1>4, <1>5 DEF Parameters
  <2> QED BY <2>1 DEF GcStates
<1>10. Assigned(g, v) = [g EXCEPT !.incr = Raised(g.incr)]
  BY <1>6, <1>9 DEF Assigned
<1> QED BY <1>7, <1>8, <1>10 DEF v

LEMMA GcSetSettles ==
  ASSUME NEW g \in GcStates, ~g.early, ~g.raised, Settled(g), NEW v \in Asked, NEW nomem, NEW m,
         NEW h \in caml_gc_set(g, v, nomem, m)
  PROVE  /\ h \in GcStates /\ ~h.early /\ Settled(h) /\ EnoughFor(v.incr, h.incr)
         /\ v = caml_gc_get(g) /\ g.size <= Minor_heap_max => h = [g EXCEPT !.incr = Raised(g.incr)]
         /\ ~h.raised /\ WordSize * v.minor \in Minor_heap_min .. Minor_heap_max => h.size = WordSize * v.minor
         /\ h.raised => h.memory = g.memory /\ h.size = g.size
<1> DEFINE q == Assigned(g, v)
           size == newminsize(v)
           same == [g EXCEPT !.incr = Raised(g.incr)]
<1>1. /\ q \in GcStates /\ ~q.early /\ ~q.raised /\ q.used = g.used /\ Settled(q) /\ q.size = g.size /\ q.memory = g.memory
      /\ EnoughFor(v.incr, q.incr)
  BY AssignedSettles
<1>2. /\ size \in Int /\ size % WordSize = 0 /\ size >= Minor_heap_min /\ size <= Minor_heap_max
      /\ WordSize * v.minor \in Minor_heap_min .. Minor_heap_max => size = WordSize * v.minor
  <2>1. v.minor \in OCamlInts
    BY DEF Asked
  <2> QED BY <2>1, MinSize
<1>3. v = caml_gc_get(g) /\ g.size <= Minor_heap_max => q = same /\ size = g.size
  <2> SUFFICES ASSUME v = caml_gc_get(g), g.size <= Minor_heap_max PROVE q = same /\ size = g.size
    OBVIOUS
  <2>1. q = same /\ WordSize * v.minor = g.size
    BY AssignedSame
  <2>2. g.size \in Minor_heap_min .. Minor_heap_max
    BY GcCtrlAssumption DEF GcStates, Settled
  <2> QED BY <1>2, <2>1, <2>2
<1>4. h \in IF size # g.size THEN caml_set_minor_heap_size(q, size, nomem, m) ELSE {q}
  BY GcSetSplit
<1> HIDE DEF q, size, same
<1>5. CASE size = g.size
  BY <1>1, <1>2, <1>3, <1>4, <1>5 DEF same
<1>6. CASE size # g.size
  <2>1. PICK k \in (IF q.used THEN caml_minor_collection(q, m) ELSE {q}) :
          h \in (IF k.raised THEN {k} ELSE {Replace(k, size, nomem)})
    BY <1>4, <1>6 DEF caml_set_minor_heap_size, Then
  <2>2. k \in GcStates /\ ~k.early /\ ~k.used /\ Settings(k) = Settings(q)
    <3>1. CASE q.used
      BY <1>1, <2>1, <3>1, MinorCollects DEF Collected
    <3>2. CASE ~q.used
      BY <1>1, <2>1, <3>2
    <3> QED BY <3>1, <3>2
  <2>3. Settled(k) /\ k.memory = g.memory /\ k.size = g.size /\ k.incr = q.incr
    <3>1. Settled(k)
      BY <1>1, <2>2, SettledSame
    <3> QED BY <1>1, <2>2, <3>1 DEF Settings
  <2>4. CASE k.raised
    BY <1>1, <1>3, <1>6, <2>1, <2>2, <2>3, <2>4
  <2>5. CASE ~k.raised
    <3>1. h = Replace(k, size, nomem)
      BY <2>1, <2>5
    <3>2. /\ h \in GcStates /\ ~h.early /\ Settled(h) /\ h.incr = k.incr
          /\ IF h.raised THEN h.memory = k.memory /\ h.size = k.size ELSE h.size = size
      BY <1>2, <2>2, <2>3, <2>5, <3>1, ReplaceSettles
    <3> QED BY <1>1, <1>2, <1>3, <1>6, <2>3, <3>2
  <2> QED BY <2>4, <2>5
<1> QED BY <1>5, <1>6

\* The state of a program that sets parameters; b is what the last Gc.set found.
SetInv ==
  job.part = "gcset" =>
    /\ Answered
    /\ res.gc \in GcStates /\ ~res.gc.early /\ Settled(res.gc)
    /\ res.before = <<>> \/ \E b \in GcStates :
         /\ res.before = <<b>> /\ res.last.minor \in Int /\ EnoughFor(res.last.incr, res.gc.incr)
         /\ ~res.gc.used =>
              /\ res.last = caml_gc_get(b) /\ b.size <= Minor_heap_max => res.gc = [b EXCEPT !.raised = FALSE, !.incr = Raised(b.incr)]
              /\ (~res.gc.raised /\ res.last.minor * WordSize \in Minor_heap_min .. Minor_heap_max) =>
                   res.gc.size = res.last.minor * WordSize
              /\ res.gc.raised => res.gc.memory = b.memory /\ res.gc.size = b.size

LEMMA SetInit == GcCtrlInit => SetInv
<1> SUFFICES ASSUME GcCtrlInit, job.part = "gcset" PROVE SetInv
  BY DEF SetInv
<1>1. PICK minor \in MinorSizes, i \in Increments :
        res = [ops |-> 0, last |-> NoControl, before |-> <<>>, gc |-> caml_init_gc(minor, uintnat(i), uintnat(i), 80, 500)]
  BY DEF GcCtrlInit
<1> DEFINE g == caml_init_gc(minor, uintnat(i), uintnat(i), 80, 500)
           incr == Bsize_wsize(norm_heapincr(uintnat(i)))
           s == norm_minsize(minor)
           size == Bsize_wsize(s)
           stack == caml_change_max_stack_size(0)
<1>2. minor \in Int /\ uintnat(i) \in Nat
  <2>1. minor \in OCamlInts /\ i \in OCamlInts
    BY GcCtrlAssumption
  <2>2. minor \in Int /\ uintnat(i) \in 0 .. Addresses - 1 /\ Addresses \in Nat
    BY <2>1, Converted, Quarter
  <2> QED BY <2>2
<1>3. g \in GcStates /\ ~g.early
  <2> DEFINE u == uintnat(i)
             pm == 500
  <2>1. u \in Nat /\ pm \in Int
    BY <1>2
  <2> HIDE DEF g, u, pm
  <2>2. caml_init_gc(minor, u, u, 80, pm) \in GcStates /\ ~caml_init_gc(minor, u, u, 80, pm).early
    BY <1>2, <2>1, InitStates
  <2> QED BY <2>2 DEF g, u, pm
<1>4. incr \in Nat /\ incr < Addresses /\ incr % PageBytes = 0
  BY <1>2, IncrementBytes
<1>5. /\ g.size = size /\ g.memory = 1 /\ g.memories = 1 /\ g.young = PagesOf(1, size) /\ g.incr = incr
      /\ g.pf = norm_pfree(80) /\ g.pm = norm_pmax(500) /\ g.verb = 0
      /\ g.policy = 0 /\ g.stack = stack /\ g.heap = clip_heap_chunk_size(incr) /\ g.lost = FALSE
  BY DEF caml_init_gc
<1>6. /\ size \in Int /\ size % WordSize = 0 /\ size >= Minor_heap_min /\ size <= WordSize * Minor_heap_max
  <2>0. Minor_heap_min \in Nat /\ Minor_heap_max \in Nat /\ Minor_heap_min <= Minor_heap_max /\ WordSize \in Nat \ {0}
    BY GcCtrlAssumption
  <2>1. s \in Int /\ s >= Minor_heap_min /\ s <= Minor_heap_max
    BY <1>2, <2>0 DEF norm_minsize
  <2> HIDE DEF s
  <2>2. (s * WordSize) % WordSize = 0 /\ WordSize * s = s * WordSize /\ WordSize * s \in Int
    BY <2>0, <2>1, TimesMod
  <2>3. WordSize * s >= Minor_heap_min
    <3>1. WordSize * s >= WordSize * Minor_heap_min
      BY <2>0, <2>1, TimesMono
    <3>2. Minor_heap_min * 1 <= Minor_heap_min * WordSize
      BY <2>0, TimesMono
    <3> QED BY <2>0, <2>2, <3>1, <3>2
  <2>4. WordSize * s <= WordSize * Minor_heap_max
    BY <2>0, <2>1, TimesMono
  <2>5. size = WordSize * s
    <3>1. WordSize * s \in 0 .. Addresses - 1 /\ Addresses \in Nat \ {0}
      BY <2>0, <2>2, <2>3, <2>4, MinorMax, GcCtrlAssumption
    <3>2. WordSize * s = 0 * Addresses + WordSize * s
      BY <2>2, <3>1
    <3>3. (WordSize * s) % Addresses = WordSize * s
      BY <2>2, <3>1, <3>2, ModUnique
    <3> QED BY <3>3 DEF Bsize_wsize
  <2> HIDE DEF size
  <2> QED BY <2>2, <2>3, <2>4, <2>5
<1>7. clip_heap_chunk_size(incr) % PageBytes = 0 /\ clip_heap_chunk_size(incr) >= WordSize * Heap_chunk_min
  <2>1. Addresses \in Nat \ {0}
    BY GcCtrlAssumption
  <2>2. incr + PageBytes <= Addresses
    BY <1>4, <2>1, PageLeft, PageBytesType
  <2> HIDE DEF incr
  <2> QED BY <1>4, <2>2, ClipWhole, ClipFits
<1>8. norm_pfree(80) = 80 /\ norm_pmax(500) = 500 /\ Kept(80) /\ Kept(500) /\ Kept(0)
  BY SmallKept, Quarter DEF norm_pfree, norm_pmax
<1>9. stack >= StackInUse /\ Kept(stack)
  <2>1. StackInUse \in Nat /\ StackInUse \in OCamlInts
    BY GcCtrlAssumption
  <2>2. stack = StackInUse
    BY <2>1 DEF caml_change_max_stack_size
  <2> HIDE DEF stack
  <2> QED BY <2>1, <2>2, Converted DEF Kept
<1> HIDE DEF g, incr, s, size, stack
<1>10. Settled(g)
  BY <1>4, <1>5, <1>6, <1>7, <1>8, <1>9 DEF Settled
<1>11. res = [ops |-> 0, last |-> NoControl, before |-> <<>>, gc |-> g]
  BY <1>1 DEF g
<1> QED BY <1>3, <1>10, <1>11 DEF SetInv, Answered

LEMMA SetKeeps == SetInv /\ GcCtrlNext => SetInv'
<1> SUFFICES ASSUME SetInv, GcCtrlNext, job.part = "gcset", job' = job PROVE SetInv'
  BY DEF SetInv, GcCtrlNext
<1>0. Answered /\ res.gc \in GcStates /\ ~res.gc.early /\ Settled(res.gc)
  BY DEF SetInv
<1>1. CASE Run
  <2>1. /\ Answered' /\ res'.gc \in GcStates /\ ~res'.gc.early /\ Settings(res'.gc) = Settings(res.gc) /\ res'.gc.used
        /\ res'.before = res.before /\ res'.last = res.last
    BY <1>0, <1>1, RunStates
  <2>2. Settled(res'.gc)
    BY <1>0, <2>1, SettledSame
  <2>3. res'.gc.incr = res.gc.incr
    BY <2>1 DEF Settings
  <2> QED BY <2>1, <2>2, <2>3 DEF SetInv
<1>2. ASSUME NEW v \in Controls \cup {caml_gc_get(res.gc)}, GcSet(v) PROVE SetInv'
  <2> DEFINE b == res.gc
             g == [b EXCEPT !.raised = FALSE]
  <2>0. PICK nomem \in Failures(newminsize(v)) : \E after \in caml_gc_set(g, v, nomem, Measure) :
          res' = [ops |-> res.ops + 1, last |-> v, before |-> <<b>>, gc |-> after]
    BY <1>2 DEF GcSet
  <2>1. PICK h \in caml_gc_set(g, v, nomem, Measure) :
          res' = [ops |-> res.ops + 1, last |-> v, before |-> <<b>>, gc |-> h]
    BY <2>0
  <2>2. g \in GcStates /\ Settings(g) = Settings(b) /\ g.size = b.size /\ g.memory = b.memory /\ g.incr = b.incr
         /\ caml_gc_get(g) = caml_gc_get(b)
    BY <1>0 DEF GcStates, Settings, caml_gc_get
  <2>3. ~g.early /\ ~g.raised
    BY <1>0, Zenon DEF GcStates
  <2>4. Settled(g)
    BY <1>0, <2>2, SettledSame
  <2>5. v \in Asked
    BY <1>0, AssignedSame, GcCtrlAssumption
  <2>6. Answered' /\ res'.gc = h /\ res'.before = <<b>> /\ res'.last = v
    BY <2>1 DEF Answered
  <2> HIDE DEF g
  <2>7. /\ h \in GcStates /\ ~h.early /\ Settled(h) /\ EnoughFor(v.incr, h.incr)
        /\ v = caml_gc_get(g) /\ g.size <= Minor_heap_max => h = [g EXCEPT !.incr = Raised(g.incr)]
        /\ ~h.raised /\ WordSize * v.minor \in Minor_heap_min .. Minor_heap_max => h.size = WordSize * v.minor
        /\ h.raised => h.memory = g.memory /\ h.size = g.size
    BY <2>1, <2>2, <2>3, <2>4, <2>5, GcSetSettles
  <2>8. v.minor \in Int /\ WordSize * v.minor = v.minor * WordSize
    <3>1. v.minor \in OCamlInts
      BY <2>5 DEF Asked
    <3> QED BY <3>1, Converted, GcCtrlAssumption
  <2>9. v = caml_gc_get(b) /\ b.size <= Minor_heap_max => h = [b EXCEPT !.raised = FALSE, !.incr = Raised(b.incr)]
    <3>1. [g EXCEPT !.incr = Raised(g.incr)] = [b EXCEPT !.raised = FALSE, !.incr = Raised(b.incr)]
      BY <2>2 DEF g
    <3> QED BY <2>2, <2>7, <3>1
  <2> QED BY <1>0, <2>2, <2>6, <2>7, <2>8, <2>9 DEF SetInv
<1> QED BY <1>1, <1>2 DEF GcCtrlNext

\* gc_ctrl.c, minor_gc.c: whatever integers Gc.set is asked for and wherever memory runs out, the minor heap
\* has whole words, room for the largest small block, and all its pages known as young; other pages are known
\* as young only where memory ran out; a heap that is replaced has been emptied, even when finalisation
\* functions allocate meanwhile; the increment has whole pages and is enough unless its bytes wrap around; and
\* Gc.set (Gc.get ()) changes nothing but an increment below the smallest chunk, which only a wrap leaves.
\* For any sizes of words, pages and heaps, any parameters and any number of calls.
THEOREM SettingsStaySound == GcCtrlSpec => []SettingsSound
<1>1. SetInv /\ [GcCtrlNext]_vars => SetInv'
  BY SetKeeps DEF SetInv, Answered, vars
<1>2. SetInv => SettingsSound
  <2> SUFFICES ASSUME SetInv, job.part = "gcset" PROVE SettingsSound
    BY DEF SettingsSound
  <2> DEFINE g == res.gc
  <2>1. g \in GcStates /\ Settled(g)
    BY DEF SetInv
  <2>2. g.incr % PageBytes = 0
    BY <2>1 DEF Settled
  <2>3. (res.before # <<>> /\ res.last.incr >= 0 /\ WordSize * (res.last.incr + PageWords) <= Addresses) =>
          g.incr >= WordSize * res.last.incr /\ g.incr >= WordSize * Heap_chunk_min
    BY DEF SetInv, EnoughFor
  <2>4. g.size \div WordSize > MaxYoungWords
    <3> DEFINE d == g.size \div WordSize
    <3>1. g.size \in Int /\ WordSize \in Nat \ {0} /\ g.size % WordSize = 0 /\ g.size >= WordSize * (MaxYoungWords + 1) /\ MaxYoungWords \in Nat
      <4>1. WordSize * (MaxYoungWords + 1) \in Int
        BY GcCtrlAssumption
      <4> QED BY <2>1, <4>1, GcCtrlAssumption DEF GcStates, Settled
    <3>2. d \in Int /\ g.size = WordSize * d
      BY <3>1, WholeTimes
    <3> HIDE DEF d
    <3>3. CASE d <= MaxYoungWords
      <4>1. WordSize * d <= WordSize * MaxYoungWords
        BY <3>1, <3>2, <3>3, TimesMono
      <4>2. WordSize * (MaxYoungWords + 1) = WordSize * MaxYoungWords + WordSize
        BY <3>1
      <4> QED BY <3>1, <3>2, <4>1, <4>2
    <3> QED BY <3>1, <3>2, <3>3 DEF d
  <2>5. ASSUME NEW b \in GcStates, res.before = <<b>>, ~g.used, res.last.minor \in Int,
               ~g.raised, res.last.minor * WordSize \in Minor_heap_min .. Minor_heap_max, g.size = res.last.minor * WordSize
        PROVE  caml_gc_get(g).minor = res.last.minor
    <3>0. WordSize \in Nat \ {0} /\ WordSize >= 4 /\ Minor_heap_min \in Nat /\ Minor_heap_max \in Nat
      BY GcCtrlAssumption
    <3> DEFINE k == res.last.minor
    <3> HIDE DEF k
    <3>1. (k * WordSize) \div WordSize = k /\ k \in Int /\ k * WordSize >= 0 /\ k * WordSize <= Minor_heap_max
      <4>1. k \in Int /\ k * WordSize \in Minor_heap_min .. Minor_heap_max
        BY <2>5 DEF k
      <4>2. (k * WordSize) \div WordSize = k
        BY <3>0, <4>1, TimesMod
      <4> QED BY <3>0, <4>1, <4>2
    <3>2. k >= 0
      BY <3>0, <3>1
    <3>3. k <= Minor_heap_max
      <4>1. k * 1 <= k * WordSize
        BY <3>0, <3>1, <3>2, TimesMono
      <4> QED BY <3>0, <3>1, <4>1
    <3>4. Reported(k) = k
      BY <3>0, <3>1, <3>2, <3>3, MinorMax, Quarter, SmallKept
    <3> QED BY <2>5, <3>1, <3>4 DEF caml_gc_get, k
  <2>6. (res.before # <<>> /\ ~ g.used) =>
         LET b == res.before[1] IN
         /\ res.last = caml_gc_get(b) /\ b.size <= Minor_heap_max => g = [b EXCEPT !.raised = FALSE, !.incr = Raised(b.incr)]
         /\ (~ g.raised /\ res.last.minor * WordSize \in Minor_heap_min .. Minor_heap_max) => caml_gc_get(g).minor = res.last.minor
         /\ g.raised => g.memory = b.memory /\ g.size = b.size
    <3> SUFFICES ASSUME res.before # <<>>, ~g.used
                 PROVE  LET b == res.before[1] IN
                        /\ res.last = caml_gc_get(b) /\ b.size <= Minor_heap_max => g = [b EXCEPT !.raised = FALSE, !.incr = Raised(b.incr)]
                        /\ (~ g.raised /\ res.last.minor * WordSize \in Minor_heap_min .. Minor_heap_max) =>
                             caml_gc_get(g).minor = res.last.minor
                        /\ g.raised => g.memory = b.memory /\ g.size = b.size
      OBVIOUS
    <3>1. PICK b \in GcStates :
           /\ res.before = <<b>> /\ res.last.minor \in Int
           /\ res.last = caml_gc_get(b) /\ b.size <= Minor_heap_max => g = [b EXCEPT !.raised = FALSE, !.incr = Raised(b.incr)]
           /\ (~g.raised /\ res.last.minor * WordSize \in Minor_heap_min .. Minor_heap_max) => g.size = res.last.minor * WordSize
           /\ g.raised => g.memory = b.memory /\ g.size = b.size
      BY DEF SetInv
    <3>2. res.before[1] = b
      BY <3>1
    <3> QED BY <2>5, <3>1, <3>2
  <2> QED BY <2>1, <2>2, <2>3, <2>4, <2>6 DEF SettingsSound, Settled, Raised
<1> QED BY SetInit, <1>1, <1>2, PTL DEF GcCtrlSpec
===============================================================================
