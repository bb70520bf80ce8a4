------------------------------- MODULE GcCtrl -------------------------------
(***************************************************************************)
(* The control of the collector (gc_ctrl.c): Gc.set and Gc.get with the      *)
(* change of the minor heap (minor_gc.c), the collections the program asks   *)
(* for, the decision to compact (compact.c) and the size of a new chunk      *)
(* (major_gc.c).  The collections themselves are those of MinorGC, MajorGC,  *)
(* WeakFinal and Compact; here they are what they leave behind.              *)
(*                                                                         *)
(* The memory of a minor heap is known by a number; In_young marks are a set *)
(* of <<memory, page>>.  An operator that runs OCaml code yields the set of   *)
(* the states it may leave: a finalisation function may allocate, start a    *)
(* cycle or raise.  fl is what the free list remembers of its searches.      *)
(***************************************************************************)
EXTENDS Integers, Sequences, FiniteSets, Jobs

CONSTANTS
  WordSize, PageWords,               \* sizeof (value), Wsize_bsize (Page_size)
  Minor_heap_min, Minor_heap_max, Heap_chunk_min, MaxYoungWords,
  NoCompaction,                       \* 1000000
  MinorSizes, Increments,             \* what a program starts with
  Controls,                           \* what Gc.set is asked for
  GcSets,                             \* calls of Gc.set in a job
  StackInUse,                         \* words of stack that cannot be given up
  Addresses,                          \* 2^w, for sizes in bytes
  HeapMeasures                        \* [cur, at_change, heap, collections, chunks] of a heap

\* The integers of the program have one bit less than a word.
OCamlInts == -(Addresses \div 4) .. (Addresses \div 4) - 1
Asked == [minor : OCamlInts, incr : OCamlInts, pf : OCamlInts, verb : OCamlInts, pm : OCamlInts, stack : OCamlInts, policy : OCamlInts]

\* The limits of config.h, in words and bytes, are far from the end of the address space.
ASSUME GcCtrlAssumption ==
  /\ {WordSize, PageWords, Addresses} \subseteq Nat \ {0} /\ WordSize >= 4
  /\ Addresses % 4 = 0 /\ Addresses % (PageWords * WordSize) = 0
  /\ {Minor_heap_min, Minor_heap_max, Heap_chunk_min, MaxYoungWords, NoCompaction, StackInUse, GcSets} \subseteq Nat
  /\ MinorSizes \cup Increments \cup {80, 500, StackInUse} \subseteq OCamlInts /\ Controls \subseteq Asked
  /\ Minor_heap_min >= WordSize * (MaxYoungWords + 1) /\ Minor_heap_max >= Minor_heap_min
  /\ Minor_heap_min % WordSize = 0 /\ Minor_heap_max % WordSize = 0 /\ Heap_chunk_min % PageWords = 0
  /\ WordSize * Minor_heap_max < Addresses /\ WordSize * (Heap_chunk_min + PageWords) <= Addresses

PageBytes == PageWords * WordSize

\* Integers of the program are converted to words of C, without a sign or with one, and back; sizes
\* in words are converted to bytes without a look at their size.
uintnat(i) == i % Addresses
intnat(x) == IF x < Addresses \div 2 THEN x ELSE x - Addresses
Reported(x) == LET low == x % (Addresses \div 2) IN IF low < Addresses \div 4 THEN low ELSE low - Addresses \div 2
Bsize_wsize(n) == (WordSize * n) % Addresses

norm_pfree(p) == IF p < 1 THEN 1 ELSE p
norm_pmax(p) == p
norm_heapincr(i) ==
  LET whole == (((i + PageWords - 1) % Addresses) \div PageWords) * PageWords IN IF whole < Heap_chunk_min THEN Heap_chunk_min ELSE whole
norm_minsize(s) == IF s < Minor_heap_min THEN Minor_heap_min ELSE IF s > Minor_heap_max THEN Minor_heap_max ELSE s
norm_policy(p) == IF p \in {0, 1} THEN p ELSE 1

(***************************************************************************)
(* Compaction, in words.  fp >= percent_max, where fp is 100 fw over the     *)
(* live words, at most cap; a heap without live words has the overhead cap.  *)
(***************************************************************************)
OverheadReaches(fw, heap, cap, pm) ==
  IF fw >= heap THEN cap >= pm ELSE (100 * fw >= pm * (heap - fw) \/ 100 * fw > cap * (heap - fw)) /\ cap >= pm
FreeEstimate(m) == IF 3 * m.cur - 2 * m.at_change < 0 THEN m.cur ELSE 3 * m.cur - 2 * m.at_change

caml_finish_major_cycle(g) == [g EXCEPT !.phase = "idle"]
\* early: the heap was compacted in the middle of a cycle, or with values left in the minor heap.
caml_compact_heap(g) == [g EXCEPT !.compactions = g.compactions + 1, !.early = g.early \/ g.phase # "idle" \/ g.used, !.fl = "start"]
test_and_compact(g, m) ==
  IF OverheadReaches(m.cur, m.heap, NoCompaction - 1, g.pm) /\ m.chunks > 1 THEN caml_compact_heap(g) ELSE g
\* The overhead measured after the cycle is only reported.
caml_compact_heap_maybe(g, m) ==
  IF /\ g.pm < NoCompaction /\ m.collections >= 3 /\ m.chunks >= 3
     /\ OverheadReaches(FreeEstimate(m), m.heap, NoCompaction, g.pm)
    THEN caml_compact_heap(caml_finish_major_cycle(g)) ELSE g

(***************************************************************************)
(* Collections.                                                            *)
(***************************************************************************)
Then(gs, f(_)) == UNION {IF g.raised THEN {g} ELSE f(g) : g \in gs}

caml_empty_minor_heap(g) == [g EXCEPT !.used = FALSE, !.refs = FALSE]
caml_major_collection_slice(g, m) ==
  IF g.phase = "sweep" THEN {g, caml_compact_heap_maybe([g EXCEPT !.phase = "idle"], m)}
  ELSE {[g EXCEPT !.phase = p] : p \in {"mark", "sweep"}}
caml_final_do_calls(g) ==
  {g, [g EXCEPT !.raised = TRUE]} \cup {[g EXCEPT !.used = TRUE, !.refs = TRUE, !.fl = "moved", !.phase = p] : p \in {g.phase, "mark"}}
caml_minor_collection(g, m) ==
  LET finalised == Then(caml_major_collection_slice(caml_empty_minor_heap(g), m), caml_final_do_calls)
  IN Then(finalised, LAMBDA h : {caml_empty_minor_heap(h)})

caml_gc_minor(g, m) == caml_minor_collection(g, m)
caml_gc_major(g, m) == caml_final_do_calls(test_and_compact(caml_finish_major_cycle(caml_empty_minor_heap(g)), m))
caml_gc_full_major(g, m) ==
  Then(caml_final_do_calls(caml_finish_major_cycle(caml_empty_minor_heap(g))), LAMBDA h : caml_gc_major(h, m))
caml_gc_major_slice(g, m) == caml_major_collection_slice(caml_empty_minor_heap(g), m)
caml_gc_compaction(g, m) ==
  caml_final_do_calls(caml_compact_heap(caml_finish_major_cycle(caml_finish_major_cycle(caml_empty_minor_heap(g)))))

(***************************************************************************)
(* The minor heap.  nomem is what runs out: nothing, "malloc", the page      *)
(* table after a number of pages, or its growth before pages are removed     *)
(* (removing adds no entry, so only the first removal may have to grow it).  *)
(***************************************************************************)
PagesOf(memory, size) == {<<memory, k>> : k \in 1 .. (size + PageBytes - 1) \div PageBytes}
Failures(size) == {<<"none", 0>>, <<"malloc", 0>>, <<"remove", 0>>} \cup {<<"add", k>> : k \in 0 .. (size - 1) \div PageBytes}

\* The old heap is emptied first and given up only when the new one is known to the page table; memory
\* that the page table cannot hold is not given back.
Replace(g, size, nomem) ==
  LET memory == g.memories + 1
      marked == [g EXCEPT !.young = @ \cup {p \in PagesOf(memory, size) : nomem[1] = "add" => p[2] <= nomem[2]}, !.memories = memory]
  IN CASE nomem[1] = "malloc" -> [g EXCEPT !.raised = TRUE]
       [] nomem[1] = "add" -> [marked EXCEPT !.raised = TRUE, !.leaked = @ \cup {memory}]
       [] OTHER -> [marked EXCEPT !.young = IF nomem[1] = "remove" THEN @ ELSE @ \ PagesOf(g.memory, g.size),
                                  !.stuck = IF nomem[1] = "remove" THEN @ \cup {g.memory} ELSE @,
                                  !.lost = g.lost \/ g.used, !.memory = memory, !.size = size, !.refs = FALSE]
caml_set_minor_heap_size(g, size, nomem, m) ==
  Then(IF g.used THEN caml_minor_collection(g, m) ELSE {g}, LAMBDA h : {Replace(h, size, nomem)})

caml_set_allocation_policy(g, p) == [g EXCEPT !.policy = p, !.fl = "start"]
caml_change_max_stack_size(new) == IF new < StackInUse THEN StackInUse ELSE new

newminsize(v) == norm_minsize(intnat(Bsize_wsize(v.minor)))
\* The minor heap comes last: it may raise Out_of_memory.
caml_gc_set(g, v, nomem, m) ==
  LET p == [g EXCEPT !.verb = uintnat(v.verb), !.stack = caml_change_max_stack_size(uintnat(v.stack)),
                     !.pf = norm_pfree(uintnat(v.pf)), !.pm = norm_pmax(uintnat(v.pm)),
                     !.incr = Bsize_wsize(norm_heapincr(uintnat(v.incr)))]
      newpolicy == norm_policy(v.policy)
      q == IF newpolicy # g.policy THEN caml_set_allocation_policy(p, newpolicy) ELSE p
  IN IF newminsize(v) # g.size THEN caml_set_minor_heap_size(q, newminsize(v), nomem, m) ELSE {q}
caml_gc_get(g) ==
  [minor |-> Reported(g.size \div WordSize), incr |-> Reported(g.incr \div WordSize), pf |-> Reported(g.pf), verb |-> Reported(g.verb),
   pm |-> Reported(g.pm), stack |-> Reported(g.stack), policy |-> Reported(g.policy)]

(***************************************************************************)
(* The chunks of the major heap, in bytes.                                  *)
(***************************************************************************)
clip_heap_chunk_size(request) ==
  LET r == IF request < WordSize * Heap_chunk_min THEN WordSize * Heap_chunk_min ELSE request
  IN (((r + PageBytes - 1) % Addresses) \div PageBytes) * PageBytes
caml_round_heap_chunk_size(incr, request) ==
  LET result == clip_heap_chunk_size(IF request < incr THEN incr ELSE request)
  IN IF result < request THEN [raised |-> TRUE, size |-> 0] ELSE [raised |-> FALSE, size |-> result]

\* The start of a program whose first heaps could be had; the others stop there (main, Startup.tla).
caml_init_gc(minor_size, major_size, major_incr, percent_fr, percent_m) ==
  LET size == Bsize_wsize(norm_minsize(minor_size)) IN
  [size |-> size, memory |-> 1, memories |-> 1, young |-> PagesOf(1, size), leaked |-> {}, stuck |-> {}, used |-> FALSE, refs |-> FALSE,
   incr |-> Bsize_wsize(norm_heapincr(major_incr)), pf |-> norm_pfree(percent_fr), pm |-> norm_pmax(percent_m), policy |-> 0,
   verb |-> 0, stack |-> caml_change_max_stack_size(0), heap |-> clip_heap_chunk_size(Bsize_wsize(norm_heapincr(major_size))),
   phase |-> "idle", fl |-> "start", compactions |-> 0, early |-> FALSE, lost |-> FALSE, raised |-> FALSE]

(***************************************************************************)
(* Jobs: a program that sets and gets parameters, one that asks for          *)
(* collections, and the size of one chunk.                                  *)
(***************************************************************************)
NoControl == [minor |-> 0, incr |-> 0, pf |-> 0, verb |-> 0, pm |-> 0, stack |-> 0, policy |-> 0]
GcCtrlInit ==
  \/ \E minor \in MinorSizes, incr \in Increments :
       /\ job = [part |-> "gcset"]
       /\ res = [ops |-> 0, last |-> NoControl, before |-> <<>>, gc |-> caml_init_gc(minor, uintnat(incr), uintnat(incr), 80, 500)]
  \/ \E pm \in {0, 50, 100, NoCompaction - 1, NoCompaction, NoCompaction + 1}, m \in HeapMeasures :
       /\ job = [part |-> "gcask", measure |-> m]
       /\ res = [ops |-> 0, last |-> "none", before |-> <<>>, gc |-> caml_init_gc(0, 0, 0, 80, pm)]
  \/ \E incr \in Increments, request \in 0 .. Addresses - 1 :
       /\ job = [part |-> "chunk", incr |-> Bsize_wsize(norm_heapincr(uintnat(incr))), request |-> request]
       /\ res = [ops |-> 0, chunk |-> <<>>]

\* The program runs, so that the minor heap, the tables of references and the free list are in use.
Run == ~ res.gc.used /\ res' = [res EXCEPT !.gc.used = TRUE, !.gc.refs = TRUE, !.gc.fl = "moved"]
Measure == CHOOSE m \in HeapMeasures : m.chunks < 3
GcSet(v) ==
  /\ res.ops < GcSets
  /\ \E nomem \in Failures(newminsize(v)) :
       \E after \in caml_gc_set([res.gc EXCEPT !.raised = FALSE], v, nomem, Measure) :
         res' = [ops |-> res.ops + 1, last |-> v, before |-> <<res.gc>>, gc |-> after]
GcAsk(last, after) ==
  /\ res.ops < GcSets
  /\ \E g \in after : res' = [ops |-> res.ops + 1, last |-> last, before |-> <<res.gc>>, gc |-> g]
GcCtrlNext ==
  /\ UNCHANGED job
  /\ \/ job.part \in {"gcset", "gcask"} /\ Run
     \/ job.part = "gcset" /\ \E v \in Controls \cup {caml_gc_get(res.gc)} : GcSet(v)
     \/ /\ job.part = "gcask"
        /\ LET g == [res.gc EXCEPT !.raised = FALSE] m == job.measure IN
           \/ GcAsk("minor", caml_gc_minor(g, m))
           \/ GcAsk("major", caml_gc_major(g, m))
           \/ GcAsk("full", caml_gc_full_major(g, m))
           \/ GcAsk("slice", caml_gc_major_slice(g, m))
           \/ GcAsk("compaction", caml_gc_compaction(g, m))
     \/ /\ job.part = "chunk" /\ res.ops = 0
        /\ res' = [ops |-> 1, chunk |-> <<caml_round_heap_chunk_size(job.incr, job.request)>>]

GcCtrlSpec == GcCtrlInit /\ [][GcCtrlNext]_vars

(***************************************************************************)
(* Properties.                                                             *)
(***************************************************************************)
\* gc_ctrl.c, minor_gc.c: whatever integers are asked and wherever memory runs out, the minor heap has
\* whole words, room for the largest small block and the size that Gc.get reports, all its pages are known
\* as young, and a page of memory that was given back is known as young only if the page table could not
\* grow when it was removed; a heap that is replaced has been emptied, even when finalisation functions
\* allocate meanwhile.  The increment has whole pages; it is what was asked for or more, and no less than
\* the smallest chunk, when that many bytes have addresses, and otherwise what is left of them by
\* Bsize_wsize, which may be none.  Gc.set (Gc.get ()) allocates nothing and changes nothing, unless the
\* heap is the initial one and larger than Gc.set allows, or such an increment is smaller than a chunk.
SettingsSound ==
  job.part = "gcset" =>
    LET g == res.gc IN
    /\ g.size % WordSize = 0 /\ g.size \div WordSize > MaxYoungWords /\ (g.memory > 1 => g.size <= Minor_heap_max)
    /\ PagesOf(g.memory, g.size) \subseteq g.young
    /\ \A p \in g.young : p \in PagesOf(g.memory, g.size) \/ p[1] \in g.leaked \cup g.stuck
    /\ g.incr % PageBytes = 0 /\ g.pf > 0 /\ g.policy \in {0, 1}
    /\ g.stack >= StackInUse /\ g.heap % PageBytes = 0 /\ g.heap >= WordSize * Heap_chunk_min
    /\ ~ g.lost
    /\ (res.before # <<>> /\ res.last.incr >= 0 /\ WordSize * (res.last.incr + PageWords) <= Addresses) =>
         g.incr >= WordSize * res.last.incr /\ g.incr >= WordSize * Heap_chunk_min
    /\ (res.before # <<>> /\ ~ g.used) =>
         LET b == res.before[1]
             incr == IF b.incr < WordSize * Heap_chunk_min THEN WordSize * Heap_chunk_min ELSE b.incr IN
         /\ res.last = caml_gc_get(b) /\ b.size <= Minor_heap_max => g = [b EXCEPT !.raised = FALSE, !.incr = incr]
         /\ (~ g.raised /\ res.last.minor * WordSize \in Minor_heap_min .. Minor_heap_max) => caml_gc_get(g).minor = res.last.minor
         /\ g.raised => g.memory = b.memory /\ g.size = b.size

\* gc_ctrl.c, compact.c, minor_gc.c: the heap is compacted only between two cycles and with the minor heap
\* empty, whatever finalisation functions do between the passes of Gc.full_major; a max_overhead of
\* NoCompaction or more leaves compaction to Gc.compact.
CollectionsSound ==
  job.part = "gcask" =>
    LET g == res.gc IN
    /\ ~ g.early
    /\ (res.before # <<>> /\ g.compactions > res.before[1].compactions) => g.pm < NoCompaction \/ res.last = "compaction"

\* major_gc.c: a chunk has whole pages, room for what was asked and for the increment, or Out_of_memory is
\* raised; a request near the end of the address space never wraps around to a small chunk.
ChunksSound ==
  (job.part = "chunk" /\ res.ops = 1) =>
    LET c == res.chunk[1] IN
    ~ c.raised => c.size % PageBytes = 0 /\ c.size >= job.request /\ c.size >= job.incr /\ c.size >= WordSize * Heap_chunk_min
=============================================================================
