------------------------------- MODULE MajorGC -------------------------------
(***************************************************************************)
(* The incremental mark-and-sweep collector of the major heap              *)
(* (byterun/major_gc.c) together with the mutator that it interrupts: the  *)
(* write barrier Modify (byterun/memory.h), allocation in the major heap   *)
(* and its choice of colour (byterun/memory.c).                            *)
(*                                                                         *)
(* A slice runs to its end before the mutator resumes, and the mutator     *)
(* does anything between two slices.  Each iteration of the loops of       *)
(* mark_slice and sweep_slice, and each field of the block being marked,   *)
(* is a step, so that the gray stack can overflow anywhere.                *)
(***************************************************************************)
EXTENDS Integers, Sequences

CONSTANTS
  N,          \* number of block slots of the heap, in the order of addresses
  F,          \* number of fields of a block
  Tags,       \* the tags the mutator allocates blocks with
  GrayInit,   \* initial size of gray_vals, in entries
  GrayLimit   \* caml_stat_heap_size / 128: gray_vals only grows below it

\* Infix, Closure, Object, Custom and String tags behave as one of these.
AllTags == {"Block", "Forward", "Lazy", "Double", "Abstract"}

ASSUME HeapAssumption == N \in Nat \ {0} /\ F \in Nat \ {0}
ASSUME TagAssumption  == Tags \subseteq AllTags
\* caml_init_major_heap allocates 2048 entries.
ASSUME GrayAssumption == GrayInit \in Nat /\ GrayInit >= 2 /\ GrayLimit \in Nat

Block  == 1..N
Fields == 1..F
Nil    == 0           \* a value that is no pointer into the heap
Value  == Block \cup {Nil}
NULL   == 0           \* the null address of markhp and caml_gc_sweep_hp
Limit  == N + 1       \* the end of the heap

VARIABLES
  color,            \* Color_hd of each slot; blue slots are the free list
  tag,              \* Tag_hd of each slot
  field,            \* contents of each slot, all Nil in a blue one
  roots,            \* blocks the stack, the globals and young blocks refer to
  gray_vals,        \* gray_vals[0 .. gray_vals_cur)
  gray_vals_size,
  heap_is_pure,
  markhp,           \* next slot of the scan of an impure heap, or NULL
  phase,            \* caml_gc_phase
  sweep_hp,         \* caml_gc_sweep_hp
  pc,               \* who runs: the mutator, or the collector and where
  pending,          \* roots that caml_darken_all_roots has still to visit
  scan_v, scan_i    \* locals v and i of mark_slice while it scans a block

stack == <<gray_vals, gray_vals_size, heap_is_pure>>
vars  == <<color, tag, field, roots, stack, markhp, phase, sweep_hp, pc,
           pending, scan_v, scan_i>>

-----------------------------------------------------------------------------
(* Blocks and reachability.                                                *)

Scannable(t) == t \notin {"Double", "Abstract"}      \* t < No_scan_tag

\* The fields that may hold a value; lazy and Forward blocks have one field.
Slots(t) == IF ~Scannable(t) THEN {} ELSE IF t = "Block" THEN Fields ELSE {1}

Succ(b) == {field[b][i] : i \in Fields} \ {Nil}

Closed(S) == \A b \in S : Succ(b) \subseteq S

Colored(c) == {b \in Block : color[b] = c}

\* The blocks the mutator can get at: the least closed set above the roots.
Reachable ==
  {b \in Block : \A S \in SUBSET Block : roots \subseteq S /\ Closed(S) => b \in S}

-----------------------------------------------------------------------------
(* The gray stack and caml_darken.                                         *)

\* Mutant: gray_vals_size shrinks with the contents.
realloc_gray_vals_shrinks(s) ==
  \/ /\ gray_vals_size < GrayLimit
     /\ gray_vals' = s
     /\ gray_vals_size' = 2 * gray_vals_size
     /\ UNCHANGED heap_is_pure
  \/ /\ gray_vals_size >= GrayLimit
     /\ gray_vals' = SubSeq(s, 1, gray_vals_size \div 2)
     /\ gray_vals_size' = gray_vals_size \div 2
     /\ heap_is_pure' = FALSE

\* The stack s is full: grow it, or drop entries and remember that the heap
\* is impure.  The C realloc may fail, which drops all of them.
realloc_gray_vals(s) ==
  \/ /\ gray_vals_size < GrayLimit
     /\ gray_vals' = s
     /\ gray_vals_size' = 2 * gray_vals_size
     /\ UNCHANGED heap_is_pure
  \/ /\ gray_vals_size < GrayLimit
     /\ gray_vals' = <<>>
     /\ heap_is_pure' = FALSE
     /\ UNCHANGED gray_vals_size
  \/ /\ gray_vals_size >= GrayLimit
     /\ gray_vals' = SubSeq(s, 1, gray_vals_size \div 2)
     /\ heap_is_pure' = FALSE
     /\ UNCHANGED gray_vals_size

Push(v) ==
  LET s == Append(gray_vals, v)
  IN IF Len(s) >= gray_vals_size
     THEN realloc_gray_vals(s)
     ELSE gray_vals' = s /\ UNCHANGED <<gray_vals_size, heap_is_pure>>

Shade(v) == color' = [color EXCEPT ![v] = "gray"] /\ Push(v)

caml_darken(v) ==
  \/ /\ v # Nil /\ color[v] = "white" /\ Scannable(tag[v])
     /\ Shade(v)
  \/ /\ v # Nil /\ color[v] = "white" /\ ~Scannable(tag[v])
     /\ color' = [color EXCEPT ![v] = "black"]
     /\ UNCHANGED stack
  \/ /\ v # Nil => color[v] # "white"
     /\ UNCHANGED <<color, stack>>

-----------------------------------------------------------------------------
(* The mutator, which runs between two slices.                             *)

gcvars == <<markhp, phase, sweep_hp, pc, pending, scan_v, scan_i>>

\* Mutant: blocks are white when allocated during marking.
caml_allocation_color_white(b) ==
  IF phase = "sweep" /\ b >= sweep_hp THEN "black" ELSE "white"

caml_allocation_color(b) ==
  IF phase = "mark" \/ (phase = "sweep" /\ b >= sweep_hp) THEN "black" ELSE "white"

\* caml_alloc_shr and the caml_initialize of every field, as done for a large
\* block or by the promotion of a young one.
Alloc(b, t, init) ==
  /\ pc = "mutator"
  /\ color[b] = "blue"
  /\ \A i \in Fields \ Slots(t) : init[i] = Nil
  /\ color' = [color EXCEPT ![b] = caml_allocation_color(b)]
  /\ tag' = [tag EXCEPT ![b] = t]
  /\ field' = [field EXCEPT ![b] = init]
  /\ roots' = roots \cup {b}
  /\ UNCHANGED <<stack, gcvars>>

\* Mutant: the overwritten value is not darkened.
caml_modify_no_barrier(b, i, val) ==
  /\ pc = "mutator"
  /\ tag[b] \in {"Block", "Lazy"} /\ i \in Slots(tag[b])
  /\ field' = [field EXCEPT ![b][i] = val]
  /\ UNCHANGED <<color, stack, tag, roots, gcvars>>

\* The write barrier.  Field 0 of a lazy block is assigned as well, before
\* SetForward (stdlib/camlinternalLazy.ml).
caml_modify(b, i, val) ==
  /\ pc = "mutator"
  /\ tag[b] \in {"Block", "Lazy"} /\ i \in Slots(tag[b])
  /\ field' = [field EXCEPT ![b][i] = val]
  /\ IF phase = "mark" THEN caml_darken(field[b][i]) ELSE UNCHANGED <<color, stack>>
  /\ UNCHANGED <<tag, roots, gcvars>>

\* Obj.set_tag of a lazy block that has been forced.
SetForward(b) ==
  /\ pc = "mutator"
  /\ tag[b] = "Lazy"
  /\ tag' = [tag EXCEPT ![b] = "Forward"]
  /\ UNCHANGED <<color, field, roots, stack, gcvars>>

Load(b) ==
  /\ pc = "mutator"
  /\ \E c \in Succ(b) : roots' = roots \cup {c}
  /\ UNCHANGED <<color, tag, field, stack, gcvars>>

Drop(b) ==
  /\ pc = "mutator"
  /\ roots' = roots \ {b}
  /\ UNCHANGED <<color, tag, field, stack, gcvars>>

Mutator ==
  \/ \E b \in Block, t \in Tags, init \in [Fields -> roots \cup {Nil}] : Alloc(b, t, init)
  \/ \E b \in roots, i \in Fields, val \in roots \cup {Nil} : caml_modify(b, i, val)
  \/ \E b \in roots : SetForward(b) \/ Load(b) \/ Drop(b)

-----------------------------------------------------------------------------
(* The collector: caml_major_collection_slice and what it calls.           *)

\* The slice goes on at p, or has used up its work and returns.
Yield(p) == pc' \in {p, "mutator"}

\* caml_finish_major_cycle is a sequence of slices that never run out of work.
StartSlice ==
  /\ pc = "mutator"
  /\ IF phase = "idle" THEN pc' = "roots" /\ pending' = roots
                       ELSE pc' = phase /\ UNCHANGED pending
  /\ UNCHANGED <<color, tag, field, roots, stack, markhp, phase, sweep_hp,
                 scan_v, scan_i>>

\* start_cycle: one root of caml_darken_all_roots, in any order.
DarkenRoot(v) ==
  /\ pc = "roots"
  /\ caml_darken(v)
  /\ pending' = pending \ {v}
  /\ UNCHANGED <<tag, field, roots, markhp, phase, sweep_hp, pc, scan_v, scan_i>>

\* start_cycle, once every root is darkened.
CycleStarted ==
  /\ pc = "roots" /\ pending = {}
  /\ phase' = "mark"
  /\ markhp' = NULL
  /\ Yield("mark")
  /\ UNCHANGED <<color, tag, field, roots, stack, sweep_hp, pending, scan_v, scan_i>>

\* mark_slice: pop a block and blacken it.
MarkPop ==
  /\ pc = "mark" /\ gray_vals # <<>>
  /\ LET v == gray_vals[Len(gray_vals)]
     IN /\ gray_vals' = SubSeq(gray_vals, 1, Len(gray_vals) - 1)
        /\ color' = [color EXCEPT ![v] = "black"]
        /\ IF Scannable(tag[v]) THEN pc' = "scan" /\ scan_v' = v /\ scan_i' = 1
                                ELSE Yield("mark") /\ UNCHANGED <<scan_v, scan_i>>
  /\ UNCHANGED <<tag, field, roots, gray_vals_size, heap_is_pure, markhp, phase,
                 sweep_hp, pending>>

\* A pointer to a Forward block is replaced by what the block forwards to.
ShortCircuits(child) ==
  /\ tag[child] = "Forward"
  /\ LET f == field[child][1]
     IN f # Nil => tag[f] \notin {"Forward", "Lazy", "Double"}

\* mark_slice: the loop over the fields of the block that was popped.
MarkField ==
  /\ pc = "scan"
  /\ LET child == field[scan_v][scan_i]
     IN /\ field' = IF child # Nil /\ ShortCircuits(child)
                    THEN [field EXCEPT ![scan_v][scan_i] = field[child][1]]
                    ELSE field
        /\ IF child # Nil /\ color[child] = "white"
           THEN Shade(child)
           ELSE UNCHANGED <<color, stack>>
  /\ IF scan_i < F THEN scan_i' = scan_i + 1 /\ UNCHANGED <<pc, scan_v>>
                   ELSE scan_i' = 0 /\ scan_v' = Nil /\ Yield("mark")
  /\ UNCHANGED <<tag, roots, markhp, phase, sweep_hp, pending>>

\* mark_slice: look for gray blocks that were dropped from an overfull stack.
MarkHeap ==
  /\ pc = "mark" /\ gray_vals = <<>> /\ markhp # NULL
  /\ IF markhp = Limit
     THEN markhp' = NULL /\ UNCHANGED gray_vals
     ELSE /\ gray_vals' = IF color[markhp] = "gray" THEN <<markhp>> ELSE <<>>
          /\ markhp' = markhp + 1
  /\ UNCHANGED <<color, tag, field, roots, gray_vals_size, heap_is_pure, phase,
                 sweep_hp, pc, pending, scan_v, scan_i>>

MarkImpure ==
  /\ pc = "mark" /\ gray_vals = <<>> /\ markhp = NULL /\ ~heap_is_pure
  /\ heap_is_pure' = TRUE
  /\ markhp' = 1
  /\ UNCHANGED <<color, tag, field, roots, gray_vals, gray_vals_size, phase,
                 sweep_hp, pc, pending, scan_v, scan_i>>

\* Mutant: an empty stack is enough.
MarkingDone_impure == pc = "mark" /\ gray_vals = <<>> /\ markhp = NULL

MarkingDone == pc = "mark" /\ gray_vals = <<>> /\ markhp = NULL /\ heap_is_pure

\* mark_slice, Subphase_final: initialise the sweep phase; work becomes 0.
InitSweep ==
  /\ MarkingDone
  /\ phase' = "sweep"
  /\ sweep_hp' = 1
  /\ pc' = "mutator"
  /\ UNCHANGED <<color, tag, field, roots, stack, markhp, pending, scan_v, scan_i>>

\* sweep_slice: one block.
SweepBlock ==
  /\ pc = "sweep" /\ sweep_hp < Limit
  /\ LET c == color[sweep_hp]
     IN /\ color' = [color EXCEPT ![sweep_hp] = IF c \in {"white", "blue"} THEN "blue"
                                                                          ELSE "white"]
        /\ IF c = "white"
           THEN /\ field' = [field EXCEPT ![sweep_hp] = [i \in Fields |-> Nil]]
                /\ tag' = [tag EXCEPT ![sweep_hp] = "Abstract"]
           ELSE UNCHANGED <<field, tag>>
  /\ sweep_hp' = sweep_hp + 1
  /\ Yield("sweep")
  /\ UNCHANGED <<roots, stack, markhp, phase, pending, scan_v, scan_i>>

SweepDone ==
  /\ pc = "sweep" /\ sweep_hp = Limit
  /\ phase' = "idle"
  /\ pc' = "mutator"
  /\ UNCHANGED <<color, tag, field, roots, stack, markhp, sweep_hp, pending,
                 scan_v, scan_i>>

\* A step of a slice that is under way.
Collector ==
  \/ \E v \in pending : DarkenRoot(v)
  \/ CycleStarted
  \/ MarkPop \/ MarkField \/ MarkHeap \/ MarkImpure \/ InitSweep
  \/ SweepBlock \/ SweepDone

-----------------------------------------------------------------------------
\* caml_init_major_heap: one chunk, all of it free.
Init ==
  /\ color = [b \in Block |-> "blue"]
  /\ tag = [b \in Block |-> "Abstract"]
  /\ field = [b \in Block |-> [i \in Fields |-> Nil]]
  /\ roots = {}
  /\ gray_vals = <<>> /\ gray_vals_size = GrayInit /\ heap_is_pure = TRUE
  /\ markhp = NULL /\ phase = "idle" /\ sweep_hp = NULL
  /\ pc = "mutator" /\ pending = {} /\ scan_v = Nil /\ scan_i = 0

Next == Mutator \/ StartSlice \/ Collector

Spec == Init /\ [][Next]_vars

-----------------------------------------------------------------------------
(* Properties.                                                             *)

\* Every variable has its type; the position in the scan of a block and in
\* the scan of the heap are in range (mark_slice, sweep_slice).
TypeOK ==
  /\ color \in [Block -> {"white", "gray", "black", "blue"}]
  /\ tag \in [Block -> AllTags]
  /\ field \in [Block -> [Fields -> Value]]
  /\ roots \subseteq Block /\ pending \subseteq Block
  /\ gray_vals \in Seq(Block)
  /\ gray_vals_size \in Nat /\ gray_vals_size >= 2
  /\ heap_is_pure \in BOOLEAN
  /\ markhp \in 0..Limit /\ sweep_hp \in 0..Limit
  /\ phase \in {"idle", "mark", "sweep"}
  /\ pc \in {"mutator", "roots", "mark", "scan", "sweep"}
  /\ scan_v \in Value /\ scan_i \in 0..F
  /\ pc = "scan" => scan_v \in Block /\ scan_i \in Fields

\* The collector never frees a block the mutator can still reach, whatever
\* the mutator did between the slices and wherever the gray stack overflowed.
NoReachableFree == Reachable \cap Colored("blue") = {}

InStack(b) == \E k \in 1..Len(gray_vals) : gray_vals[k] = b

\* What the comment on heap_is_pure says: when the heap is pure, the only
\* gray blocks below markhp are in gray_vals; all of them, when markhp is
\* NULL.  Hence marking is never declared over with a gray block left.
PureHeap ==
  heap_is_pure =>
    \A b \in Colored("gray") : markhp = NULL \/ b < markhp => InStack(b)

GrayEntries ==
  /\ \A k \in 1..Len(gray_vals) : color[gray_vals[k]] = "gray"
  /\ \A k, l \in 1..Len(gray_vals) : gray_vals[k] = gray_vals[l] => k = l
  /\ Len(gray_vals) < gray_vals_size

\* The assertions of mark_slice (a popped block is gray), start_cycle (the
\* stack is empty) and realloc_gray_vals (the stack is never overfull).
GrayStack ==
  /\ GrayEntries
  /\ (phase = "idle" /\ pc = "mutator") \/ phase = "sweep" => gray_vals = <<>>

\* Marking starts from these: gray blocks, roots not yet darkened, and the
\* fields of the block being scanned that mark_slice has not reached.
Seeds ==
  Colored("gray")
    \cup (IF pc = "roots" THEN pending ELSE {})
    \cup (IF pc = "scan" THEN {field[scan_v][i] : i \in scan_i..F} \ {Nil} ELSE {})

SeedClosed(S) ==
  Seeds \subseteq S /\ \A b \in S : color[b] \in {"white", "gray"} => Succ(b) \subseteq S

\* The blocks marking is bound to reach by paths of white blocks.
ToMark == {b \in Block : \A S \in SUBSET Block : SeedClosed(S) => b \in S}

\* The invariant behind snapshot-at-beginning marking: a white block that a
\* root or a black block refers to is on its way to be marked.  Modify must
\* darken the overwritten value for that, and allocation must be black.
SnapshotMarking ==
  phase = "mark" \/ pc = "roots" =>
    \A w \in Colored("white") :
      w \in roots \/ (\E b \in Colored("black") : w \in Succ(b)) => w \in ToMark

\* The blocks the cycle under way keeps: all that are allocated, and, once
\* marking is over, those that are black or swept already.
Live ==
  IF phase = "sweep"
  THEN {b \in Block : color[b] = "black" \/ (color[b] = "white" /\ b < sweep_hp)}
  ELSE {b \in Block : color[b] # "blue"}

\* No pointer leads out of what the cycle keeps: the roots and the fields of
\* kept blocks refer to kept blocks, during sweeping too, where allocation
\* chooses a colour by comparing the address with caml_gc_sweep_hp.
LiveClosed == roots \subseteq Live /\ Closed(Live)

\* The assertion of sweep_slice: no block is gray while sweeping, and the
\* blocks already swept are white or free.
SweepColors ==
  phase = "sweep" =>
    Colored("gray") = {} /\ \A b \in Colored("black") : b >= sweep_hp

\* A step of the collector leaves the mutator all of the blocks it could
\* reach, except Forward blocks that pointers now bypass.
CollectorKeepsGraph ==
  [][pc # "mutator" => \A b \in Reachable \ Reachable' : tag[b] = "Forward"]_vars

=============================================================================
