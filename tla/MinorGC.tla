------------------------------ MODULE MinorGC ------------------------------
(***************************************************************************)
(* The minor collector (byterun/minor_gc.c), the write barriers that feed  *)
(* its reference tables (memory.h, memory.c, weak.c) and the global C roots *)
(* of the generational kind (globroots.c).                                 *)
(*                                                                         *)
(* A block fills one slot.  Young slots are handed out from high to low,   *)
(* as the minor heap is; old slots are handed out by caml_alloc_shr.  A    *)
(* value is 0 (an immediate) or a slot.  mem holds every word a pointer    *)
(* can be stored in: the fields <<s, i>> of blocks, the local roots (stack *)
(* and CAMLparam) and the C variables of generational roots.  Colours, and *)
(* with them the other half of Modify, are in module MajorGC.              *)
(***************************************************************************)
EXTENDS Naturals, FiniteSets, SequencesExt

CONSTANTS
  NY, NO,        \* sizes of the minor and of the major heap, in blocks
  LocalRoots,    \* words of the stack and of local C roots
  GenRoots,      \* C variables that may be generational global roots
  Tags,          \* tags the program allocates in the minor heap
  TblSize, TblReserve,  \* size and reserve of a new reference table
  MaxTable       \* bound: entries of one table

Young == 1 .. NY
Old == NY + 1 .. NY + NO
Slots == Young \cup Old
Null == 0
Fields == {1, 2}

ASSUME MinorSizes ==
  /\ NY \in Nat /\ NO \in Nat /\ NY <= NO
  /\ TblSize \in Nat \ {0} /\ TblReserve \in Nat \ {0} /\ MaxTable \in Nat
  /\ Tags \subseteq {"Block", "Box", "Forward", "Lazy", "Double"}

ASSUME MinorWords ==
  /\ IsFiniteSet(LocalRoots) /\ IsFiniteSet(GenRoots) /\ LocalRoots \cap GenRoots = {}
  /\ (LocalRoots \cup GenRoots) \cap (Slots \X Fields) = {}

VARIABLES
  hd,          \* header of each slot: its tag, "free", or "fwd" (header 0)
  mem,         \* contents of every word
  young_ptr,   \* lowest allocated young slot, NY + 1 when the heap is empty
  ref_table, weak_ref_table,
  caml_force_major_slice,
  registered,  \* generational roots the C code has registered
  roots_young, roots_old,  \* the lists caml_global_roots_young and _old
  pc,          \* "mutator" or the part of a minor collection that runs
  work,        \* words the current loop has still to oldify: [from, to]
  call,        \* arguments <<v, p>> of the running caml_oldify_one, or <<>>
  oldify_todo_list,
  caller,      \* what runs after the collection
  id, snap     \* history of a collection: where the contents of a block were at
               \* its start, and the graph of the program then

heap == <<hd, mem, young_ptr, id>>
tables == <<ref_table, weak_ref_table, caml_force_major_slice>>
genroots == <<registered, roots_young, roots_old>>
collector == <<pc, work, call, oldify_todo_list, caller, snap>>
vars == <<heap, tables, genroots, collector>>

Is_young(v) == v \in Young
Is_in_heap(v) == v \in Old
Is_block(v) == v # Null
Wosize(t) == IF t = "Block" THEN 2 ELSE 1
Scanned(t) == t \in {"Block", "Box", "Forward", "Lazy"}
Allocated(s) == hd[s] \notin {"free", "fwd"}

-----------------------------------------------------------------------------
(* Reference tables.                                                        *)

NoTable == [entries |-> <<>>, size |-> 0, limit |-> 0]

caml_alloc_table(sz) == [entries |-> <<>>, size |-> sz, limit |-> sz]

clear_table(t) == [t EXCEPT !.entries = <<>>, !.limit = t.size]

\* A table that is full is allocated, or opens its reserve, or doubles.
caml_realloc_ref_table(t) ==
  CASE t.size = 0 -> caml_alloc_table(TblSize)
    [] t.size # 0 /\ t.limit = t.size -> [t EXCEPT !.limit = t.size + TblReserve]
    [] OTHER -> [t EXCEPT !.size = 2 * t.size,
                          !.limit = 2 * t.size + TblReserve]

Full(t) == Len(t.entries) >= t.limit
Urges(t) == Full(t) /\ t.size # 0 /\ t.limit = t.size

Add(t, p) == LET r == IF Full(t) THEN caml_realloc_ref_table(t) ELSE t
             IN [r EXCEPT !.entries = Append(@, p)]

Entries(t) == {t.entries[i] : i \in 1 .. Len(t.entries)}
-----------------------------------------------------------------------------
(* What the program can reach, for the history variable and the properties. *)

Held == {mem[l] : l \in LocalRoots \cup registered}

Points(s) == {mem[<<s, i>>] : i \in 1 .. Wosize(hd[s])} \ {Null}

Reach == LET R[n \in 0 .. NY + NO] ==
               IF n = 0 THEN Held \ {Null}
               ELSE R[n - 1] \cup UNION {Points(s) : s \in {t \in R[n - 1] : Scanned(hd[t])}}
         IN R[NY + NO]

\* What a chain of Forward blocks leads to.
Forced(v) == LET C[n \in 0 .. NY + NO] ==
                   IF n = 0 THEN v
                   ELSE LET u == C[n - 1]
                        IN IF u # Null /\ hd[u] = "Forward" THEN mem[<<u, 1>>] ELSE u
             IN C[NY + NO]

\* A value by its identity, whatever Forward blocks a collector has dropped on
\* the way to it; those before a lazy value or a float may not be dropped.
View(I, v) == LET f == Forced(v)
           IN IF f = Null THEN <<0, FALSE>>
              ELSE <<I[f], v # f /\ hd[f] \in {"Lazy", "Double"}>>

\* The graph of the program, with identities for addresses.  A weak pointer
\* counts while something else keeps its target; one to a Forward block does
\* not, since dropping that block erases it.
Graph(I) ==
  [roots |-> [r \in LocalRoots \cup registered |-> View(I, mem[r])],
   edges |-> UNION {{<<I[s], hd[s], i, View(I, mem[<<s, i>>])>> : i \in 1 .. Wosize(hd[s])} :
                    s \in {t \in Reach : Scanned(hd[t]) /\ hd[t] # "Forward"}}
             \cup {<<I[s], "Weak", 1, View(I, mem[<<s, 1>>])>> :
                    s \in {t \in Reach : /\ hd[t] = "Weak" /\ mem[<<t, 1>>] \in Reach
                                      /\ hd[mem[<<t, 1>>]] # "Forward"}}]

FreeOld == CHOOSE s \in Old : hd[s] = "free" /\ \A t \in Old : t < s => hd[t] # "free"

\* Bound: every young block can be promoted without growing the heap.
Room == Cardinality({s \in Slots : Allocated(s)}) < NO
-----------------------------------------------------------------------------
(* The program.                                                             *)

Mutator == pc = "mutator"

\* A new block with its fields, at address s and in the local root l.
Place(l, s, t, f) ==
  /\ hd' = [hd EXCEPT ![s] = t]
  /\ mem' = [mem EXCEPT ![l] = s, ![<<s, 1>>] = f[1], ![<<s, 2>>] = f[2]]

\* Without room Alloc_small first calls caml_minor_collection, which the
\* program may do at any time here.
Alloc_small(l, t, a, b) ==
  /\ Mutator /\ Room /\ young_ptr > 1
  /\ t # "Block" => b = Null
  /\ t = "Double" => a = Null
  /\ young_ptr' = young_ptr - 1
  /\ Place(l, young_ptr - 1, t, <<a, b>>)
  /\ UNCHANGED <<id, tables, genroots, collector>>

\* Mutant: no entry when an immediate is overwritten.
NeedsEntry_blocks_only(old, v) == Is_young(v) /\ Is_block(old) /\ ~Is_young(old)

\* The test of Modify and of do_set: v must be known to the next minor
\* collection and the word is not in the table yet.
NeedsEntry(old, v) == Is_young(v) /\ ~Is_young(old)

caml_modify(s, i, v) ==
  /\ Mutator /\ hd[s] \in {"Block", "Box"} /\ i <= Wosize(hd[s])
  /\ LET p == <<s, i>>
         enter == Is_in_heap(s) /\ NeedsEntry(mem[p], v)
     IN /\ mem' = [mem EXCEPT ![p] = v]
        /\ enter => Len(ref_table.entries) < MaxTable
        /\ ref_table' = IF enter THEN Add(ref_table, p) ELSE ref_table
        /\ caml_force_major_slice' = (caml_force_major_slice \/ (enter /\ Urges(ref_table)))
  /\ UNCHANGED <<hd, young_ptr, id, weak_ref_table, genroots, collector>>

\* The table after caml_initialize of the word p of an old block.
caml_initialize(t, p, v) == IF Is_young(v) THEN Add(t, p) ELSE t

\* A block too large for the minor heap, as MAKEBLOCK makes it.
MakeBlock(l, a, b) ==
  /\ Mutator /\ Room /\ Len(ref_table.entries) + 2 <= MaxTable
  /\ Place(l, FreeOld, "Block", <<a, b>>)
  /\ LET t == caml_initialize(ref_table, <<FreeOld, 1>>, a)
     IN /\ ref_table' = caml_initialize(t, <<FreeOld, 2>>, b)
        /\ caml_force_major_slice' = \/ caml_force_major_slice
                                     \/ Is_young(a) /\ Urges(ref_table)
                                     \/ Is_young(b) /\ Urges(t)
  /\ UNCHANGED <<young_ptr, id, weak_ref_table, genroots, collector>>

caml_weak_create(l) ==
  /\ Mutator /\ Room
  /\ Place(l, FreeOld, "Weak", <<Null, Null>>)
  /\ UNCHANGED <<young_ptr, id, tables, genroots, collector>>

caml_weak_set(s, v) ==
  /\ Mutator /\ hd[s] = "Weak"
  /\ LET p == <<s, 1>>
         enter == NeedsEntry(mem[p], v)
     IN /\ mem' = [mem EXCEPT ![p] = v]
        /\ enter => Len(weak_ref_table.entries) < MaxTable
        /\ weak_ref_table' = IF enter THEN Add(weak_ref_table, p) ELSE weak_ref_table
        /\ caml_force_major_slice' = (caml_force_major_slice \/ (enter /\ Urges(weak_ref_table)))
  /\ UNCHANGED <<hd, young_ptr, id, ref_table, genroots, collector>>

\* The program reads a field, or a weak pointer, or forgets a value.
Load(l, s, i) ==
  /\ Mutator /\ i <= Wosize(hd[s]) /\ (Scanned(hd[s]) \/ hd[s] = "Weak")
  /\ mem' = [mem EXCEPT ![l] = mem[<<s, i>>]]
  /\ UNCHANGED <<hd, young_ptr, id, tables, genroots, collector>>

Drop(l) ==
  /\ Mutator
  /\ mem' = [mem EXCEPT ![l] = Null]
  /\ UNCHANGED <<hd, young_ptr, id, tables, genroots, collector>>
-----------------------------------------------------------------------------
(* Global roots of the generational kind.  The lists are skip lists sorted  *)
(* by address without duplicates: sets.                                     *)

\* The C variable is given its value before it is registered.
caml_register_generational_global_root(g, v) ==
  /\ Mutator /\ g \notin registered
  /\ mem' = [mem EXCEPT ![g] = v]
  /\ registered' = registered \cup {g}
  /\ roots_young' = IF Is_young(v) THEN roots_young \cup {g} ELSE roots_young
  /\ roots_old' = IF Is_in_heap(v) THEN roots_old \cup {g} ELSE roots_old
  /\ UNCHANGED <<hd, young_ptr, id, tables, collector>>

caml_remove_generational_global_root(g) ==
  /\ Mutator /\ g \in registered
  /\ registered' = registered \ {g}
  /\ roots_young' = IF Is_young(mem[g]) THEN roots_young \ {g} ELSE roots_young
  /\ roots_old' = IF Is_in_heap(mem[g]) THEN roots_old \ {g} ELSE roots_old
  /\ UNCHANGED <<heap, tables, collector>>

caml_modify_generational_global_root(g, v) ==
  /\ Mutator /\ g \in registered
  /\ LET old == mem[g]
         toYoung == Is_young(v) /\ Is_in_heap(old)
         boxed == Is_block(v) /\ ~Is_block(old)
         unboxed == ~Is_block(v) /\ Is_block(old)
     IN /\ roots_young' =
             CASE toYoung \/ (boxed /\ Is_young(v)) -> roots_young \cup {g}
               [] unboxed /\ Is_young(old) -> roots_young \ {g}
               [] OTHER -> roots_young
        /\ roots_old' =
             CASE boxed /\ Is_in_heap(v) -> roots_old \cup {g}
               [] toYoung \/ (unboxed /\ Is_in_heap(old)) -> roots_old \ {g}
               [] OTHER -> roots_old
  /\ mem' = [mem EXCEPT ![g] = v]
  /\ UNCHANGED <<hd, young_ptr, id, registered, tables, collector>>
-----------------------------------------------------------------------------
(* The minor collection.                                                    *)

\* Words to oldify in place.
InPlace(ps) == [i \in 1 .. Len(ps) |-> [from |-> ps[i], to |-> ps[i]]]

\* caml_empty_minor_heap starts with the local roots and the global roots that
\* may be young; k is what the caller does afterwards.
caml_empty_minor_heap(k) ==
  /\ Mutator /\ young_ptr # NY + 1
  /\ pc' = "roots" /\ caller' = k
  /\ id' = [s \in Slots |-> s]
  /\ snap' = <<Graph(id')>>
  /\ work' = InPlace(SetToSeq(LocalRoots) \o SetToSeq(roots_young))
  /\ UNCHANGED <<hd, mem, young_ptr, tables, genroots, call, oldify_todo_list>>

\* Array.make of a large array filled with the value of the local root k: a
\* young value is promoted first, and the fields are then plain stores.
caml_make_vect(l, k) ==
  /\ Is_block(mem[k]) /\ Room
  /\ \/ Is_young(mem[k]) /\ caml_empty_minor_heap(<<"make_vect", l, k>>)
     \/ /\ Mutator /\ ~Is_young(mem[k])
        /\ Place(l, FreeOld, "Block", <<mem[k], mem[k]>>)
        /\ UNCHANGED <<young_ptr, id, tables, genroots, collector>>

FillVect ==
  /\ pc = "make_vect" /\ pc' = "mutator"
  /\ Place(caller[2], FreeOld, "Block", <<mem[caller[3]], mem[caller[3]]>>)
  /\ caller' = <<"none">>
  /\ UNCHANGED <<young_ptr, id, tables, genroots, work, call, oldify_todo_list, snap>>

Collecting == pc \in {"roots", "table", "mopup"}

\* The next iteration of the loop over roots, over the reference table or
\* over the fields of a block of the to-do list.
NextWord ==
  /\ Collecting /\ call = <<>> /\ work # <<>>
  /\ call' = <<mem[Head(work).from], Head(work).to>>
  /\ work' = Tail(work)
  /\ UNCHANGED <<heap, tables, genroots, pc, oldify_todo_list, caller, snap>>

Return == call' = <<>>

\* v is young and was promoted before, or is not young: store it.
OldifyDone ==
  /\ Collecting /\ call # <<>>
  /\ LET v == call[1]
     IN /\ Is_young(v) => hd[v] = "fwd"
        /\ mem' = [mem EXCEPT ![call[2]] = IF Is_young(v) THEN mem[<<v, 1>>] ELSE v]
  /\ Return
  /\ UNCHANGED <<hd, young_ptr, id, tables, genroots, pc, work, oldify_todo_list, caller, snap>>

\* The promoted copy r of v: header and forward pointer; f is its contents.
Promoted(v, r, f) ==
  /\ hd' = [hd EXCEPT ![r] = hd[v], ![v] = "fwd"]
  /\ id' = [id EXCEPT ![r] = id[v]]
  /\ mem' = [mem EXCEPT ![call[2]] = r, ![<<v, 1>>] = r, ![<<r, 1>>] = f[1], ![<<r, 2>>] = f[2]]

\* A block of two fields is put on the to-do list, which is threaded through
\* the second field of the copies.
OldifyLarge ==
  /\ Collecting /\ call # <<>>
  /\ LET v == call[1]
     IN /\ Is_young(v) /\ hd[v] = "Block"
        /\ Promoted(v, FreeOld, <<mem[<<v, 1>>], oldify_todo_list>>)
        /\ oldify_todo_list' = v
  /\ Return
  /\ UNCHANGED <<young_ptr, tables, genroots, pc, work, caller, snap>>

\* Whether caml_oldify_one replaces the Forward block v by its contents.
Follows(v) ==
  /\ hd[v] = "Forward"
  /\ LET f == mem[<<v, 1>>]
         ft == IF f = Null THEN "Block" ELSE hd[IF hd[f] = "fwd" THEN mem[<<f, 1>>] ELSE f]
     IN ft \notin {"Forward", "Lazy", "Double"}

\* One field: copy, and go on with what it holds (goto tail_call).
OldifySmall ==
  /\ Collecting /\ call # <<>>
  /\ LET v == call[1]
     IN /\ Is_young(v) /\ Scanned(hd[v]) /\ hd[v] # "Block" /\ ~Follows(v)
        /\ Promoted(v, FreeOld, <<Null, Null>>)
        /\ call' = <<mem[<<v, 1>>], <<FreeOld, 1>> >>
  /\ UNCHANGED <<young_ptr, tables, genroots, pc, work, oldify_todo_list, caller, snap>>

OldifyForward ==
  /\ Collecting /\ call # <<>>
  /\ Is_young(call[1]) /\ Follows(call[1])
  /\ call' = <<mem[<<call[1], 1>>], call[2]>>
  /\ UNCHANGED <<heap, tables, genroots, pc, work, oldify_todo_list, caller, snap>>

OldifyNoScan ==
  /\ Collecting /\ call # <<>>
  /\ LET v == call[1]
     IN /\ Is_young(v) /\ hd[v] = "Double"
        /\ Promoted(v, FreeOld, <<mem[<<v, 1>>], mem[<<v, 2>>]>>)
  /\ Return
  /\ UNCHANGED <<young_ptr, tables, genroots, pc, work, oldify_todo_list, caller, snap>>

\* The young global roots become old ones; then the reference table.
RootsDone ==
  /\ pc = "roots" /\ call = <<>> /\ work = <<>>
  /\ pc' = "table"
  /\ roots_old' = roots_old \cup roots_young /\ roots_young' = {}
  /\ work' = InPlace(ref_table.entries)
  /\ UNCHANGED <<heap, tables, registered, call, oldify_todo_list, caller, snap>>

\* Mutant: the fields after the first are read from the copy.
MopupWork_copy(v, new_v) == InPlace(<< <<new_v, 1>>, <<new_v, 2>> >>)

\* caml_oldify_mopup: the first field is in the copy, the others in the original.
MopupWork(v, new_v) == << [from |-> <<new_v, 1>>, to |-> <<new_v, 1>>],
                          [from |-> <<v, 2>>, to |-> <<new_v, 2>>] >>

caml_oldify_mopup ==
  /\ pc \in {"table", "mopup"} /\ call = <<>> /\ work = <<>> /\ oldify_todo_list # Null
  /\ LET v == oldify_todo_list
         new_v == mem[<<v, 1>>]
     IN /\ oldify_todo_list' = mem[<<new_v, 2>>]
        /\ work' = MopupWork(v, new_v)
  /\ pc' = "mopup"
  /\ UNCHANGED <<heap, tables, genroots, call, caller, snap>>

\* The words of the weak table: forwarded, erased or left alone.
CleanWeak(p) == LET v == mem[p]
                IN CASE ~Is_young(v) -> v
                     [] Is_young(v) /\ hd[v] = "fwd" -> mem[<<v, 1>>]
                     [] OTHER -> Null

\* The end of caml_empty_minor_heap.
EmptyMinorHeap ==
  /\ pc \in {"table", "mopup"} /\ call = <<>> /\ work = <<>> /\ oldify_todo_list = Null
  /\ hd' = [s \in Slots |-> IF Is_young(s) THEN "free" ELSE hd[s]]
  /\ mem' = [p \in DOMAIN mem |->
               CASE p \in Entries(weak_ref_table) -> CleanWeak(p)
                 [] p \in Young \X Fields -> Null
                 [] OTHER -> mem[p]]
  /\ young_ptr' = NY + 1
  /\ ref_table' = clear_table(ref_table)
  /\ weak_ref_table' = clear_table(weak_ref_table)
  /\ pc' = "emptied"
  /\ UNCHANGED <<id, caml_force_major_slice, genroots, work, call, oldify_todo_list, caller, snap>>

NoHistory == id' = [s \in Slots |-> 0] /\ snap' = <<>>

\* caml_empty_minor_heap was called for itself.
Emptied ==
  /\ pc = "emptied" /\ caller = <<"none">>
  /\ pc' = "mutator"
  /\ NoHistory
  /\ UNCHANGED <<hd, mem, young_ptr, tables, genroots, work, call, oldify_todo_list, caller>>

\* The rest of caml_minor_collection.  Finalisation functions are the program.
\* The slice may end a cycle of the major collector, which frees what neither
\* a root nor a listed global root leads to.

\* As Freed, but the major collector scans no generational global roots.
Freed_local == LET live == LET R[n \in 0 .. NO] ==
                                 IF n = 0 THEN {mem[r] : r \in LocalRoots} \ {Null}
                                 ELSE R[n - 1] \cup UNION {Points(s) : s \in {t \in R[n - 1] : Scanned(hd[t])}}
                           IN R[NO]
               IN Old \ live

\* What caml_scan_global_roots and the local roots do not lead to, when the
\* list of young roots is empty.
Freed == LET live == LET R[n \in 0 .. NO] ==
                           IF n = 0 THEN {mem[r] : r \in LocalRoots \cup roots_old} \ {Null}
                           ELSE R[n - 1] \cup UNION {Points(s) : s \in {t \in R[n - 1] : Scanned(hd[t])}}
                     IN R[NO]
         IN Old \ live

Slice ==
  /\ pc = "emptied"
  /\ \E dead \in {{}, Freed} :
       /\ hd' = [s \in Slots |-> IF s \in dead THEN "free" ELSE hd[s]]
       /\ mem' = [p \in DOMAIN mem |->
                    IF p \in dead \X Fields
                       \/ (p \in Old \X Fields /\ hd[p[1]] = "Weak" /\ mem[p] \in dead)
                    THEN Null ELSE mem[p]]
  /\ caml_force_major_slice' = FALSE
  /\ pc' = IF caller[1] = "make_vect" THEN "make_vect" ELSE "mutator"
  /\ NoHistory
  /\ UNCHANGED <<young_ptr, ref_table, weak_ref_table, genroots, work, call, oldify_todo_list, caller>>
-----------------------------------------------------------------------------
Init ==
  /\ hd = [s \in Slots |-> "free"]
  /\ mem = [p \in LocalRoots \cup GenRoots \cup (Slots \X Fields) |-> Null]
  /\ id = [s \in Slots |-> 0]
  /\ young_ptr = NY + 1
  /\ ref_table = NoTable /\ weak_ref_table = NoTable
  /\ caml_force_major_slice = FALSE
  /\ registered = {} /\ roots_young = {} /\ roots_old = {}
  /\ pc = "mutator" /\ work = <<>> /\ call = <<>> /\ oldify_todo_list = Null
  /\ caller = <<"none">> /\ snap = <<>>

Values == Held \cup {Null}

Program ==
  \/ \E l \in LocalRoots :
       \/ \E t \in Tags, a, b \in Values : Alloc_small(l, t, a, b)
       \/ \E a, b \in Values : MakeBlock(l, a, b)
       \/ \E k \in LocalRoots : caml_make_vect(l, k)
       \/ \E s \in Held \ {Null}, i \in Fields : Load(l, s, i)
       \/ caml_weak_create(l)
       \/ Drop(l)
  \/ \E s \in Held \ {Null}, v \in Values :
       \/ \E i \in Fields : caml_modify(s, i, v)
       \/ caml_weak_set(s, v)
  \/ \E g \in GenRoots :
       \/ caml_remove_generational_global_root(g)
       \/ \E v \in Values : \/ caml_register_generational_global_root(g, v)
                            \/ caml_modify_generational_global_root(g, v)

Collector ==
  \/ caml_empty_minor_heap(<<"none">>)
  \/ NextWord \/ OldifyDone \/ OldifyLarge \/ OldifySmall \/ OldifyForward \/ OldifyNoScan
  \/ RootsDone \/ caml_oldify_mopup \/ EmptyMinorHeap \/ Emptied \/ Slice \/ FillVect

Next == Program \/ Collector

Spec == Init /\ [][Next]_vars
-----------------------------------------------------------------------------
\* A table holds no more entries than its limit, and one that has opened its
\* reserve has asked for a collection, which caml_realloc_ref_table asserts
\* before it doubles the table.
TableSound(t) ==
  /\ Entries(t) \subseteq Old \X Fields
  /\ t.limit \in {t.size, t.size + TblReserve} /\ Len(t.entries) <= t.limit
  /\ t.limit # t.size /\ pc = "mutator" => caml_force_major_slice

\* While the program runs, the next minor collection knows every word outside
\* the minor heap that refers into it: Modify, caml_initialize, do_set and
\* caml_make_vect have entered it in a table, and a registered generational
\* root is in the list of young roots, or in a list that the major collector
\* scans when its value is old.  The tables are never overfull.
YoungPointersKnown ==
  /\ TableSound(ref_table) /\ TableSound(weak_ref_table)
  /\ pc = "mutator" =>
       /\ \A s \in Old, i \in Fields :
            Allocated(s) /\ i <= Wosize(hd[s]) /\ Is_young(mem[<<s, i>>]) =>
              <<s, i>> \in Entries(IF hd[s] = "Weak" THEN weak_ref_table ELSE ref_table)
       /\ \A g \in registered : /\ Is_young(mem[g]) => g \in roots_young
                                /\ Is_in_heap(mem[g]) => g \in roots_young \cup roots_old

\* No pointer of a root, of a registered global root or of a block they lead to
\* leads to a block that is gone, weak pointers included: caml_empty_minor_heap
\* redirects every pointer to a block it moved and erases the weak pointers to
\* those it left behind, and the slice after it frees nothing in use.
NoDangling ==
  pc = "mutator" => \A v \in Reach : /\ Allocated(v)
                                     /\ hd[v] = "Weak" /\ mem[<<v, 1>>] # Null => Allocated(mem[<<v, 1>>])

\* A minor collection promotes the graph it found: every block in use exactly
\* once, shared and cyclic structure included, each field with its value, and a
\* Forward block dropped only when what it holds is neither lazy nor a float.
PromotionKeepsGraph == pc = "emptied" => snap = <<Graph(id)>>
============================================================================
