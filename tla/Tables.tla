------------------------------- MODULE Tables -------------------------------
(***************************************************************************)
(* Tables of the runtime system: the page table, which classifies addresses *)
(* (memory.c), the skip lists of global roots (globroots.c) and the named   *)
(* values (callback.c).  Each is compared with the finite function or set   *)
(* it stands for, after every sequence of TableOps operations, any of which *)
(* may run out of memory where the code handles it.                         *)
(***************************************************************************)
EXTENDS Integers, Sequences, FiniteSets, TLC, Jobs

CONSTANTS
  Pages,            \* the pages of the address space, 1 .. n
  PageWord,         \* 2^64
  HASH_FACTOR,      \* 11400714819323198486
  InitialPages,     \* Page(bytesize) of caml_page_table_initialize
  Pagetable2_size,  \* 2048
  RootAddrs,        \* addresses of global roots, positive
  RootValues,       \* what roots may hold: "int", "young", "old" or a block "outside" the heap
  TopLevel,         \* NUM_LEVELS - 1
  ValueNames,       \* name -> hash_value_name(name)
  TableOps          \* operations in a job

ASSUME TablesAssumption == 0 \notin Pages \cup RootAddrs /\ TopLevel \in Nat /\ TableOps \in Nat

LOCAL TS == INSTANCE SequencesExt

(***************************************************************************)
(* The page table: open addressing, linear probing.  An entry is a page     *)
(* and the kinds of data on it; kinds are removed, entries never.           *)
(***************************************************************************)
NoEntry == <<0, {}>>
Calloc(size) == [h \in 0 .. size - 1 |-> NoEntry]
InitialSize == CHOOSE s \in {2 ^ k : k \in 0 .. 10} : s >= 2 * InitialPages /\ (s = 1 \/ s \div 2 < 2 * InitialPages)
caml_page_table_initialize == [size |-> InitialSize, occupancy |-> 0, entries |-> Calloc(InitialSize)]

\* The high bits of the product, as many as the table has index bits.
Hash(size, page) == ((page * HASH_FACTOR) % PageWord) \div (PageWord \div size)
\* The first entry from the hash on that is the page's or is free.
Probe(entries, size, page) ==
  LET h == Hash(size, page)
      at(d) == (h + d) % size
  IN at(CHOOSE d \in 0 .. size - 1 : /\ entries[at(d)][1] \in {0, page}
                                     /\ \A c \in 0 .. d - 1 : entries[at(c)][1] \notin {0, page})
caml_page_table_lookup(t, page) == t.entries[Probe(t.entries, t.size, page)][2]

\* Mutant: entries keep their places in the larger table.
caml_page_table_resize_inplace(t) ==
  [t EXCEPT !.size = 2 * t.size, !.entries = [h \in 0 .. 2 * t.size - 1 |-> IF h < t.size THEN t.entries[h] ELSE NoEntry]]

caml_page_table_resize(t) ==
  [t EXCEPT !.size = 2 * t.size,
            !.entries = TS!FoldLeft(LAMBDA new, e : IF e = NoEntry THEN new ELSE [new EXCEPT ![Probe(new, 2 * t.size, e[1])] = e],
                                    Calloc(2 * t.size), [i \in 1 .. t.size |-> t.entries[i - 1]])]

\* Grown first when half full, which calloc lets happen room times; failed is the answer -1.
caml_page_table_modify(t, page, toclear, toset, room) ==
  IF t.occupancy * 2 >= t.size /\ room = 0 THEN [table |-> t, room |-> 0, failed |-> TRUE]
  ELSE LET grows == t.occupancy * 2 >= t.size
           u == IF grows THEN caml_page_table_resize(t) ELSE t
           h == Probe(u.entries, u.size, page)
           fresh == u.entries[h] = NoEntry
       IN [table |-> [u EXCEPT !.entries[h] = <<page, (@[2] \ toclear) \cup toset>>, !.occupancy = IF fresh THEN @ + 1 ELSE @],
           room |-> IF grows THEN room - 1 ELSE room, failed |-> FALSE]

\* The table of 32-bit machines: an array of arrays, those without an entry shared.
Pagetable_index1(page) == page \div Pagetable2_size
Pagetable_index2(page) == page % Pagetable2_size
Empty2 == [j \in 0 .. Pagetable2_size - 1 |-> {}]
Initialize32 == [i \in {Pagetable_index1(p) : p \in Pages} |-> [shared |-> TRUE, kinds |-> Empty2]]
Lookup32(t, page) == t[Pagetable_index1(page)].kinds[Pagetable_index2(page)]
Modify32(t, page, toclear, toset, room) ==
  LET i == Pagetable_index1(page)  j == Pagetable_index2(page) IN
  IF t[i].shared /\ room = 0 THEN [table |-> t, room |-> 0, failed |-> TRUE]
  ELSE [table |-> [t EXCEPT ![i] = [shared |-> FALSE, kinds |-> [@.kinds EXCEPT ![j] = (@ \ toclear) \cup toset]]],
        room |-> IF t[i].shared THEN room - 1 ELSE room, failed |-> FALSE]

\* The machine is a 64-bit one when wide.
PageModify(wide, t, page, toclear, toset, room) ==
  IF wide THEN caml_page_table_modify(t, page, toclear, toset, room) ELSE Modify32(t, page, toclear, toset, room)

\* Page by page from pstart to pend, up to a failure.
ModifyRange(wide, t, pstart, pend, toclear, toset, room) ==
  TS!FoldLeft(LAMBDA s, p : IF s.failed THEN s
                            ELSE LET m == PageModify(wide, s.table, p, toclear, toset, s.room)
                                 IN m @@ [done |-> IF m.failed THEN s.done ELSE s.done \cup {p}],
              [table |-> t, room |-> room, failed |-> FALSE, done |-> {}], [i \in 1 .. pend - pstart + 1 |-> pstart + i - 1])
caml_page_table_add(wide, t, kind, pstart, pend, room) == ModifyRange(wide, t, pstart, pend, {}, {kind}, room)
caml_page_table_remove(wide, t, kind, pstart, pend, room) == ModifyRange(wide, t, pstart, pend, {kind}, {}, room)

(***************************************************************************)
(* Skip lists.  A node is the address of its root, the list itself is node  *)
(* 0; forward[e] is the node's links, one for each of its levels from 0 on. *)
(***************************************************************************)
Nil == -1
EmptyList == [level |-> 0, forward |-> (0 :> [i \in 0 .. TopLevel |-> Nil])]

\* The last node of level i, from e on, whose root is before r.
RECURSIVE Cursor(_, _, _, _)
Cursor(l, e, i, r) == LET f == l.forward[e][i] IN IF f = Nil \/ f >= r THEN e ELSE Cursor(l, f, i, r)
\* update[i], found from the top level down.
UpdateAt(l, r) ==
  LET u[i \in 0 .. l.level] == Cursor(l, IF i = l.level THEN 0 ELSE u[i + 1], i, r) IN u

caml_insert_global_root(l, r, new_level) ==
  LET found == UpdateAt(l, r)
      update == [i \in 0 .. new_level |-> IF i <= l.level THEN found[i] ELSE 0]
      links == [i \in 0 .. new_level |-> l.forward[update[i]][i]] IN
  IF l.forward[found[0]][0] = r THEN l
  ELSE [level |-> IF new_level > l.level THEN new_level ELSE l.level,
        forward |-> [e \in DOMAIN l.forward |->
                       [i \in DOMAIN l.forward[e] |-> IF i <= new_level /\ update[i] = e THEN r ELSE l.forward[e][i]]] @@ (r :> links)]

\* Down-corrected to the highest level in use.
Lowered(l) == [l EXCEPT !.level = CHOOSE k \in 0 .. @ : /\ k = 0 \/ l.forward[0][k] # Nil
                                                       /\ \A i \in k + 1 .. @ : l.forward[0][i] = Nil]
caml_delete_global_root(l, r) ==
  LET update == UpdateAt(l, r) IN
  IF l.forward[update[0]][0] # r THEN l
  ELSE Lowered([l EXCEPT !.forward =
                  [e \in DOMAIN @ \ {r} |->
                     [i \in DOMAIN @[e] |-> IF i <= l.level /\ update[i] = e /\ @[e][i] = r THEN @[r][i] ELSE @[e][i]]]])

\* caml_iterate_global_roots: the nodes of level i in their order.
RECURSIVE Nodes(_, _, _)
Nodes(l, e, i) == LET f == l.forward[e][i] IN IF f = Nil THEN <<>> ELSE <<f>> \o Nodes(l, f, i)
caml_iterate_global_roots(l) == Nodes(l, 0, 0)
caml_empty_global_roots(l) ==
  [level |-> 0, forward |-> (0 :> [i \in 0 .. TopLevel |-> IF i <= l.level THEN Nil ELSE l.forward[0][i]])]

(***************************************************************************)
(* The three lists g.global, g.young and g.old; level gives the random      *)
(* level that each root gets when it is inserted.                           *)
(***************************************************************************)
Is_block(v) == v # "int"
Is_young(v) == v = "young"
Is_in_heap(v) == v = "old"
InsertYoung(g, r, level) == [g EXCEPT !.young = caml_insert_global_root(@, r, level[r])]
InsertOld(g, r, level) == [g EXCEPT !.old = caml_insert_global_root(@, r, level[r])]
DeleteYoung(g, r) == [g EXCEPT !.young = caml_delete_global_root(@, r)]
DeleteOld(g, r) == [g EXCEPT !.old = caml_delete_global_root(@, r)]

caml_register_global_root(g, r, level) == [g EXCEPT !.global = caml_insert_global_root(@, r, level[r])]
caml_remove_global_root(g, r) == [g EXCEPT !.global = caml_delete_global_root(@, r)]
caml_register_generational_global_root(g, r, v, level) ==
  IF Is_block(v) /\ Is_young(v) THEN InsertYoung(g, r, level)
  ELSE IF Is_block(v) /\ Is_in_heap(v) THEN InsertOld(g, r, level) ELSE g
caml_remove_generational_global_root(g, r, v) ==
  IF Is_block(v) /\ Is_young(v) THEN DeleteYoung(g, r)
  ELSE IF Is_block(v) /\ Is_in_heap(v) THEN DeleteOld(g, r) ELSE g
caml_modify_generational_global_root(g, r, oldval, newval, level) ==
  IF Is_block(newval) /\ Is_young(newval) /\ Is_block(oldval) /\ Is_in_heap(oldval) THEN InsertYoung(DeleteOld(g, r), r, level)
  ELSE IF ~Is_block(oldval) /\ Is_block(newval) THEN caml_register_generational_global_root(g, r, newval, level)
  ELSE IF Is_block(oldval) /\ ~Is_block(newval) THEN caml_remove_generational_global_root(g, r, oldval)
  ELSE g

\* The roots that a major and a minor collection visit; after a minor one the young roots join the old ones.
caml_scan_global_roots(g) == UNION {TS!ToSet(caml_iterate_global_roots(g[n])) : n \in {"global", "young", "old"}}
YoungVisited(g) == UNION {TS!ToSet(caml_iterate_global_roots(g[n])) : n \in {"global", "young"}}
caml_scan_global_young_roots(g, level) ==
  [TS!FoldLeft(LAMBDA h, r : InsertOld(h, r, level), g, caml_iterate_global_roots(g.young))
     EXCEPT !.young = caml_empty_global_roots(@)]

(***************************************************************************)
(* Named values: chains of cells, new cells in front; the value of a cell   *)
(* is a global root, whose address is the number of the cell.               *)
(***************************************************************************)
ChainAt(t, name) == t[ValueNames[name]]
caml_register_named_value(s, name, val, level) ==
  LET chain == ChainAt(s.t, name)  cell == s.cells + 1 IN
  IF \E i \in DOMAIN chain : chain[i][1] = name
  THEN [s EXCEPT !.t[ValueNames[name]] = [i \in DOMAIN chain |-> IF chain[i][1] = name THEN [chain[i] EXCEPT ![2] = val] ELSE chain[i]]]
  ELSE [s EXCEPT !.t[ValueNames[name]] = <<<<name, val, cell>>>> \o chain, !.cells = cell,
                 !.g = caml_register_global_root(@, cell, (cell :> level))]
caml_named_value(t, name) == {ChainAt(t, name)[i] : i \in {j \in DOMAIN ChainAt(t, name) : ChainAt(t, name)[j][1] = name}}

(***************************************************************************)
(* Jobs.  ref is what the table stands for; kind is "none" for an address   *)
(* that is not a root, val what the C variable there holds.                 *)
(***************************************************************************)
NoRoots == [n \in {"global", "young", "old"} |-> EmptyList]
TablesInit ==
  \/ /\ job = [part |-> "pages"]
     /\ res = [t |-> caml_page_table_initialize, ref |-> [p \in Pages |-> {}], ops |-> 0]
  \/ /\ job = [part |-> "pages32"]
     /\ res = [t |-> Initialize32, ref |-> [p \in Pages |-> {}], ops |-> 0]
  \/ /\ job = [part |-> "roots"]
     /\ res = [g |-> NoRoots, kind |-> [r \in RootAddrs |-> "none"], val |-> [r \in RootAddrs |-> "int"], ops |-> 0]
  \/ /\ job = [part |-> "names"]
     /\ res = [t |-> [h \in {ValueNames[n] : n \in DOMAIN ValueNames} |-> <<>>], g |-> NoRoots, cells |-> 0,
               ref |-> [n \in DOMAIN ValueNames |-> {}], ops |-> 0]

PagesStep(wide) ==
  \E kind \in {"heap", "young"}, pstart, pend \in Pages, room \in 0 .. 2, adds \in BOOLEAN :
    /\ pstart <= pend
    /\ LET s == IF adds THEN caml_page_table_add(wide, res.t, kind, pstart, pend, room)
                ELSE caml_page_table_remove(wide, res.t, kind, pstart, pend, room) IN
       res' = [t |-> s.table, ops |-> res.ops + 1,
               ref |-> [p \in Pages |-> IF p \notin s.done THEN res.ref[p] ELSE IF adds THEN res.ref[p] \cup {kind} ELSE res.ref[p] \ {kind}]]

Rooted(g, r, kind, v) == [res EXCEPT !.g = g, !.kind[r] = kind, !.val[r] = v, !.ops = @ + 1]
RootsStep ==
  \/ \E r \in RootAddrs, v \in RootValues, n \in 0 .. TopLevel :
       LET level == (r :> n) IN
       \/ /\ res.kind[r] = "none"
          /\ \/ res' = Rooted(caml_register_global_root(res.g, r, level), r, "global", v)
             \/ res' = Rooted(caml_register_generational_global_root(res.g, r, v, level), r, "generational", v)
       \/ /\ res.kind[r] = "generational"
          /\ res' = Rooted(caml_modify_generational_global_root(res.g, r, res.val[r], v, level), r, "generational", v)
  \/ \E r \in RootAddrs :
       \/ res.kind[r] = "global" /\ res' = Rooted(caml_remove_global_root(res.g, r), r, "none", "int")
       \/ res.kind[r] = "generational" /\ res' = Rooted(caml_remove_generational_global_root(res.g, r, res.val[r]), r, "none", "int")
  \/ \E level \in [RootAddrs -> 0 .. TopLevel] :
       res' = [res EXCEPT !.g = caml_scan_global_young_roots(@, level), !.ops = @ + 1,
                          !.val = [r \in RootAddrs |-> IF r \in YoungVisited(res.g) /\ @[r] = "young" THEN "old" ELSE @[r]]]
NamesStep ==
  \E name \in DOMAIN ValueNames, val \in 1 .. 2, level \in 0 .. TopLevel :
    res' = [caml_register_named_value(res, name, val, level) EXCEPT !.ref[name] = {val}, !.ops = @ + 1]
TablesNext ==
  /\ job.part \in {"pages", "pages32", "roots", "names"} /\ UNCHANGED job
  /\ res.ops < TableOps
  /\ \/ job.part = "pages" /\ PagesStep(TRUE)
     \/ job.part = "pages32" /\ PagesStep(FALSE)
     \/ job.part = "roots" /\ RootsStep
     \/ job.part = "names" /\ NamesStep

(***************************************************************************)
(* Properties.                                                             *)
(***************************************************************************)
\* Every level lists, in order, the nodes that have it, the highest in use is the list's level, and
\* no link leads to a node that has been freed.
ListSound(l) ==
  LET set == DOMAIN l.forward \ {0} IN
  /\ \A e \in DOMAIN l.forward : \A i \in DOMAIN l.forward[e] : l.forward[e][i] \in {Nil} \cup set
  /\ \A i \in 0 .. TopLevel :
       LET s == Nodes(l, 0, i) IN
       /\ TS!ToSet(s) = {r \in set : i \in DOMAIN l.forward[r]}
       /\ \A a, b \in DOMAIN s : a < b => s[a] < s[b]
  /\ \A i \in 0 .. TopLevel : i > l.level <=> i > 0 /\ \A j \in i .. TopLevel : l.forward[0][j] = Nil
ListsSound(g) == \A n \in DOMAIN g : ListSound(g[n])

\* memory.c, globroots.c, callback.c: the page table answers every lookup with the kinds that were
\* added to the page and not removed, however often it has grown, wrapped around or failed to grow
\* half way through a range, and always keeps a free entry at which a search ends; the skip lists
\* are sound at every level, a minor collection visits every root that holds a young value, a major
\* one every root that holds a block; each name has one cell, with its last value, which is a root.
TablesSound ==
  /\ job.part = "pages" =>
       /\ \A p \in Pages : caml_page_table_lookup(res.t, p) = res.ref[p]
       /\ res.t.occupancy = Cardinality({h \in DOMAIN res.t.entries : res.t.entries[h] # NoEntry}) /\ res.t.occupancy < res.t.size
  /\ job.part = "pages32" => \A p \in Pages : Lookup32(res.t, p) = res.ref[p]
  /\ job.part = "roots" =>
       /\ ListsSound(res.g)
       /\ \A r \in RootAddrs : res.kind[r] # "none" =>
            /\ res.val[r] = "young" => r \in YoungVisited(res.g)
            /\ res.val[r] = "old" => r \in caml_scan_global_roots(res.g)
  /\ job.part = "names" =>
       /\ ListsSound(res.g)
       /\ \A n \in DOMAIN ValueNames :
            LET cells == caml_named_value(res.t, n) IN
            /\ {c[2] : c \in cells} = res.ref[n] /\ Cardinality(cells) <= 1
            /\ \A c \in cells : c[3] \in YoungVisited(res.g)
=============================================================================
