------------------------------ MODULE Bigarray ------------------------------
(***************************************************************************)
(* Big arrays (otherlibs/bigarray/bigarray_stubs.c) and the mapping of     *)
(* files (mmap_unix.c, mmap_win32.c).                                      *)
(*                                                                         *)
(* A job of part "ba" is the life of an array and of the arrays derived    *)
(* from it: sub-arrays, slices, reshaped arrays, finalised in any order.   *)
(* The other parts are single calls.  Memory is counted in elements.       *)
(***************************************************************************)
EXTENDS Integers, Sequences, FiniteSets, TLC, Jobs

CONSTANTS
  MaxViews,     \* arrays over one memory
  ShapeLimit,   \* largest dimension of an array
  WordHalf,     \* bits of half a word in caml_ba_multov
  PageSize      \* of a mapped file, in bytes

ASSUME BigarrayAssumption == {MaxViews, ShapeLimit, WordHalf, PageSize} \subseteq Nat \ {0}

LOCAL SB == INSTANCE SequencesExt
LOCAL FB == INSTANCE Functions

Product(s) == SB!FoldLeft(LAMBDA a, d : a * d, 1, s)
caml_ba_num_elts(b) == Product(b.dim)
Null == -1

(***************************************************************************)
(* Sizes.                                                                  *)
(***************************************************************************)
WordMod == 2^(2 * WordHalf)
LOW_HALF(x) == x % 2^WordHalf
HIGH_HALF(x) == x \div 2^WordHalf

\* The product modulo the word size, and whether it has overflowed.
caml_ba_multov(a, b) ==
  LET p1 == (LOW_HALF(a) * HIGH_HALF(b)) % WordMod
      p2 == (HIGH_HALF(a) * LOW_HALF(b)) % WordMod
      p == (a * b) % WordMod
      s1 == (p1 * 2^WordHalf) % WordMod
      s2 == (p2 * 2^WordHalf) % WordMod
      sum == (s1 + s2) % WordMod
  IN [p |-> p,
      overflow |-> \/ HIGH_HALF(a) # 0 /\ HIGH_HALF(b) # 0
                   \/ HIGH_HALF(p1) # 0 \/ HIGH_HALF(p2) # 0
                   \/ p < sum \/ sum < s2]

\* caml_ba_alloc without data: the size in bytes, or Out_of_memory.
caml_ba_size(dims, elt) ==
  SB!FoldLeft(LAMBDA z, d : LET m == caml_ba_multov(z.p, d) IN [p |-> m.p, overflow |-> z.overflow \/ m.overflow],
              [p |-> 1, overflow |-> FALSE], Append(dims, elt))
MAX_NUM_DIMS == 3
caml_ba_create(dims, elt) ==
  CASE Len(dims) < 1 \/ Len(dims) > MAX_NUM_DIMS -> "Invalid_argument"
    [] Len(dims) \in 1..MAX_NUM_DIMS /\ \E i \in DOMAIN dims : dims[i] < 0 -> "Invalid_argument"
    [] OTHER -> IF caml_ba_size(dims, elt).overflow THEN "Out_of_memory" ELSE "created"

(***************************************************************************)
(* Offsets: Null when the indices are out of bounds.                       *)
(***************************************************************************)
caml_ba_offset(b, index) ==
  LET n == Len(b.dim)
      order == IF b.fortran THEN [i \in 1..n |-> n + 1 - i] ELSE [i \in 1..n |-> i]
      base == IF b.fortran THEN 1 ELSE 0
      step(z, i) == IF z = Null \/ index[i] - base < 0 \/ index[i] - base >= b.dim[i] THEN Null
                    ELSE z * b.dim[i] + index[i] - base
  IN SB!FoldLeft(step, 0, order)

\* The number of indices must be that of the dimensions.
caml_ba_index(b, index) == IF Len(index) # Len(b.dim) THEN Null ELSE caml_ba_offset(b, index)

\* Elements of a byte: two kinds, the same store, a signed or an unsigned load.
Store8(v) == v % 8
Load8(signed, c) == IF signed /\ c >= 4 THEN c - 8 ELSE c
caml_ba_set_aux(mem, b, index, v) ==
  LET o == caml_ba_index(b, index) IN IF o = Null THEN mem ELSE [mem EXCEPT ![b.off + o] = Store8(v)]
caml_ba_get_N(mem, b, index, signed) ==
  LET o == caml_ba_index(b, index) IN IF o = Null THEN Null - 8 ELSE Load8(signed, mem[b.off + o])

(***************************************************************************)
(* Arrays over one memory.  own is the management of the data: "managed",  *)
(* "mapped" or "external"; proxy numbers a proxy, 0 for none.  view is not *)
(* in the code: the element of the memory that each index ought to denote. *)
(***************************************************************************)
Indices2(b) == LET base == IF b.fortran THEN 1 ELSE 0
               IN {ix \in [1..Len(b.dim) -> base..(ShapeLimit * ShapeLimit + base)] :
                     \A i \in DOMAIN ix : ix[i] - base < b.dim[i]}

\* A slip: the proxy of an array that is itself derived is not shared.
caml_ba_update_proxy_fresh(s, k, new, room) ==
  LET b == s.arrays[k]  p == Len(s.proxies) + 1 IN
  IF b.own = "external" \/ ~room THEN [s EXCEPT !.arrays = Append(@, new)]
  ELSE [s EXCEPT !.arrays = Append([@ EXCEPT ![k].proxy = p], [new EXCEPT !.proxy = p]),
                 !.proxies = Append(@, [refcount |-> 2, data |-> b.off,
                                        size |-> IF b.own = "mapped" THEN caml_ba_num_elts(b) ELSE 0])]

\* Create or update the proxy to indicate that an array derived from k shares its data.  Without room
\* for a proxy caml_stat_alloc raises: the program never sees the new array, an orphan that has the
\* data of k, the flags of k and no proxy, and that the collector finalises like any other.
caml_ba_update_proxy(s, k, new, room) ==
  LET b == s.arrays[k] IN
  CASE b.own = "external" -> [s EXCEPT !.arrays = Append(@, new)]
    [] b.own # "external" /\ b.proxy # 0 ->
         [s EXCEPT !.arrays = Append(@, [new EXCEPT !.proxy = b.proxy]), !.proxies[b.proxy].refcount = @ + 1]
    [] b.own # "external" /\ b.proxy = 0 /\ ~room -> [s EXCEPT !.arrays = Append(@, [new EXCEPT !.orphan = TRUE])]
    [] OTHER ->
         LET p == Len(s.proxies) + 1 IN
         [s EXCEPT !.arrays = Append([@ EXCEPT ![k].proxy = p], [new EXCEPT !.proxy = p]),
                   !.proxies = Append(@, [refcount |-> 2, data |-> b.off,
                                          size |-> IF b.own = "mapped" THEN caml_ba_num_elts(b) ELSE 0])]

\* caml_ba_alloc(flags, dims, data, ...): without data the new array has memory of its own.
Derived(b, dim, off, view) ==
  [b EXCEPT !.dim = dim, !.off = off, !.proxy = 0, !.view = view,
            !.own = IF off = Null THEN "managed" ELSE b.own]
Moved(b, n) == IF b.off = Null THEN Null ELSE b.off + n

caml_ba_slice(s, k, inds, room) ==
  LET b == s.arrays[k]  n == Len(b.dim)  m == Len(inds)
      index == IF b.fortran THEN [i \in 1..n |-> IF i <= n - m THEN 1 ELSE inds[i - (n - m)]]
                            ELSE [i \in 1..n |-> IF i <= m THEN inds[i] ELSE 0]
      offset == IF m >= n THEN Null ELSE caml_ba_offset(b, index)
      dim == IF b.fortran THEN SubSeq(b.dim, 1, n - m) ELSE SubSeq(b.dim, m + 1, n)
      view == [ix \in Indices2([b EXCEPT !.dim = dim]) |-> b.view[IF b.fortran THEN ix \o inds ELSE inds \o ix]]
  IN IF offset = Null THEN s ELSE caml_ba_update_proxy(s, k, Derived(b, dim, Moved(b, offset), view), room)

caml_ba_sub(s, k, ofs0, len, room) ==
  LET b == s.arrays[k]  n == Len(b.dim)
      ofs == IF b.fortran THEN ofs0 - 1 ELSE ofs0
      changed == IF b.fortran THEN n ELSE 1
      mul == Product(IF b.fortran THEN SubSeq(b.dim, 1, n - 1) ELSE SubSeq(b.dim, 2, n))
      dim == [b.dim EXCEPT ![changed] = len]
      view == [ix \in Indices2([b EXCEPT !.dim = dim]) |-> b.view[[ix EXCEPT ![changed] = @ + ofs]]]
  IN IF ofs < 0 \/ len < 0 \/ ofs + len > b.dim[changed] THEN s
     ELSE caml_ba_update_proxy(s, k, Derived(b, dim, Moved(b, ofs * mul), view), room)

\* The element at position n, in the order in which the layout lays them out.
Nth(b, n) == CHOOSE ix \in Indices2(b) : caml_ba_offset(b, ix) = n
caml_ba_reshape(s, k, dim, room) ==
  LET b == s.arrays[k]  new == [b EXCEPT !.dim = dim]
      view == [ix \in Indices2(new) |-> b.view[Nth(b, caml_ba_offset(new, ix))]]
  IN IF Product(dim) # caml_ba_num_elts(b) THEN s
     ELSE caml_ba_update_proxy(s, k, Derived(b, dim, b.off, view), room)

\* The data is given back when array k dies: freed, or unmapped from its address over its length.
Release(s, k, off, len) ==
  [s EXCEPT !.released = Append(@, [by |-> k, mem |-> <<off, IF s.arrays[k].own = "mapped" THEN len ELSE 0>>])]
caml_ba_finalize(s, k) ==
  LET b == s.arrays[k]  dead == [s EXCEPT !.arrays[k].alive = FALSE]
      p == s.proxies[b.proxy]
      left == [dead EXCEPT !.proxies[b.proxy].refcount = @ - 1] IN
  CASE b.own = "external" -> dead
    [] b.own # "external" /\ b.proxy = 0 -> IF b.off = Null THEN dead ELSE Release(dead, k, b.off, caml_ba_num_elts(b))
    [] OTHER -> IF p.refcount > 1 \/ p.data = Null THEN left ELSE Release(left, k, p.data, p.size)

caml_ba_fill(s, k, v) ==
  LET b == s.arrays[k] IN
  [s EXCEPT !.mem = [c \in DOMAIN @ |-> IF b.off # Null /\ c >= b.off /\ c < b.off + caml_ba_num_elts(b) THEN v ELSE @[c]]]
caml_ba_blit(s, k, l) ==
  LET src == s.arrays[k]  dst == s.arrays[l]  n == caml_ba_num_elts(src) IN
  IF src.dim # dst.dim \/ n = 0 THEN s
  ELSE [s EXCEPT !.mem = [c \in DOMAIN @ |-> IF c >= dst.off /\ c < dst.off + n THEN @[c - dst.off + src.off] ELSE @[c]]]

(***************************************************************************)
(* Comparison, hashing and marshalling.                                    *)
(***************************************************************************)
NaN == 99
caml_ba_compare(b1, b2, float) ==
  LET lt(x, y) == x # NaN /\ y # NaN /\ x < y
      D == {i \in DOMAIN b1.data : i \in DOMAIN b2.data
              /\ (b1.data[i] # b2.data[i] \/ (float /\ b1.data[i] = NaN))}
      decided == {i \in D : b1.data[i] # b2.data[i]}
      first == CHOOSE i \in decided : \A j \in decided : i <= j
      dd == {i \in DOMAIN b1.dim : i \in DOMAIN b2.dim /\ b1.dim[i] # b2.dim[i]}
      fd == CHOOSE i \in dd : \A j \in dd : i <= j IN
  CASE Len(b1.dim) # Len(b2.dim) -> [r |-> Len(b2.dim) - Len(b1.dim), unordered |-> FALSE]
    [] Len(b1.dim) = Len(b2.dim) /\ dd # {} -> [r |-> IF b1.dim[fd] < b2.dim[fd] THEN -1 ELSE 1, unordered |-> FALSE]
    [] OTHER ->
         IF decided = {} THEN [r |-> 0, unordered |-> D # {}]
         ELSE LET x == b1.data[first]  y == b2.data[first] IN
              [r |-> CASE lt(x, y) -> -1 [] lt(y, x) -> 1 [] x # NaN /\ y = NaN -> 1 [] OTHER -> -1,
               unordered |-> \E i \in D : i <= first /\ (b1.data[i] = NaN \/ b2.data[i] = NaN)]
HashLimit == 3
caml_ba_hash(b) ==
  SB!FoldLeft(LAMBDA h, v : (h * 16 + h + v) % 1024, 0,
              SubSeq(b.data, 1, IF Len(b.data) >= HashLimit THEN HashLimit ELSE Len(b.data)))

\* Arrays of Caml integers: 64-bit elements if one of them does not fit in min .. max.
caml_ba_serialize_longarray(word, data, min, max) ==
  IF word = 8 /\ \E i \in DOMAIN data : data[i] < min \/ data[i] > max
  THEN [sixty |-> 1, data |-> data] ELSE [sixty |-> 0, data |-> [i \in DOMAIN data |-> ((data[i] + 8) % 16) - 8]]
caml_ba_deserialize_longarray(word, wire) ==
  IF word = 4 /\ wire.sixty = 1 THEN [ok |-> FALSE, data |-> <<>>] ELSE [ok |-> TRUE, data |-> wire.data]

(***************************************************************************)
(* Mapping a file.  bad names the system call that fails, "" for none.     *)
(***************************************************************************)
NotMapped(exn, file) == [exn |-> exn, file |-> file, dim |-> <<>>, at |-> Null, mapped |-> <<0, 0>>]

\* The dimensions and the size, the major dimension from the size of the file when it is -1.
MapShape(f, dims, fortran, elt, start, bad) ==
  LET major == IF fortran THEN Len(dims) ELSE 1
      row == elt * Product([i \in DOMAIN dims |-> IF dims[i] = -1 THEN 1 ELSE dims[i]])
      rest == f.size - start
      q == rest \div row
      atend == [f EXCEPT !.pos = f.size]
      shape(dim, size) == [NotMapped("", f) EXCEPT !.dim = dim] @@ [size |-> size]
      fail(exn, file) == NotMapped(exn, file) @@ [size |-> 0] IN
  IF \E i \in DOMAIN dims : dims[i] < 0 /\ ~(dims[i] = -1 /\ i = major) THEN fail("Invalid_argument", f)
  ELSE IF bad = "seek" THEN fail("Sys_error", f)
  ELSE IF dims[major] # -1 THEN shape(dims, row)
  ELSE IF rest < 0 THEN fail("Failure", atend)
  ELSE IF row = 0 THEN fail("Division", atend)
  ELSE IF q * row # rest THEN fail("Failure", atend) ELSE shape([dims EXCEPT ![major] = q], rest)

\* The mapping begins on a page, delta bytes before the array.
MapView(shape, start, file) ==
  LET delta == start % PageSize IN
  IF shape.size + delta = 0 THEN NotMapped("Sys_error", file)
  ELSE [exn |-> "", file |-> file, dim |-> shape.dim, at |-> start, mapped |-> <<start - delta, shape.size + delta>>]

\* A file that is too short grows by a byte written at its new end.
caml_ba_map_file_unix(f, dims, fortran, elt, start, bad) ==
  LET shape == MapShape(f, dims, fortran, elt, start, bad)
      grow == f.size < start + shape.size
      file == IF grow THEN [f EXCEPT !.size = start + shape.size] ELSE f IN
  CASE shape.exn # "" -> NotMapped(shape.exn, shape.file)
    [] shape.exn = "" /\ bad = "write" /\ grow -> NotMapped("Sys_error", [f EXCEPT !.pos = start + shape.size - 1])
    [] OTHER -> IF bad \in {"create", "view"} THEN NotMapped("Sys_error", file) ELSE MapView(shape, start, file)

\* CreateFileMapping makes the file as long as the mapping.
caml_ba_map_file_win32(f, dims, fortran, elt, start, bad) ==
  LET shape == MapShape(f, dims, fortran, elt, start, bad)
      file == IF f.size < start + shape.size THEN [f EXCEPT !.size = start + shape.size] ELSE f IN
  CASE shape.exn # "" -> NotMapped(shape.exn, shape.file)
    [] shape.exn = "" /\ bad = "create" -> NotMapped("Sys_error", f)
    [] OTHER -> IF bad = "view" THEN NotMapped("Sys_error", file) ELSE MapView(shape, start, file)

\* addr % page is start % page: the mapping begins on a page.
caml_ba_unmap_file(at, len) == LET delta == at % PageSize IN <<at - delta, len + delta>>

(***************************************************************************)
(* Jobs.                                                                   *)
(***************************************************************************)
Shapes == UNION {[1..n -> 0..ShapeLimit] : n \in 1..2}
Array(dims, fortran, own) ==
  [dim |-> dims, fortran |-> fortran, off |-> 0, own |-> own, proxy |-> 0, alive |-> TRUE, orphan |-> FALSE, view |-> <<>>]

\* The elements are numbered in the order of the layout.
Before(fortran, i, j) ==
  \E k \in DOMAIN i : i[k] < j[k] /\ \A l \in DOMAIN i : (IF fortran THEN l > k ELSE l < k) => i[l] = j[l]
Rank(b, ix) == Cardinality({jx \in Indices2(b) : Before(b.fortran, jx, ix)})
Fresh(dims, fortran, own, null) ==
  LET b == Array(dims, fortran, own) IN
  [b EXCEPT !.view = [ix \in Indices2(b) |-> Rank(b, ix)], !.off = IF null THEN Null ELSE 0]
State(b) == [arrays |-> <<b>>, proxies |-> <<>>, released |-> <<>>, mem |-> [c \in 0..(ShapeLimit * ShapeLimit) |-> c]]

\* malloc may answer NULL to a request of no bytes.
BigarrayInit ==
  \/ /\ job \in [part : {"ba"}, dims : Shapes, fortran : BOOLEAN, own : {"managed", "mapped", "external"}, null : BOOLEAN]
     /\ job.null => job.own = "managed" /\ Product(job.dims) = 0
     /\ res = State(Fresh(job.dims, job.fortran, job.own, job.null))
  \/ /\ job \in [part : {"ba_mul"}, a : 0..(WordMod - 1)]
     /\ res = <<>>
  \/ /\ job \in [part : {"ba_mem"}, dims : Shapes, fortran : BOOLEAN, ofs1 : 0..ShapeLimit, ofs2 : 0..ShapeLimit, len : 0..ShapeLimit]
     /\ res = <<>>
  \/ /\ job \in [part : {"ba_compare"}, dim : {<<2>>, <<1, 2>>, <<3>>}, float : BOOLEAN, word : {4, 8}]
     /\ res = <<>>
  \/ /\ job \in [part : {"ba_map"}, system : {"unix", "win32"}, dims : {<<-1>>, <<-1, 2>>, <<3>>, <<2, 3>>, <<2, -1>>, <<-1, 0>>},
                 fortran : BOOLEAN, size : 0..10, start : 0..5, bad : {"", "seek", "write", "create", "view"}]
     /\ res = <<>>

\* Sub-arrays, slices and reshaped arrays are made of arrays in use; finalisation comes in any order.
Derive ==
  /\ Len(res.arrays) < MaxViews
  /\ \E k \in DOMAIN res.arrays :
       /\ res.arrays[k].alive /\ ~res.arrays[k].orphan
       /\ \E room \in BOOLEAN :
          \/ \E ofs \in 0..ShapeLimit, len \in 0..ShapeLimit : res' = caml_ba_sub(res, k, ofs, len, room)
          \/ \E i \in 0..ShapeLimit : res' = caml_ba_slice(res, k, <<i>>, room)
          \/ \E dims \in Shapes \cup {<<ShapeLimit * ShapeLimit>>} : res' = caml_ba_reshape(res, k, dims, room)
  /\ UNCHANGED job
Finalize ==
  /\ \E k \in DOMAIN res.arrays : res.arrays[k].alive /\ res' = caml_ba_finalize(res, k)
  /\ UNCHANGED job

Data(dim, float) == [1..Product(dim) -> {0, 3} \cup (IF float THEN {NaN} ELSE {-2, 7})]
ComparedArrays(dim, float) ==
  {[dim |-> dim, data |-> d] : d \in Data(dim, float)} \cup {[dim |-> <<2, 2>>, data |-> <<1, 1, 1, 1>>]}
Mem == State(Fresh(job.dims, job.fortran, "external", FALSE))
FirstIndex(fortran) == IF fortran THEN 1 ELSE 0
BigarrayCalls ==
  CASE job.part = "ba_mul" -> [b \in 0..(WordMod - 1) |-> caml_ba_multov(job.a, b) @@ [made |-> caml_ba_create(<<job.a, b>>, 3)]]
    [] job.part = "ba_mem" ->
         LET s1 == caml_ba_sub(Mem, 1, job.ofs1 + FirstIndex(job.fortran), job.len, TRUE)
             s2 == caml_ba_sub(s1, 1, job.ofs2 + FirstIndex(job.fortran), job.len, TRUE)
         IN IF Len(s2.arrays) # 3 THEN [made |-> FALSE]
            ELSE [made |-> TRUE, views |-> s2.arrays, old |-> s2.mem, filled |-> caml_ba_fill(s2, 2, 9).mem,
                  moved |-> caml_ba_blit(s2, 2, 3).mem,
                  stored |-> [v \in -9..9 |-> [ix \in [1..Len(job.dims) -> -1..(ShapeLimit + 1)] |->
                    LET m == caml_ba_set_aux(s2.mem, s2.arrays[2], ix, v) IN
                    [mem |-> m, signed |-> caml_ba_get_N(m, s2.arrays[2], ix, TRUE), unsigned |-> caml_ba_get_N(m, s2.arrays[2], ix, FALSE)]]]]
    [] job.part = "ba_compare" ->
         [order |-> [a \in ComparedArrays(job.dim, job.float) |-> [b \in ComparedArrays(job.dim, job.float) |-> caml_ba_compare(a, b, job.float)]],
          hash |-> [a \in ComparedArrays(job.dim, job.float) |-> caml_ba_hash(a)],
          wire |-> [a \in ComparedArrays(job.dim, FALSE) |-> caml_ba_serialize_longarray(job.word, a.data, -2, 3)]]
    [] OTHER ->
         IF job.system = "unix"
         THEN caml_ba_map_file_unix([size |-> job.size, pos |-> 1], job.dims, job.fortran, 1, job.start, job.bad)
         ELSE caml_ba_map_file_win32([size |-> job.size, pos |-> 1], job.dims, job.fortran, 1, job.start, job.bad)
BigarrayCall ==
  /\ res = <<>>
  /\ job.part \in {"ba_mul", "ba_mem", "ba_compare", "ba_map"}
  /\ res' = BigarrayCalls
  /\ UNCHANGED job
BigarrayNext == BigarrayCall \/ (job.part = "ba" /\ (Derive \/ Finalize))

(***************************************************************************)
(* Properties.                                                             *)
(***************************************************************************)
\* caml_ba_update_proxy, caml_ba_finalize: whatever the order of derivations and finalisations,
\* the memory is given back once, over the range that was obtained, exactly when the last array over
\* it dies; every index of an array in use denotes the element its derivation says.  Orphans, the
\* arrays whose proxy could not be allocated, are the one exception: each gives back, when it dies,
\* the memory from its first element on, which belongs to the array it was derived from.
LifeSound ==
  LET Orphan(k) == res.arrays[k].orphan
      dead == \A k \in DOMAIN res.arrays : res.arrays[k].alive => Orphan(k)
      base == IF job.own = "mapped" THEN <<0, Product(job.dims)>> ELSE <<0, 0>>
      given == SelectSeq(res.released, LAMBDA r : ~Orphan(r.by)) IN
  /\ IF dead /\ job.own # "external" /\ ~job.null THEN Len(given) = 1 /\ given[1].mem = base ELSE given = <<>>
  /\ \A k \in DOMAIN res.arrays : LET b == res.arrays[k] IN
       /\ b.alive => \A ix \in Indices2(b) : b.off + caml_ba_offset(b, ix) = b.view[ix] /\ b.view[ix] < Product(job.dims)
       /\ b.orphan /\ ~b.alive /\ b.off # Null => \E i \in DOMAIN res.released : res.released[i].by = k /\ res.released[i].mem[1] = b.off

\* caml_ba_multov, caml_ba_create: overflow is reported exactly when the product does not fit in a word.
SizesExact ==
  \A b \in DOMAIN res :
    /\ res[b].overflow = (job.a * b >= WordMod) /\ (~res[b].overflow => res[b].p = job.a * b)
    /\ res[b].made = IF job.a * b * 3 >= WordMod THEN "Out_of_memory" ELSE "created"

\* caml_ba_fill, caml_ba_blit, caml_ba_set_aux, caml_ba_get_N: exactly the elements of the view change;
\* a blit between overlapping views copies the old contents; indices out of bounds are refused.
MemoryExact ==
  res.made =>
  LET cells(k) == {res.views[k].view[ix] : ix \in DOMAIN res.views[k].view}
      at(k, ix) == res.views[k].view[ix] IN
  /\ res.filled = [c \in DOMAIN res.old |-> IF c \in cells(2) THEN 9 ELSE res.old[c]]
  /\ \A ix \in DOMAIN res.views[2].view : res.moved[at(3, ix)] = res.old[at(2, ix)]
  /\ \A c \in DOMAIN res.old \ cells(3) : res.moved[c] = res.old[c]
  /\ \A v \in DOMAIN res.stored : \A ix \in DOMAIN res.stored[v] :
       LET r == res.stored[v][ix] IN
       IF ix \in DOMAIN res.views[2].view
       THEN /\ \A c \in DOMAIN res.old : c # at(2, ix) => r.mem[c] = res.old[c]
            /\ r.unsigned \in 0..7 /\ r.signed \in -4..3 /\ (r.unsigned - v) % 8 = 0 /\ (r.signed - v) % 8 = 0
       ELSE r.mem = res.old /\ r.signed < -8

\* caml_ba_compare, caml_ba_hash, caml_ba_serialize_longarray: a total order in which NaN equals itself;
\* equal arrays have equal hashes; integers read back on every machine that can hold them.
ComparisonSound ==
  LET A == DOMAIN res.order IN
  /\ \A a, b \in A :
       /\ (res.order[a][b].r = 0) <=> a = b
       /\ res.order[a][b].r = -res.order[b][a].r
       /\ a = b => res.hash[a] = res.hash[b]
       /\ a.dim = b.dim /\ job.float => res.order[a][b].unordered = res.order[b][a].unordered
  /\ \A a, b, c \in A : res.order[a][b].r <= 0 /\ res.order[b][c].r <= 0 => res.order[a][c].r <= 0
  /\ \A a \in DOMAIN res.wire : \A word \in {4, 8} :
       LET back == caml_ba_deserialize_longarray(word, res.wire[a])  wide == \E i \in DOMAIN a.data : a.data[i] \notin -2..3 IN
       IF job.word = 8 /\ word = 4 /\ wide THEN ~back.ok ELSE back.ok /\ back.data = a.data

\* caml_ba_map_file, caml_ba_unmap_file: an array is over a part of the file that exists, the position of
\* the file is where it was, and what is unmapped is what was mapped, from a page on.
MapSound ==
  res.exn = "" =>
  /\ res.file.pos = 1 /\ res.file.size >= job.size
  /\ res.at + Product(res.dim) <= res.file.size
  /\ \A i \in DOMAIN job.dims : job.dims[i] = -1 => res.file.size = job.size /\ res.at + Product(res.dim) = job.size
  /\ res.mapped[1] % PageSize = 0 /\ caml_ba_unmap_file(res.at, Product(res.dim)) = res.mapped

\* Arrays share memory safely and their primitives are exact.
BigarraySound ==
  /\ job.part = "ba" => LifeSound
  /\ res # <<>> =>
       /\ job.part = "ba_mul" => SizesExact
       /\ job.part = "ba_mem" => MemoryExact
       /\ job.part = "ba_compare" => ComparisonSound
       /\ job.part = "ba_map" => MapSound
=============================================================================
