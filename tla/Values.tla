------------------------------- MODULE Values -------------------------------
(***************************************************************************)
(* Structural comparison (byterun/compare.c), hashing (byterun/hash.c) and *)
(* the primitives on strings, arrays, floats and blocks (byterun/str.c,    *)
(* alloc.c, array.c, floats.c, obj.c).                                     *)
(*                                                                         *)
(* A block has its fields f, its doubles d, its bytes (with the padding of *)
(* a string), or the operations ops and the contents n of a custom block.  *)
(* A double is a small IEEE number: a sign, two bits of exponent, two of   *)
(* mantissa, as an integer below 32.                                       *)
(***************************************************************************)
EXTENDS Integers, Sequences, Blocks, Jobs

CONSTANTS
  COMPARE_STACK_INIT_SIZE,   \* 256
  COMPARE_STACK_MAX_SIZE,    \* 1024 * 1024
  CompareHeaps,              \* heaps, with the values of them to compare
  HashParams,                \* pairs of a count and a limit for hash_univ_param
  WordBytes,                 \* sizeof(value)
  ByteStrings,               \* contents of strings
  VariantNames,              \* names of polymorphic variants, as sequences of codes
  MaxArray,                  \* lengths of arrays
  Max_young,                 \* Max_young_wosize
  Max_size                   \* Max_wosize

ASSUME ValuesAssumption ==
  /\ {COMPARE_STACK_INIT_SIZE, COMPARE_STACK_MAX_SIZE, WordBytes} \subseteq Nat \ {0}
  /\ Max_young \in Nat /\ Max_size \in Nat /\ Max_young < Max_size

LOCAL SV == INSTANCE SequencesExt
LOCAL FV == INSTANCE FiniteSetsExt

(***************************************************************************)
(* Doubles.                                                                *)
(***************************************************************************)
Doubles == 0..31
Mantissa(d) == d % 4
Exponent(d) == (d \div 4) % 4
IsNaN(d) == Exponent(d) = 3 /\ Mantissa(d) # 0
Real(d) == IF d >= 16 THEN -(d % 16) ELSE d
LtD(d1, d2) == ~IsNaN(d1) /\ ~IsNaN(d2) /\ Real(d1) < Real(d2)
EqD(d1, d2) == ~IsNaN(d1) /\ ~IsNaN(d2) /\ Real(d1) = Real(d2)

caml_float_compare(f, g) ==
  CASE EqD(f, g) -> 0
    [] LtD(f, g) -> -1
    [] LtD(g, f) -> 1
    [] EqD(f, f) -> 1
    [] EqD(g, g) -> -1
    [] OTHER -> 0

\* Without fpclassify: h holds the sign, the exponent and a part of the mantissa, l the rest.
caml_classify_float(d) ==
  LET h0 == d \div 2
      l == IF d % 2 = 1 \/ h0 % 2 = 1 THEN 1 ELSE 0
      h == ((h0 \div 2) % 4) * 2
  IN CASE h = 0 /\ l = 0 -> "FP_zero"
       [] h = 0 /\ l # 0 -> "FP_subnormal"
       [] h = 6 /\ l = 0 -> "FP_infinite"
       [] h = 6 /\ l # 0 -> "FP_nan"
       [] OTHER -> "FP_normal"

(***************************************************************************)
(* Structural comparison.  An item of the compare stack holds the two      *)
(* blocks, the next field to compare and how many are left.                *)
(***************************************************************************)
UNORDERED == -1000000
LESS == -1
EQUAL == 0
GREATER == 1

CompareStart(total, mallocs) ==
  [items |-> <<>>, size |-> COMPARE_STACK_INIT_SIZE, own |-> FALSE, mallocs |-> mallocs, total |-> total]
compare_free_stack(s) == [s EXCEPT !.own = FALSE, !.size = COMPARE_STACK_INIT_SIZE]
Answer(s, r) == [r |-> r, exn |-> "", s |-> s]
Raised(s, exn) == [r |-> 0, exn |-> exn, s |-> compare_free_stack(s)]

\* The stack could be doubled: fewer than COMPARE_STACK_MAX_SIZE entries, and malloc succeeds.
compare_can_grow(s) == 2 * s.size < COMPARE_STACK_MAX_SIZE /\ s.mallocs > 0
compare_resize_stack(s) == [s EXCEPT !.size = 2 * s.size, !.own = TRUE, !.mallocs = s.mallocs - 1]

Address(v) == IF v[1] = "ptr" THEN 10 * v[2] + v[3] ELSE v[2]
Tag_val(h, v) == IF v[3] # 0 THEN Infix_tag ELSE h[v[2]].tag
Forward_val(h, v) == h[v[2]].f[1]

caml_string_length(bytes) == Len(bytes) - 1 - bytes[Len(bytes)]

\* The sign of the difference at the first place where the sequences differ, 0 if there is none.
FirstDifference(a, b, diff(_, _)) ==
  LET n == IF Len(a) <= Len(b) THEN Len(a) ELSE Len(b)
      D == {i \in 1..n : diff(a[i], b[i]) # 0}
  IN IF D = {} THEN 0 ELSE LET i == CHOOSE j \in D : \A k \in D : j <= k IN diff(a[i], b[i])

compare_strings(b1, b2) ==
  LET s1 == SubSeq(b1, 1, caml_string_length(b1))
      s2 == SubSeq(b2, 1, caml_string_length(b2))
      d == FirstDifference(s1, s2, LAMBDA x, y : x - y)
  IN IF d # 0 THEN d ELSE Len(s1) - Len(s2)

compare_doubles(d1, d2, total) ==
  CASE LtD(d1, d2) -> LESS
    [] LtD(d2, d1) -> GREATER
    [] ~EqD(d1, d2) /\ ~total -> UNORDERED
    [] ~EqD(d1, d2) /\ total /\ EqD(d1, d1) -> GREATER
    [] ~EqD(d1, d2) /\ total /\ EqD(d2, d2) -> LESS
    [] OTHER -> EQUAL

\* A custom comparison: its result and whether it has set caml_compare_unordered.
custom_compare(b1, b2) ==
  IF b1.ops = "bigarray"
  THEN [r |-> caml_float_compare(b1.n, b2.n), unordered |-> IsNaN(b1.n) \/ IsNaN(b2.n)]
  ELSE [r |-> (IF b1.n > b2.n THEN 1 ELSE 0) - (IF b1.n < b2.n THEN 1 ELSE 0), unordered |-> FALSE]

RECURSIVE CompareLoop(_, _, _, _)
RECURSIVE CompareTagged(_, _, _, _)

next_item(h, s) ==
  IF s.items = <<>> THEN Answer(s, EQUAL)
  ELSE LET it == SV!Last(s.items)
           left == IF it.count = 1 THEN SV!Front(s.items)
                   ELSE Append(SV!Front(s.items), [it EXCEPT !.i = @ + 1, !.count = @ - 1])
       IN CompareLoop(h, [s EXCEPT !.items = left], h[it.b1].f[it.i], h[it.b2].f[it.i])

\* The body of the loop of compare_val.
CompareLoop(h, s, v1, v2) ==
  LET forward(v) == Is_in_value_area(v) /\ Tag_val(h, v) = Forward_tag IN
  CASE v1 = v2 /\ (s.total \/ Is_long(v1)) -> next_item(h, s)
    [] v1 # v2 /\ Is_long(v1) /\ Is_long(v2) -> Answer(s, v1[2] - v2[2])
    [] Is_long(v1) /\ ~Is_long(v2) ->
         IF forward(v2) THEN CompareLoop(h, s, v1, Forward_val(h, v2)) ELSE Answer(s, LESS)
    [] Is_long(v2) /\ ~Is_long(v1) ->
         IF forward(v1) THEN CompareLoop(h, s, Forward_val(h, v1), v2) ELSE Answer(s, GREATER)
    [] OTHER ->
         IF ~Is_in_value_area(v1) \/ ~Is_in_value_area(v2)
         THEN IF v1 = v2 THEN next_item(h, s) ELSE Answer(s, (Address(v1) \div 2) - (Address(v2) \div 2))
         ELSE CASE forward(v1) -> CompareLoop(h, s, Forward_val(h, v1), v2)
                [] ~forward(v1) /\ forward(v2) -> CompareLoop(h, s, v1, Forward_val(h, v2))
                [] OTHER -> IF Tag_val(h, v1) # Tag_val(h, v2) THEN Answer(s, Tag_val(h, v1) - Tag_val(h, v2))
                            ELSE CompareTagged(h, s, v1, v2)

\* Two blocks with the same tag, which is not Forward_tag.
CompareTagged(h, s, v1, v2) ==
  LET t == Tag_val(h, v1)  b1 == h[v1[2]]  b2 == h[v2[2]]
      decide(r) == IF r # 0 THEN Answer(s, r) ELSE next_item(h, s) IN
  CASE t = String_tag -> IF v1 = v2 THEN next_item(h, s) ELSE decide(compare_strings(b1.bytes, b2.bytes))
    [] t = Double_tag -> decide(compare_doubles(b1.d[1], b2.d[1], s.total))
    [] t = Double_array_tag ->
         decide(IF Len(b1.d) # Len(b2.d) THEN Len(b1.d) - Len(b2.d)
                ELSE FirstDifference(b1.d, b2.d, LAMBDA x, y : compare_doubles(x, y, s.total)))
    [] t = Abstract_tag -> Raised(s, "abstract value")
    [] t \in {Closure_tag, Infix_tag} -> Raised(s, "functional value")
    [] t = Object_tag -> decide(b1.f[2][2] - b2.f[2][2])
    [] t = Custom_tag ->
         IF b1.ops = "foreign" THEN Raised(s, "abstract value")
         ELSE LET c == custom_compare(b1, b2)
              IN decide(IF c.unordered /\ ~s.total THEN UNORDERED ELSE c.r)
    [] OTHER ->
         LET n == Len(b1.f)
             item == [b1 |-> v1[2], b2 |-> v2[2], i |-> 2, count |-> n - 1]
             push(z) == [z EXCEPT !.items = Append(z.items, item)]
             first(z) == CompareLoop(h, z, b1.f[1], b2.f[1]) IN
         CASE n # Len(b2.f) -> Answer(s, n - Len(b2.f))
           [] n = 0 /\ Len(b2.f) = 0 -> next_item(h, s)
           [] n = 1 /\ Len(b2.f) = 1 -> first(s)
           [] OTHER -> IF Len(s.items) + 1 < s.size THEN first(push(s))
                       ELSE IF compare_can_grow(s) THEN first(push(compare_resize_stack(s)))
                       ELSE Raised(s, "Out_of_memory")

compare_val(h, v1, v2, total, mallocs) == CompareLoop(h, CompareStart(total, mallocs), v1, v2)

\* What each of the primitives does with the result of compare_val: the stack is freed.
Finish(a, verdict) ==
  [r |-> IF a.exn = "" THEN verdict ELSE 0, exn |-> a.exn, s |-> IF a.s.own THEN compare_free_stack(a.s) ELSE a.s]

Bit(b) == IF b THEN 1 ELSE 0
SignOf(a) == Finish(a, IF a.r < 0 THEN LESS ELSE IF a.r > 0 THEN GREATER ELSE EQUAL)
IsEqual(a) == Finish(a, Bit(a.r = 0))
IsNotEqual(a) == Finish(a, Bit(a.r # 0))
IsLess(a) == Finish(a, Bit(a.r < 0 /\ a.r # UNORDERED))
IsLessEqual(a) == Finish(a, Bit(a.r <= 0 /\ a.r # UNORDERED))
IsGreater(a) == Finish(a, Bit(a.r > 0))
IsGreaterEqual(a) == Finish(a, Bit(a.r >= 0))
caml_compare(h, v1, v2, m) == SignOf(compare_val(h, v1, v2, TRUE, m))
caml_equal(h, v1, v2, m) == IsEqual(compare_val(h, v1, v2, FALSE, m))
caml_notequal(h, v1, v2, m) == IsNotEqual(compare_val(h, v1, v2, FALSE, m))
caml_lessthan(h, v1, v2, m) == IsLess(compare_val(h, v1, v2, FALSE, m))
caml_lessequal(h, v1, v2, m) == IsLessEqual(compare_val(h, v1, v2, FALSE, m))
caml_greaterthan(h, v1, v2, m) == IsGreater(compare_val(h, v1, v2, FALSE, m))
caml_greaterequal(h, v1, v2, m) == IsGreaterEqual(compare_val(h, v1, v2, FALSE, m))

(***************************************************************************)
(* Hashing.  Only the low bits of the accumulator are kept: they depend on *)
(* nothing else.                                                           *)
(***************************************************************************)
HashMod == 1024
Alpha == 65599
Beta == 19
Combine(s, new) == [s EXCEPT !.accu = (@ * Alpha + new) % HashMod]
Combine_small(s, new) == [s EXCEPT !.accu = (@ * Beta + new) % HashMod]
Counted(s) == [s EXCEPT !.count = @ - 1]

\* The binary representation, least significant byte first.
DoubleBytes(d) == <<d % 8, d \div 8>>

RECURSIVE hash_aux(_, _, _)
RECURSIVE hash_again(_, _, _)

hash_aux(h, s0, v) ==
  LET s == [s0 EXCEPT !.limit = @ - 1, !.calls = @ + 1]
  IN IF s.count < 0 \/ s.limit < 0 THEN s ELSE hash_again(h, s, v)

\* From the label again on.
hash_again(h, s, v) ==
  LET bytes(z, seq) == SV!FoldLeft(Combine_small, z, seq) IN
  IF Is_long(v) THEN Combine(Counted(s), v[2])
  ELSE IF ~Is_in_value_area(v) THEN Combine(s, Address(v))
  ELSE LET t == Tag_val(h, v)  b == h[v[2]] IN
  CASE t = String_tag -> bytes(Counted(s), SubSeq(b.bytes, 1, caml_string_length(b.bytes)))
    [] t = Double_tag -> bytes(Counted(s), DoubleBytes(b.d[1]))
    [] t = Double_array_tag -> bytes(Counted(s), SV!FoldLeft(LAMBDA a, d : a \o DoubleBytes(d), <<>>, b.d))
    [] t = Abstract_tag -> s
    [] t = Infix_tag -> hash_aux(h, s, Ptr(v[2]))
    [] t = Forward_tag -> hash_again(h, s, b.f[1])
    [] t = Object_tag -> Combine(Counted(s), b.f[2][2])
    [] t = Custom_tag -> IF b.ops = "foreign" THEN s ELSE Combine(Counted(s), b.n)
    [] OTHER -> SV!FoldRight(LAMBDA f, z : hash_aux(h, z, f), b.f, Combine_small(Counted(s), t))

\* A slip: a forwarded value is hashed as a block.
hash_shallow(h, s, v) ==
  IF Is_in_value_area(v) /\ Tag_val(h, v) = Forward_tag
  THEN Combine_small(Counted(s), Forward_tag) ELSE hash_again(h, s, v)

caml_hash_univ_param_shallow(h, count, limit, v) ==
  hash_shallow(h, [accu |-> 0, limit |-> limit - 1, count |-> count, calls |-> 1], v)

caml_hash_univ_param(h, count, limit, v) == hash_aux(h, [accu |-> 0, limit |-> limit, count |-> count, calls |-> 0], v)

\* Polymorphic variants: an int has IntBits bits, a value IntBits or twice as many.
IntBits == 8
Wrap(n, bits) == LET m == n % 2^bits IN IF m >= 2^(bits - 1) THEN m - 2^bits ELSE m
Val_int(n, bits) == Wrap(2 * n + 1, bits)
Int_val(v) == Wrap(v \div 2, IntBits)
caml_hash_variant(tag, bits) ==
  LET accu == SV!FoldLeft(LAMBDA a, c : Val_int(Wrap(223 * Int_val(a) + c, IntBits), bits), Val_int(0, bits), tag)
  IN Wrap(IF bits > IntBits THEN accu % 2^IntBits ELSE accu, IntBits)

(***************************************************************************)
(* Strings.                                                                *)
(***************************************************************************)
\* The block of a string: what the memory held, the last word cleared, the last byte.
caml_alloc_string(len, garbage) ==
  LET wosize == (len + WordBytes) \div WordBytes
      last == wosize * WordBytes
  IN [i \in 1..last |-> CASE i = last -> last - 1 - len
                          [] i < last /\ i > last - WordBytes -> 0
                          [] OTHER -> garbage]
caml_copy_string(s, garbage) ==
  LET block == caml_alloc_string(Len(s), garbage) IN [i \in DOMAIN block |-> IF i <= Len(s) THEN s[i] ELSE block[i]]
caml_string_get(b, idx) == IF idx < 0 \/ idx >= caml_string_length(b) THEN -1 ELSE b[idx + 1]
caml_string_set(b, idx, c) == IF idx < 0 \/ idx >= caml_string_length(b) THEN b ELSE [b EXCEPT ![idx + 1] = c]
caml_string_equal(b1, b2) == Len(b1) = Len(b2) /\ \A i \in DOMAIN b1 : b1[i] = b2[i]
Sign(n) == IF n < 0 THEN -1 ELSE IF n > 0 THEN 1 ELSE 0
caml_string_compare(b1, b2) ==
  LET l1 == caml_string_length(b1)  l2 == caml_string_length(b2)
      memcmp == FirstDifference(SubSeq(b1, 1, l1), SubSeq(b2, 1, l2), LAMBDA x, y : x - y)
  IN IF memcmp # 0 THEN Sign(memcmp) ELSE Sign(l1 - l2)
caml_blit_string(b1, o1, b2, o2, n) == [i \in DOMAIN b2 |-> IF i > o2 /\ i <= o2 + n THEN b1[i - o2 + o1] ELSE b2[i]]
caml_fill_string(b, o, n, c) == [i \in DOMAIN b |-> IF i > o /\ i <= o + n THEN c ELSE b[i]]

(***************************************************************************)
(* Arrays.  An element is an integer, a double or a block that is young or *)
(* old; an array has its size in words, a generation and, for an old one,  *)
(* the elements recorded in the reference table.  dw is Double_wosize.     *)
(***************************************************************************)
Elem(kind, n) == [kind |-> kind, n |-> n]
Elems == {Elem("long", 1), Elem("double", 3), Elem("young", 0), Elem("old", 0), Elem("outside", 0)}
ArrayOf(tag, wosize, gen, elems) ==
  [tag |-> tag, wosize |-> wosize, gen |-> gen, elems |-> elems, recorded |-> {}, exn |-> ""]
Atom0 == ArrayOf(0, 0, "atom", <<>>)
Failure(exn) == [Atom0 EXCEPT !.exn = exn]
Replicate(n, x) == [i \in 1..n |-> x]
Generation(wosize) == IF wosize <= Max_young THEN "young" ELSE "old"

\* caml_minor_collection: what was young is old.
Aged(x) == IF x.kind = "young" THEN Elem("old", x.n) ELSE x

caml_make_vect(len, init, dw) ==
  LET size == len % 2^IntBits  wsize == (size * dw) % 2^IntBits IN
  CASE size = 0 -> Atom0
    [] size # 0 /\ init.kind = "double" ->
         IF wsize > Max_size THEN Failure("Invalid_argument")
         ELSE ArrayOf(Double_array_tag, wsize, Generation(wsize), Replicate(size, init))
    [] OTHER ->
         CASE size > Max_size -> Failure("Invalid_argument")
           [] size <= Max_size /\ size < Max_young -> ArrayOf(0, size, "young", Replicate(size, init))
           [] OTHER -> ArrayOf(0, size, "old", Replicate(size, Aged(init)))

\* The array of a literal: a block of tag 0, copied if its first element is a double.
caml_make_array(elems, dw) ==
  CASE elems = <<>> -> Atom0
    [] elems # <<>> /\ elems[1].kind = "double" -> ArrayOf(Double_array_tag, Len(elems) * dw, "young", elems)
    [] OTHER -> ArrayOf(0, Len(elems), "young", elems)

Limit(a, dw) == IF a.tag = Double_array_tag THEN a.wosize \div dw ELSE a.wosize
caml_array_get(a, idx, dw) == IF idx < 0 \/ idx >= Limit(a, dw) THEN Elem("bound_error", 0) ELSE a.elems[idx + 1]
caml_array_set(a, idx, x, dw) ==
  IF idx < 0 \/ idx >= Limit(a, dw) THEN [a EXCEPT !.exn = "bound_error"]
  ELSE [a EXCEPT !.elems[idx + 1] = x,
                 !.recorded = IF a.tag = 0 /\ a.gen = "old" /\ x.kind = "young" THEN @ \cup {idx + 1} ELSE @]

(***************************************************************************)
(* Blocks: let rec, copies, truncation and methods.                        *)
(***************************************************************************)
caml_alloc_dummy(size) == IF size = 0 THEN Atom0 ELSE ArrayOf(0, size, Generation(size), Replicate(size, Elem("null", 0)))
caml_alloc_dummy_float(size, dw) == caml_alloc_dummy(size * dw)
caml_update_dummy(dummy, new) ==
  [dummy EXCEPT !.tag = new.tag, !.elems = new.elems,
                !.recorded = IF dummy.gen = "old" /\ new.tag # Double_array_tag
                             THEN {i \in DOMAIN new.elems : new.elems[i].kind = "young"} ELSE {}]
caml_obj_dup(a) ==
  IF a.wosize = 0 THEN a
  ELSE [a EXCEPT !.gen = Generation(a.wosize),
                 !.recorded = IF a.tag < No_scan_tag /\ Generation(a.wosize) = "old"
                              THEN {i \in DOMAIN a.elems : a.elems[i].kind = "young"} ELSE {}]

\* Memory after the truncation: the block, the header of the leftover (white, tag 1), its size.
\* darkened: the elements that caml_modify erased.
caml_obj_truncate(a, newsize, dw) ==
  LET new_wosize == (IF a.tag = Double_array_tag THEN newsize * dw ELSE newsize) % 2^IntBits IN
  CASE new_wosize = 0 \/ new_wosize > a.wosize -> [exn |-> "Invalid_argument", wosize |-> a.wosize, left |-> -1, darkened |-> {}]
    [] new_wosize = a.wosize -> [exn |-> "", wosize |-> a.wosize, left |-> -1, darkened |-> {}]
    [] OTHER -> [exn |-> "", wosize |-> new_wosize, left |-> a.wosize - new_wosize - 1,
                 darkened |-> IF a.tag < No_scan_tag THEN (new_wosize + 1)..a.wosize ELSE {}]

\* meths[0] is 2n + 1, meths[2] ... are n pairs of a method and a tag, by increasing tags.
MethodTable(tags) ==
  LET sorted == SV!SetToSortSeq(tags, <)  n == Len(sorted)
  IN [i \in 0..(2 * n + 1) |-> CASE i = 0 -> 2 * n + 1
                                 [] i = 1 -> 0
                                 [] i > 1 /\ i % 2 = 0 -> 1000 + sorted[i \div 2]
                                 [] OTHER -> sorted[i \div 2]]
RECURSIVE BinarySearch(_, _, _, _)
BinarySearch(meths, tag, li, hi) ==
  IF li >= hi THEN li
  ELSE LET m == (li + hi) \div 2
           mi == IF m % 2 = 0 THEN m + 1 ELSE m
       IN IF tag < meths[mi] THEN BinarySearch(meths, tag, li, mi - 2) ELSE BinarySearch(meths, tag, mi, hi)
caml_get_public_method(meths, tag) ==
  LET li == BinarySearch(meths, tag, 3, meths[0]) IN IF tag = meths[li] THEN meths[li - 1] ELSE 0

(***************************************************************************)
(* The calls.                                                              *)
(***************************************************************************)
Lengths == -3..MaxArray
Indices == -2..(MaxArray + 1)
Methods == 1..6

ValuesInit ==
  /\ res = <<>>
  /\ \/ \E k \in DOMAIN CompareHeaps, m \in 0..2 : job = [part |-> "compare", k |-> k, mallocs |-> m]
     \/ \E s \in ByteStrings : job = [part |-> "bytes", s |-> s]
     \/ \E d \in Doubles : job = [part |-> "double", d |-> d]
     \/ \E len \in Lengths, x \in Elems, dw \in {1, 2} : job = [part |-> "array", len |-> len, x |-> x, dw |-> dw]
     \/ \E tags \in SUBSET Methods : tags # {} /\ job = [part |-> "method", tags |-> tags]
     \/ \E name \in VariantNames : job = [part |-> "variant", name |-> name]

CompareStep ==
  /\ job.part = "compare" /\ res = <<>>
  /\ LET h == CompareHeaps[job.k].heap  V == CompareHeaps[job.k].values  P == V \X V
         all(Op(_, _, _, _)) == [p \in P |-> Op(h, p[1], p[2], job.mallocs)]
     IN res' = [compare |-> all(caml_compare), eq |-> all(caml_equal), ne |-> all(caml_notequal),
                lt |-> all(caml_lessthan), le |-> all(caml_lessequal), gt |-> all(caml_greaterthan),
                ge |-> all(caml_greaterequal),
                hash |-> [v \in V |-> [q \in HashParams |-> caml_hash_univ_param(h, q[1], q[2], v)]]]
  /\ UNCHANGED job

BytesStep ==
  /\ job.part = "bytes" /\ res = <<>>
  /\ LET b == caml_copy_string(job.s, 1) IN
     res' = [block |-> b,
             get |-> [i \in -1..(Len(job.s) + 1) |-> caml_string_get(b, i)],
             set |-> [i \in -1..(Len(job.s) + 1) |-> caml_string_set(b, i, 2)],
             equal |-> [t \in ByteStrings |-> caml_string_equal(b, caml_copy_string(t, 2))],
             compare |-> [t \in ByteStrings |-> caml_string_compare(b, caml_copy_string(t, 2))],
             filled |-> caml_fill_string(caml_alloc_string(Len(job.s), 1), 0, Len(job.s), 2),
             blitted |-> caml_blit_string(b, 0, caml_alloc_string(Len(job.s) + 1, 1), 1, Len(job.s))]
  /\ UNCHANGED job

DoubleStep ==
  /\ job.part = "double" /\ res = <<>>
  /\ res' = [class |-> caml_classify_float(job.d), compare |-> [d \in Doubles |-> caml_float_compare(job.d, d)]]
  /\ UNCHANGED job

ArrayStep ==
  /\ job.part = "array" /\ res = <<>>
  /\ LET a == caml_make_vect(job.len, job.x, job.dw)
         lit == IF job.len > 0 /\ job.len < Max_young THEN caml_make_array(Replicate(job.len, job.x), job.dw) ELSE Atom0
         dummy == IF a.tag = Double_array_tag THEN caml_alloc_dummy_float(job.len, job.dw) ELSE caml_alloc_dummy(a.wosize)
     IN res' = [array |-> a, lit |-> lit,
                get |-> [i \in Indices |-> caml_array_get(a, i, job.dw)],
                getlit |-> [i \in Indices |-> caml_array_get(lit, i, job.dw)],
                set |-> [i \in Indices |-> caml_array_set(a, i, job.x, job.dw)],
                updated |-> caml_update_dummy(dummy, a), dup |-> caml_obj_dup(a),
                truncated |-> [i \in Indices |-> caml_obj_truncate(a, i, job.dw)]]
  /\ UNCHANGED job

MethodStep ==
  /\ job.part = "method" /\ res = <<>>
  /\ res' = [t \in Methods |-> caml_get_public_method(MethodTable(job.tags), t)]
  /\ UNCHANGED job

VariantStep ==
  /\ job.part = "variant" /\ res = <<>>
  /\ res' = [narrow |-> caml_hash_variant(job.name, IntBits), wide |-> caml_hash_variant(job.name, 2 * IntBits)]
  /\ UNCHANGED job

ValuesNext == CompareStep \/ BytesStep \/ DoubleStep \/ ArrayStep \/ MethodStep \/ VariantStep

(***************************************************************************)
(* Properties.                                                             *)
(***************************************************************************)
\* Blocks reachable from v.
RECURSIVE ReachedFrom(_, _)
ReachedFrom(h, S) ==
  LET T == S \cup {f[2] : f \in {g \in UNION {SV!ToSet(h[b].f) : b \in S} : Is_in_value_area(g)}}
  IN IF T = S THEN S ELSE ReachedFrom(h, T)
BlocksOf(h, v) == IF Is_in_value_area(v) THEN ReachedFrom(h, {v[2]}) ELSE {}
DoublesOf(h, v) == UNION {SV!ToSet(h[b].d) : b \in BlocksOf(h, v)}
                   \cup {h[b].n : b \in {c \in BlocksOf(h, v) : h[c].ops = "bigarray"}}

RECURSIVE Followed(_, _)
Followed(h, v) == IF Is_in_value_area(v) /\ Tag_val(h, v) = Forward_tag THEN Followed(h, Forward_val(h, v)) ELSE v

\* Blocks whose fields are compared one by one.
Fielded(h, v) == Is_in_value_area(v) /\ v[3] = 0 /\ h[v[2]].tag < Closure_tag

\* compare.c: whatever the growth and the limit of the compare stack and the failures of malloc,
\* compare is a total order on comparable values, lexicographic on blocks and indifferent to
\* Forward blocks, the six relations are what it says except on NaN, and every return, normal or
\* by an exception, leaves the static stack in use and frees the other one.
OrderSound ==
  LET h == CompareHeaps[job.k].heap  V == CompareHeaps[job.k].values
      c(x, y) == res.compare[<<x, y>>]  ok(x, y) == c(x, y).exn = ""
      ops == {res.compare, res.eq, res.ne, res.lt, res.le, res.gt, res.ge} IN
  /\ \A op \in ops, p \in V \X V : ~op[p].s.own /\ op[p].s.size = COMPARE_STACK_INIT_SIZE
  /\ \A x \in V : c(x, x).r = 0 /\ ok(x, x)
  /\ \A x, y \in V :
       /\ ok(x, y) = ok(y, x) /\ (ok(x, y) => c(x, y).r = -c(y, x).r)
       /\ \A z \in V : ok(x, y) /\ ok(y, z) /\ ok(x, z) /\ c(x, y).r <= 0 /\ c(y, z).r <= 0 => c(x, z).r <= 0
       /\ ok(x, y) /\ Followed(h, x) \in V => c(Followed(h, x), y).r = c(x, y).r
       /\ LET fx == Followed(h, x)  fy == Followed(h, y) IN
          fx # fy /\ ok(x, y) /\ Fielded(h, fx) /\ Fielded(h, fy) /\ h[fx[2]].tag = h[fy[2]].tag =>
            LET a == h[fx[2]].f  b == h[fy[2]].f
                field(v, w) == Sign(compare_val(h, v, w, TRUE, 9).r)
            IN c(x, y).r = IF Len(a) # Len(b) THEN Sign(Len(a) - Len(b)) ELSE FirstDifference(a, b, field)
       /\ LET p == <<x, y>>
              nan == \E d \in DoublesOf(h, x) \cup DoublesOf(h, y) : IsNaN(d) IN
          ok(x, y) /\ res.eq[p].exn = "" =>
            /\ res.eq[p].r = 1 - res.ne[p].r
            /\ res.lt[p].r + res.eq[p].r = res.le[p].r /\ res.gt[p].r + res.eq[p].r = res.ge[p].r
            /\ res.lt[p].r = 1 => c(x, y).r < 0
            /\ res.gt[p].r = 1 => c(x, y).r > 0
            /\ ~nan => res.eq[p].r = Bit(c(x, y).r = 0) /\ res.lt[p].r = Bit(c(x, y).r < 0)
                       /\ res.gt[p].r = Bit(c(x, y).r > 0)

\* hash.c: values that compare equal have the same hash, whatever the limits, when no zero and no
\* NaN occurs in them; and the walk visits no more than the limit allows, on cyclic values too.
HashAgrees ==
  LET h == CompareHeaps[job.k].heap  V == CompareHeaps[job.k].values
      plain(v) == \A d \in DoublesOf(h, v) : ~IsNaN(d) /\ Real(d) # 0 IN
  /\ \A x, y \in V : plain(x) /\ plain(y) /\ res.compare[<<x, y>>].exn = "" /\ res.compare[<<x, y>>].r = 0
                       => \A q \in HashParams : res.hash[x][q].accu = res.hash[y][q].accu
  /\ \A v \in V, q \in HashParams :
       LET widest == FV!Max({Len(h[b].f) : b \in DOMAIN h} \cup {1}) IN
       res.hash[v][q].calls <= 1 + (q[2] + 1) * widest

\* str.c, alloc.c: the padding makes the length exact and the comparison word by word exact,
\* whatever the memory held; no access reaches the padding.
StringsExact ==
  LET s == job.s IN
  /\ caml_string_length(res.block) = Len(s)
  /\ \A t \in ByteStrings :
       /\ res.equal[t] = (s = t)
       /\ (res.compare[t] = 0) = (s = t)
       /\ res.compare[t] < 0 <=> \/ FirstDifference(s, t, LAMBDA x, y : x - y) < 0
                                 \/ s # t /\ Len(s) < Len(t) /\ SubSeq(t, 1, Len(s)) = s
  /\ \A i \in DOMAIN res.get :
       /\ res.get[i] = (IF i \in 0..(Len(s) - 1) THEN s[i + 1] ELSE -1)
       /\ caml_string_length(res.set[i]) = Len(s)
  /\ caml_string_equal(res.filled, caml_copy_string(Replicate(Len(s), 2), 0))
  /\ caml_string_length(res.blitted) = Len(s) + 1

\* floats.c: the order on floats is total, with NaN least, and classify agrees with the value.
FloatsExact ==
  /\ \A d \in Doubles : res.compare[d] = (IF IsNaN(job.d) THEN Bit(IsNaN(d)) - 1 ELSE IF IsNaN(d) THEN 1
                                          ELSE Sign(Real(job.d) - Real(d)))
  /\ (res.class = "FP_nan") = IsNaN(job.d)
  /\ (res.class = "FP_zero") = (Real(job.d) = 0)
  /\ (res.class = "FP_infinite") = (Exponent(job.d) = 3 /\ ~IsNaN(job.d))
  /\ (res.class = "FP_subnormal") = (Exponent(job.d) = 0 /\ Real(job.d) # 0)

\* array.c, alloc.c, obj.c: a length is refused exactly when it is negative or too large, each
\* element can be read back and no other index can; an old array refers to a young value only
\* where the reference table knows it; a truncated block and its leftover fill the old one and
\* what was cut off has been erased; the block of a let rec becomes the value.
ArraysSound ==
  LET a == res.array  n == job.len  need == IF job.x.kind = "double" THEN n * job.dw ELSE n
      kept(x, y) == x = y \/ x = Aged(y)
      known(b) == b.gen = "old" => \A i \in DOMAIN b.elems : b.elems[i].kind = "young" => i \in b.recorded IN
  /\ a.exn # "" <=> n < 0 \/ need > Max_size
  /\ a.exn = "" =>
       /\ \A i \in Indices : IF i \in 0..(n - 1) THEN kept(res.get[i], job.x) ELSE res.get[i].kind = "bound_error"
       /\ \A i \in Indices : IF i \in 0..(n - 1)
                             THEN known(res.set[i]) /\ res.set[i].elems[i + 1] = job.x ELSE res.set[i].exn # ""
       /\ known(a) /\ known(res.updated) /\ known(res.dup)
       /\ res.updated.elems = a.elems /\ res.updated.tag = a.tag /\ res.updated.wosize = a.wosize
       /\ res.dup.elems = a.elems
       /\ \A i \in Indices :
            LET t == res.truncated[i] IN
            /\ t.exn # "" <=> i <= 0 \/ i > n
            /\ t.left >= 0 => /\ 1 + t.wosize + 1 + t.left = 1 + a.wosize
                              /\ a.tag = 0 => t.darkened = (i + 1)..n
  /\ \A i \in Indices : res.lit.wosize > 0 =>
       res.getlit[i] = (IF i \in 0..(n - 1) THEN job.x ELSE Elem("bound_error", 0))

\* obj.c: the search finds the method of a tag exactly when the table has it.
MethodsFound == \A t \in Methods : res[t] = IF t \in job.tags THEN 1000 + t ELSE 0

\* hash.c: a variant has the same hash on the architectures, that of the compiler (hash_variant of
\* typing/btype.ml): modulo 2^31, then signed.
VariantsAgree ==
  LET n == SV!FoldLeft(LAMBDA a, c : (223 * a + c) % 2^(IntBits - 1), 0, job.name)
  IN res.narrow = res.wide /\ res.narrow = Val_int(Wrap(n, IntBits - 1), IntBits)

\* The primitives on values do what their clients rely on.
ValuesSound ==
  res # <<>> =>
  /\ job.part = "compare" => OrderSound /\ HashAgrees
  /\ job.part = "bytes" => StringsExact
  /\ job.part = "double" => FloatsExact
  /\ job.part = "array" => ArraysSound
  /\ job.part = "method" => MethodsFound
  /\ job.part = "variant" => VariantsAgree
=============================================================================
