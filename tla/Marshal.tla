------------------------------- MODULE Marshal -------------------------------
(***************************************************************************)
(* Structured output (byterun/extern.c) and input (byterun/intern.c), with *)
(* the custom blocks of byterun/ints.c.  Bytes are digits below ByteSize   *)
(* and the widths keep their ratios: CODE_INT8 carries one of them, a      *)
(* 32-bit word four, a 64-bit word eight.  A writer and a reader each have *)
(* an architecture: the size of their words and the order of the bytes of  *)
(* their integers and of their doubles.                                    *)
(***************************************************************************)
EXTENDS Integers, Sequences, FiniteSets, Blocks, Jobs

CONSTANTS
  ByteSize,                  \* 2^8 in the code
  ENTRIES_PER_TRAIL_BLOCK,   \* 1025
  SIZE_EXTERN_OUTPUT_BLOCK,  \* 8100
  SizeLimit,                 \* 2^32: sizes that do not fit in the header
  Page,                      \* words of a page of the heap
  MarshalHeaps,              \* the values to write, with the heaps they live in
  Writers, Readers,          \* the architectures that write and those that read
  UserBuffers,               \* lengths of user-provided buffers
  Mallocs                    \* how many calls of malloc succeed

ASSUME MarshalAssumption ==
  /\ ByteSize \in Nat /\ ByteSize >= 8
  /\ SIZE_EXTERN_OUTPUT_BLOCK \in Nat /\ SIZE_EXTERN_OUTPUT_BLOCK >= 20
  /\ ENTRIES_PER_TRAIL_BLOCK \in Nat \ {0}

SX == INSTANCE SequencesExt

Pow(b, n) == LET p[i \in 0..n] == IF i = 0 THEN 1 ELSE b * p[i - 1] IN p[n]
Half(bytes) == Pow(ByteSize, bytes) \div 2

\* The bytes of n, most significant first (val >> 24, val >> 16, ...).
BigEndian(n, width) == [i \in 1..width |-> (n \div Pow(ByteSize, width - i)) % ByteSize]
Unsigned(bytes) == SX!FoldLeft(LAMBDA a, d : a * ByteSize + d, 0, bytes)
Sign_extend(d) == IF d >= ByteSize \div 2 THEN d - ByteSize ELSE d
Signed(bytes) == SX!FoldLeft(LAMBDA a, d : a * ByteSize + d, Sign_extend(bytes[1]), Tail(bytes))

\* Perm_index and Permute_64: which byte of memory holds the i-th byte of a double,
\* least significant first.
FloatOrder(fl) == CASE fl = "little" -> <<1, 2, 3, 4, 5, 6, 7, 8>>
                    [] fl = "big"    -> <<8, 7, 6, 5, 4, 3, 2, 1>>
                    [] fl = "mixed"  -> <<5, 6, 7, 8, 1, 2, 3, 4>>
Permute_64(to, bytes, from) ==
  [k \in 1..Len(bytes) |->
     LET base == ((k - 1) \div 8) * 8
         i == CHOOSE j \in 1..8 : FloatOrder(to)[j] = k - base
     IN bytes[base + FloatOrder(from)[i]]]

(***************************************************************************)
(* The writer.  Its state: the heap, in which a block that has been seen is*)
(* blue and holds its number instead of its first field; the trail that    *)
(* undoes this; the chain of output blocks and the room left in the last;  *)
(* the counters; err, the exception raised.                                *)
(***************************************************************************)
Failed(s) == s.err # ""

\* All the blocks of the trail, the last one up to the current entry.
extern_replay_trail(s) ==
  [s EXCEPT !.heap = [b \in DOMAIN s.heap |->
                        LET mine == {i \in DOMAIN s.trail : s.trail[i].obj = b} IN
                        IF mine = {} THEN s.heap[b]
                        ELSE LET e == s.trail[CHOOSE i \in mine : TRUE]
                             IN [s.heap[b] EXCEPT !.color = e.color, !.f[1] = e.field0]],
            !.trail = <<>>, !.trailblocks = 1]

free_extern_output(s) == IF s.user THEN s ELSE [s EXCEPT !.live = 0, !.out = <<>>]

extern_fail(s, exn) == [free_extern_output(extern_replay_trail(s)) EXCEPT !.err = exn]
extern_out_of_memory(s) == extern_fail(s, "Out_of_memory")
extern_invalid_argument(s) == extern_fail(s, "Invalid_argument")

\* A forwarding word in the first field, a colour in the header, an entry in the trail.
extern_record_location(s, b) ==
  IF Failed(s) \/ s.ignore_sharing THEN s
  ELSE LET full == Len(s.trail) = s.trailblocks * ENTRIES_PER_TRAIL_BLOCK
           blk == s.heap[b] IN
       IF full /\ s.mallocs = 0 THEN extern_out_of_memory(s)
       ELSE [s EXCEPT !.mallocs = IF full THEN @ - 1 ELSE @,
                      !.trailblocks = IF full THEN @ + 1 ELSE @,
                      !.trail = Append(@, [obj |-> b, color |-> blk.color, field0 |-> blk.f[1]]),
                      !.heap[b].color = "blue",
                      !.heap[b].f[1] = RawWord(s.obj_counter),
                      !.obj_counter = @ + 1]

grow_extern_output(s, required) ==
  IF s.user THEN [extern_replay_trail(s) EXCEPT !.err = "Failure"]
  ELSE IF s.mallocs = 0 THEN extern_out_of_memory(s)
  ELSE LET extra == IF required <= SIZE_EXTERN_OUTPUT_BLOCK \div 2 THEN 0 ELSE required
       IN [s EXCEPT !.mallocs = @ - 1, !.live = @ + 1, !.out = Append(@, <<>>),
                    !.room = SIZE_EXTERN_OUTPUT_BLOCK + extra]

\* Write, writeblock, writecode8..64 and the caml_serialize functions: the room is tested
\* once for the whole item, which is never cut.
write(s, bytes) ==
  IF Failed(s) THEN s
  ELSE LET t == IF Len(bytes) > s.room THEN grow_extern_output(s, Len(bytes)) ELSE s IN
       IF Failed(t) THEN t
       ELSE [t EXCEPT !.out[Len(t.out)] = @ \o bytes, !.room = @ - Len(bytes)]
writecode(s, code, val, width) == write(s, <<code>> \o BigEndian(val, width))

\* caml_serialize_int_*: the words of the machine, reversed where it is little-endian.
caml_serialize_int(s, n, width) == write(s, BigEndian(n, width))
writeblock_float8(s, bytes) ==
  write(s, IF s.arch.fl = "mixed" THEN Permute_64("little", bytes, "mixed") ELSE bytes)

init_extern_output(s) ==
  IF s.mallocs = 0 THEN [s EXCEPT !.err = "Out_of_memory"]
  ELSE [s EXCEPT !.user = FALSE, !.mallocs = @ - 1, !.live = 1, !.out = <<<<>>>>,
                 !.room = SIZE_EXTERN_OUTPUT_BLOCK]

CODE == [int8 |-> 0, int16 |-> 1, int32 |-> 2, int64 |-> 3,
         shared8 |-> 4, shared16 |-> 5, shared32 |-> 6, block32 |-> 8, block64 |-> 19,
         string8 |-> 9, string32 |-> 10, double_big |-> 11, double_little |-> 12,
         double_array8_big |-> 13, double_array8_little |-> 14,
         double_array32_big |-> 15, double_array32_little |-> 7,
         codepointer |-> 16, infixpointer |-> 17, custom |-> 18]
PREFIX_SMALL_BLOCK == 128
PREFIX_SMALL_INT == 64
PREFIX_SMALL_STRING == 32
Intext_magic_number == <<8, 4, 9, 5>>

\* Small integers are those below a quarter of a byte, short strings below an eighth.
extern_long(s, n) ==
  CASE 0 <= n /\ n < ByteSize \div 4 -> write(s, <<PREFIX_SMALL_INT + n>>)
    [] ~(0 <= n /\ n < ByteSize \div 4) /\ -Half(1) <= n /\ n < Half(1) -> writecode(s, CODE.int8, n, 1)
    [] ~(-Half(1) <= n /\ n < Half(1)) /\ -Half(2) <= n /\ n < Half(2) -> writecode(s, CODE.int16, n, 2)
    [] s.arch.word = 8 /\ (n < -Half(4) \/ n >= Half(4)) -> writecode(s, CODE.int64, n, 8)
    [] OTHER -> writecode(s, CODE.int32, n, 4)

extern_shared(s, d) ==
  CASE d < ByteSize -> writecode(s, CODE.shared8, d, 1)
    [] d >= ByteSize /\ d < Pow(ByteSize, 2) -> writecode(s, CODE.shared16, d, 2)
    [] OTHER -> writecode(s, CODE.shared32, d, 4)

sized(s, words32, words64) ==
  IF Failed(s) THEN s ELSE [s EXCEPT !.size_32 = @ + words32, !.size_64 = @ + words64]

\* A slip: no room for the padding byte of a string that fills its words.
extern_string_tight(s, b, str) ==
  LET len == Len(str)
      s1 == CASE len < ByteSize \div 8 -> write(s, <<PREFIX_SMALL_STRING + len>>)
              [] len >= ByteSize \div 8 /\ len < ByteSize -> writecode(s, CODE.string8, len, 1)
              [] OTHER -> writecode(s, CODE.string32, len, 4)
  IN extern_record_location(sized(write(s1, str), 1 + (len + 3) \div 4, 1 + (len + 7) \div 8), b)

extern_string(s, b, str) ==
  LET len == Len(str)
      s1 == CASE len < ByteSize \div 8 -> write(s, <<PREFIX_SMALL_STRING + len>>)
              [] len >= ByteSize \div 8 /\ len < ByteSize -> writecode(s, CODE.string8, len, 1)
              [] OTHER -> writecode(s, CODE.string32, len, 4)
  IN extern_record_location(sized(write(s1, str), 1 + (len + 4) \div 4, 1 + (len + 8) \div 8), b)

extern_double(s, b, bytes) ==
  LET code == IF s.arch.fl = "big" THEN CODE.double_big ELSE CODE.double_little
  IN extern_record_location(sized(writeblock_float8(write(s, <<code>>), bytes), 1 + 2, 1 + 1), b)

extern_double_array(s, b, bytes) ==
  LET n == Len(bytes) \div 8
      big == s.arch.fl = "big"
      s1 == IF n < ByteSize
            THEN writecode(s, IF big THEN CODE.double_array8_big ELSE CODE.double_array8_little, n, 1)
            ELSE writecode(s, IF big THEN CODE.double_array32_big ELSE CODE.double_array32_little, n, 4)
  IN extern_record_location(sized(writeblock_float8(s1, bytes), 1 + n * 2, 1 + n), b)

\* A native integer says how wide it is, so that a 32-bit reader may refuse it.
nativeint_serialize(s, n) ==
  IF s.arch.word = 8 /\ (n < -Half(4) \/ n >= Half(4))
  THEN caml_serialize_int(write(s, <<2>>), n, 8)
  ELSE caml_serialize_int(write(s, <<1>>), n, 4)

\* The custom operations: the identifier written, the data, their sizes in bytes.
CustomIdent == [int32 |-> <<1, 1, 0>>, int64 |-> <<1, 2, 0>>, nativeint |-> <<1, 3, 0>>,
                foreign |-> <<1, 4, 0>>]
serialize(s, ops, n) ==
  CASE ops \in {"int32", "foreign"} -> caml_serialize_int(s, n, 4)
    [] ops = "int64" -> caml_serialize_int(s, n, 8)
    [] ops = "nativeint" -> nativeint_serialize(s, n)
CustomSize(ops, word) ==
  CASE ops \in {"int32", "foreign"} -> 4 [] ops = "int64" -> 8 [] ops = "nativeint" -> word

extern_custom(s, b, blk) ==
  IF blk.ops = "abstract" THEN extern_invalid_argument(s)
  ELSE LET s1 == serialize(write(s, <<CODE.custom>> \o CustomIdent[blk.ops]), blk.ops, blk.n)
       IN extern_record_location(sized(s1, 2 + ((CustomSize(blk.ops, 4) + 3) \div 4),
                                           2 + ((CustomSize(blk.ops, 8) + 7) \div 8)), b)

extern_header(s, tag, sz) ==
  LET hd == Make_header(sz, tag) IN
  CASE tag < 16 /\ sz < 8 -> write(s, <<PREFIX_SMALL_BLOCK + tag + sz * 16>>)
    [] ~(tag < 16 /\ sz < 8) /\ s.arch.word = 8 /\ hd >= Pow(ByteSize, 4) -> writecode(s, CODE.block64, hd, 8)
    [] OTHER -> writecode(s, CODE.block32, hd, 4)

\* A Forward block is bypassed unless what it holds must not be seen without it.  The
\* word read is the first field, or the number a block already seen holds there.
Bypassed(heap, f) ==
  CASE f[1] = "long" -> TRUE
    [] f[1] = "raw" -> f[2] % 2 = 1
    [] f[1] = "ptr" -> f[3] # 0 \/ heap[f[2]].tag \notin {Forward_tag, Lazy_tag, Double_tag}
    [] OTHER -> FALSE
Content(f) == IF f[1] = "raw" THEN Long(f[2] \div 2) ELSE f

RECURSIVE extern_rec(_, _)
extern_rec(s, v) ==
  LET blk == s.heap[v[2]] IN
  CASE Failed(s) -> s
    [] ~Failed(s) /\ v[1] = "long" -> extern_long(s, v[2])
    [] ~Failed(s) /\ v[1] = "code" ->
         IF ~s.closures THEN extern_invalid_argument(s)
         ELSE write(writecode(s, CODE.codepointer, v[2], 4), [i \in 1..16 |-> s.program])
    [] ~Failed(s) /\ v[1] = "outside" -> extern_invalid_argument(s)
    [] ~Failed(s) /\ v[1] = "ptr" ->
         CASE v[3] # 0 ->
                extern_rec(writecode(s, CODE.infixpointer, v[3] * s.arch.word, 4), Ptr(v[2]))
           [] v[3] = 0 /\ blk.tag = Forward_tag /\ Bypassed(s.heap, blk.f[1]) ->
                extern_rec(s, Content(blk.f[1]))
           [] v[3] = 0 /\ blk.f = <<>> ->
                IF blk.tag < 16 THEN write(s, <<PREFIX_SMALL_BLOCK + blk.tag>>)
                ELSE writecode(s, CODE.block32, Make_header(0, blk.tag), 4)
           [] OTHER ->
                CASE blk.color = "blue" -> extern_shared(s, s.obj_counter - blk.f[1][2])
                  [] blk.color # "blue" /\ blk.tag = String_tag -> extern_string(s, v[2], blk.bytes)
                  [] blk.color # "blue" /\ blk.tag = Double_tag -> extern_double(s, v[2], blk.bytes)
                  [] blk.color # "blue" /\ blk.tag = Double_array_tag -> extern_double_array(s, v[2], blk.bytes)
                  [] blk.color # "blue" /\ blk.tag = Abstract_tag -> extern_invalid_argument(s)
                  [] blk.color # "blue" /\ blk.tag = Custom_tag -> extern_custom(s, v[2], blk)
                  [] OTHER ->
                       LET sz == Len(blk.f)
                           s1 == sized(extern_header(s, blk.tag, sz), 1 + sz, 1 + sz)
                       IN SX!FoldLeft(extern_rec, extern_record_location(s1, v[2]), blk.f)

extern_output_length(s) == SX!FoldLeft(LAMBDA n, blk : n + Len(blk), 0, s.out)

\* The header is written last, over the space set aside for it in the first block; the
\* space itself is taken without a test of the room.
SetAside(s) == IF Failed(s) THEN s ELSE [s EXCEPT !.out[1] = @ \o [i \in 1..16 |-> 0], !.room = @ - 16]
FillHeader(s) ==
  LET len == extern_output_length(s)
      sizes == BigEndian(len - 20, 4) \o BigEndian(s.obj_counter, 4)
                 \o BigEndian(s.size_32, 4) \o BigEndian(s.size_64, 4)
  IN IF s.arch.word = 8 /\ (len >= SizeLimit \/ s.size_32 >= SizeLimit \/ s.size_64 >= SizeLimit)
     THEN [free_extern_output(s) EXCEPT !.err = "Failure"]
     ELSE [s EXCEPT !.out[1] = SubSeq(@, 1, 4) \o sizes \o SubSeq(@, 21, Len(@))]
Completed(s) == IF Failed(s) THEN s ELSE FillHeader(extern_replay_trail(s))
extern_value(s, v) == Completed(extern_rec(SetAside(write(s, Intext_magic_number)), v))

(***************************************************************************)
(* The reader.  Its state: the source and the place in it; the destination,*)
(* as the sequence of the blocks built with their word addresses; the table*)
(* of the objects seen; err.  A block that could not be completed leaves    *)
(* err set and the destination as intern_cleanup leaves it.                *)
(***************************************************************************)
Max_wosize(arch) == IF arch.word = 4 THEN Pow(ByteSize, 4) \div 1024 - 1 ELSE Pow(ByteSize, 7) \div 64 - 1
Max_young_wosize == 256

\* The block allocated to receive the message, a string to the collector, gets its header
\* back: what was built in it disappears.
intern_cleanup(r, exn) == [r EXCEPT !.err = exn, !.mem = <<>>, !.tbl = <<>>, !.has_table = FALSE,
                                    !.extra = 0, !.freed = r.malloced]

Peek(r, k) == SubSeq(r.src, r.pos + 1, r.pos + k)
skip(r, k) == [r EXCEPT !.pos = @ + k]

\* A header at the writing pointer, an entry in the table, and the pointer moved.
intern_block_at(r, tag, size, bytes, ops, n) ==
  [r EXCEPT !.mem = Append(@, [addr |-> r.dest, tag |-> tag, size |-> size, f |-> <<>>,
                               bytes |-> bytes, ops |-> ops, n |-> n]),
            !.tbl = IF r.has_table THEN Append(@, r.dest) ELSE @,
            !.dest = @ + 1 + size,
            !.val = Ptr(r.dest)]

read_string(r, len) ==
  skip(intern_block_at(r, String_tag, (len + r.arch.word) \div r.arch.word, Peek(r, len), "", 0), len)

\* Doubles come in the order of the code and are stored in the order of the machine.
read_doubles(r, tag, len, big) ==
  LET bytes == Permute_64(r.arch.fl, Peek(r, len * 8), IF big THEN "big" ELSE "little")
  IN skip(intern_block_at(r, tag, len * (8 \div r.arch.word), bytes, "", 0), len * 8)

read_shared(r, ofs) == [r EXCEPT !.val = Ptr(r.tbl[Len(r.tbl) - ofs + 1])]

\* caml_deserialize_sint_4, _8 and the blocks they read: the next bytes, as an integer.
caml_deserialize(r, width) == [r |-> skip(r, width), n |-> Signed(Peek(r, width))]

nativeint_deserialize(r) ==
  CASE Peek(r, 1)[1] = 1 -> caml_deserialize(skip(r, 1), 4)
    [] Peek(r, 1)[1] = 2 /\ r.arch.word = 8 -> caml_deserialize(skip(r, 1), 8)
    [] OTHER -> [r |-> intern_cleanup(r, "Failure"), n |-> 0]

deserialize(r, ops) ==
  CASE ops = "int32" -> caml_deserialize(r, 4)
    [] ops = "int64" -> caml_deserialize(r, 8)
    [] ops = "nativeint" -> nativeint_deserialize(r)

\* caml_find_custom_operations: the operations registered by caml_init_custom_operations.
caml_find_custom_operations(ident) == {ops \in {"int32", "int64", "nativeint"} : CustomIdent[ops] = ident}

read_custom(r) ==
  LET known == caml_find_custom_operations(Peek(r, 3)) IN
  IF known = {} THEN intern_cleanup(r, "Failure")
  ELSE LET ops == CHOOSE o \in known : TRUE
           d == deserialize(skip(r, 3), ops)
           size == 1 + (CustomSize(ops, r.arch.word) + r.arch.word - 1) \div r.arch.word
       IN IF Failed(d.r) THEN d.r ELSE intern_block_at(d.r, Custom_tag, size, <<>>, ops, d.n)

\* Val_long on a machine with fewer bits drops the high ones.
Val_long(n, arch) ==
  LET range == IF arch.word = 4 THEN Half(4) ELSE Pow(ByteSize, 7) * 4
      low == n % range
  IN Long(IF low >= range \div 2 THEN low - range ELSE low)

RECURSIVE intern_rec(_)
intern_fields(r, tag, size) ==
  IF size = 0 THEN [r EXCEPT !.val = <<"atom", tag, 0>>]
  ELSE LET k == Len(r.mem) + 1
           a == r.dest
           one(t, i) == IF Failed(t) THEN t
                        ELSE LET u == intern_rec(t)
                             IN IF Failed(u) THEN u
                                ELSE [u EXCEPT !.mem[k].f = Append(@, u.val)]
           all == SX!FoldLeft(one, intern_block_at(r, tag, size, <<>>, "", 0), [i \in 1..size |-> i])
       IN [all EXCEPT !.val = Ptr(a)]

intern_rec(r0) ==
  LET code == Peek(r0, 1)[1]
      r == skip(r0, 1)
      u(k) == Unsigned(Peek(r, k))
      sgn(k) == Signed(Peek(r, k))
      long(k) == [skip(r, k) EXCEPT !.val = Val_long(sgn(k), r.arch)]
  IN
  CASE code >= PREFIX_SMALL_BLOCK -> intern_fields(r, code % 16, (code \div 16) % 8)
    [] code >= PREFIX_SMALL_INT /\ code < PREFIX_SMALL_BLOCK -> [r EXCEPT !.val = Long(code % 64)]
    [] code >= PREFIX_SMALL_STRING /\ code < PREFIX_SMALL_INT -> read_string(r, code % 32)
    [] code = CODE.int8 -> long(1)
    [] code = CODE.int16 -> long(2)
    [] code = CODE.int32 -> long(4)
    [] code = CODE.int64 -> IF r.arch.word = 8 THEN long(8) ELSE intern_cleanup(r, "Failure")
    [] code = CODE.shared8 -> read_shared(skip(r, 1), u(1))
    [] code = CODE.shared16 -> read_shared(skip(r, 2), u(2))
    [] code = CODE.shared32 -> read_shared(skip(r, 4), u(4))
    [] code = CODE.block32 -> intern_fields(skip(r, 4), Tag_hd(u(4)), Wosize_hd(u(4)))
    [] code = CODE.block64 -> IF r.arch.word = 8 THEN intern_fields(skip(r, 8), Tag_hd(u(8)), Wosize_hd(u(8)))
                              ELSE intern_cleanup(r, "Failure")
    [] code = CODE.string8 -> read_string(skip(r, 1), u(1))
    [] code = CODE.string32 -> read_string(skip(r, 4), u(4))
    [] code \in {CODE.double_little, CODE.double_big} ->
         read_doubles(r, Double_tag, 1, code = CODE.double_big)
    [] code \in {CODE.double_array8_little, CODE.double_array8_big} ->
         read_doubles(skip(r, 1), Double_array_tag, u(1), code = CODE.double_array8_big)
    [] code \in {CODE.double_array32_little, CODE.double_array32_big} ->
         read_doubles(skip(r, 4), Double_array_tag, u(4), code = CODE.double_array32_big)
    [] code = CODE.codepointer ->
         IF \E i \in 5..20 : Peek(r, 20)[i] # r.program THEN intern_cleanup(r, "Failure")
         ELSE [skip(r, 20) EXCEPT !.val = CodePtr(u(4))]
    [] code = CODE.infixpointer ->
         LET t == intern_rec(skip(r, 4))
         IN IF Failed(t) THEN t ELSE [t EXCEPT !.val = <<"ptr", t.val[2], u(4)>>]
    [] code = CODE.custom -> read_custom(r)
    [] OTHER -> intern_cleanup(r, "Failure")

\* Where the message goes: a heap chunk of its own when it is larger than any block, and
\* one block of exactly its size otherwise.  whsize = 0: an integer or an atom.
intern_alloc(r, whsize, num_objects) ==
  IF whsize = 0 THEN r
  ELSE [r EXCEPT !.has_table = num_objects > 0,
                 !.extra = IF whsize - 1 > Max_wosize(r.arch)
                           THEN ((whsize + Page - 1) \div Page) * Page ELSE 0,
                 !.block = IF whsize - 1 > Max_wosize(r.arch) THEN 0 ELSE whsize - 1,
                 !.young = whsize - 1 <= Max_young_wosize]

\* The end of the chunk becomes free blocks.
intern_add_to_heap(r) ==
  IF Failed(r) \/ r.extra = 0 THEN r ELSE [r EXCEPT !.tail = r.extra - r.dest]

input_val(r) ==
  LET num_objects == Unsigned(Peek(r, 4))
      size_32 == Unsigned(Peek(skip(r, 4), 4))
      size_64 == Unsigned(Peek(skip(r, 8), 4))
      whsize == IF r.arch.word = 8 THEN size_64 ELSE size_32
      t == intern_rec(intern_alloc(skip(r, 12), whsize, num_objects))
  IN [intern_add_to_heap(t) EXCEPT !.whsize = whsize, !.num_objects = num_objects]

NewReader(bytes, arch, program, malloced) ==
  [src |-> bytes, pos |-> 0, dest |-> 0, mem |-> <<>>, tbl |-> <<>>, has_table |-> FALSE,
   extra |-> 0, block |-> 0, young |-> TRUE, tail |-> 0, val |-> Long(0), err |-> "",
   whsize |-> 0, num_objects |-> 0, arch |-> arch, program |-> program,
   malloced |-> malloced, freed |-> FALSE]

\* caml_input_val, caml_input_value_from_malloc and caml_input_value_from_block; the
\* channel gives as many bytes as the header announces or the reading fails.
caml_input_value(bytes, arch, program, source) ==
  LET r == NewReader(bytes, arch, program, source \in {"channel", "malloc"})
      block_len == Unsigned(Peek(skip(r, 4), 4))
  IN CASE Peek(r, 4) # Intext_magic_number -> [r EXCEPT !.err = "Failure"]
       [] Peek(r, 4) = Intext_magic_number /\ source \in {"channel", "block"} /\ 20 + block_len > Len(bytes) ->
            [r EXCEPT !.err = "Failure", !.freed = r.malloced]
       [] OTHER -> LET t == input_val(skip(r, 8)) IN [t EXCEPT !.freed = r.malloced]

\* The message is taken on trust: it starts after the header found at ofs.
caml_input_val_from_string(bytes, arch, program) == input_val(skip(NewReader(bytes, arch, program, FALSE), 8))
caml_marshal_data_size(bytes) == Unsigned(SubSeq(bytes, 5, 8))

(***************************************************************************)
(* The calls.  Thread 1 writes the job's value to the job's sink; thread 2  *)
(* writes another one to a channel of its own meanwhile.  caml_output_val   *)
(* and caml_output_value_to_string keep the chain of blocks in a local      *)
(* variable while putting them on the channel, or allocating the string,    *)
(* lets other threads run; extern_output_first is the global variable.      *)
(***************************************************************************)
Unbounded == 1000

NewWriter(h, arch, flags, user, room, mallocs) ==
  [heap |-> h.heap, trail |-> <<>>, trailblocks |-> 1, obj_counter |-> 0, size_32 |-> 0, size_64 |-> 0,
   ignore_sharing |-> "NO_SHARING" \in flags, closures |-> "CLOSURES" \in flags, user |-> user,
   out |-> <<<<>>>>, room |-> room, mallocs |-> mallocs, live |-> 0, err |-> "", arch |-> arch, program |-> 1]

Written(j) ==
  LET user == j.sink = "buffer"
      s == NewWriter(MarshalHeaps[j.heap], j.writer, j.flags, user, IF user THEN j.room ELSE 0, j.mallocs)
      s0 == IF user THEN s ELSE init_extern_output(s)
  IN IF Failed(s0) THEN s0 ELSE extern_value(s0, MarshalHeaps[j.heap].root)

Threads(j) == IF j.sink = "channel" THEN {1, 2} ELSE {1}
JobOf(j, t) == IF t = 1 THEN j ELSE [j EXCEPT !.heap = "other", !.flags = {}, !.mallocs = Unbounded]

MarshalJob(h, w, fl, k, n, m) ==
  [part |-> "marshal", heap |-> h, writer |-> w, flags |-> fl, sink |-> k, room |-> n, mallocs |-> m]
MarshalJobs ==
  UNION {{MarshalJob(h, w, fl, k, 0, Unbounded) :
            fl \in {{}, {"NO_SHARING"}, {"CLOSURES"}}, k \in {"channel", "string"}}
         \cup {MarshalJob(h, w, {"CLOSURES"}, "malloc", 0, m) : m \in Mallocs \cup {Unbounded}}
         \cup {MarshalJob(h, w, {"CLOSURES"}, "buffer", n, 0) : n \in UserBuffers} :
         h \in DOMAIN MarshalHeaps, w \in Writers}
\* Without sharing the writer of a cyclic value does not stop.
Terminates(j) == ~("NO_SHARING" \in j.flags /\ MarshalHeaps[j.heap].cyclic)
\* The heaps a writer can hold: a 32-bit one has no larger blocks and integers.
Holds(j) == j.writer.word = 8 \/ ~MarshalHeaps[j.heap].wide

MarshalInit ==
  /\ job \in {j \in MarshalJobs : Terminates(j) /\ Holds(j)}
  /\ res = [first |-> <<>>, thr |-> [t \in Threads(job) |->
               [pc |-> "start", w |-> <<>>, blk |-> <<>>, got |-> <<>>, live |-> 0, r |-> <<>>]]]

Thread(t) == res.thr[t]

\* init_extern_output and extern_value run without a break.
caml_output_value(t) ==
  /\ Thread(t).pc = "start"
  /\ \E s \in {Written(JobOf(job, t))} :
     res' = IF Failed(s)
            THEN [res EXCEPT !.thr[t].pc = "failed", !.thr[t].w = s, !.thr[t].live = s.live]
            ELSE IF job.sink \in {"channel", "string"}
            THEN [res EXCEPT !.first = s.out, !.thr[t].pc = "copying", !.thr[t].w = s,
                             !.thr[t].blk = s.out, !.thr[t].live = s.live]
            ELSE IF job.sink = "malloc" /\ s.mallocs = 0
            THEN [res EXCEPT !.thr[t].pc = "failed", !.thr[t].w = extern_out_of_memory(s)]
            ELSE [res EXCEPT !.thr[t].pc = "written", !.thr[t].w = s, !.thr[t].got = SX!FlattenSeq(s.out)]

\* A slip: the chain of blocks is taken from the global variable.
caml_really_putblock_global(t) ==
  LET n == IF job.sink = "channel" /\ res.first # <<>> THEN 1 ELSE Len(res.first) IN
  /\ Thread(t).pc = "copying"
  /\ Thread(t).blk # <<>>
  /\ res' = [res EXCEPT !.thr[t].got = @ \o SX!FlattenSeq(SubSeq(res.first, 1, n)),
                        !.thr[t].live = @ - n,
                        !.first = SubSeq(@, n + 1, Len(@)),
                        !.thr[t].blk = SubSeq(res.first, n + 1, Len(res.first))]

\* One block on the channel; all of them in the string, once it is allocated.
caml_really_putblock(t) ==
  LET n == IF job.sink = "channel" THEN 1 ELSE Len(Thread(t).blk) IN
  /\ Thread(t).pc = "copying"
  /\ Thread(t).blk # <<>>
  /\ res' = [res EXCEPT !.thr[t].got = @ \o SX!FlattenSeq(SubSeq(Thread(t).blk, 1, n)),
                        !.thr[t].live = @ - n,
                        !.thr[t].blk = SubSeq(@, n + 1, Len(@))]

\* An exception while the blocks are copied: an I/O error or a signal handler after some bytes of a
\* block are in the channel, a finalisation function or lack of memory when the string is allocated.
\* The blocks of the local chain stay allocated.
CopyRaises(t) ==
  /\ Thread(t).pc = "copying"
  /\ Thread(t).blk # <<>>
  /\ \E n \in IF job.sink = "channel" THEN {0, Len(Head(Thread(t).blk)) \div 2} ELSE {0} :
       res' = [res EXCEPT !.thr[t].pc = "broken", !.thr[t].got = @ \o SubSeq(Head(Thread(t).blk), 1, n)]

caml_output_value_done(t) ==
  /\ Thread(t).pc = "copying"
  /\ Thread(t).blk = <<>>
  /\ res' = [res EXCEPT !.thr[t].pc = "written"]

\* Thread 1 reads its value back on another machine, in the same or another program.
caml_input(arch, program) ==
  LET got == Thread(1).got
      r == IF job.sink = "string" THEN caml_input_val_from_string(got, arch, program)
           ELSE caml_input_value(got, arch, program, IF job.sink = "buffer" THEN "block" ELSE job.sink)
  IN /\ \A t \in Threads(job) : Thread(t).pc = "written"
     /\ res' = [res EXCEPT !.thr[1].pc = "read", !.thr[1].r = r]

MarshalNext ==
  /\ job.part = "marshal"
  /\ UNCHANGED job
  /\ \/ \E t \in Threads(job) :
          \/ caml_output_value(t)
          \/ caml_really_putblock(t)
          \/ CopyRaises(t)
          \/ caml_output_value_done(t)
     \/ \E arch \in Readers, program \in 1..2 : caml_input(arch, program)

(***************************************************************************)
(* What marshalling promises, in terms of the value and of its copy.        *)
(***************************************************************************)
\* The value without the Forward blocks that are bypassed.
RECURSIVE Shown(_, _)
Shown(heap, v) ==
  IF v[1] = "ptr" /\ v[3] = 0 /\ heap[v[2]].tag = Forward_tag /\ Bypassed(heap, heap[v[2]].f[1])
  THEN Shown(heap, heap[v[2]].f[1]) ELSE v

Fields(heap, v) ==
  IF v[1] = "ptr" /\ heap[v[2]].tag < Abstract_tag
  THEN [i \in DOMAIN heap[v[2]].f |-> Shown(heap, heap[v[2]].f[i])] ELSE <<>>
BlockAt(mem, addr) == mem[CHOOSE k \in DOMAIN mem : mem[k].addr = addr]

\* Which part of the value corresponds to which part of the copy.
RECURSIVE Correspondence(_, _, _)
Correspondence(heap, mem, pairs) ==
  LET children(p) ==
        IF p[1][1] # "ptr" \/ p[2][1] # "ptr" THEN {}
        ELSE LET a == Fields(heap, p[1])  b == BlockAt(mem, p[2][2]).f
             IN {<<a[i], b[i]>> : i \in DOMAIN a \cap DOMAIN b}
      all == pairs \cup UNION {children(p) : p \in pairs}
  IN IF all = pairs THEN pairs ELSE Correspondence(heap, mem, all)

RECURSIVE Reachable(_, _)
Reachable(heap, vs) ==
  LET all == vs \cup UNION {{Fields(heap, v)[i] : i \in DOMAIN Fields(heap, v)} : v \in vs}
  IN IF all = vs THEN vs ELSE Reachable(heap, all)

\* A block of the value and its copy: the same tag, the same number of fields, the same
\* bytes, the same double whatever the order of its bytes in memory.
SameBlock(a, b, w, r) ==
  /\ a.tag = b.tag
  /\ a.tag < Abstract_tag => Len(a.f) = Len(b.f) /\ b.size = Len(a.f)
  /\ a.tag = String_tag => a.bytes = b.bytes
  /\ a.tag \in {Double_tag, Double_array_tag} =>
        Permute_64("little", a.bytes, w.fl) = Permute_64("little", b.bytes, r.fl)
  /\ a.tag = Custom_tag => a.ops = b.ops /\ a.n = b.n

\* A pointer inside a closure keeps its distance in bytes: the same function of the closure where
\* the words of the writer and of the reader have one size, and another place of it where they have not.
SameValue(heap, mem, p, w, r) ==
  LET v == p[1]  c == p[2] IN
  CASE v[1] = "long" -> c = Val_long(v[2], r)
    [] v[1] = "code" -> c = v
    [] v[1] = "ptr" ->
         IF heap[v[2]].f = <<>> THEN c = <<"atom", heap[v[2]].tag, 0>>
         ELSE /\ c[1] = "ptr"
              /\ SameBlock(heap[v[2]], BlockAt(mem, c[2]), w, r)
              /\ c[3] = v[3] * w.word
    [] OTHER -> FALSE

\* Sharing is kept: two paths lead to one block of the copy exactly when they lead to one
\* block of the value.
SameSharing(heap, pairs) ==
  \A p, q \in {x \in pairs : x[1][1] = "ptr" /\ heap[x[1][2]].f # <<>>} :
     (p[1][2] = q[1][2]) <=> (p[2][2] = q[2][2])

\* The copy fills exactly the memory that the header announced.
Tiles(r) ==
  /\ r.dest = r.whsize
  /\ r.mem # <<>> => r.mem[1].addr = 0
  /\ \A k \in 1..(Len(r.mem) - 1) : r.mem[k].addr + 1 + r.mem[k].size = r.mem[k + 1].addr
  /\ r.extra = 0 => r.whsize = (IF r.mem = <<>> THEN 0 ELSE r.block + 1)
  /\ r.extra > 0 => r.tail = r.extra - r.whsize /\ r.tail >= 0

\* What cannot be written, and what this reader cannot hold.
Unwritable(heap, vs, flags) ==
  \E v \in vs : \/ v[1] = "outside"
                \/ v[1] = "code" /\ "CLOSURES" \notin flags
                \/ v[1] = "ptr" /\ heap[v[2]].tag = Abstract_tag
                \/ v[1] = "ptr" /\ heap[v[2]].tag = Custom_tag /\ heap[v[2]].ops = "abstract"
TooWide(n) == n < -Half(4) \/ n >= Half(4)
Unreadable(heap, vs, r, program) ==
  \/ \E v \in vs : v[1] = "code" /\ program # 1
  \/ \E v \in vs : v[1] = "ptr" /\ heap[v[2]].tag = Custom_tag /\ heap[v[2]].ops = "foreign"
  \/ r.word = 4 /\ \E v \in vs :
       \/ v[1] = "long" /\ TooWide(v[2])
       \/ v[1] = "ptr" /\ Make_header(Len(heap[v[2]].f), 0) >= Pow(ByteSize, 4)
       \/ v[1] = "ptr" /\ heap[v[2]].tag = Custom_tag /\ heap[v[2]].ops = "nativeint" /\ TooWide(heap[v[2]].n)

\* extern_rec, extern_value, extern_replay_trail, caml_output_val: each thread's channel holds
\* one whole message, of the length its header announces, within the buffer when the user gave
\* one; writing fails only for a value that has no external form, or for lack of memory or of
\* room. Whether it succeeds or fails half way, and whatever another thread writes meanwhile,
\* the value is left as it was; and no output block stays allocated, unless an exception is raised
\* while the finished message is copied: the channel then holds the beginning of the message, and
\* exactly the blocks that were not copied are lost.
MessageWhole ==
  job.part = "marshal" =>
    \A t \in Threads(job) :
      LET j == JobOf(job, t)
          h == MarshalHeaps[j.heap]
          vs == Reachable(h.heap, {Shown(h.heap, h.root)}) IN
      /\ Thread(t).pc # "start" => Thread(t).w.heap = h.heap
      /\ Thread(t).pc \in {"failed", "written", "read"} => Thread(t).live = 0
      /\ Thread(t).pc \in {"written", "read"} =>
           /\ ~Unwritable(h.heap, vs, j.flags)
           /\ Len(Thread(t).got) = 20 + caml_marshal_data_size(Thread(t).got)
           /\ j.sink = "buffer" => Len(Thread(t).got) <= j.room
           /\ Thread(t).got = SX!FlattenSeq(Thread(t).w.out)
      /\ Thread(t).pc = "broken" =>
           /\ SX!IsPrefix(Thread(t).got, SX!FlattenSeq(Thread(t).w.out))
           /\ Thread(t).live = Len(Thread(t).blk)
      /\ Thread(t).pc = "failed" => \/ Unwritable(h.heap, vs, j.flags)
                                    \/ j.mallocs # Unbounded
                                    \/ j.writer.word = 8 /\ h.large

\* extern_rec and intern_rec: what is read back on a machine of any word size and byte order
\* is the value that was written (but for pointers inside closures between word sizes, see
\* SameValue), with its sharing unless it was to be ignored, in exactly the memory that the
\* header announced and with exactly the number of objects it announced; reading fails only where the value does not exist on that machine or in that program.
ReadsBack ==
  job.part = "marshal" /\ Thread(1).pc = "read" =>
    LET h == MarshalHeaps[job.heap]
        r == Thread(1).r
        root == Shown(h.heap, h.root)
        pairs == Correspondence(h.heap, r.mem, {<<root, r.val>>}) IN
    /\ r.malloced => r.freed
    /\ Failed(r) <=> Unreadable(h.heap, Reachable(h.heap, {root}), r.arch, r.program)
    /\ ~Failed(r) =>
         /\ \A p \in pairs : SameValue(h.heap, r.mem, p, job.writer, r.arch)
         /\ "NO_SHARING" \notin job.flags => SameSharing(h.heap, pairs)
         /\ Tiles(r)
         /\ r.pos = Len(r.src)
         /\ Len(r.tbl) = r.num_objects
=============================================================================
