------------------------------- MODULE Compact -------------------------------
(***************************************************************************)
(* How the compactor (byterun/compact.c) finds the pointers to a block: it  *)
(* inverts them, linking all the places that hold a pointer to the block    *)
(* from its header, and a block's infix headers in a list of such lists.    *)
(* FreeList models where blocks go and what becomes of the chunks; here     *)
(* memory is words.                                                        *)
(*                                                                         *)
(* The heap is the addresses 1 .. HeapWords, cut into chunks; the roots are *)
(* the addresses that follow, the last of them caml_weak_list_head.  A      *)
(* pointer to a block is the address of its first field.                    *)
(***************************************************************************)
EXTENDS Integers, Sequences, FiniteSets, Jobs, Blocks

CONSTANTS
  CompactHeaps,    \* the memories to compact: sequences of words
  ChunkStarts      \* the chunks' first addresses, then the address after the last chunk

LOCAL CS == INSTANCE SequencesExt

HeapWords == CS!Last(ChunkStarts) - 1
Chunks == 1 .. Len(ChunkStarts) - 1
ChunkSize(ch) == ChunkStarts[ch + 1] - ChunkStarts[ch]

(***************************************************************************)
(* Words.  The color of a word is in its two low bits.                     *)
(***************************************************************************)
Adr(p) == <<"address", p, 0>>
Adr1(p) == <<"address|1", p, 0>>
Adr2(p) == <<"address|2", p, 0>>
Hd(sz, tag) == <<"white", sz, tag>>
BlueHd(sz, tag) == <<"blue", sz, tag>>
Make_ehd(sz, tag) == <<"encoded", sz, tag>>
InfixHd(ofs) == <<"infix", ofs, Infix_tag>>
NullWord == <<"outside", 0, 0>>

Ecolor(w) ==
  CASE w[1] \in {"address", "outside"} -> 0
    [] w[1] \in {"infix", "address|1"} -> 1
    [] w[1] = "address|2" -> 2
    [] w[1] = "encoded" -> 3
    [] OTHER -> IF w[2] % 2 = 0 THEN 1 ELSE 3
In_heap(w) == w[1] = "address" /\ w[2] <= HeapWords

\* The end of the list of addresses that starts at hp: the place of a header.
RECURSIVE EndOfList(_, _)
EndOfList(mem, hp) == IF Ecolor(mem[hp]) = 0 THEN EndOfList(mem, mem[hp][2]) ELSE hp
\* The header at the end of the lists of an infix header.
RECURSIVE OriginalHd(_, _)
OriginalHd(mem, w) == IF Ecolor(w) = 3 THEN w ELSE OriginalHd(mem, mem[w[2]])

\* The first pointer found to an infix header turns the block's header into the place of its first
\* infix list; the original header is at the end of the last list.
invert_pointer_at(mem, p) ==
  LET q == mem[p]  h == q[2] - 1 IN
  IF Ecolor(q) # 0 \/ ~In_heap(q) THEN mem
  ELSE CASE Ecolor(mem[h]) \in {0, 3} -> [mem EXCEPT ![p] = mem[h], ![h] = Adr(p)]
         [] Ecolor(mem[h]) = 1 ->
              LET val == q[2] - mem[h][2]  hp == EndOfList(mem, val - 1) IN
              [mem EXCEPT ![p] = IF mem[hp][3] = Closure_tag THEN mem[hp] ELSE Adr1(val + mem[hp][2]),
                          ![h] = Adr2(p), ![hp] = Make_ehd(q[2] - val - 1, Infix_tag)]
         [] OTHER -> [mem EXCEPT ![p] = mem[h], ![h] = Adr2(p)]

\* The original header of the block at p, and its list of infix lists (0 if it has none).
HeaderAt(mem, p) ==
  LET w == mem[EndOfList(mem, p)] IN
  IF w[3] = Infix_tag THEN [hd |-> OriginalHd(mem, mem[p + w[2] + 1]), infixes |-> p + w[2] + 1] ELSE [hd |-> w, infixes |-> 0]

(***************************************************************************)
(* The passes.  One step is one block; r.at is its header.                 *)
(***************************************************************************)
\* After the last chunk the next pass begins.
After(r, size, pass) ==
  IF r.at + size <= HeapWords THEN [r EXCEPT !.at = @ + size] ELSE [r EXCEPT !.at = 1, !.pass = pass]

\* compact_allocate: words of the first chunk that has room for the block.  In the last chunk, once
\* it has 4 words or less, the loop dereferences the NULL at the end of the chain.
Left(r, ch) == ChunkSize(ch) - r.alloc[ch]
RECURSIVE Advanced(_)
Advanced(r) ==
  CASE Left(r, r.fl) > 4 -> r
    [] Left(r, r.fl) <= 4 /\ r.fl = Len(ChunkStarts) - 1 -> [r EXCEPT !.pass = "crashed"]
    [] OTHER -> IF Left(r, r.fl + 1) <= 4 THEN Advanced([r EXCEPT !.fl = @ + 1]) ELSE r
compact_allocate(r, size) ==
  LET s == Advanced(r)
      ch == CHOOSE c \in s.fl .. Len(ChunkStarts) - 1 : Left(s, c) >= size /\ \A b \in s.fl .. c - 1 : Left(s, b) < size
  IN IF s.pass = "crashed" THEN s ELSE [s EXCEPT !.adr = ChunkStarts[ch] + s.alloc[ch], !.alloc[ch] = @ + size]
init_compact_allocate(r) == [r EXCEPT !.alloc = [ch \in Chunks |-> 0], !.fl = 1]

Encode(r) ==
  LET hd == r.mem[r.at] IN
  After([r EXCEPT !.mem[r.at] = Make_ehd(hd[2], IF hd[1] = "blue" THEN String_tag ELSE hd[3])], hd[2] + 1, "roots")
InvertRoots(r) ==
  [r EXCEPT !.pass = "invert", !.mem = CS!FoldLeft(invert_pointer_at, @, [i \in 1 .. Len(r.mem) - HeapWords - 1 |-> HeapWords + i])]
InvertBlock(r) ==
  LET hd == HeaderAt(r.mem, r.at).hd IN
  After([r EXCEPT !.mem = IF hd[3] < No_scan_tag THEN CS!FoldLeft(invert_pointer_at, @, [i \in 1 .. hd[2] |-> r.at + i]) ELSE @],
        hd[2] + 1, "weak")
\* The weak arrays, from the place pp that holds the next: their elements, then pp itself.
RECURSIVE InvertWeak(_, _)
InvertWeak(mem, pp) ==
  IF mem[pp] = NullWord THEN mem
  ELSE LET p == mem[pp][2]  sz == mem[EndOfList(mem, p - 1)][2] IN
       InvertWeak(invert_pointer_at(CS!FoldLeft(invert_pointer_at, mem, [i \in 1 .. sz - 1 |-> p + i]), pp), p)

\* Every place of the list that starts with w gets the value v.
RECURSIVE Revert(_, _, _, _)
Revert(mem, w, color, v) == IF Ecolor(w) # color THEN mem ELSE Revert([mem EXCEPT ![w[2]] = v], mem[w[2]], color, v)
RECURSIVE EndOfInfix(_, _)
EndOfInfix(mem, w) == IF Ecolor(w) = 2 THEN EndOfInfix(mem, mem[w[2]]) ELSE w
\* The infix headers of the block at p, which moves to adr, from the one at place infixes on.
RECURSIVE RevertInfixes(_, _, _, _)
RevertInfixes(mem, p, adr, infixes) ==
  LET last == EndOfInfix(mem, mem[infixes])
      m == [Revert(mem, mem[infixes], 2, Adr(adr + (infixes - p) + 1)) EXCEPT ![infixes] = InfixHd(infixes - p)]
  IN IF Ecolor(last) = 3 THEN m ELSE RevertInfixes(m, p, adr, last[2])
\* A slip: the infix lists are looked at only when nothing points to the block itself.
RevertBlock_either(r) ==
  LET w == r.mem[r.at]  h == HeaderAt(r.mem, r.at)  sz == h.hd[2] + 1
      s == compact_allocate(r, sz)
      m == [Revert(r.mem, w, 0, Adr(s.adr + 1)) EXCEPT ![r.at] = Hd(h.hd[2], h.hd[3])] IN
  IF Ecolor(w) # 0 /\ w[3] # Infix_tag THEN After([r EXCEPT !.mem[r.at] = BlueHd(w[2], w[3])], w[2] + 1, "move")
  ELSE IF s.pass = "crashed" THEN s
  ELSE After([s EXCEPT !.mem = IF h.infixes = 0 \/ Ecolor(w) = 0 THEN m ELSE RevertInfixes(m, r.at, s.adr, h.infixes)], sz, "move")

\* A block without pointers to it is free; the others get the address they will move to.
RevertBlock(r) ==
  LET w == r.mem[r.at]  h == HeaderAt(r.mem, r.at)  sz == h.hd[2] + 1
      s == compact_allocate(r, sz)
      m == [Revert(r.mem, w, 0, Adr(s.adr + 1)) EXCEPT ![r.at] = Hd(h.hd[2], h.hd[3])] IN
  IF Ecolor(w) # 0 /\ w[3] # Infix_tag THEN After([r EXCEPT !.mem[r.at] = BlueHd(w[2], w[3])], w[2] + 1, "move")
  ELSE IF s.pass = "crashed" THEN s
  ELSE After([s EXCEPT !.mem = IF h.infixes = 0 THEN m ELSE RevertInfixes(m, r.at, s.adr, h.infixes)], sz, "move")
MoveBlock(r) ==
  LET hd == r.mem[r.at]  sz == hd[2] + 1  s == compact_allocate(r, sz) IN
  IF hd[1] = "blue" THEN After(r, sz, "done")
  ELSE After([s EXCEPT !.mem = [a \in DOMAIN @ |-> IF a \in s.adr .. s.adr + sz - 1 THEN r.mem[r.at + (a - s.adr)] ELSE @[a]]], sz, "done")

CompactInit ==
  /\ job \in [part : {"compact"}, mem : CompactHeaps]
  /\ res = [pass |-> "encode", mem |-> job.mem, at |-> 1, alloc |-> [ch \in Chunks |-> 0], fl |-> 1, adr |-> 0]
CompactNext ==
  /\ job.part = "compact" /\ UNCHANGED job
  /\ \/ res.pass = "encode" /\ res' = Encode(res)
     \/ res.pass = "roots" /\ res' = InvertRoots(res)
     \/ res.pass = "invert" /\ res' = InvertBlock(res)
     \/ res.pass = "weak" /\ res' = [init_compact_allocate(res) EXCEPT !.mem = InvertWeak(@, Len(@)), !.pass = "revert"]
     \/ res.pass = "revert" /\ LET r == RevertBlock(res) IN res' = IF r.pass = "move" THEN init_compact_allocate(r) ELSE r
     \/ res.pass = "move" /\ res' = MoveBlock(res)

(***************************************************************************)
(* Properties.                                                             *)
(***************************************************************************)
\* The block of the pointer q, the block's address and the distance to it.
WordValue(mem, q) == IF mem[q - 1][1] = "infix" THEN q - mem[q - 1][2] ELSE q
\* The places of two memories that hold what has to be the same value: the roots, and the fields of
\* the blocks that such places point to.
RECURSIVE Matching(_, _)
Matching(m, S) ==
  LET more == UNION {LET q == job.mem[s[1]]  t == m[s[2]] IN
                     IF ~In_heap(q) \/ ~In_heap(t) THEN {}
                     ELSE LET b == WordValue(job.mem, q[2])  c == WordValue(m, t[2]) IN
                          {<<b + i, c + i>> : i \in 0 .. job.mem[b - 1][2] - 1} : s \in S} IN
  IF more \subseteq S THEN S ELSE Matching(m, S \cup more)
SameWord(m, s) ==
  LET q == job.mem[s[1]]  t == m[s[2]] IN
  IF ~In_heap(q) THEN t = q
  ELSE /\ In_heap(t) /\ m[t[2] - 1] = job.mem[q[2] - 1]
       /\ t[2] - WordValue(m, t[2]) = q[2] - WordValue(job.mem, q[2])
       /\ m[WordValue(m, t[2]) - 1] = job.mem[WordValue(job.mem, q[2]) - 1]

\* byterun/compact.c: after compaction the roots, the weak arrays and everything reachable from them
\* are what they were: the same headers and contents, the same sharing, and each infix pointer at the
\* same place of the same closure, however many infix headers of a block are pointed to and in
\* whatever order the pointers are found.  A compaction that finds the last chunk full, but for four
\* words, before it has placed every block does not end (compact_allocate).
CompactionKeepsGraph ==
  job.part = "compact" /\ res.pass = "done" =>
    LET S == Matching(res.mem, {<<p, p>> : p \in HeapWords + 1 .. Len(job.mem)}) IN
    /\ \A s \in S : SameWord(res.mem, s)
    /\ \A s, t \in S : s[1] = t[1] <=> s[2] = t[2]
=============================================================================
