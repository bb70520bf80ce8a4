------------------------------ MODULE FreeList ------------------------------
(***************************************************************************)
(* The free list of the major heap (byterun/freelist.c) under allocation,  *)
(* sweeping (major_gc.c), growth and shrinking of the heap (memory.c) and  *)
(* compaction (compact.c).                                                 *)
(*                                                                         *)
(* The heap is a set of chunks of words at fixed addresses.  A block is    *)
(* known by the address of its header; hdr gives its size in words, header *)
(* excluded, and its colour.  H holds the state of freelist.c: each of its *)
(* functions is an operator from H to H.  The linked list of free blocks   *)
(* is the sequence H.list; Fl_head, the sentinel, is 0, below every block. *)
(***************************************************************************)
EXTENDS Integers, FiniteSets, SequencesExt

CONSTANTS
  Chunks,       \* sequence of [start, size]: what malloc can return, by address
  FirstChunks,  \* indices of the chunks the heap may start with
  Max_wosize, FLP_MAX, Page_size,
  Requests,     \* sizes the program asks for
  caml_percent_free

ASSUME HeapSizes ==
  /\ FirstChunks \subseteq DOMAIN Chunks /\ FLP_MAX >= 2
  /\ \A i \in DOMAIN Chunks : i > 1 =>
       Chunks[i].start > Chunks[i - 1].start + Chunks[i - 1].size
  /\ \A i \in DOMAIN Chunks : Chunks[i].size > 4 /\ Chunks[i].size % Page_size = 0
  /\ Page_size > 1 /\ (Max_wosize + 1) % Page_size = 0
  /\ Requests \subseteq 1 .. Max_wosize

VARIABLES
  H,          \* the state of freelist.c and the headers; and as history uncounted,
              \* see caml_fl_add_blocks, and seams, see caml_fl_merge_block
  chunks,     \* indices of the chunks in the heap
  phase,      \* caml_gc_phase; marking is one step; "crashed" when the process has died
  sweep_hp, chunk  \* sweep pointer, chunk it is in

vars == <<H, chunks, phase, sweep_hp, chunk>>

Fl_head == 0
NULL == -1
NoBlock == [wo |-> -1, col |-> "none"]
First(c) == Chunks[c].start
End(c) == Chunks[c].start + Chunks[c].size
Words == UNION {First(c) .. End(c) - 1 : c \in DOMAIN Chunks}

ByAddress(S) == SelectSeq([i \in 1 .. Max(S \cup {0}) |-> i], LAMBDA i : i \in S)

Blocks(h) == {a \in Words : h.hdr[a] # NoBlock}
Wosize(h, a) == h.hdr[a].wo
Whsize(h, a) == h.hdr[a].wo + 1
Header(wo, col) == [wo |-> wo, col |-> col]

Pos(h, b) == IF b = Fl_head THEN 0 ELSE CHOOSE i \in DOMAIN h.list : h.list[i] = b
After(h, b) == SubSeq(h.list, Pos(h, b) + 1, Len(h.list))
Next(h, b) == IF After(h, b) = <<>> THEN NULL ELSE Head(After(h, b))
Unlinked(h, prev) == RemoveAt(h.list, Pos(h, prev) + 1)
Linked(h, prev, bs) == SubSeq(h.list, 1, Pos(h, prev)) \o bs \o After(h, prev)
-----------------------------------------------------------------------------
(* Allocation.                                                              *)

\* The words of cur that the request needs are cut from its end.  flpi is an
\* index of flp counted from 0, as in the code.
allocate_block(h, wh_sz, flpi, prev, cur) ==
  LET wo == Wosize(h, cur)
      n == Len(h.flp)
      whole == wo < wh_sz + 1
      replaced == flpi + 1 < n /\ h.flp[flpi + 2] = cur
      first_fit == h.policy = "first_fit"
      taken ==
        [h EXCEPT
          !.cur_size = @ - (wo + 1),
          !.list = Unlinked(h, prev),
          !.merge = IF @ = cur THEN prev ELSE @,
          !.hdr[cur] = Header(0, "white"),
          !.flp = CASE first_fit /\ replaced -> [@ EXCEPT ![flpi + 2] = prev]
                    [] first_fit /\ ~replaced /\ flpi = n - 1 -> SubSeq(@, 1, n - 1)
                    [] OTHER -> @,
          !.beyond = IF first_fit /\ ~replaced /\ flpi = n - 1
                     THEN IF prev = Fl_head THEN NULL ELSE prev
                     ELSE @]
      split == [h EXCEPT !.cur_size = @ - wh_sz,
                         !.hdr[cur] = Header(wo - wh_sz, "blue")]
      done == IF whole THEN taken ELSE split
  IN [h |-> IF first_fit THEN done ELSE [done EXCEPT !.prev = prev],
      hp |-> cur + wo + 1 - wh_sz]

\* fl_last, the end of the list, is read only by caml_fl_add_blocks right after a
\* failed allocation: it is part of the result.
Failed(h, fl_last) == [h |-> h, hp |-> NULL, fl_last |-> fl_last]

\* The first block of bs that is large enough, with the one before it.
Search(h, wo_sz, prev, bs) ==
  LET I == {i \in DOMAIN bs : Wosize(h, bs[i]) >= wo_sz}
      i == CHOOSE j \in I : \A k \in I : j <= k
  IN IF I = {} THEN <<>>
     ELSE << <<(IF i = 1 THEN prev ELSE bs[i - 1]), bs[i]>> >>

LastOf(prev, bs) == IF bs = <<>> THEN prev ELSE Last(bs)

\* Mutant: the search does not wrap around.
next_fit_no_wrap(h, wo_sz) ==
  LET up == Search(h, wo_sz, h.prev, After(h, h.prev))
  IN IF up # <<>> THEN allocate_block(h, wo_sz + 1, 0, up[1][1], up[1][2])
     ELSE Failed(h, LastOf(h.prev, After(h, h.prev)))

\* From fl_prev to the end of the list, then from its start to fl_prev.
next_fit(h, wo_sz) ==
  LET up == Search(h, wo_sz, h.prev, After(h, h.prev))
      low == Search(h, wo_sz, Fl_head, SubSeq(h.list, 1, Pos(h, h.prev)))
  IN CASE up # <<>> -> allocate_block(h, wo_sz + 1, 0, up[1][1], up[1][2])
       [] up = <<>> /\ low # <<>> -> allocate_block(h, wo_sz + 1, 0, low[1][1], low[1][2])
       [] OTHER -> Failed(h, LastOf(h.prev, After(h, h.prev)))

\* One step of the loop that extends flp: a block larger than all before it is
\* remembered by its predecessor.
Extend(h, wo_sz, acc, cur) ==
  IF acc.found \/ Len(acc.flp) >= FLP_MAX THEN acc
  ELSE LET sz == Wosize(h, cur)
           record == sz > acc.sz
           hit == record /\ sz >= wo_sz
       IN [flp |-> IF record THEN Append(acc.flp, acc.prev) ELSE acc.flp,
           sz |-> IF record /\ ~hit THEN sz ELSE acc.sz,
           prev |-> IF hit THEN acc.prev ELSE cur,
           cur |-> cur,
           found |-> hit]

\* One step of the loop that finds the records between flp[i] and flp[i + 1].
Record(h, oldsz, acc, cur) ==
  IF acc.stop THEN acc
  ELSE LET sz == Wosize(h, cur)
           record == sz > acc.sz
       IN [buf |-> IF record THEN Append(acc.buf, acc.prev) ELSE acc.buf,
           sz |-> IF record THEN sz ELSE acc.sz,
           prev |-> cur,
           stop |-> record /\ sz >= oldsz]

\* The block after flp[i] (counted from 1) had size oldsz and was removed or
\* reduced.
update_flp(h, i, oldsz) ==
  LET n == Len(h.flp)
      prevsz == IF i > 1 THEN Wosize(h, Next(h, h.flp[i - 1])) ELSE 0
      b == Next(h, h.flp[i])
      between == SubSeq(h.list, Pos(h, h.flp[i]) + 1, Pos(h, h.flp[i + 1]))
      buf == FoldLeft(LAMBDA acc, cur : Record(h, oldsz, acc, cur),
                      [buf |-> <<>>, sz |-> prevsz, prev |-> h.flp[i], stop |-> FALSE],
                      between).buf
      new == SubSeq(h.flp, 1, i - 1) \o buf \o SubSeq(h.flp, i + 1, n)
  IN CASE i > n -> h
       [] i = n /\ Wosize(h, b) <= prevsz -> [h EXCEPT !.beyond = b, !.flp = SubSeq(@, 1, n - 1)]
       [] i = n /\ Wosize(h, b) > prevsz -> [h EXCEPT !.beyond = NULL]
       [] i < n /\ Len(new) <= FLP_MAX -> [h EXCEPT !.flp = new]
       [] OTHER -> [h EXCEPT !.flp = SubSeq(new, 1, FLP_MAX - 1),
                             !.beyond = Next(h, new[FLP_MAX])]

\* Allocation through flp, whose entry i (from 1) has a block that fits.
TakeFlp(h, wo_sz, i) ==
  LET cur == Next(h, h.flp[i])
      r == allocate_block(h, wo_sz + 1, i - 1, h.flp[i], cur)
  IN [r EXCEPT !.h = update_flp(r.h, i, Wosize(h, cur))]

\* The table is full: search the blocks behind it.
slow_first_fit(h, wo_sz) ==
  LET prev == IF h.beyond # NULL THEN h.beyond ELSE Last(h.flp)
      prevsz == Wosize(h, Next(h, h.flp[FLP_MAX]))
      bs == After(h, prev)
      hit == Search(h, wo_sz, prev, bs)
      seen == IF hit = <<>> THEN bs ELSE SubSeq(bs, 1, Pos(h, hit[1][2]) - Pos(h, prev) - 1)
      small == SelectSeq(seen, LAMBDA b : Wosize(h, b) < prevsz)
      h1 == [h EXCEPT !.beyond = IF small = <<>> THEN @ ELSE Last(small)]
  IN IF hit = <<>> THEN Failed(h1, LastOf(prev, bs))
     ELSE allocate_block(h1, wo_sz + 1, Len(h.flp), hit[1][1], hit[1][2])

first_fit(h, wo_sz) ==
  LET n == Len(h.flp)
      fits == {i \in 1 .. n : Wosize(h, Next(h, h.flp[i])) >= wo_sz}
      top == IF n = 0 THEN Fl_head ELSE Next(h, h.flp[n])
      start == IF n > 0 /\ h.beyond # NULL THEN h.beyond ELSE top
      ext == FoldLeft(LAMBDA acc, cur : Extend(h, wo_sz, acc, cur),
                      [flp |-> h.flp, sz |-> IF n = 0 THEN 0 ELSE Wosize(h, top),
                       prev |-> start, cur |-> NULL, found |-> FALSE],
                      After(h, start))
      h1 == [h EXCEPT !.flp = ext.flp]
  IN CASE fits # {} -> TakeFlp(h, wo_sz, CHOOSE i \in fits : \A j \in fits : i <= j)
       [] fits = {} /\ ext.found -> TakeFlp([h1 EXCEPT !.beyond = ext.cur], wo_sz, Len(ext.flp))
       [] fits = {} /\ ~ext.found /\ Len(ext.flp) < FLP_MAX ->
            Failed([h1 EXCEPT !.beyond = IF ext.prev = Fl_head THEN NULL ELSE ext.prev], ext.prev)
       [] OTHER -> slow_first_fit([h1 EXCEPT !.beyond = ext.cur], wo_sz)

caml_fl_allocate(h, wo_sz) ==
  IF h.policy = "next_fit" THEN next_fit(h, wo_sz) ELSE first_fit(h, wo_sz)
-----------------------------------------------------------------------------
(* Returning blocks: sweeping, heap extension, change of policy.            *)

caml_fl_init_merge(h) == [h EXCEPT !.frag = NULL, !.merge = Fl_head]

truncate_flp(h, changed) ==
  IF changed = Fl_head THEN [h EXCEPT !.flp = <<>>, !.beyond = NULL]
  ELSE [h EXCEPT !.flp = SelectSeq(@, LAMBDA p : Next(h, p) < changed),
                 !.beyond = IF @ >= changed THEN NULL ELSE @]

caml_fl_reset(h) ==
  LET e == [h EXCEPT !.list = <<>>, !.cur_size = 0, !.uncounted = 0, !.seams = {}]
  IN caml_fl_init_merge(IF h.policy = "next_fit" THEN [e EXCEPT !.prev = Fl_head]
                                                 ELSE truncate_flp(e, Fl_head))

\* Mutant: a fragment is not joined with the block above it.
JoinsFragment_never(h, bp) == FALSE

\* bp lies just above the last fragment the sweep has met.
JoinsFragment(h, bp) == h.frag # NULL /\ h.frag + 1 = bp /\ Whsize(h, bp) <= Max_wosize

\* bp0 becomes free: joined with the fragment below it, with the free block
\* above it and with the free block below it, each unless the result would be
\* too large.  adj is the address behind the block.  seams are the free blocks left
\* apart from the one below because together they were too large.
caml_fl_merge_block(h, bp0) ==
  LET prev == h.merge
      h0 == [h EXCEPT !.cur_size = @ + Whsize(h, bp0)]
      h1 == IF h.policy = "first_fit" THEN truncate_flp(h0, prev) ELSE h0
      low == JoinsFragment(h, bp0)
      bp == IF low THEN h.frag ELSE bp0
      h2 == IF low THEN [h1 EXCEPT !.hdr[bp0] = NoBlock,
                                   !.hdr[bp] = Header(Whsize(h, bp0), "white"),
                                   !.cur_size = @ + 1]
            ELSE h1
      cur == Next(h2, prev)
      near_up == cur # NULL /\ bp + Whsize(h2, bp) = cur
      up == near_up /\ Wosize(h2, bp) + Whsize(h2, cur) <= Max_wosize
      h3 == IF up THEN [h2 EXCEPT !.list = Unlinked(h2, prev),
                                  !.prev = IF @ = cur /\ h.policy = "next_fit" THEN prev ELSE @,
                                  !.hdr[bp] = Header(Wosize(h2, bp) + Whsize(h2, cur), "blue"),
                                  !.hdr[cur] = NoBlock]
            ELSE h2
      near_down == prev # Fl_head /\ prev + Whsize(h3, prev) = bp
      down == near_down /\ Wosize(h3, prev) + Whsize(h3, bp) < Max_wosize
      h4 == CASE down -> [h3 EXCEPT !.hdr[prev].wo = @ + Whsize(h3, bp), !.hdr[bp] = NoBlock]
              [] ~down /\ Wosize(h3, bp) # 0 ->
                   [h3 EXCEPT !.hdr[bp].col = "blue", !.list = Linked(h3, prev, <<bp>>),
                              !.merge = bp]
              [] OTHER -> [h3 EXCEPT !.frag = bp, !.cur_size = @ - 1]
      apart == {x \in {cur} : near_up /\ ~up} \cup {x \in {bp} : near_down /\ ~down}
                 \cup {x \in {bp0} : Whsize(h, bp0) > Max_wosize /\ h.frag + 1 = bp0}
  IN [h |-> [h4 EXCEPT !.seams = (@ \ {bp0, bp, cur}) \cup apart], adj |-> bp + Whsize(h3, bp)]

\* Mutant: caml_fl_merge stays where it is when a chunk is added below the sweep.
caml_fl_add_blocks_keeps_merge(h, fl_last, bs, hp) ==
  LET below == SelectSeq(h.list, LAMBDA b : b < bs[1])
      prev == LastOf(Fl_head, below)
      words == FoldLeft(LAMBDA n, b : n + Whsize(h, b), 0, bs)
      h1 == [h EXCEPT !.cur_size = @ + Whsize(h, bs[1]), !.uncounted = @ + words - Whsize(h, bs[1]),
                      !.list = Linked(h, prev, bs), !.seams = @ \cup ToSet(Tail(bs))]
  IN IF h.policy = "first_fit" THEN truncate_flp(h1, bs[1]) ELSE h1

\* bs is the chain of the blocks of a new chunk, hp is caml_gc_sweep_hp.  Only the
\* first block is added to caml_fl_cur_size: uncounted, a history variable, is what
\* the others hold.
caml_fl_add_blocks(h, fl_last, bs, hp) ==
  LET behind == bs[1] > fl_last
      prev == IF behind THEN fl_last ELSE LastOf(Fl_head, SelectSeq(h.list, LAMBDA b : b < bs[1]))
      words == FoldLeft(LAMBDA n, b : n + Whsize(h, b), 0, bs)
      h1 == [h EXCEPT !.cur_size = @ + Whsize(h, bs[1]),
                      !.uncounted = @ + words - Whsize(h, bs[1]),
                      !.list = Linked(h, prev, bs), !.seams = @ \cup ToSet(Tail(bs)),
                      !.merge = IF prev = @ /\ bs[1] < hp THEN Last(bs) ELSE @]
  IN CASE h.policy = "next_fit" -> h1
       [] h.policy = "first_fit" /\ ~behind -> truncate_flp(h1, bs[1])
       [] OTHER -> IF Len(h.flp) < FLP_MAX THEN [h1 EXCEPT !.flp = Append(@, prev)] ELSE h1

\* Pieces of at most Max_wosize words: their addresses and sizes.
Pieces(p, size) ==
  LET w == Max_wosize + 1
      n == (size + w - 1) \div w
  IN [i \in 1 .. n |-> [at |-> p + (i - 1) * w,
                        wo |-> (IF i < n THEN w ELSE size - (n - 1) * w) - 1]]

caml_make_free_blocks(h, p, size, do_merge) ==
  FoldLeft(LAMBDA acc, x :
             LET a == [acc EXCEPT !.hdr[x.at] = Header(x.wo, "white")]
             IN IF do_merge THEN caml_fl_merge_block(a, x.at).h ELSE a,
           h, Pieces(p, size))

caml_set_allocation_policy ==
  /\ H' = IF H.policy = "next_fit" THEN [H EXCEPT !.policy = "first_fit", !.flp = <<>>, !.beyond = NULL]
          ELSE [H EXCEPT !.policy = "next_fit", !.prev = Fl_head]
  /\ UNCHANGED <<chunks, phase, sweep_hp, chunk>>
-----------------------------------------------------------------------------
(* The heap: allocation in it, its growth, the sweep.                       *)

caml_heap_start == Min(chunks)
Chunk_next(cs, c) == LET above == {d \in cs : d > c} IN IF above = {} THEN NULL ELSE Min(above)

caml_allocation_color(hp) == IF phase = "sweep" /\ hp >= sweep_hp THEN "black" ELSE "white"

\* The result of caml_fl_allocate gets its header.
Allocated(r, wosize) == [r.h EXCEPT !.hdr[r.hp] = Header(wosize, caml_allocation_color(r.hp))]

\* Chunks that malloc may return for a request of wh words.
Mallocable(wh) == {c \in DOMAIN Chunks \ chunks : Chunks[c].size >= wh}

caml_add_to_heap(c) == chunks \cup {c}

\* The new chunk is one free block, or a chain of them if it is larger than a block
\* may be; they join the free list.  Chunks and the largest blocks are whole pages,
\* so the last block is more than a header.
expand_heap(r, c) ==
  LET bs == Pieces(First(c), Chunks[c].size)
      h == FoldLeft(LAMBDA acc, x : [acc EXCEPT !.hdr[x.at] = Header(x.wo, "blue")], r.h, bs)
  IN caml_fl_add_blocks(h, r.fl_last, [i \in DOMAIN bs |-> bs[i].at], sweep_hp)

caml_alloc_shr(wosize) ==
  /\ UNCHANGED <<phase, sweep_hp, chunk>>
  /\ LET r == caml_fl_allocate(H, wosize)
     IN \/ r.hp # NULL /\ H' = Allocated(r, wosize) /\ UNCHANGED chunks
        \* Out_of_memory
        \/ r.hp = NULL /\ H' = r.h /\ UNCHANGED chunks
        \/ /\ r.hp = NULL
           /\ \E c \in Mallocable(wosize + 1) :
                /\ chunks' = caml_add_to_heap(c)
                /\ H' = Allocated(caml_fl_allocate(expand_heap(r, c), wosize), wosize)

\* Unmarshalling of a large value: its block fills the start of a new chunk, the
\* rest of the chunk is an unreferenced white block.
intern_add_to_heap(wosize) ==
  \E c \in Mallocable(wosize + 1) :
    /\ chunks' = caml_add_to_heap(c)
    /\ H' = caml_make_free_blocks(
              [H EXCEPT !.hdr[First(c)] = Header(wosize, caml_allocation_color(First(c)))],
              First(c) + wosize + 1, Chunks[c].size - wosize - 1, FALSE)
    /\ UNCHANGED <<phase, sweep_hp, chunk>>

\* Blocks the program may still hold; fragments and free blocks are not.
Used == {a \in Blocks(H) : H.hdr[a].col # "blue" /\ H.hdr[a].wo > 0}

\* Marking, in one step: live are the blocks it turned black.
init_sweep(live) ==
  /\ phase = "idle" /\ phase' = "sweep"
  /\ H' = caml_fl_init_merge([H EXCEPT !.hdr = [a \in Words |->
                                IF a \in live THEN [@[a] EXCEPT !.col = "black"] ELSE @[a]]])
  /\ chunk' = caml_heap_start
  /\ sweep_hp' = First(caml_heap_start)
  /\ UNCHANGED chunks

\* One turn of the loop of sweep_slice.
sweep_slice ==
  /\ phase = "sweep" /\ UNCHANGED chunks
  /\ LET hp == sweep_hp
         next == hp + Whsize(H, hp)
         merged == caml_fl_merge_block(H, hp)
         more == Chunk_next(chunks, chunk)
     IN \/ /\ hp < End(chunk) /\ UNCHANGED <<phase, chunk>>
           /\ \/ H.hdr[hp].col = "white" /\ H' = merged.h /\ sweep_hp' = merged.adj
              \/ H.hdr[hp].col = "blue" /\ H' = [H EXCEPT !.merge = hp] /\ sweep_hp' = next
              \/ H.hdr[hp].col = "black" /\ H' = [H EXCEPT !.hdr[hp].col = "white"] /\ sweep_hp' = next
        \/ /\ hp >= End(chunk) /\ more # NULL
           /\ chunk' = more /\ sweep_hp' = First(more) /\ UNCHANGED <<H, phase>>
        \/ /\ hp >= End(chunk) /\ more = NULL
           /\ phase' = "idle" /\ UNCHANGED <<H, sweep_hp, chunk>>
-----------------------------------------------------------------------------
(* Compaction (compact.c).                                                  *)

\* Words the third and the fourth pass have given out in each chunk, and the
\* chunk the search starts from; off when the search has left the chain.
init_compact_allocate == [alloc |-> [c \in chunks |-> 0], fl |-> caml_heap_start,
                          off |-> FALSE, new |-> <<>>]

Room(st, c) == Chunks[c].size - st.alloc[c]

\* size words for the block at p.  The chain ends with NULL, and the loop reads the
\* room of the next chunk when this one has 4 words or less: in the last chunk it
\* dereferences NULL.
compact_allocate(st, p, size) ==
  LET after(c) == Chunk_next(chunks, c)
      stays(c) == Room(st, c) > 4 \/ (after(c) # NULL /\ Room(st, after(c)) > 4)
      starts == {c \in chunks : c >= st.fl /\ stays(c)}
      to == Min({c \in chunks : c >= Min(starts) /\ Room(st, c) >= size})
  IN IF st.off \/ starts = {} THEN [st EXCEPT !.off = TRUE]
     ELSE [st EXCEPT !.fl = Min(starts), !.alloc[to] = @ + size,
                     !.new = Append(@, [from |-> p, to |-> First(to) + st.alloc[to], size |-> size])]

\* The new places of the live blocks: both passes visit them by address.
Relocate(live) ==
  FoldLeft(LAMBDA st, p : compact_allocate(st, p, Whsize(H, p)),
           init_compact_allocate, ByAddress(live))

\* The first chunk is never freed.
caml_shrink_heap(freed) == chunks \ (freed \ {caml_heap_start})

\* The chunks that are in use, and enough empty ones for caml_percent_free.
Kept(alloc) ==
  LET used == {c \in chunks : alloc[c] # 0}
      live == FoldSet(LAMBDA c, n : n + alloc[c], 0, used)
      free == FoldSet(LAMBDA c, n : n + Chunks[c].size - alloc[c], 0, used)
      wanted == caml_percent_free * (live \div 100 + 1)
      step(acc, c) == IF acc.free < wanted
                      THEN [free |-> acc.free + Chunks[c].size, kept |-> acc.kept \cup {c}]
                      ELSE acc
  IN FoldLeft(step, [free |-> free, kept |-> used],
              ByAddress(chunks \ used)).kept

\* The heap after the moves, without the free blocks.
Moved(h, new) ==
  [h EXCEPT !.hdr = [a \in Words |->
     IF \E i \in DOMAIN new : new[i].to = a
     THEN Header((CHOOSE m \in ToSet(new) : m.to = a).size - 1, "white") ELSE NoBlock]]

\* live are the blocks with a pointer to them; every other block is free.
caml_compact_heap(live) ==
  LET st == Relocate(live)
      rebuild(h, c) == caml_make_free_blocks(h, First(c) + st.alloc[c], Room(st, c), TRUE)
  IN /\ phase = "idle" /\ UNCHANGED <<sweep_hp, chunk>>
     /\ \/ st.off /\ phase' = "crashed" /\ UNCHANGED <<H, chunks>>
        \/ /\ ~st.off /\ UNCHANGED phase
           /\ chunks' = caml_shrink_heap(chunks \ Kept(st.alloc))
           /\ H' = FoldLeft(rebuild, caml_fl_reset(Moved(H, st.new)), ByAddress(chunks'))
-----------------------------------------------------------------------------
\* caml_init_major_heap
HeapInit ==
  /\ \E c \in FirstChunks : chunks = {c} /\ chunk = c
  /\ phase = "idle" /\ sweep_hp = Fl_head
  /\ \E policy \in {"next_fit", "first_fit"} :
       H = caml_make_free_blocks(
             [hdr |-> [a \in Words |-> NoBlock], list |-> <<>>, prev |-> Fl_head,
              merge |-> Fl_head, frag |-> NULL, cur_size |-> 0, uncounted |-> 0, seams |-> {}, flp |-> <<>>,
              beyond |-> NULL, policy |-> policy],
             First(chunk), Chunks[chunk].size, TRUE)

HeapNext ==
  /\ phase # "crashed"
  /\ \/ \E n \in Requests : caml_alloc_shr(n) \/ intern_add_to_heap(n)
     \/ \E live \in SUBSET Used : init_sweep(live)
     \/ caml_compact_heap(Used)
     \/ sweep_slice
     \/ caml_set_allocation_policy

HeapSpec == HeapInit /\ [][HeapNext]_vars
-----------------------------------------------------------------------------
(* Properties.                                                              *)

Free == {a \in Blocks(H) : H.hdr[a].col = "blue"}
Behind == {a \in Blocks(H) : a < sweep_hp \/ phase = "idle"}

\* The blocks of a chunk follow each other from its first word to its last:
\* every walk by headers (sweep, compaction) meets headers only and ends at the
\* end of the chunk.
HeapTiled ==
  /\ Blocks(H) \subseteq UNION {First(c) .. End(c) - 1 : c \in chunks}
  /\ \A a \in Blocks(H) : Wosize(H, a) <= Max_wosize
  /\ \A c \in chunks :
       LET bs == {a \in Blocks(H) : a \in First(c) .. End(c) - 1}
       IN {First(c)} \cup {a + Whsize(H, a) : a \in bs} = bs \cup {End(c)}
  /\ phase = "sweep" => sweep_hp \in Blocks(H) \cup {End(chunk)}

ListExact ==
  /\ ToSet(H.list) = Free
  /\ \A i \in 1 .. Len(H.list) - 1 : H.list[i] < H.list[i + 1]
  /\ H.cur_size + H.uncounted = FoldSet(LAMBDA a, n : n + Whsize(H, a), 0, Free)
  /\ phase = "sweep" => H.merge \in Free \cup {Fl_head}
  /\ H.policy = "next_fit" => H.prev \in Free \cup {Fl_head}

TableExact ==
  LET records == SelectSeq(H.list, LAMBDA b :
                   \A i \in 1 .. Pos(H, b) - 1 : Wosize(H, H.list[i]) < Wosize(H, b))
      n == Len(H.flp)
  IN H.policy = "first_fit" =>
       /\ n <= Len(records)
       /\ \A i \in 1 .. n : H.flp[i] \in Free \cup {Fl_head} /\ Next(H, H.flp[i]) = records[i]
       /\ H.beyond # NULL =>
            H.beyond \in Free /\ \A i \in n + 1 .. Len(records) : records[i] > H.beyond

\* During a sweep caml_fl_merge is the last free block before the sweep pointer,
\* whatever the program allocates and wherever malloc puts new chunks.
MergePoint == phase = "sweep" => H.merge = Max({Fl_head} \cup {a \in Free : a < sweep_hp})

\* What fl_check asserts (freelist.c), at all times and not only where a debug
\* build calls it.  The list holds the blue blocks by increasing address,
\* caml_fl_cur_size is their size, and fl_prev and caml_fl_merge are never left on
\* a block that is no longer in it.  Under first fit, flp holds the predecessors
\* of the first blocks that are larger than all before them, in order, and every
\* such block that is not in the table lies behind beyond.
fl_check == ListExact /\ TableExact /\ MergePoint

\* An allocation fails only when no free block is large enough, and under first
\* fit it takes the lowest that is: the table loses no block.
AllocationFindsFit ==
  \A n \in Requests :
    LET hp == caml_fl_allocate(H, n).hp
        fits == {a \in Free : Wosize(H, a) >= n}
    IN IF fits = {} THEN hp = NULL
       ELSE \E a \in fits : /\ hp >= a /\ hp + n = a + Wosize(H, a)
                            /\ H.policy = "first_fit" => a = Min(fits)

\* Behind the sweep pointer, and after the sweep, no two of the free blocks and of the
\* one-word fragments, which the list cannot hold, are neighbours, except where they were
\* too large together when one of them was freed or came from malloc (caml_fl_merge_block).
\* That one of two neighbours may have been cut since is why gc_ctrl.c has given up checking
\* them.  In a chunk no larger than the largest block all are joined.
Coalesced ==
  LET unused == {a \in Behind : H.hdr[a].col = "blue" \/ H.hdr[a].wo = 0}
  IN /\ \A a \in unused : a + Whsize(H, a) \in unused => a + Whsize(H, a) \in H.seams
     /\ \A c \in chunks : Chunks[c].size <= Max_wosize => H.seams \cap (First(c) .. End(c) - 1) = {}

\* heap_stats (gc_ctrl.c), in words, and the assertions it makes of the walk: white blocks
\* that the sweep has still to reach count as free.
heap_stats ==
  LET B == Blocks(H)
      words(S) == FoldSet(LAMBDA a, n : n + Whsize(H, a), 0, S)
      fragments == {a \in B : H.hdr[a].col = "white" /\ Wosize(H, a) = 0}
      awaited == {a \in B \ fragments : H.hdr[a].col = "white" /\ phase = "sweep" /\ a >= sweep_hp}
      free == awaited \cup {a \in B : H.hdr[a].col = "blue"}
      live == B \ (fragments \cup free)
  IN [live_words |-> words(live), free_words |-> words(free), fragments |-> Cardinality(fragments),
      heap_chunks |-> Cardinality(chunks),
      asserted |-> \A a \in B \ fragments : Wosize(H, a) > 0,
      after_free |-> {a \in fragments : \E p \in B, c \in chunks :
                        {a, p} \subseteq First(c) .. End(c) - 1 /\ p + Whsize(H, p) = a /\ H.hdr[p].col = "blue"}]

\* Gc.stat accounts for every word of the heap, whenever it is called, and a fragment follows
\* a free block only at the sweep pointer, as its walk asserts, or where two free blocks had
\* been too large to join and the upper one was taken, which it does not foresee.
StatsExact ==
  LET s == heap_stats IN
  /\ s.asserted /\ s.after_free \subseteq {sweep_hp} \cup H.seams
  /\ s.live_words + s.free_words + s.fragments = FoldSet(LAMBDA c, n : n + Chunks[c].size, 0, chunks)

\* Compaction never moves a block up, so no block is overwritten before it has been moved
\* (the assertion newadr <= p of compact.c); and the search for room leaves the chain of
\* chunks only when the last chunk holds live blocks up to its last four words.
CompactionMovesDown ==
  phase = "idle" =>
    LET st == Relocate(Used)
        last == Max(chunks)
        live == {a \in Used : a \in First(last) .. End(last) - 1}
    IN /\ \A m \in ToSet(st.new) : m.to <= m.from
       /\ st.off => FoldSet(LAMBDA a, n : n + Whsize(H, a), 0, live) >= Chunks[last].size - 4

\* The heap between any two operations of freelist.c, memory.c, major_gc.c and compact.c: its
\* blocks tile the chunks, the free list and the first-fit table describe the free ones (also
\* in the middle of a sweep, which allocation, growth and unmarshalling interrupt), the counts
\* of Gc.stat add up, and a compaction would not overwrite a block it has yet to move.
HeapSound == HeapTiled /\ fl_check /\ StatsExact /\ CompactionMovesDown

=============================================================================
