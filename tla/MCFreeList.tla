----------------------------- MODULE MCFreeList -----------------------------
(* Instances of FreeList: chunks of a few words at fixed addresses, the second  *)
(* larger than the largest block.                                              *)
EXTENDS FreeList

MCChunks == <<[start |-> 10, size |-> 6], [start |-> 20, size |-> 10]>>

\* The state without what the code sets before it reads it again: the sweep's
\* variables while idle, the other policy's search state, a seam whose block is in
\* use; cur_size and uncounted count by their sum.
MCView ==
  LET h0 == IF H.policy = "next_fit" THEN [H EXCEPT !.flp = <<>>, !.beyond = NULL]
                                     ELSE [H EXCEPT !.prev = Fl_head]
      h == [h0 EXCEPT !.cur_size = @ + H.uncounted, !.uncounted = 0,
                      !.seams = {a \in @ : H.hdr[a].col = "blue" \/ H.hdr[a].wo = 0}]
  IN IF phase # "sweep" THEN <<[h EXCEPT !.merge = Fl_head, !.frag = NULL], chunks, phase>>
     ELSE <<h, chunks, sweep_hp, chunk>>
=============================================================================
