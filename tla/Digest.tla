------------------------------- MODULE Digest -------------------------------
(***************************************************************************)
(* Message digests (md5.c): how the bytes of a string or of a channel are   *)
(* cut into blocks, counted and padded.  The compression function is        *)
(* abstract: the digest is the sequence of the blocks it was given, so two  *)
(* digests are equal only if the blocks are.  Bytes of messages are 1, 2,   *)
(* ...; the padding bytes are 0 and PadMark.                                *)
(***************************************************************************)
EXTENDS Integers, Sequences, Jobs

CONSTANTS
  DigestBlock,    \* 64: bytes in a block, a power of two
  DigestTrailer,  \* 8: bytes of the two words that hold the length, 4 each
  CountWord,      \* 2^32: the range of a word, a multiple of 8 * DigestBlock
  DigestBuffer,   \* 4096: bytes of the buffer of caml_md5_chan
  MaxMessage      \* bytes of the longest message

ASSUME DigestAssumption == CountWord % (8 * DigestBlock) = 0 /\ DigestTrailer < DigestBlock

PadMark == 128
Stale == -1         \* what ctx->in holds before anything was copied there
Message(n) == [i \in 1 .. n |-> i]
Bytes(buf, first, n) == SubSeq(buf, first, first + n - 1)
\* memcpy of bytes to the offset at of a buffer.
Memcpy(in, at, bytes) == [i \in DOMAIN in |-> IF i > at /\ i <= at + Len(bytes) THEN bytes[i - at] ELSE in[i]]
Memset(in, at, n) == Memcpy(in, at, [i \in 1 .. n |-> 0])
\* The last word pair of a block: the low and the high word of the bit count.
Trailer(bits) == [i \in 1 .. DigestTrailer |-> <<bits[(IF i <= DigestTrailer \div 2 THEN 1 ELSE 2)], i>>]

caml_MD5Transform(ctx) == [ctx EXCEPT !.blocks = Append(@, ctx.in)]
caml_MD5Init == [blocks |-> <<>>, bits |-> <<0, 0>>, in |-> [i \in 1 .. DigestBlock |-> Stale]]

\* A slip: the carry out of the low word is lost.
UpdateBits_no_carry(bits, len) == <<(bits[1] + 8 * len) % CountWord, (bits[2] + (len \div (CountWord \div 8))) % CountWord>>

\* Two words of a count of bits; len >> 29 and the carry go to the high one.
UpdateBits(bits, len) ==
  LET low == (bits[1] + ((8 * len) % CountWord)) % CountWord
      carry == IF low < bits[1] THEN 1 ELSE 0
  IN <<low, (bits[2] + carry + (len \div (CountWord \div 8))) % CountWord>>

InBuffer(bits) == (bits[1] \div 8) % DigestBlock

\* Whole blocks straight from buf, the rest into ctx.in.
RECURSIVE WholeBlocks(_, _)
WholeBlocks(ctx, buf) ==
  IF Len(buf) >= DigestBlock
  THEN WholeBlocks(caml_MD5Transform([ctx EXCEPT !.in = Bytes(buf, 1, DigestBlock)]), Bytes(buf, DigestBlock + 1, Len(buf) - DigestBlock))
  ELSE [ctx EXCEPT !.in = Memcpy(@, 0, buf)]
caml_MD5Update(ctx, buf) ==
  LET t == InBuffer(ctx.bits)
      room == DigestBlock - t
      c == [ctx EXCEPT !.bits = UpdateBits(@, Len(buf))]
  IN CASE t = 0 -> WholeBlocks(c, buf)
       [] t # 0 /\ Len(buf) < room -> [c EXCEPT !.in = Memcpy(@, t, buf)]
       [] OTHER -> WholeBlocks(caml_MD5Transform([c EXCEPT !.in = Memcpy(@, t, Bytes(buf, 1, room))]), Bytes(buf, room + 1, Len(buf) - room))

\* The mark always fits; the length may need a block of its own.
caml_MD5Final(ctx) ==
  LET used == InBuffer(ctx.bits)
      marked == [ctx EXCEPT !.in = Memcpy(@, used, <<PadMark>>)]
      count == DigestBlock - 1 - used
      padded == IF count < DigestTrailer
                THEN [caml_MD5Transform([marked EXCEPT !.in = Memset(@, used + 1, count)]) EXCEPT !.in = Memset(@, 0, DigestBlock - DigestTrailer)]
                ELSE [marked EXCEPT !.in = Memset(@, used + 1, count - DigestTrailer)]
  IN caml_MD5Transform([padded EXCEPT !.in = Memcpy(@, DigestBlock - DigestTrailer, Trailer(ctx.bits))]).blocks

caml_md5_string(str, ofs, len) == caml_MD5Final(caml_MD5Update(caml_MD5Init, Bytes(str, ofs + 1, len)))

(***************************************************************************)
(* Jobs: a substring, or a channel whose reads are short at will.  toread   *)
(* is negative for the rest of the channel.                                *)
(***************************************************************************)
Lens == 0 .. MaxMessage
DigestInit ==
  \/ \E ofs \in 0 .. 2, len \in Lens :
       /\ job = [part |-> "md5_string", ofs |-> ofs, len |-> len]
       /\ res = [pc |-> "call", digest |-> <<>>]
  \/ \E n \in Lens, toread \in {-1} \cup Lens :
       /\ job = [part |-> "md5_chan", file |-> n, toread |-> toread]
       /\ res = [pc |-> "loop", ctx |-> caml_MD5Init, at |-> 0, toread |-> toread, digest |-> <<>>]
DigestString ==
  /\ job.part = "md5_string" /\ res.pc = "call"
  /\ res' = [pc |-> "done", digest |-> caml_md5_string(Message(MaxMessage + 2), job.ofs, job.len)]

\* caml_getblock of at most want bytes: any positive number the file still has, 0 at its end.
Getblock(want) == IF res.at = job.file THEN {0} ELSE {n \in 1 .. want : n <= job.file - res.at}
FinishDigest == res' = [res EXCEPT !.pc = "done", !.digest = caml_MD5Final(res.ctx)]
Fed(read) == [res EXCEPT !.ctx = caml_MD5Update(@, Bytes(Message(job.file), res.at + 1, read)), !.at = @ + read]
caml_md5_chan ==
  /\ job.part = "md5_chan" /\ res.pc = "loop"
  /\ \/ /\ res.toread < 0
        /\ \E read \in Getblock(DigestBuffer) : IF read = 0 THEN FinishDigest ELSE res' = Fed(read)
     \/ /\ res.toread > 0
        /\ \E read \in Getblock(IF res.toread > DigestBuffer THEN DigestBuffer ELSE res.toread) :
             res' = IF read = 0 THEN [res EXCEPT !.pc = "end_of_file"] ELSE [Fed(read) EXCEPT !.toread = @ - read]
     \/ res.toread = 0 /\ FinishDigest
DigestNext == UNCHANGED job /\ (DigestString \/ caml_md5_chan)

(***************************************************************************)
(* Properties.                                                             *)
(***************************************************************************)
\* The blocks of a message: its bytes, the mark, zeros, and the number of bits, in whole blocks.
PaddedBlocks(message) ==
  LET n == Len(message)
      total == CHOOSE k \in 1 .. n + 2 : k * DigestBlock >= n + 1 + DigestTrailer /\ (k - 1) * DigestBlock < n + 1 + DigestTrailer
      bits == <<(8 * n) % CountWord, (8 * n) \div CountWord>>
      byte(i) == CASE i <= n -> message[i] [] i = n + 1 -> PadMark
                   [] i > total * DigestBlock - DigestTrailer -> Trailer(bits)[i - (total * DigestBlock - DigestTrailer)]
                   [] OTHER -> 0
  IN [b \in 1 .. total |-> [i \in 1 .. DigestBlock |-> byte((b - 1) * DigestBlock + i)]]

\* md5.c: the digest of a substring or of the bytes read from a channel depends on those bytes only:
\* the compression function sees them, padded and followed by their exact length in bits, in whole
\* blocks, whatever the sizes of the reads, wherever they end in a block and however often the low
\* word of the count overflows; nothing stale in the buffer is digested; End_of_file is raised
\* exactly when the channel is shorter than asked.
DigestExact ==
  /\ job.part = "md5_string" /\ res.pc = "done" => res.digest = PaddedBlocks([i \in 1 .. job.len |-> job.ofs + i])
  /\ job.part = "md5_chan" /\ res.pc = "done" =>
       res.digest = PaddedBlocks(Message(IF job.toread < 0 THEN job.file ELSE job.toread))
  /\ job.part = "md5_chan" /\ res.pc = "end_of_file" => job.toread > job.file
=============================================================================
