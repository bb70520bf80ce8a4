------------------------------- MODULE Lexing -------------------------------
(***************************************************************************)
(* The lexing engines (byterun/lexing.c) at work on a buffer that the      *)
(* lexer refills (lex_refill of stdlib/lexing.ml) with what each read      *)
(* happens to return.                                                      *)
(*                                                                         *)
(* A job is a text and an engine; its tokens are read one after the other. *)
(* Positions in the buffer count from 0; text is a sequence of characters  *)
(* 0 .. Eof - 1, Eof being the pseudo-character of the end of file.        *)
(***************************************************************************)
EXTENDS Integers, Sequences, Jobs

CONSTANTS
  Eof,         \* 256
  LexTable,    \* the automaton: a record of tables
  LexTexts,    \* the texts to read
  AuxBuffer,   \* length of the buffer for one read: 512
  LexBuffer    \* initial length of lex_buffer: 1024

ASSUME LexingAssumption ==
  /\ AuxBuffer \in Nat \ {0} /\ LexBuffer \in Nat /\ AuxBuffer <= LexBuffer
  /\ \A t \in LexTexts : \A i \in DOMAIN t : t[i] \in 0..(Eof - 1)

Short(tbl, n) == tbl[n + 1]
CodeEnd == 255

(***************************************************************************)
(* The engines.  A result is [r, lb]: r >= 0 is an action, r < 0 asks for  *)
(* a refill in state -r - 1, LexFailure is the exception.                     *)
(***************************************************************************)
LexFailure == -1000

\* Moves between memory cells, of the position in curr for a source 255.
RECURSIVE run_code(_, _, _, _)
run_code(code, pc, mem, fresh) ==
  LET dst == Short(code, pc)  src == Short(code, pc + 1) IN
  IF dst = CodeEnd THEN mem
  ELSE run_code(code, pc + 2, [mem EXCEPT ![dst] = IF src = CodeEnd THEN fresh ELSE mem[src]], fresh)
run_mem(code, pc, mem, curr_pos) == run_code(code, pc, mem, curr_pos)
run_tag(code, pc, mem) == run_code(code, pc, mem, -1)

\* First entry, or entry after a refill.
Entered(start_state, lb) ==
  IF start_state >= 0 THEN [lb EXCEPT !.last = lb.curr, !.start = lb.curr, !.action = -1] ELSE lb

\* The code offset of a transition.
CodeOffset(tbl, state, c) ==
  LET base_code == Short(tbl.base_code, state) IN
  IF Short(tbl.check_code, base_code + c) = state THEN Short(tbl.trans_code, base_code + c)
  ELSE Short(tbl.default_code, state)

\* The loop, for the engine without memory and for the one with.
RECURSIVE lex_loop(_, _, _, _)
lex_loop(tbl, state, lb, codes) ==
  LET base == Short(tbl.base, state)
      backtrk == Short(tbl.backtrk, state)
      tagged(offsets) == IF codes THEN run_tag(tbl.code, Short(offsets, state), lb.mem) ELSE lb.mem
      marked == IF backtrk >= 0 THEN [lb EXCEPT !.mem = tagged(tbl.backtrk_code), !.last = lb.curr, !.action = backtrk] ELSE lb
      atend == lb.curr >= lb.len
      c == IF atend THEN Eof ELSE lb.buffer[lb.curr + 1]
      read == IF atend THEN marked ELSE [marked EXCEPT !.curr = @ + 1]
      next == IF Short(tbl.check, base + c) = state THEN Short(tbl.trans, base + c) ELSE Short(tbl.default, state)
      offset == CodeOffset(tbl, state, c)
      moved == IF codes /\ offset > 0 THEN [read EXCEPT !.mem = run_mem(tbl.code, offset, @, read.curr)] ELSE read IN
  CASE base < 0 -> [r |-> -base - 1, lb |-> [lb EXCEPT !.mem = tagged(tbl.base_code)]]
    [] base >= 0 /\ atend /\ ~lb.eof -> [r |-> -state - 1, lb |-> marked]
    [] OTHER ->
         IF next < 0 THEN [r |-> IF read.action = -1 THEN LexFailure ELSE read.action, lb |-> [read EXCEPT !.curr = read.last]]
         ELSE lex_loop(tbl, next, IF c = Eof THEN [moved EXCEPT !.eof = FALSE] ELSE moved, codes)

State0(start_state) == IF start_state >= 0 THEN start_state ELSE -start_state - 1
caml_lex_engine(tbl, start_state, lb) == lex_loop(tbl, State0(start_state), Entered(start_state, lb), FALSE)
caml_new_lex_engine(tbl, start_state, lb) == lex_loop(tbl, State0(start_state), Entered(start_state, lb), TRUE)

(***************************************************************************)
(* Refilling with the characters of one read, none at the end of file.     *)
(* The data from start on is moved down, into a larger buffer if needed.   *)
(***************************************************************************)
lex_refill(lb, chars) ==
  LET n == Len(chars)  s == lb.start
      shift == lb.len + n > lb.size
      grow == shift /\ lb.len - s + n > lb.size
      valid == SubSeq(lb.buffer, 1, lb.len)
      t == IF ~shift THEN [lb EXCEPT !.buffer = valid]
           ELSE [lb EXCEPT !.buffer = SubSeq(valid, s + 1, lb.len), !.size = IF grow THEN 2 * @ ELSE @,
                           !.abs = @ + s, !.curr = @ - s, !.start = 0, !.last = @ - s, !.len = @ - s,
                           !.mem = [i \in DOMAIN @ |-> IF @[i] >= 0 THEN @[i] - s ELSE @[i]]]
  IN [t EXCEPT !.buffer = @ \o chars, !.len = @ + n, !.eof = @ \/ n = 0]

(***************************************************************************)
(* A lexer reads tokens until the one of the end of file or a failure.     *)
(***************************************************************************)
NoMem == [i \in {0, 1} |-> -1]
LexingInit ==
  /\ job \in [part : {"lex"}, text : LexTexts, codes : BOOLEAN]
  /\ res = [lb |-> [buffer |-> <<>>, size |-> LexBuffer, len |-> 0, abs |-> 0, start |-> 0, curr |-> 0, last |-> 0,
                    action |-> 0, eof |-> FALSE, mem |-> NoMem],
            read |-> 0, call |-> 0, wants |-> "engine", tokens |-> <<>>]

\* A call of the engine; after an action the next token begins, with a new memory.
EngineCall ==
  /\ res.wants = "engine"
  /\ \E e \in {IF job.codes THEN caml_new_lex_engine(LexTable, res.call, res.lb) ELSE caml_lex_engine(LexTable, res.call, res.lb)} :
     LET token == [action |-> e.r, start |-> e.lb.abs + e.lb.start, end |-> e.lb.abs + e.lb.curr,
                   mem |-> IF e.lb.mem[0] < 0 THEN -1 ELSE e.lb.abs + e.lb.mem[0]] IN
     res' = IF e.r < 0 /\ e.r # LexFailure THEN [res EXCEPT !.lb = e.lb, !.call = e.r, !.wants = "refill"]
            ELSE [res EXCEPT !.lb = [e.lb EXCEPT !.mem = NoMem], !.call = 0, !.tokens = Append(@, token),
                             !.wants = IF e.r = LexFailure \/ e.r = LexTable.eof_action THEN "" ELSE "engine"]
  /\ UNCHANGED job
RefillCall ==
  /\ res.wants = "refill"
  /\ \E n \in 0..AuxBuffer :
       /\ res.read + n <= Len(job.text) /\ (n = 0 => res.read = Len(job.text))
       /\ res' = [res EXCEPT !.lb = lex_refill(res.lb, SubSeq(job.text, res.read + 1, res.read + n)), !.read = @ + n,
                             !.wants = "engine"]
  /\ UNCHANGED job
LexingNext == job.part = "lex" /\ (EngineCall \/ RefillCall)

(***************************************************************************)
(* What the tokens are: the longest match of the automaton at each point.  *)
(***************************************************************************)
Moves(state, c) ==
  LET base == Short(LexTable.base, state) IN
  IF base < 0 THEN -1 ELSE IF Short(LexTable.check, base + c) = state THEN Short(LexTable.trans, base + c) ELSE Short(LexTable.default, state)
ActionOf(state) == IF Short(LexTable.base, state) < 0 THEN -Short(LexTable.base, state) - 1 ELSE Short(LexTable.backtrk, state)

\* The states after each number of characters; the end of file can be read once.
RECURSIVE Path(_, _, _)
Path(text, p, state) ==
  LET c == IF p = Len(text) THEN Eof ELSE text[p + 1]  next == Moves(state, c) IN
  IF p > Len(text) \/ next < 0 THEN <<state>> ELSE <<state>> \o Path(text, p + 1, next)
NoToken == [action |-> LexFailure, start |-> 0, end |-> 0, mem |-> -1]
LastAction(path) ==
  LET A == {i \in DOMAIN path : ActionOf(path[i]) >= 0} IN
  IF A = {} THEN 0 ELSE CHOOSE k \in A : \A l \in A : l <= k
\* i is the place of the last action on the path from position p.
TokenOf(text, p, i, action) ==
  LET end == IF p + i - 1 > Len(text) THEN Len(text) ELSE p + i - 1
      as == {k \in p..end : \A l \in (p + 1)..k : text[l] = 0} IN
  IF i = 0 THEN [NoToken EXCEPT !.start = p, !.end = p]
  ELSE [action |-> action, start |-> p, end |-> end,
        mem |-> IF job.codes /\ action \in LexTable.bound THEN CHOOSE k \in as : \A l \in as : l <= k ELSE -1]
TokenOn(text, p, path) ==
  LET i == LastAction(path) IN TokenOf(text, p, i, IF i = 0 THEN LexFailure ELSE ActionOf(path[i]))
RECURSIVE TokensFrom(_, _)
AndNext(text, t) ==
  IF t.action = LexFailure \/ t.action = LexTable.eof_action THEN <<t>> ELSE <<t>> \o TokensFrom(text, t.end)
TokensFrom(text, p) == AndNext(text, TokenOn(text, p, Path(text, p, 0)))

\* lexing.c, lex_refill: however the reads cut the text up, and across shifts and growths of the
\* buffer, the tokens are the longest matches of the automaton, with the positions that the variable
\* of the rule has seen; the end of file is seen exactly once by each token that reads it.
TokensExact ==
  job.part = "lex" =>
  \A want \in {TokensFrom(job.text, 0)} : LET n == Len(res.tokens) IN
  /\ n <= Len(want) /\ res.tokens = SubSeq(want, 1, n)
  /\ res.wants = "" <=> n = Len(want)
  /\ res.lb.start <= res.lb.curr /\ res.lb.curr <= res.lb.len /\ res.lb.len <= res.lb.size
=============================================================================
