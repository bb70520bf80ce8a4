------------------------------- MODULE Regexp -------------------------------
(***************************************************************************)
(* The matcher of regular expressions (otherlibs/str/strstubs.c), on the   *)
(* programs that the compiler of otherlibs/str/str.ml makes.               *)
(*                                                                         *)
(* A regular expression is a tree of nodes [op, c, set, n, subs].          *)
(* Positions in a text count from 0; Null is the null pointer.             *)
(***************************************************************************)
EXTENDS Integers, Sequences, FiniteSets, TLC, Jobs

CONSTANTS
  Chars,                        \* characters are strings of one letter
  Regexps,                      \* name -> regular expression
  Texts,                        \* the texts to match
  Replacements,                 \* the replacement templates
  BACKTRACK_STACK_BLOCK_SIZE    \* points in a block of the backtracking stack: 500

ASSUME RegexpAssumption ==
  BACKTRACK_STACK_BLOCK_SIZE \in Nat \ {0} /\ Texts \subseteq Seq(Chars)

LOCAL SR == INSTANCE SequencesExt

NoPos == -1
NodeOf(op, c, set, n, subs) == [op |-> op, c |-> c, set |-> set, n |-> n, subs |-> subs]
Char(c) == NodeOf("Char", <<c>>, {}, 0, <<>>)
String(s) == NodeOf("String", s, {}, 0, <<>>)
\* n = 1: complemented.
CharClass(set) == NodeOf("CharClass", <<>>, set, 0, <<>>)
NotCharClass(set) == NodeOf("CharClass", <<>>, set, 1, <<>>)
Complement(r, set) == IF r.op = "CharClass" /\ r.n = 1 THEN Chars \ set ELSE set
SeqOf(rl) == NodeOf("Seq", <<>>, {}, 0, rl)
Alt(r1, r2) == NodeOf("Alt", <<>>, {}, 0, <<r1, r2>>)
Star(r) == NodeOf("Star", <<>>, {}, 0, <<r>>)
Plus(r) == NodeOf("Plus", <<>>, {}, 0, <<r>>)
Option(r) == NodeOf("Option", <<>>, {}, 0, <<r>>)
Group(n, r) == NodeOf("Group", <<>>, {}, n, <<r>>)
Refgroup(n) == NodeOf("Refgroup", <<>>, {}, n, <<>>)
Bol == NodeOf("Bol", <<>>, {}, 0, <<>>)
Eol == NodeOf("Eol", <<>>, {}, 0, <<>>)
Wordboundary == NodeOf("Wordboundary", <<>>, {}, 0, <<>>)

lowercase(c) == IF c = "A" THEN "a" ELSE c
Is_word_letter(c) == c \in {"a", "b", "A"}
fold_case_set(set) == set \cup {c \in Chars : \E d \in set : lowercase(c) = lowercase(d)}

(***************************************************************************)
(* The compiler.                                                           *)
(***************************************************************************)
RECURSIVE is_nullable(_)
is_nullable(r) ==
  CASE r.op \in {"Char", "CharClass"} -> FALSE
    [] r.op = "String" -> r.c = <<>>
    [] r.op \in {"Seq", "Plus", "Group"} -> \A i \in DOMAIN r.subs : is_nullable(r.subs[i])
    [] r.op = "Alt" -> \E i \in DOMAIN r.subs : is_nullable(r.subs[i])
    [] OTHER -> TRUE

\* Characters that a match may begin with; all of them if r is nullable.
RECURSIVE first(_)
RECURSIVE first_seq(_)
first(r) ==
  CASE r.op = "Char" -> {r.c[1]}
    [] r.op = "String" -> IF r.c = <<>> THEN Chars ELSE {r.c[1]}
    [] r.op = "CharClass" -> Complement(r, r.set)
    [] r.op = "Seq" -> first_seq(r.subs)
    [] r.op = "Alt" -> first(r.subs[1]) \cup first(r.subs[2])
    [] r.op \in {"Plus", "Group"} -> first(r.subs[1])
    [] OTHER -> Chars
first_seq(rl) ==
  IF rl = <<>> THEN Chars
  ELSE CASE Head(rl).op \in {"Bol", "Eol", "Wordboundary"} -> first_seq(Tail(rl))
         [] Head(rl).op \in {"Star", "Option"} -> first(Head(rl).subs[1]) \cup first_seq(Tail(rl))
         [] OTHER -> first(Head(rl))
disjoint_modulo_case(fold, c1, c2) ==
  IF fold THEN fold_case_set(c1) \cap fold_case_set(c2) = {} ELSE c1 \cap c2 = {}

I(op, n) == [op |-> op, n |-> n, s |-> <<>>, set |-> {}]
Fold(fold, set) == IF fold THEN fold_case_set(set) ELSE set
\* The case is folded before the class is complemented.
charclass_of_regexp(fold, r) == Complement(r, Fold(fold, IF r.op = "Char" THEN {r.c[1]} ELSE r.set))
FoldString(fold, s) == IF fold THEN [i \in DOMAIN s |-> lowercase(s[i])] ELSE s
Norm(fold, op) == IF ~fold THEN op ELSE IF op = "CHAR" THEN "CHARNORM" ELSE "STRINGNORM"

\* The code of r; registers are allocated from reg on.  Jumps are relative to the next instruction.
RECURSIVE emit_code(_, _, _)
RECURSIVE emit_seq_code(_, _, _)
\* inner is the code of the first operand, nullable whether it may match nothing.
EmitAround(fold, r, reg, inner, nullable) ==
  LET body == inner.code
      mark == IF nullable THEN <<I("SETMARK", reg)>> ELSE <<>>
      check == IF nullable THEN <<I("CHECKPROGRESS", reg)>> ELSE <<>>
      done(code) == [code |-> code, reg |-> inner.reg]
      plain(code) == [code |-> code, reg |-> reg] IN
  CASE r.op = "Char" \/ (r.op = "String" /\ Len(r.c) = 1) ->
         plain(<<[I(Norm(fold, "CHAR"), 0) EXCEPT !.s = FoldString(fold, r.c)]>>)
    [] r.op = "String" /\ Len(r.c) # 1 ->
         plain(IF r.c = <<>> THEN <<>> ELSE <<[I(Norm(fold, "STRING"), 0) EXCEPT !.s = FoldString(fold, r.c)]>>)
    [] r.op = "CharClass" -> plain(<<[I("CHARCLASS", 0) EXCEPT !.set = charclass_of_regexp(fold, r)]>>)
    [] r.op = "Seq" -> emit_seq_code(fold, r.subs, reg)
    [] r.op = "Alt" ->
         LET second == emit_code(fold, r.subs[2], inner.reg) IN
         [code |-> <<I("PUSHBACK", Len(body) + 1)>> \o body \o <<I("GOTO", Len(second.code))>> \o second.code,
          reg |-> second.reg]
    [] r.op = "Star" ->
         LET n == Len(mark) + Len(body) + Len(check) IN
         done(<<I("PUSHBACK", n + 1)>> \o mark \o body \o check \o <<I("GOTO", -(n + 2))>>)
    [] r.op = "Plus" ->
         LET n == Len(mark) + Len(body) + Len(check) IN
         done(body \o check \o <<I("PUSHBACK", Len(mark) + 1)>> \o mark \o <<I("GOTO", -(n + 2))>>)
    [] r.op = "Option" -> done(<<I("PUSHBACK", Len(body))>> \o body)
    [] r.op = "Group" -> done(<<I("BEGGROUP", r.n)>> \o body \o <<I("ENDGROUP", r.n)>>)
    [] r.op = "Refgroup" -> plain(<<I("REFGROUP", r.n)>>)
    [] r.op = "Bol" -> plain(<<I("BOL", 0)>>)
    [] r.op = "Eol" -> plain(<<I("EOL", 0)>>)
    [] OTHER -> plain(<<I("WORDBOUNDARY", 0)>>)
emit_code(fold, r, reg) ==
  LET nullable == is_nullable(r.subs[1]) IN
  EmitAround(fold, r, reg, emit_code(fold, r.subs[1], IF r.op \in {"Star", "Plus"} /\ nullable THEN reg + 1 ELSE reg), nullable)
SimpleOp(op) == CASE op = "Star" -> "SIMPLESTAR" [] op = "Plus" -> "SIMPLEPLUS" [] OTHER -> "SIMPLEOPT"
emit_seq_code(fold, rl, reg) ==
  IF rl = <<>> THEN [code |-> <<>>, reg |-> reg]
  ELSE LET r == Head(rl)
           simple == /\ r.op \in {"Star", "Plus", "Option"} /\ r.subs[1].op \in {"Char", "CharClass"}
                     /\ disjoint_modulo_case(fold, first(r.subs[1]), first_seq(Tail(rl)))
           this == IF simple THEN [code |-> <<[I(SimpleOp(r.op), 0) EXCEPT !.set = charclass_of_regexp(fold, r.subs[1])]>>, reg |-> reg]
                   ELSE emit_code(fold, r, reg)
           rest == emit_seq_code(fold, Tail(rl), this.reg)
       IN [code |-> this.code \o rest.code, reg |-> rest.reg]

RECURSIVE Groups(_)
Groups(r) == (IF r.op = "Group" THEN {r.n} ELSE {}) \cup UNION {Groups(r.subs[i]) : i \in DOMAIN r.subs}
compile(fold, r) ==
  LET e == emit_code(fold, r, 0) IN
  [prog |-> Append(e.code, I("ACCEPT", 0)), numgroups |-> 1 + Cardinality(Groups(r)), numregisters |-> e.reg,
   startchars |-> Fold(fold, first(r)), any |-> first(r) = Chars]

(***************************************************************************)
(* The machine: pc counts from 1.  stack is the chain of blocks, the       *)
(* current one last; mallocs counts the blocks that are not yet freed, and *)
(* room those for which there is memory.  out is "" until the match has    *)
(* succeeded, failed or raised.  old: what the static groups that this     *)
(* expression does not have still hold, <<>> if they are NULL, <<text>> if *)
(* an earlier match has left pointers to what is now text.                 *)
(***************************************************************************)
Goto(m, txt) == [m EXCEPT !.txt = txt]
Pos(pc, txt) == [pc |-> pc, txt |-> txt, loc |-> <<"", 0>>]
Undo(loc, val) == [pc |-> 0, txt |-> val, loc |-> loc]

free_backtrack_stack(m) == [m EXCEPT !.mallocs = @ - (Len(m.stack) - 1)]
Accept(m) == [free_backtrack_stack(m) EXCEPT !.group[0].end = m.txt, !.out = "match"]

\* A slip: the point that does not fit in the block is lost.
Push_lost(m, point) ==
  LET top == Len(m.stack)  full == Len(m.stack[top]) = BACKTRACK_STACK_BLOCK_SIZE IN
  IF full /\ m.mallocs = m.room THEN [m EXCEPT !.out = "raise"]
  ELSE IF full THEN [m EXCEPT !.stack = Append(@, <<>>), !.mallocs = @ + 1]
  ELSE [m EXCEPT !.stack[top] = Append(@, point)]

\* A new block when the current one is full; stat_alloc raises if there is no memory for it.
Push(m, point) ==
  LET top == Len(m.stack)  full == Len(m.stack[top]) = BACKTRACK_STACK_BLOCK_SIZE IN
  IF full /\ m.mallocs = m.room THEN [m EXCEPT !.out = "raise"]
  ELSE IF full THEN [m EXCEPT !.stack = Append(@, <<point>>), !.mallocs = @ + 1]
  ELSE [m EXCEPT !.stack[top] = Append(@, point)]

\* Assignments are undone down to the most recent program point: the label backtrack.
Restored(m, point) ==
  CASE point.pc # 0 -> [m EXCEPT !.pc = point.pc, !.txt = point.txt, !.out = ""]
    [] point.pc = 0 /\ point.loc[1] = "start" -> [m EXCEPT !.group[point.loc[2]].start = point.txt]
    [] point.pc = 0 /\ point.loc[1] = "end" -> [m EXCEPT !.group[point.loc[2]].end = point.txt]
    [] OTHER -> [m EXCEPT !.register[point.loc[2]] = point.txt]
\* An emptied block of the stack is given back, except the first.
Pop(m) == IF SR!Last(m.stack) = <<>> THEN [m EXCEPT !.stack = SR!Front(@), !.mallocs = @ - 1] ELSE m
Undone(m) ==
  Restored([m EXCEPT !.stack[Len(m.stack)] = SR!Front(@)], SR!Last(SR!Last(m.stack)))
RECURSIVE Backtrack(_)
Backtrack(m) ==
  CASE m.out # "backtrack" -> m
    [] m.out = "backtrack" /\ m.stack = <<<<>>>> -> [m EXCEPT !.out = "fail"]
    [] OTHER -> Backtrack(Undone(Pop(m)))
Backtracks(m) == [m EXCEPT !.out = "backtrack"]

\* The end of the text was met: a success for a partial match.
PrefixMatch(m) == IF m.partial THEN Accept(m) ELSE Backtracks(m)

\* The characters s against the text, each after the case table for the NORM instructions.
MatchString(m, s, norm) ==
  LET n == Len(s)
      same(i) == s[i] = IF norm THEN lowercase(m.text[m.txt + i]) ELSE m.text[m.txt + i]
      stop == {i \in 1..n : m.txt + i > Len(m.text) \/ ~same(i)}
      i == CHOOSE k \in stop : \A l \in stop : k <= l IN
  IF stop = {} THEN Goto(m, m.txt + n)
  ELSE IF m.txt + i > Len(m.text) THEN PrefixMatch(m) ELSE Backtracks(m)

\* The end of the longest run of characters of set from txt on.
RECURSIVE Span(_, _, _)
Span(text, txt, set) == IF txt < Len(text) /\ text[txt + 1] \in set THEN Span(text, txt + 1, set) ELSE txt

AtBoundary(m) ==
  LET end == Len(m.text) IN
  CASE m.txt = 0 -> Is_word_letter(m.text[1])
    [] m.txt > 0 /\ m.txt = end -> Is_word_letter(m.text[end])
    [] OTHER -> Is_word_letter(m.text[m.txt]) # Is_word_letter(m.text[m.txt + 1])

\* One instruction, m.pc being past it.
Execute(instr, m) ==
  LET end == Len(m.text)
      g == instr.n IN
  CASE instr.op \in {"CHAR", "STRING"} -> MatchString(m, instr.s, FALSE)
    [] instr.op \in {"CHARNORM", "STRINGNORM"} -> MatchString(m, instr.s, TRUE)
    [] instr.op = "CHARCLASS" ->
         IF m.txt = end THEN PrefixMatch(m)
         ELSE IF m.text[m.txt + 1] \notin instr.set THEN Backtracks(m) ELSE Goto(m, m.txt + 1)
    [] instr.op = "BOL" -> IF m.txt > 0 /\ m.text[m.txt] # "\n" THEN Backtracks(m) ELSE m
    [] instr.op = "EOL" -> IF m.txt < end /\ m.text[m.txt + 1] # "\n" THEN Backtracks(m) ELSE m
    [] instr.op = "WORDBOUNDARY" ->
         IF m.txt = 0 /\ end = 0 THEN PrefixMatch(m) ELSE IF AtBoundary(m) THEN m ELSE Backtracks(m)
    [] instr.op = "BEGGROUP" -> Push([m EXCEPT !.group[g].start = m.txt], Undo(<<"start", g>>, m.group[g].start))
    [] instr.op = "ENDGROUP" -> Push([m EXCEPT !.group[g].end = m.txt], Undo(<<"end", g>>, m.group[g].end))
    [] instr.op = "REFGROUP" ->
         IF g \notin DOMAIN m.group THEN IF m.old = <<>> THEN Backtracks(m) ELSE MatchString(m, m.old[1], FALSE)
         ELSE IF m.group[g].start = NoPos \/ m.group[g].end = NoPos THEN Backtracks(m)
         ELSE MatchString(m, SubSeq(m.text, m.group[g].start + 1, m.group[g].end), FALSE)
    [] instr.op = "ACCEPT" -> Accept(m)
    [] instr.op = "SIMPLEOPT" -> IF m.txt < end /\ m.text[m.txt + 1] \in instr.set THEN Goto(m, m.txt + 1) ELSE m
    [] instr.op = "SIMPLESTAR" -> Goto(m, Span(m.text, m.txt, instr.set))
    [] instr.op = "SIMPLEPLUS" ->
         IF m.txt = end THEN PrefixMatch(m)
         ELSE IF m.text[m.txt + 1] \notin instr.set THEN Backtracks(m) ELSE Goto(m, Span(m.text, m.txt + 1, instr.set))
    [] instr.op = "GOTO" -> [m EXCEPT !.pc = @ + instr.n]
    [] instr.op = "PUSHBACK" -> Push(m, Pos(m.pc + instr.n, m.txt))
    [] instr.op = "SETMARK" -> Push([m EXCEPT !.register[instr.n] = m.txt], Undo(<<"register", instr.n>>, m.register[instr.n]))
    [] OTHER -> IF m.register[instr.n] = m.txt THEN Backtracks(m) ELSE m
\* One turn of the loop of re_match.
re_step(re, m) == Backtrack(Execute(re.prog[m.pc], [m EXCEPT !.pc = @ + 1]))

\* At most 2^k turns of the loop, by halves.
RECURSIVE re_run(_, _, _)
re_run(re, m, k) ==
  IF m.out # "" THEN m ELSE IF k = 0 THEN re_step(re, m) ELSE re_run(re, re_run(re, m, k - 1), k - 1)
StepsLog == 11
\* Only the groups of the expression are reset.
re_match(re, text, txt, partial, env) ==
  re_run(re, [pc |-> 1, txt |-> txt, text |-> text, partial |-> partial, out |-> "", stack |-> <<<<>>>>, mallocs |-> 0,
              room |-> env.room, old |-> env.old,
              group |-> [g \in 0..(re.numgroups - 1) |-> [start |-> IF g = 0 THEN txt ELSE NoPos, end |-> NoPos]],
              register |-> [q \in 0..(re.numregisters - 1) |-> NoPos]], StepsLog)

\* The positions of the groups, NoPos for those that were not matched; empty on failure.
re_alloc_groups(m) ==
  IF m.out # "match" THEN <<>>
  ELSE [i \in 1..(2 * Cardinality(DOMAIN m.group)) |->
          LET g == m.group[(i - 1) \div 2] IN
          IF g.start = NoPos \/ g.end = NoPos THEN NoPos ELSE IF i % 2 = 1 THEN g.start ELSE g.end]
Invalid_argument == <<NoPos>>
Outside(text, pos) == pos < 0 \/ pos > Len(text)
re_string_match(re, text, pos, env) ==
  IF Outside(text, pos) THEN Invalid_argument ELSE re_alloc_groups(re_match(re, text, pos, FALSE, env))
re_partial_match(re, text, pos, env) ==
  IF Outside(text, pos) THEN Invalid_argument ELSE re_alloc_groups(re_match(re, text, pos, TRUE, env))

\* Positions whose character cannot begin a match are skipped.
RECURSIVE SearchForward(_, _, _, _)
SearchForward(re, text, txt0, env) ==
  LET txt == IF re.any THEN txt0 ELSE Span(text, txt0, Chars \ re.startchars)
      r == re_string_match(re, text, txt, env) IN
  IF r # <<>> THEN r ELSE IF txt + 1 > Len(text) THEN <<>> ELSE SearchForward(re, text, txt + 1, env)
re_search_forward(re, text, pos, env) == IF Outside(text, pos) THEN Invalid_argument ELSE SearchForward(re, text, pos, env)

\* The byte after the last one of a string is the null character.
SkipsBack(re, text, txt) == txt = Len(text) \/ text[txt + 1] \notin re.startchars
RECURSIVE SpanBack(_, _, _)
SpanBack(re, text, txt) == IF txt > 0 /\ SkipsBack(re, text, txt) THEN SpanBack(re, text, txt - 1) ELSE txt
RECURSIVE SearchBackward(_, _, _, _)
SearchBackward(re, text, txt0, env) ==
  LET txt == IF re.any THEN txt0 ELSE SpanBack(re, text, txt0)
      r == re_string_match(re, text, txt, env) IN
  IF r # <<>> THEN r ELSE IF txt = 0 THEN <<>> ELSE SearchBackward(re, text, txt - 1, env)
re_search_backward(re, text, pos, env) == IF Outside(text, pos) THEN Invalid_argument ELSE SearchBackward(re, text, pos, env)

(***************************************************************************)
(* Replacement: a template is a sequence of characters, "\\" among them.   *)
(***************************************************************************)
Digit10(c) == IF c \in {"0", "1", "2"} THEN CHOOSE n \in 0..2 : <<"0", "1", "2">>[n + 1] = c ELSE NoPos
GroupMissing(groups, n) == n * 2 >= Len(groups) \/ groups[2 * n + 1] = NoPos

\* The first pass: the length of the result, NoPos for a failure.
RECURSIVE ReplacementLength(_, _)
ReplacementLength(repl, groups) ==
  LET n == Digit10(repl[2])
      piece == IF Head(repl) # "\\" THEN 1
               ELSE CASE repl[2] = "\\" -> 1
                      [] n # NoPos -> groups[2 * n + 2] - groups[2 * n + 1]
                      [] OTHER -> 2
      fails == Head(repl) = "\\" /\ (Len(repl) = 1 \/ (n # NoPos /\ GroupMissing(groups, n)))
      rest == ReplacementLength(SubSeq(repl, IF Head(repl) = "\\" THEN 3 ELSE 2, Len(repl)), groups) IN
  IF repl = <<>> THEN 0 ELSE IF fails \/ rest = NoPos THEN NoPos ELSE piece + rest
\* The second pass.
RECURSIVE ReplacementBytes(_, _, _)
ReplacementBytes(repl, groups, orig) ==
  LET n == Digit10(repl[2])
      piece == IF Head(repl) # "\\" THEN <<Head(repl)>>
               ELSE CASE repl[2] = "\\" -> <<"\\">>
                      [] n # NoPos -> SubSeq(orig, groups[2 * n + 1] + 1, groups[2 * n + 2])
                      [] OTHER -> <<"\\", repl[2]>> IN
  IF repl = <<>> THEN <<>>
  ELSE piece \o ReplacementBytes(SubSeq(repl, IF Head(repl) = "\\" THEN 3 ELSE 2, Len(repl)), groups, orig)
re_replacement_text(repl, groups, orig) ==
  LET len == ReplacementLength(repl, groups) IN
  [len |-> len, text |-> IF len = NoPos THEN <<>> ELSE ReplacementBytes(repl, groups, orig)]

(***************************************************************************)
(* Jobs: a regular expression, compiled with or without case, on a text.   *)
(***************************************************************************)
RECURSIVE References(_)
References(r) == (IF r.op = "Refgroup" THEN {r.n} ELSE {}) \cup UNION {References(r.subs[i]) : i \in DOMAIN r.subs}
RegexpInit ==
  /\ job \in [part : {"regexp"}, re : DOMAIN Regexps, fold : BOOLEAN, text : Texts, old : {<<>>, <<<<"b">>>>}]
  /\ job.old # <<>> => ~(References(Regexps[job.re]) \subseteq Groups(Regexps[job.re]))
  /\ res = <<>>
Plenty == 1000
Searches(re, text, P, env) ==
  [match |-> [p \in 0..Len(text) |-> re_match(re, text, p, FALSE, env)],
   short |-> [p \in 0..Len(text) |-> re_match(re, text, p, FALSE, [env EXCEPT !.room = 1])],
   string |-> [p \in P |-> re_string_match(re, text, p, env)],
   partial |-> [p \in P |-> re_partial_match(re, text, p, env)],
   forward |-> [p \in P |-> re_search_forward(re, text, p, env)],
   backward |-> [p \in P |-> re_search_backward(re, text, p, env)]]
Replaced(groups, text) ==
  IF groups = <<>> THEN {} ELSE {re_replacement_text(r, groups, text) @@ [repl |-> r] : r \in Replacements}
RegexpNext ==
  /\ res = <<>> /\ job.part = "regexp"
  /\ \E re \in {compile(job.fold, Regexps[job.re])} : 
     \E found \in {Searches(re, job.text, -1..(Len(job.text) + 1), [room |-> Plenty, old |-> job.old])} :
       res' = found @@ [replaced |-> Replaced(found.forward[0], job.text)]
  /\ UNCHANGED job

(***************************************************************************)
(* What a regular expression means: the ways to match it from a position,  *)
(* in the order of preference, longest repetition first.                   *)
(***************************************************************************)
Reached(txt, group) == [txt |-> txt, group |-> group]
SameChar(c, d) == IF job.fold THEN lowercase(c) = lowercase(d) ELSE c = d
FollowedBy(text, st, s, same(_, _)) ==
  IF st.txt + Len(s) <= Len(text) /\ \A i \in DOMAIN s : same(s[i], text[st.txt + i]) THEN <<[st EXCEPT !.txt = @ + Len(s)]>> ELSE <<>>
KeptIf(b, st) == IF b THEN <<st>> ELSE <<>>
RECURSIVE Ways(_, _, _)
WaysFrom(r, text, sts) == SR!FlattenSeq([i \in DOMAIN sts |-> Ways(r, text, sts[i])])
Ways(r, text, st) ==
  LET end == Len(text)  g == st.group[r.n]
      letter(i) == i \in 1..end /\ Is_word_letter(text[i])
      more(s) == SelectSeq(s, LAMBDA u : u.txt # st.txt) IN
  CASE r.op \in {"Char", "String"} -> FollowedBy(text, st, r.c, SameChar)
    [] r.op = "CharClass" ->
         IF st.txt < end /\ (\E c \in r.set : SameChar(c, text[st.txt + 1])) # (r.n = 1) THEN <<[st EXCEPT !.txt = @ + 1]>> ELSE <<>>
    [] r.op = "Seq" -> SR!FoldLeft(LAMBDA sts, sub : WaysFrom(sub, text, sts), <<st>>, r.subs)
    [] r.op = "Alt" -> Ways(r.subs[1], text, st) \o Ways(r.subs[2], text, st)
    [] r.op = "Star" -> WaysFrom(r, text, more(Ways(r.subs[1], text, st))) \o <<st>>
    [] r.op = "Plus" -> WaysFrom(Star(r.subs[1]), text, Ways(r.subs[1], text, st))
    [] r.op = "Option" -> Ways(r.subs[1], text, st) \o <<st>>
    [] r.op = "Group" ->
         LET sts == Ways(r.subs[1], text, [st EXCEPT !.group[r.n].start = st.txt])
         IN [i \in DOMAIN sts |-> [sts[i] EXCEPT !.group[r.n].end = sts[i].txt]]
    [] r.op = "Refgroup" ->
         IF r.n \notin DOMAIN st.group THEN IF job.old = <<>> THEN <<>> ELSE FollowedBy(text, st, job.old[1], LAMBDA c, d : c = d)
         ELSE IF g.start = NoPos \/ g.end = NoPos THEN <<>>
         ELSE FollowedBy(text, st, SubSeq(text, g.start + 1, g.end), LAMBDA c, d : c = d)
    [] r.op = "Bol" -> KeptIf(st.txt = 0 \/ text[st.txt] = "\n", st)
    [] r.op = "Eol" -> KeptIf(st.txt = end \/ text[st.txt + 1] = "\n", st)
    [] OTHER -> KeptIf(letter(st.txt) # letter(st.txt + 1), st)

RECURSIVE Uses(_, _)
Uses(r, ops) == r.op \in ops \/ \E i \in DOMAIN r.subs : Uses(r.subs[i], ops)
NoGroup == [start |-> NoPos, end |-> NoPos]
Preferred(text, p) ==
  LET r == Regexps[job.re]  none == [g \in {0} \cup Groups(r) |-> NoGroup]
      ways == Ways(r, text, Reached(p, none)) IN
  IF ways = <<>> THEN <<>>
  ELSE LET w == ways[1] IN
       [i \in 1..(2 * Cardinality(DOMAIN none)) |->
          LET g == IF i <= 2 THEN [start |-> p, end |-> w.txt] ELSE w.group[(i - 1) \div 2] IN
          IF g.start = NoPos \/ g.end = NoPos THEN NoPos ELSE IF i % 2 = 1 THEN g.start ELSE g.end]

\* The preferred match at the nearest position of S.
Nearest(want, S, dir) == IF S = {} THEN <<>> ELSE want[CHOOSE p \in S : \A q \in S : dir * p <= dir * q]
\* A partial match at p succeeds exactly when the text can be extended to a match, but for three
\* constructs.  A word boundary at the end of the text is decided by the last letter alone, the end of
\* a line there is taken, and a group referred to there is not compared to its end: with these a
\* partial match may succeed although no text extends to a match; and with a word boundary it may fail
\* although one does (" " before a boundary and "a"), against str.mli.
PartialExact(p) ==
  LET extends == \E n \in 0..3 : \E w \in [1..n -> Chars \ {"A"}] : Preferred(job.text \o w, p) # <<>>
      uses(ops) == Uses(Regexps[job.re], ops) IN
  uses({"Wordboundary"}) \/ IF res.partial[p] = <<>> THEN ~extends ELSE uses({"Eol", "Refgroup"}) \/ extends

\* Without memory for a second block the match raises, and the blocks it has stay allocated.
RaisesExact(p) ==
  IF res.short[p].out = "raise" THEN res.short[p].mallocs = 1
  ELSE res.short[p].out = res.match[p].out /\ res.short[p].mallocs = 0

\* strstubs.c, str.ml: a match is the preferred way to match, groups included, although runs of
\* a character class are taken without a backtrack point, repetitions of what may be empty are cut
\* and assignments of groups are undone from a stack in blocks; a search finds the nearest position
\* although it skips by first characters; a position outside the text is refused; a partial match
\* succeeds when the text can be extended to a match (PartialExact says how far); all blocks but the
\* first are given back, unless memory runs out; a replacement has the computed length.  A reference
\* to a group that the expression does not have stands for what an earlier match left there.
MatchesExact ==
  job.part = "regexp" /\ res # <<>> =>
  /\ \E want \in {[p \in 0..Len(job.text) |-> Preferred(job.text, p)]} : \A p \in DOMAIN want :
       /\ res.string[p] = want[p]
       /\ res.match[p].out \in {"match", "fail"} /\ res.match[p].mallocs = 0
       /\ res.forward[p] = Nearest(want, {q \in p..Len(job.text) : want[q] # <<>>}, 1)
       /\ res.backward[p] = Nearest(want, {q \in 0..p : want[q] # <<>>}, -1)
       /\ PartialExact(p) /\ RaisesExact(p)
  /\ \A p \in {-1, Len(job.text) + 1} :
       {res.string[p], res.partial[p], res.forward[p], res.backward[p]} = {Invalid_argument}
  /\ \A r \in res.replaced : r.len # NoPos => r.len = Len(r.text)
=============================================================================
