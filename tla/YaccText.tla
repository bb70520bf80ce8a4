------------------------------ MODULE YaccText ------------------------------
(***************************************************************************)
(* The character level of ocamlyacc's reader (yacc/reader.c): the blanks,   *)
(* comments and line directives that nextc skips, the OCaml text of headers, *)
(* unions and actions, literals and type tags.  YaccReader takes what is    *)
(* found here as one token each.                                           *)
(*                                                                         *)
(* A character is its code.  A job is the text that follows the characters  *)
(* the reader has recognised, up to the end of the file; res is the         *)
(* reader's state, at its position cptr.  One step is one turn of the      *)
(* loop that reads the text.  An error stops the program and names the      *)
(* line where what is not closed was opened: dup_line keeps that line, of   *)
(* the text (opened) and of the string or comment in it (inner).            *)
(*                                                                         *)
(* The characters matter here: which of them open, close or hide others is  *)
(* what the property is about.  The program text that is wrapped around an   *)
(* action or a union is left out; from is the line that is written above it. *)
(***************************************************************************)
EXTENDS Integers, Sequences, FiniteSets, Jobs

CONSTANTS
  YaccTexts,      \* reading function -> set of texts
  RuleLength,     \* number of symbols on the right-hand side before an action
  Untagged        \* the places among them of tokens without a type

LOCAL YT == INSTANCE SequencesExt

NUL == 0
NL == 10
Blanks == {9, 11, 12, 13, 32}
DQ == 34
SHARP == 35
DOLLAR == 36
PERCENT == 37
SQ == 39
LPAR == 40
RPAR == 41
STAR == 42
MINUS == 45
SLASH == 47
LESS_SIGN == 60
GREATER_SIGN == 62
LBRACKET == 91
BSLASH == 92
RBRACKET == 93
UNDERSCORE == 95
LBRACE == 123
RBRACE == 125
Digits == 48 .. 57
Alphas == 65 .. 90 \cup 97 .. 122
IS_OCTAL(c) == c \in 48 .. 55
Printable == 32 .. 126

(***************************************************************************)
(* Lines.  The line buffer ends with a newline, also at the end of a file   *)
(* without one, and a NUL.                                                 *)
(***************************************************************************)
EndLine(text) == IF text # <<>> /\ YT!Last(text) = NL THEN text ELSE Append(text, NL)
Text == res.text
LineEnd(p) == CHOOSE e \in p .. Len(Text) : Text[e] = NL /\ \A i \in p .. e - 1 : Text[i] # NL
\* cptr[k], for a cptr at position p of its line.
Chr(p, k) == IF p + k <= LineEnd(p) THEN Text[p + k] ELSE NUL

\* The program stops with a message about a line.
Stop(r, why, l) == [r EXCEPT !.pc = "error", !.err = why, !.errline = l]
\* The buffer keeps what a longer line has left behind the NUL.
Buffer(buf, p) ==
  LET l == Append(SubSeq(Text, p, LineEnd(p)), NUL) IN l \o SubSeq(buf, Len(l) + 1, Len(buf))
\* get_line after the line that ends at p; the file may end there.
get_line(r, p, why, l) ==
  IF p = Len(Text) THEN Stop(r, why, l) ELSE [r EXCEPT !.at = p + 1, !.lineno = @ + 1, !.buf = Buffer(@, p + 1)]

\* The next k characters of the line go to the file that is written.
Copy(r, k) == [r EXCEPT !.out = @ \o SubSeq(Text, r.at, r.at + k - 1), !.at = @ + k]

(***************************************************************************)
(* OCaml text.  The loops over strings and comments are the same in         *)
(* copy_text, copy_union and copy_action.                                  *)
(***************************************************************************)
CopyString(r) ==
  LET c == Chr(r.at, 0) IN
  CASE c = r.quote -> [Copy(r, 1) EXCEPT !.pc = "loop", !.need_newline = TRUE]
    [] c = NL -> Stop(r, "unterminated_string", r.inner)
    [] c = BSLASH /\ Chr(r.at, 1) = NL -> get_line(Copy(r, 2), r.at + 1, "unterminated_string", r.inner)
    [] c = BSLASH /\ Chr(r.at, 1) # NL -> Copy(r, 2)
    [] OTHER -> Copy(r, 1)

CopyComment(r) ==
  LET c == Chr(r.at, 0) IN
  CASE c = STAR /\ Chr(r.at, 1) = RPAR -> [Copy(r, 2) EXCEPT !.pc = "loop"]
    [] c = NL -> get_line(Copy(r, 1), r.at, "unterminated_comment", r.inner)
    [] OTHER -> Copy(r, 1)

\* The length of what follows the quote of a character literal that starts at p, 0 if none does.
CharLit(p) ==
  CASE Chr(p, 0) \notin {NUL, BSLASH} /\ Chr(p, 1) = SQ -> 2
    [] Chr(p, 0) = BSLASH /\ (\A k \in 1 .. 3 : Chr(p, k) \in Digits) /\ Chr(p, 4) = SQ -> 5
    [] Chr(p, 0) = BSLASH /\ Chr(p, 2) = SQ -> 3
    [] OTHER -> 0

\* What the three loops do with a quote, a comment and an ordinary character.
Quoted(r) == [Copy(r, 1) EXCEPT !.pc = "string", !.quote = Chr(r.at, 0), !.inner = r.lineno]
Paren(r) == IF Chr(r.at, 1) = STAR THEN [Copy(r, 2) EXCEPT !.pc = "comment", !.inner = r.lineno] ELSE Copy(r, 1)

\* copy_text looks at the line end after %{ first, copy_union at an earlier union.
TextBegins(r) ==
  LET b == IF Chr(r.at, 0) = NL THEN get_line(r, r.at, "unterminated_text", r.opened) ELSE r
  IN IF b.pc = "error" THEN b ELSE [b EXCEPT !.pc = "loop", !.from = b.lineno]
UnionBegins(r) ==
  IF job.unionized THEN Stop(r, "over_unionized", r.lineno) ELSE [r EXCEPT !.pc = "loop", !.from = r.lineno, !.at = @ + 1]
copy_text(r) ==
  LET c == Chr(r.at, 0) IN
  CASE c = NL -> get_line([Copy(r, 1) EXCEPT !.need_newline = FALSE], r.at, "unterminated_text", r.opened)
    [] c = DQ -> Quoted(r)
    [] c = SQ -> Copy(r, 1 + CharLit(r.at + 1))
    [] c = LPAR -> [Paren(r) EXCEPT !.need_newline = TRUE]
    [] c \in {PERCENT, BSLASH} /\ Chr(r.at, 1) = RBRACE ->
         [r EXCEPT !.pc = "done", !.at = @ + 2, !.out = IF r.need_newline THEN Append(@, NL) ELSE @]
    [] OTHER -> [Copy(r, 1) EXCEPT !.need_newline = TRUE]

copy_union(r) ==
  LET c == Chr(r.at, 0) IN
  CASE c = NL -> get_line(Copy(r, 1), r.at, "unterminated_union", r.opened)
    [] c = LBRACE -> [Copy(r, 1) EXCEPT !.depth = @ + 1]
    [] c = RBRACE -> [Copy(r, 1) EXCEPT !.depth = @ - 1, !.pc = IF r.depth = 1 THEN "done" ELSE @]
    [] c \in {SQ, DQ} -> Quoted(r)
    [] c = LPAR -> Paren(r)
    [] OTHER -> Copy(r, 1)

\* get_number: the digits from p on, and how many they are.
NumberLength(p) == CHOOSE n \in 0 .. LineEnd(p) - p : (\A k \in 0 .. n - 1 : Chr(p, k) \in Digits) /\ Chr(p, n) \notin Digits
Number(n0, digits) == YT!FoldLeft(LAMBDA n, c : 10 * n + (c - 48), n0, digits)
get_number(p) == Number(0, SubSeq(Text, p, p + NumberLength(p) - 1))

IdentBody == Alphas \cup Digits \cup {UNDERSCORE, DOLLAR}
IdentLength(p) == CHOOSE n \in 1 .. LineEnd(p) - p : (\A k \in 1 .. n - 1 : Chr(p, k) \in IdentBody) /\ Chr(p, n) \notin IdentBody
\* $i becomes the variable _i.
copy_ref(r) ==
  LET i == get_number(r.at + 1) IN
  CASE i \notin 1 .. RuleLength -> Stop(r, "unknown_rhs", r.lineno)
    [] i \in Untagged -> Stop(r, "illegal_token_ref", r.lineno)
    [] OTHER -> [r EXCEPT !.out = @ \o <<UNDERSCORE, 48 + i>>, !.at = @ + 1 + NumberLength(r.at + 1)]
copy_action(r) ==
  LET c == Chr(r.at, 0) IN
  CASE c = DOLLAR /\ Chr(r.at, 1) \in Digits -> copy_ref(r)
    [] c \in Alphas \cup {UNDERSCORE} \/ (c = DOLLAR /\ Chr(r.at, 1) \notin Digits) -> Copy(r, IdentLength(r.at))
    [] c = RBRACE /\ r.depth = 1 -> [r EXCEPT !.pc = "done", !.at = @ + 1]
    [] c = NL -> get_line(Copy(r, 1), r.at, "unterminated_action", r.opened)
    [] c = LBRACE -> [Copy(r, 1) EXCEPT !.depth = @ + 1]
    [] c = RBRACE /\ r.depth # 1 -> [Copy(r, 1) EXCEPT !.depth = @ - 1]
    [] c = DQ -> Quoted(r)
    [] c = SQ -> Copy(r, 1 + CharLit(r.at + 1))
    [] c = LPAR -> Paren(r)
    [] OTHER -> Copy(r, 1)

(***************************************************************************)
(* Literals: the characters read, then a spelling that all the ways to     *)
(* write the same literal share.                                           *)
(***************************************************************************)
hexval(c) == CASE c \in 48 .. 57 -> c - 48 [] c \in 65 .. 70 -> c - 65 + 10 [] c \in 97 .. 102 -> c - 97 + 10 [] OTHER -> -1
OctalLength(p) == CHOOSE n \in 1 .. 3 : (\A k \in 0 .. n - 1 : IS_OCTAL(Chr(p, k))) /\ (n = 3 \/ ~IS_OCTAL(Chr(p, n)))
HexLength(p) == CHOOSE n \in 0 .. LineEnd(p) - p : (\A k \in 0 .. n - 1 : hexval(Chr(p, k)) >= 0) /\ hexval(Chr(p, n)) < 0
Radix(b, p, n) == YT!FoldLeft(LAMBDA v, c : b * v + hexval(c), 0, SubSeq(Text, p, p + n - 1))
\* \a \b \t \n \v \f \r
EscapeLetters == <<97, 98, 116, 110, 118, 102, 114>>
Escaped(c) == IF \E i \in 1 .. 7 : EscapeLetters[i] = c THEN 6 + CHOOSE i \in 1 .. 7 : EscapeLetters[i] = c ELSE c

Cached(r, c, k) == IF c > 255 THEN Stop(r, "illegal_character", r.lineno) ELSE [r EXCEPT !.cache = Append(@, c), !.at = @ + k]
ReadEscape(r) ==
  LET c == Chr(r.at, 1)  p == r.at + 1 IN
  CASE c = NL -> get_line(r, p, "unterminated_string", r.opened)
    [] IS_OCTAL(c) -> Cached(r, Radix(8, p, OctalLength(p)), 1 + OctalLength(p))
    [] c = 120 /\ HexLength(p + 1) = 0 -> Stop(r, "illegal_character", r.lineno)
    [] c = 120 /\ HexLength(p + 1) # 0 -> Cached(r, Radix(16, p + 1, HexLength(p + 1)), 2 + HexLength(p + 1))
    [] OTHER -> Cached(r, Escaped(c), 2)

Spelled(c, quote) ==
  CASE c \in {BSLASH, quote} -> <<BSLASH, c>>
    [] c \in Printable \ {BSLASH, quote} -> <<c>>
    [] c \in 7 .. 13 -> <<BSLASH, EscapeLetters[c - 6]>>
    [] OTHER -> <<BSLASH, 48 + (c \div 64), 48 + ((c \div 8) % 8), 48 + (c % 8)>>
LiteralName(cs) ==
  LET q == IF Len(cs) = 1 THEN SQ ELSE DQ IN
  <<q>> \o YT!FlattenSeq([i \in DOMAIN cs |-> Spelled(cs[i], q)]) \o <<q>>

get_literal(r) ==
  LET c == Chr(r.at, 0) IN
  CASE c = r.quote -> [r EXCEPT !.pc = "done", !.at = @ + 1, !.out = LiteralName(r.cache)]
    [] c = NL -> Stop(r, "unterminated_string", r.opened)
    [] c = BSLASH -> ReadEscape(r)
    [] OTHER -> Cached(r, c, 1)

(***************************************************************************)
(* Tags: a type between < and >.  is_polymorphic looks for a variable or an *)
(* open variant in one.                                                    *)
(***************************************************************************)
get_tag(r) ==
  LET c == Chr(r.at, 0) IN
  CASE c = NL -> Stop(r, "syntax_error", r.lineno)
    [] c = GREATER_SIGN /\ r.depth = 0 /\ (r.cache = <<>> \/ YT!Last(r.cache) # MINUS) -> [r EXCEPT !.pc = "done", !.at = @ + 1]
    [] OTHER -> [r EXCEPT !.cache = Append(@, c), !.at = @ + 1,
                          !.depth = IF c = LBRACKET THEN @ + 1 ELSE IF c = RBRACKET THEN @ - 1 ELSE @]

caml_ident_start == Alphas \cup {UNDERSCORE} \cup 192 .. 214 \cup 216 .. 246 \cup 248 .. 255
caml_ident_body == caml_ident_start \cup {SQ} \cup Digits
\* s points at position r.at of the tag, which ends with a NUL; out is the answer when there is one.
TagChr(p) == IF p <= Len(job.text) THEN job.text[p] ELSE NUL
Skip(p, S) == CHOOSE e \in p .. Len(job.text) + 1 : (\A i \in p .. e - 1 : TagChr(i) \in S) /\ TagChr(e) \notin S
is_polymorphic(r) ==
  LET c == TagChr(r.at)
      s == IF c = LBRACKET THEN Skip(r.at + 1, {9, 10, 13, 32}) ELSE r.at + 1
      d == IF c = LBRACKET THEN TagChr(s) ELSE c
      answer(b) == [r EXCEPT !.pc = "done", !.out = <<b>>] IN
  CASE c = NUL -> answer(0)
    [] c \in {SQ, SHARP} \/ (c = LBRACKET /\ d \in {LESS_SIGN, GREATER_SIGN}) -> answer(1)
    [] OTHER -> [r EXCEPT !.at = IF d \in caml_ident_start THEN Skip(s, caml_ident_body) ELSE s]

(***************************************************************************)
(* nextc: the next character that counts.                                  *)
(***************************************************************************)
\* parse_line_directive looks at place i of the line that starts at r.at.  When it has read a
\* directive it looks at the line that follows from the place where it stopped, with the number read;
\* behind the end of a shorter line the buffer still holds the end of the directive.
Place(buf, i, S) == CHOOSE e \in i .. Len(buf) : buf[e] \notin S /\ \A k \in i .. e - 1 : buf[k] \in S
parse_line_directive(r, i) ==
  LET digits == Place(r.buf, i + 1, {9, 32})
      past == Place(r.buf, digits, Digits)
      after == Place(r.buf, past, {9, 32})
      number == Number(r.number, SubSeq(r.buf, digits, past - 1))
      name == Place(r.buf, after + 1, 1 .. 255 \ {DQ}) IN
  IF r.buf[i] # SHARP \/ r.buf[digits] \notin Digits THEN [r EXCEPT !.again = 0]
  ELSE get_line([r EXCEPT !.number = number, !.lineno = number - 1, !.misread = @ \/ i > 1,
                          !.named = @ \/ (r.buf[after] = DQ /\ r.buf[name] = DQ),
                          !.again = IF r.buf[after] = DQ THEN after + 1 ELSE after], LineEnd(r.at), "EOF", 0)

skip_comment(r) ==
  LET c == Chr(r.at, 0) IN
  CASE c = STAR /\ Chr(r.at, 1) = SLASH -> [r EXCEPT !.pc = "loop", !.at = @ + 2]
    [] c = NL -> get_line(r, r.at, "unterminated_comment", r.inner)
    [] OTHER -> [r EXCEPT !.at = @ + 1]

\* get_line and parse_line_directive; again is the place the latter is to look at, 0 when it is done.
NextLine(r, p) == get_line([r EXCEPT !.again = 1, !.number = 0], p, "EOF", 0)
nextc(r) ==
  LET c == Chr(r.at, 0) IN
  CASE r.at = 0 -> NextLine(r, 0)
    [] r.at > 0 /\ r.again > 0 -> parse_line_directive(r, r.again)
    [] r.at > 0 /\ r.again = 0 /\ c = NL -> NextLine(r, r.at)
    [] r.at > 0 /\ r.again = 0 /\ c \in Blanks \cup {44, 59} -> [r EXCEPT !.at = @ + 1]
    [] r.at > 0 /\ r.again = 0 /\ c = SLASH /\ Chr(r.at, 1) = STAR -> [r EXCEPT !.pc = "skip", !.at = @ + 2, !.inner = r.lineno]
    [] r.at > 0 /\ r.again = 0 /\ c = SLASH /\ Chr(r.at, 1) = SLASH -> NextLine(r, LineEnd(r.at))
    [] OTHER -> [r EXCEPT !.pc = "done", !.out = IF c = BSLASH THEN <<PERCENT>> ELSE <<c>>]

\* The string after %ident, which nextc has found, is copied up to its quote or to the end of the line.
copy_ident(r) ==
  LET c == Chr(r.at, 0) IN
  CASE r.out = <<>> -> IF c = DQ THEN Copy(r, 1) ELSE Stop(r, "syntax_error", r.lineno)
    [] r.out # <<>> /\ c = NL -> [r EXCEPT !.pc = "done", !.out = @ \o <<DQ, NL>>]
    [] r.out # <<>> /\ c = DQ -> [Copy(r, 1) EXCEPT !.pc = "done", !.out = Append(@, NL)]
    [] OTHER -> Copy(r, 1)

(***************************************************************************)
(* The run.                                                                *)
(***************************************************************************)
\* A file that is read from its start has no line yet; it may be empty.
YaccTextInit ==
  \E op \in DOMAIN YaccTexts : \E text \in YaccTexts[op], unionized \in IF op = "union" THEN BOOLEAN ELSE {FALSE} :
    /\ job = [part |-> "yacctext", op |-> op, text |-> text, unionized |-> unionized]
    /\ res = LET whole == IF op = "nextc" /\ text = <<>> THEN <<>> ELSE EndLine(text)
                 r == [pc |-> "loop", text |-> whole, at |-> 1, lineno |-> 1, out |-> <<>>, err |-> "", errline |-> 0,
                       need_newline |-> FALSE, quote |-> 0, cache |-> <<>>, depth |-> 1, again |-> 0, number |-> 0, named |-> FALSE,
                       misread |-> FALSE, first |-> <<>>, buf |-> <<>>, opened |-> 1, inner |-> 1, from |-> 1] IN
             CASE op \in {"text", "union"} -> [r EXCEPT !.pc = "first"]
               [] op = "action" -> [r EXCEPT !.at = 2]
               [] op = "literal" -> [r EXCEPT !.at = 2, !.quote = Head(text)]
               [] op = "tag" -> [r EXCEPT !.depth = 0]
               [] op = "nextc" -> [r EXCEPT !.at = 0, !.lineno = 0]
               [] OTHER -> r

YaccLoop(r) ==
  CASE job.op = "text" -> copy_text(r)
    [] job.op = "union" -> copy_union(r)
    [] job.op = "action" -> copy_action(r)
    [] job.op = "literal" -> get_literal(r)
    [] job.op = "tag" -> get_tag(r)
    [] job.op = "poly" -> is_polymorphic(r)
    [] job.op = "ident" -> copy_ident(r)
    [] OTHER -> nextc(r)
\* The spelling of a literal is read again.
Reread(r) ==
  [r EXCEPT !.pc = "loop", !.text = EndLine(r.out), !.at = 2, !.quote = Head(r.out), !.cache = <<>>, !.first = r.cache, !.out = <<>>,
            !.again = 1]
YaccTextNext ==
  /\ job.part = "yacctext" /\ UNCHANGED job
  /\ \/ res.pc = "first" /\ res' = IF job.op = "text" THEN TextBegins(res) ELSE UnionBegins(res)
     \/ res.pc = "loop" /\ res' = YaccLoop(res)
     \/ res.pc = "string" /\ res' = CopyString(res)
     \/ res.pc = "comment" /\ res' = CopyComment(res)
     \/ res.pc = "skip" /\ res' = skip_comment(res)
     \/ res.pc = "done" /\ job.op = "literal" /\ res.again = 0 /\ res' = Reread(res)

(***************************************************************************)
(* What is to be found: the text is cut into segments, each a whole string, *)
(* comment, literal, name or reference, or one character.                   *)
(***************************************************************************)
Here(i, w) == i + Len(w) - 1 <= Len(Text) /\ SubSeq(Text, i, i + Len(w) - 1) = w
FirstIn(S) == CHOOSE e \in S : \A f \in S : e <= f
\* The place after the first w at or after i, 0 if there is none.
PastFirst(i, w) == LET S == {e \in i .. Len(Text) : Here(e, w)} IN IF S = {} THEN 0 ELSE FirstIn(S) + Len(w)
\* A quote or a newline counts in a string when an even number of backslashes comes before it.
Bare(i, e) == LET S == {n \in 0 .. e - i - 1 : \A k \in 1 .. n : Text[e - k] = BSLASH}
              IN (CHOOSE n \in S : \A m \in S : m <= n) % 2 = 0
PastString(i) ==
  LET S == {e \in i + 1 .. Len(Text) : Text[e] \in {Text[i], NL} /\ Bare(i, e)} IN
  IF S = {} \/ Text[FirstIn(S)] = NL THEN 0 ELSE FirstIn(S) + 1
IsLit(i, n) ==
  /\ i + n - 1 <= Len(Text) /\ Text[i] = SQ /\ Text[i + n - 1] = SQ
  /\ \/ n = 3 /\ Text[i + 1] \notin {BSLASH, NL}
     \/ n = 4 /\ Text[i + 1] = BSLASH /\ Text[i + 2] # NL
     \/ n = 6 /\ Text[i + 1] = BSLASH /\ {Text[i + 2], Text[i + 3], Text[i + 4]} \subseteq Digits
PastRun(i, S) == FirstIn({e \in i .. Len(Text) : Text[e] \notin S})
IsRef(i) == job.op = "action" /\ Text[i] = DOLLAR /\ Text[i + 1] \in Digits
RefValue(i) == Number(0, SubSeq(Text, i + 1, PastRun(i + 1, Digits) - 1))
IsDirective(i) ==
  /\ i <= Len(Text) /\ Text[i] = SHARP /\ Text[PastRun(i + 1, {9, 32})] \in Digits

\* A directive follows the line end at i, or the start of the file.
DirectiveAt(i) == (i = 0 \/ Text[i] = NL) /\ IsDirective(i + 1)

\* Where the segment that starts at i ends; 0 when the text cannot be read further.
Past(i) ==
  CASE job.op = "nextc" ->
         (CASE DirectiveAt(i) -> PastFirst(i + 1, <<NL>>)
            [] i > 0 /\ Here(i, <<SLASH, STAR>>) -> PastFirst(i + 2, <<STAR, SLASH>>)
            [] i > 0 /\ Here(i, <<SLASH, SLASH>>) -> PastFirst(i, <<NL>>) - 1
            [] OTHER -> i + 1)
    [] job.op # "nextc" /\ Here(i, <<LPAR, STAR>>) -> PastFirst(i + 2, <<STAR, RPAR>>)
    [] (job.op # "nextc" /\ Text[i] = DQ) \/ (job.op = "union" /\ Text[i] = SQ) -> PastString(i)
    [] job.op \in {"text", "action"} /\ \E n \in {3, 4, 6} : IsLit(i, n) -> i + FirstIn({n \in {3, 4, 6} : IsLit(i, n)})
    [] IsRef(i) -> IF RefValue(i) \in (1 .. RuleLength) \ Untagged THEN PastRun(i + 1, Digits) ELSE 0
    [] job.op = "action" /\ ~IsRef(i) /\ Text[i] \in Alphas \cup {UNDERSCORE, DOLLAR} -> PastRun(i, IdentBody)
    [] OTHER -> i + 1
Image(i) == IF IsRef(i) THEN <<UNDERSCORE, 48 + RefValue(i)>> ELSE SubSeq(Text, i, Past(i) - 1)

Newlines(i, j) == Cardinality({k \in i .. j : Text[k] = NL})
\* The segments start at the places of S; the text to be found ends at the first place that closes it.
\* The positions, from begin on, where a token of the text starts.
TokenStarts(begin) ==
  LET start[i \in begin .. Len(Text) + 1] == i = begin \/ \E j \in begin .. i - 1 : start[j] /\ Past(j) = i
  IN {i \in begin .. Len(Text) : start[i]}
\* Those that end what is copied.
EndsAmong(S) ==
  LET Depth(i) == Cardinality({j \in S : j < i /\ Text[j] = LBRACE}) - Cardinality({j \in S : j < i /\ Text[j] = RBRACE}) IN
  {i \in S \ {0} : CASE job.op = "text" -> Text[i] \in {PERCENT, BSLASH} /\ Here(i + 1, <<RBRACE>>)
               [] job.op = "nextc" -> /\ Text[i] \notin Blanks \cup {NL, 44, 59}
                                      /\ ~Here(i, <<SLASH, STAR>>) /\ ~Here(i, <<SLASH, SLASH>>)
               [] OTHER -> Text[i] = RBRACE /\ Depth(i) = 0}
\* The copy of the tokens of S that are before e.
BodyBefore(S, e) ==
  LET before == SelectSeq([i \in 1 .. e - 1 |-> i], LAMBDA i : i \in S)
  IN YT!FlattenSeq([k \in DOMAIN before |-> Image(before[k])])
\* The line at e, given the line directives before it.
LineAt(dirs, e) ==
  IF dirs = {} THEN 1 + Newlines(1, e)
  ELSE LET d == CHOOSE i \in dirs : \A j \in dirs : j <= i
       IN RefValue(PastRun(d + 2, {9, 32}) - 1) + Newlines(Past(d), e)
CopiedTo(e, body) ==
  CASE job.op = "text" -> res.at = e + 2 /\ res.out \in {body, Append(body, NL)} /\ (body = <<>> \/ YT!Last(body) = NL => res.out = body)
    [] job.op = "union" -> res.at = e + 1 /\ res.out = Append(body, RBRACE)
    [] job.op = "action" -> res.at = e + 1 /\ res.out = body
    [] OTHER -> res.at = e /\ res.out = <<IF Text[e] = BSLASH THEN PERCENT ELSE Text[e]>>
\* The line of the place e, given the segments of S that come before it.
LineOf(S, e) == IF job.op = "nextc" THEN LineAt({i \in S : i < e /\ DirectiveAt(i)}, e - 1) ELSE 1 + Newlines(1, e - 1)
\* The line an error is about: where the segment starts that cannot be read, else the first line.
ErrorLine(S) ==
  LET stuck == {i \in S : Past(i) = 0} IN
  IF res.err \in {"EOF", "over_unionized"} THEN res.errline ELSE IF stuck = {} THEN 1 ELSE LineOf(S, FirstIn(stuck))
SegmentsSound(begin) ==
  \E S \in {TokenStarts(begin)} : \E Ends \in {EndsAmong(S)} :
  /\ res.pc = "error" => (Ends = {} \/ job.unionized) /\ res.errline = ErrorLine(S)
  /\ res.pc = "done" =>
       /\ Ends # {} /\ ~ job.unionized
       /\ \E e \in {FirstIn(Ends)} : CopiedTo(e, BodyBefore(S, e)) /\ res.lineno = LineOf(S, e)
       /\ job.op = "text" => res.from = LineOf(S, begin)

\* The string of %ident: up to its quote, which is added when it is missing.
IdentSound ==
  LET closing == {i \in 2 .. Len(Text) : Text[i] \in {DQ, NL}} IN
  IF Text[1] # DQ THEN res.pc = "error"
  ELSE res.pc = "done" /\ res.out = SubSeq(Text, 1, FirstIn(closing) - 1) \o <<DQ, NL>>

TagSound ==
  LET Depth(i) == Cardinality({j \in 1 .. i - 1 : Text[j] = LBRACKET}) - Cardinality({j \in 1 .. i - 1 : Text[j] = RBRACKET})
      Ends == {i \in 1 .. Len(Text) : Text[i] = NL \/ (Text[i] = GREATER_SIGN /\ Depth(i) = 0 /\ (i = 1 \/ Text[i - 1] # MINUS))}
      e == FirstIn(Ends) IN
  /\ (res.pc = "error") <=> Text[e] = NL
  /\ res.pc = "done" => res.at = e + 1 /\ res.cache = SubSeq(Text, 1, e - 1)

PolymorphicSound ==
  res.out = <<1>> <=>
    \E i \in DOMAIN job.text :
      \/ job.text[i] = SHARP
      \/ job.text[i] = SQ /\ \A j \in 1 .. i - 1 : job.text[j] \in caml_ident_start => \E k \in j .. i - 1 : job.text[k] \notin caml_ident_body
      \/ job.text[i] = LBRACKET /\ TagChr(Skip(i + 1, {9, 10, 13, 32})) \in {LESS_SIGN, GREATER_SIGN}

\* yacc/reader.c: the header, union or action that is copied ends at the first bracket that closes it
\* outside strings, comments and character literals, is copied whole with its references replaced,
\* and the line number is right, over line ends, directives and the end of the file (unless the line after
\* a directive holds another one at the very place where that one ended); an error is reported only if
\* there is no end, about the line where what is not closed was opened.  A tag ends at the first > that is not part of it.  The spelling
\* of a literal, read again, gives the same characters and the same spelling.
TextsExact ==
  job.part = "yacctext" =>
    CASE job.op \in {"text", "union", "action", "nextc"} ->
           res.pc \in {"done", "error"} /\ ~ res.misread =>
             SegmentsSound(IF job.op = "nextc" THEN 0 ELSE IF job.op \in {"union", "action"} \/ Text[1] = NL THEN 2 ELSE 1)
      [] job.op = "literal" -> res.again = 1 => res.pc # "error" /\ (res.pc = "done" => res.cache = res.first /\ res.out \o <<NL>> = Text)
           [] job.op = "ident" -> res.pc \in {"done", "error"} => IdentSound
      [] job.op = "tag" -> res.pc \in {"done", "error"} => TagSound
      [] OTHER -> res.pc = "done" => PolymorphicSound
=============================================================================
