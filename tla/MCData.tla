------------------------------- MODULE MCData -------------------------------
(***************************************************************************)
(* Inputs for the pure algorithms of the runtime system and its libraries.  *)
(***************************************************************************)
EXTENDS Marshal, Numbers, Values, Bignum, Bigarray, Regexp, Lexing, Select, YaccText, Compact, Tables,
        Digest, WinThreads, Startup, GcCtrl

\* Blocks of the heaps to marshal.
BlockOf(tag, f) == [tag |-> tag, color |-> "white", f |-> f, bytes |-> <<>>, ops |-> "", n |-> 0]
ByteBlock(tag, bytes) == [BlockOf(tag, <<RawWord(1)>>) EXCEPT !.bytes = bytes, !.color = "black"]
Custom(ops, n) == [BlockOf(Custom_tag, <<RawWord(0)>>) EXCEPT !.ops = ops, !.n = n]
Double1 == <<1, 2, 3, 4, 5, 6, 7, 8>>
HeapOf(blocks) == [heap |-> blocks, root |-> Ptr(1), cyclic |-> FALSE, wide |-> FALSE, large |-> FALSE]

MCMarshalHeaps == [
  integer |-> [HeapOf(<<>>) EXCEPT !.root = Long(5)],
  integers |-> HeapOf(<<BlockOf(3, <<Long(0), Long(3), Long(4), Long(-1), Long(7), Long(8), Long(-8), Long(-9)>>),
                      BlockOf(0, <<>>)>>),
  halves |-> HeapOf(<<BlockOf(0, <<Long(127), Long(128), Long(-128), Long(-129), Long(16383), Long(-16384)>>)>>),
  wide |-> [HeapOf(<<BlockOf(0, <<Long(32767), Long(32768), Long(-32768), Long(-32769), Long(1000000), Ptr(2)>>),
                   Custom("nativeint", 50000)>>) EXCEPT !.wide = TRUE],
  cycle |-> [HeapOf(<<BlockOf(1, <<Ptr(2), Ptr(1), Ptr(3)>>), BlockOf(0, <<Ptr(1)>>), BlockOf(20, <<Ptr(2), Ptr(3)>>)>>)
               EXCEPT !.cyclic = TRUE],
  strings |-> HeapOf(<<BlockOf(0, <<Ptr(2), Ptr(3), Ptr(4), Ptr(2), Ptr(5), Ptr(3)>>), ByteBlock(String_tag, <<>>),
                     ByteBlock(String_tag, <<9, 8, 7>>), ByteBlock(String_tag, [i \in 1..8 |-> i]),
                     ByteBlock(String_tag, [i \in 1..17 |-> i % 16])>>),
  doubles |-> HeapOf(<<BlockOf(0, <<Ptr(2), Ptr(3), Ptr(2), Ptr(4)>>), ByteBlock(Double_tag, Double1),
                     ByteBlock(Double_array_tag, Double1 \o [i \in 1..8 |-> 16 - i]),
                     ByteBlock(Double_array_tag, [i \in 1..(16 * 8) |-> (i + i \div 8) % 16])>>),
  customs |-> HeapOf(<<BlockOf(0, <<Ptr(2), Ptr(3), Ptr(4), Ptr(3)>>), Custom("int32", -5),
                     Custom("int64", 70000), Custom("nativeint", -300)>>),
  foreign |-> HeapOf(<<BlockOf(0, <<Ptr(2), Ptr(2)>>), Custom("foreign", 1)>>),
  abstract |-> HeapOf(<<BlockOf(0, <<Ptr(2), Ptr(2), Ptr(3)>>), BlockOf(2, <<Long(1)>>), BlockOf(0, <<Ptr(4)>>),
                      BlockOf(Abstract_tag, <<Long(0)>>)>>),
  finalised |-> HeapOf(<<BlockOf(0, <<Ptr(2)>>), Custom("abstract", 0)>>),
  outside |-> HeapOf(<<BlockOf(0, <<Ptr(2), OutsideAt(0)>>), ByteBlock(String_tag, <<1>>)>>),
  atoms |-> HeapOf(<<BlockOf(0, <<Ptr(2), Ptr(3), Ptr(2)>>), BlockOf(4, <<>>), BlockOf(40, <<>>)>>),
  closures |-> [HeapOf(<<BlockOf(0, <<Ptr(2), InfixPtr(2, 2), InfixPtr(2, 2)>>),
                       BlockOf(247, <<CodePtr(3), InfixHeader(2), CodePtr(9), Ptr(1)>>)>>) EXCEPT !.cyclic = TRUE],
  lazies |-> HeapOf(<<BlockOf(0, <<Ptr(2), Ptr(3), Ptr(5), Ptr(5), Ptr(7)>>), BlockOf(Forward_tag, <<Ptr(4)>>),
                    BlockOf(Forward_tag, <<Long(9)>>), BlockOf(0, <<Long(1)>>), BlockOf(Forward_tag, <<Ptr(2)>>),
                    BlockOf(Lazy_tag, <<Long(0)>>), BlockOf(Forward_tag, <<Ptr(6)>>)>>),
  chain |-> [HeapOf([i \in 1..23 |-> BlockOf(0, <<Ptr(IF i = 23 THEN 2 ELSE i + 1), Long(i)>>)]) EXCEPT !.cyclic = TRUE],
  other |-> HeapOf(<<BlockOf(0, <<Ptr(2), Ptr(2)>>), ByteBlock(String_tag, [i \in 1..14 |-> 15])>>),
  vector |-> [HeapOf(<<BlockOf(0, [i \in 1..64 |-> IF i = 64 THEN Ptr(2) ELSE Long(1)]), BlockOf(0, <<Long(2)>>)>>)
                EXCEPT !.wide = TRUE],
  large |-> [HeapOf(<<BlockOf(0, <<Ptr(2), Ptr(2)>>), ByteBlock(String_tag, [i \in 1..190 |-> i % 16])>>)
               EXCEPT !.wide = TRUE, !.large = TRUE]]

\* A forced lazy float, reached twice, in a pair.
MCForcedHeaps == [
  other |-> MCMarshalHeaps.other,
  forced |-> HeapOf(<<BlockOf(0, <<Ptr(2), Ptr(2)>>), BlockOf(Forward_tag, <<Ptr(3)>>), ByteBlock(Double_tag, Double1)>>)]

Arch(word, fl) == [word |-> word, fl |-> fl]
MCArchs == {Arch(4, "mixed"), Arch(4, "little"), Arch(8, "little"), Arch(8, "big")}
MCWriters == {Arch(4, "mixed"), Arch(8, "little"), Arch(8, "big")}
MCReaders == MCArchs

\* Pairs of words around the limits of a word and of a half word.
MCOperands64 == {h * 64 + l : h \in {0, 1, 21, 31, 32, 63}, l \in {0, 1, 7, 8, 31, 32, 42, 63}}

\* Every string of up to three of these characters, and longer ones around the limits.
MCNumberStrings ==
  UNION {[1..n -> {"-", "0", "1", "5", "6", "f", "x", "_", "z"}] : n \in 0..3}
  \cup {sign \o <<a, "0", b, c>> : sign \in {<<>>, <<"-">>}, a \in {"2", "4"}, b \in {"4", "9"}, c \in {"5", "6", "7", "8", "9"}}
  \cup {sign \o <<a, b>> : sign \in {<<>>, <<"-">>}, a \in {"3", "6"}, b \in {"1", "2", "3", "4"}}
  \cup {<<"0", "b", "1", "1", "1">> \o d : d \in UNION {[1..n -> {"0", "1"}] : n \in 0..4}}
  \cup {<<"0", "b">> \o [i \in 1..9 |-> "1"] \o d : d \in UNION {[1..n -> {"0", "1"}] : n \in 0..4}}
  \cup {sign \o <<"0", "x">> \o d : sign \in {<<>>, <<"-">>}, d \in UNION {[1..n -> {"0", "3", "8", "f", "_"}] : n \in 2..4}}
  \cup {<<"0", "o">> \o d : d \in UNION {[1..n -> {"1", "7", "8"}] : n \in 1..5}}

\* Heaps to compare and hash: every value of each is compared with every other.
VB(tag, f) == [tag |-> tag, f |-> f, d |-> <<>>, bytes |-> <<>>, ops |-> "", n |-> 0]
VDouble(d) == [VB(Double_tag, <<>>) EXCEPT !.d = <<d>>]
VDoubles(d) == [VB(Double_array_tag, <<>>) EXCEPT !.d = d]
VString(s) == [VB(String_tag, <<>>) EXCEPT !.bytes = caml_copy_string(s, 7)]
VCustom(ops, n) == [VB(Custom_tag, <<>>) EXCEPT !.ops = ops, !.n = n]
ValuesIn(h, others) == [heap |-> h, values |-> {Ptr(b) : b \in DOMAIN h} \cup others]

MCCompareHeaps == [
  trees |-> ValuesIn(<<VB(0, <<Long(1), Long(2)>>), VB(0, <<Long(1), Long(2)>>), VB(0, <<Long(1), Ptr(1)>>),
                       VB(0, <<Ptr(1), Ptr(2)>>), VB(0, <<Ptr(2), Ptr(2)>>), VB(1, <<Long(5)>>), VB(0, <<>>),
                       VB(Forward_tag, <<Ptr(2)>>), VB(Forward_tag, <<Long(3)>>), VB(0, <<Ptr(8), Ptr(9)>>),
                       VB(0, <<Ptr(1), Long(3)>>)>>, {Long(3), Long(-1)}),
  deep |-> ValuesIn([i \in 1..7 |-> VB(0, IF i = 1 THEN <<Long(0), Long(1)>> ELSE <<Ptr(i - 1), Long(i)>>)]
                    \o <<VB(0, <<Ptr(9), Long(4)>>), VB(0, <<Ptr(10), Long(3)>>), VB(0, <<Ptr(11), Long(2)>>),
                         VB(0, <<Long(0), Long(1)>>), VB(0, <<Ptr(8), Long(6)>>)>>, {}),
  floats |-> ValuesIn(<<VDouble(0), VDouble(16), VDouble(5), VDouble(13), VDouble(15), VDouble(21),
                        VDoubles(<<5, 13>>), VDoubles(<<5, 5>>), VDoubles(<<13>>), VB(0, <<Ptr(4), Long(1)>>),
                        VB(0, <<Ptr(5), Long(2)>>), VB(0, <<Ptr(3), Long(0)>>), VDoubles(<<5, 5>>)>>, {}),
  strings |-> ValuesIn(<<VString(<<>>), VString(<<1>>), VString(<<1, 0>>), VString(<<1, 0, 2>>), VString(<<2>>),
                         VString(<<1>>), VB(0, <<Ptr(2), Ptr(3)>>), VB(0, <<Ptr(6), Ptr(3)>>)>>, {}),
  customs |-> ValuesIn(<<VCustom("int32", 4), VCustom("int32", -4), VCustom("int32", 4), VB(0, <<Ptr(1), Long(0)>>),
                         VB(0, <<Ptr(3), Long(0)>>)>>, {}),
  arrays |-> ValuesIn(<<VCustom("bigarray", 5), VCustom("bigarray", 13), VCustom("bigarray", 6),
                        VB(0, <<Ptr(2), Long(0)>>), VB(0, <<Ptr(1), Long(0)>>)>>, {}),
  objects |-> ValuesIn(<<VB(Object_tag, <<Long(0), Long(7), Ptr(1)>>), VB(Object_tag, <<Long(0), Long(8), Ptr(2)>>),
                         VB(0, <<Ptr(1), Ptr(2)>>), VB(0, <<Ptr(1), Ptr(1)>>)>>, {}),
  opaque |-> ValuesIn(<<VB(Abstract_tag, <<>>), VB(Closure_tag, <<CodePtr(1), InfixHeader(2), CodePtr(2), Long(0)>>),
                        VCustom("foreign", 1), VB(0, <<Long(1), Ptr(1)>>), VB(0, <<Long(2), Ptr(2)>>),
                        VB(0, <<Ptr(3), Ptr(3)>>)>>, {InfixPtr(2, 2)}),
  outside |-> ValuesIn(<<VB(0, <<OutsideAt(100), Long(1)>>), VB(0, <<OutsideAt(102), Long(0)>>),
                         VB(0, <<OutsideAt(100), Long(1)>>)>>, {OutsideAt(100), OutsideAt(102)}),
  cycle |-> [heap |-> <<VB(0, <<Long(1), Ptr(2)>>), VB(0, <<Ptr(1), Ptr(2)>>), VB(1, <<Ptr(2), Ptr(1)>>)>>,
             values |-> {Ptr(2)}]]

MCHashParams == {<<10, 100>>, <<2, 5>>, <<0, 3>>, <<3, 1>>}
MCByteStrings == UNION {[1..n -> {0, 2}] : n \in 0..5}
MCVariantNames == UNION {[1..n -> {65, 90, 122}] : n \in 0..4}

\* Expressions, subjects and replacement texts for the regular expressions of Str.
MCChars == {"a", "b", "A", "\n", " "}
CA == Char("a")
CB == Char("b")
MCRegexps == [
  literal |-> String(<<"a", "b", "a">>),
  simple |-> SeqOf(<<Star(CA), Plus(CB), Option(NotCharClass({"a", "b", "\n"})), Eol, Char("\n")>>),
  backtracks |-> SeqOf(<<Star(CharClass({"a", "b"})), CA, Option(CB), CB>>),
  groups |-> SeqOf(<<Star(Group(1, Alt(CA, SeqOf(<<CA, Group(2, CB)>>)))), Plus(CharClass({"b", " "})), Refgroup(1), Wordboundary>>),
  nullable |-> SeqOf(<<Star(Alt(Star(CA), Group(1, Option(CB)))), Plus(Option(Char(" "))), Refgroup(1), CB>>),
  nested |-> SeqOf(<<Plus(Group(1, Plus(Option(CA)))), Option(Group(2, CB))>>),
  stars |-> Star(Plus(Alt(CA, Option(SeqOf(<<CB, CA>>))))),
  anchors |-> SeqOf(<<Bol, Option(Char("\n")), Plus(Group(1, NotCharClass({"A", "\n"}))), Wordboundary, Eol>>),
  words |-> SeqOf(<<Wordboundary, Plus(Alt(CA, CB)), Wordboundary, Star(Char(" "))>>),
  missing |-> SeqOf(<<Group(1, CA), Refgroup(2), Star(CB)>>),
  empty |-> String(<<>>)]
MCTexts == UNION {[1..n -> {"a", "b", "A", " "}] : n \in 0..3} \cup [1..4 -> {"a", "b"}] \cup {<<"a", "b", "\n", "a", "b">>, <<"\n", " ", "a", "b", " ">>, <<"a", "a", "b", "a", "b", "b">>}
MCReplacements == {<<"a", "\\", "\\">>, <<"\\">>, <<"\\", "0", "b", "\\", "1">>, <<"\\", "2", "\\", "a">>}

\* Tokens a+b* (action 0), a+b*cc (1), b (2), end of file (3), c at the end of file (4), c (5).
LexMoves == <<<<1, 4, 5, 6>>, <<1, 2, 3, -1>>, <<-1, 2, 3, -1>>, <<-1, -1, 7, -1>>, <<-1, -1, -1, -1>>, <<-1, -1, -1, 8>>,
              <<-1, -1, -1, -1>>, <<-1, -1, -1, -1>>, <<-1, -1, -1, -1>>>>
LexBase == <<0, 4, 8, 6, -3, 12, -4, -2, -5>>
MCLexTable ==
  [base |-> LexBase, backtrk |-> <<-1, 0, 0, -1, -1, 5, -1, -1, -1>>, default |-> [s \in 1..9 |-> -1],
   check |-> [i \in 1..17 |-> LET S == {s \in 0..8 : LexBase[s + 1] >= 0 /\ i - 1 - LexBase[s + 1] \in 0..3 /\ LexMoves[s + 1][i - LexBase[s + 1]] >= 0}
                              IN IF S = {} THEN -1 ELSE CHOOSE s \in S : TRUE],
   trans |-> [i \in 1..17 |-> LET S == {s \in 0..8 : LexBase[s + 1] >= 0 /\ i - 1 - LexBase[s + 1] \in 0..3 /\ LexMoves[s + 1][i - LexBase[s + 1]] >= 0}
                              IN IF S = {} THEN 0 ELSE LexMoves[(CHOOSE s \in S : TRUE) + 1][i - LexBase[(CHOOSE s \in S : TRUE) + 1]]],
   base_code |-> <<0, 0, 0, 0, 0, 0, 0, 4, 0>>, backtrk_code |-> <<0, 4, 4, 0, 0, 0, 0, 0, 0>>, default_code |-> [s \in 1..9 |-> IF s = 2 THEN 1 ELSE 0],
   check_code |-> <<0, 1, 1, 1>>, trans_code |-> <<1, 0, 0, 0>>, code |-> <<255, 1, 255, 255, 0, 1, 255>>,
   eof_action |-> 3, bound |-> {0, 1}]
MCLexTexts == UNION {[1..n -> 0..2] : n \in 0..4} \cup {<<0, 0, 0, 0, 1, 1, 2, 0>>, <<0, 1, 1, 1, 1, 1, 1, 2, 2>>, <<1, 0, 0, 0, 1, 1, 2>>}

\* Descriptors of each kind, and the calls of select made on them.
MCDescrKind == [d |-> "disk", c |-> "console", p |-> "pipe", q |-> "pipe", r |-> "pipe", s |-> "socket", t |-> "socket", u |-> "unbound", x |-> "unknown"]
Ask(r, w, e, t, f) == [read |-> r, write |-> w, except |-> e, timed |-> t, fails |-> f, quiet |-> FALSE, raises |-> FALSE]
AskRaising(r, w, t) == [Ask(r, w, <<>>, t, "") EXCEPT !.raises = TRUE]
\* Integers whose bytes have no address: 512 words wrap around to none, -2 words to the last page.
MCIncrements == {0, 5, 512, -2}
MCControls ==
  [minor : {0, 3, 9}, incr : {5}, pf : {0}, verb : {1}, pm : {0}, stack : {1}, policy : {0, 7}]
  \cup [minor : {3}, incr : {0, -2}, pf : {1}, verb : {1}, pm : {0}, stack : {9}, policy : {0}]
  \cup [minor : {3, 513, -1}, incr : {512}, pf : {-1}, verb : {-1}, pm : {-1}, stack : {-1}, policy : {-1}]
MCHeapMeasures == [cur : {0, 5, 9}, at_change : {0, 4}, heap : {9, 10}, collections : 2 .. 3, chunks : 1 .. 3]
MCSelectQueries ==
  {<<Ask(<<"p", "c">>, <<>>, <<>>, timed, fails)>> : timed \in BOOLEAN, fails \in {"", "p", "console"}}
  \cup {<<Ask(<<"p", "q", "r", "q">>, <<>>, <<>>, timed, "")>> : timed \in BOOLEAN}
  \cup {<<Ask(<<"s">>, <<"s", "t">>, <<>>, fails # "t", fails)>> : fails \in {"", "t", "restore"}}
  \cup {<<Ask(<<"d", "p">>, <<"u", "c">>, <<"u", "d">>, FALSE, "")>>}
  \cup {<<Ask(<<>>, <<>>, <<"d">>, TRUE, "")>>, <<Ask(<<"d", "x">>, <<>>, <<>>, FALSE, "")>>, <<Ask(<<>>, <<"p">>, <<>>, FALSE, "")>>}
  \cup {<<Ask(<<"p">>, <<>>, <<>>, TRUE, ""), Ask(<<"q">>, <<>>, <<"d">>, FALSE, "")>>}
  \cup {<<AskRaising(<<"p", "c">>, <<>>, TRUE)>>, <<AskRaising(<<"s">>, <<"d">>, TRUE)>>, <<AskRaising(<<>>, <<>>, TRUE)>>}
  \cup {<<AskRaising(<<"p">>, <<>>, FALSE), [Ask(<<"q">>, <<>>, <<>>, TRUE, "") EXCEPT !.quiet = TRUE]>>}
  \cup {<<[Ask(<<"p", "q", "r", "c">>, <<>>, <<"s">>, FALSE, "") EXCEPT !.quiet = TRUE]>>}

\* Every short text over the characters each scanner of the yacc reader tells apart.
YaccChars == "\n" :> 10 @@ "\"" :> 34 @@ "'" :> 39 @@ "\\" :> 92 @@ "(" :> 40 @@ ")" :> 41 @@ "*" :> 42 @@ "{" :> 123 @@ "}" :> 125 @@ "%" :> 37
  @@ "$" :> 36 @@ "1" :> 49 @@ "2" :> 50 @@ "3" :> 51 @@ "a" :> 97 @@ "_" :> 95 @@ "/" :> 47 @@ "#" :> 35 @@ " " :> 32 @@ ";" :> 59 @@ "<" :> 60 @@ ">" :> 62
  @@ "-" :> 45 @@ "[" :> 91 @@ "]" :> 93 @@ "x" :> 120 @@ "n" :> 110
YaccWords(C, n) == {[i \in DOMAIN w |-> YaccChars[w[i]]] : w \in UNION {[1 .. k -> C] : k \in 0 .. n}}
YaccString(w) == [i \in DOMAIN w |-> YaccChars[w[i]]]
Behind(prefix, S) == {YaccString(prefix) \o w : w \in S}
MCYaccTexts == [
  text |-> YaccWords({"\n", "\"", "\\", "%", "}", "a"}, 4) \cup Behind(<<"(">>, YaccWords({"(", "*", ")", "\n", "%", "}"}, 4))
           \cup YaccWords({"'", "\\", "\"", "%", "}"}, 4) \cup {YaccString(<<"'", "\\", "1", "2", "3", "'", "%", "}">>), YaccString(<<"\n", "'", "\"", "'", "\n", "a", "%", "}">>)},
  union |-> Behind(<<" ">>, YaccWords({"{", "}", "a"}, 4)) \cup Behind(<<"{">>, YaccWords({"\n", "\"", "\\", "{", "}", "'"}, 4) \cup Behind(<<"(">>, YaccWords({"(", "*", ")", "\n", "}"}, 4))),
  action |-> Behind(<<"{">>, YaccWords({"$", "1", "3", "a", "}"}, 4) \cup YaccWords({"\n", "\"", "{", "}", "'"}, 4) \cup Behind(<<"(">>, YaccWords({"(", "*", ")", "\n", "}"}, 4)))
             \cup {YaccString(<<"{", "'", "\\", "1", "2", "3", "'", "\\", "'", "}", "'", "}">>)},
  literal |-> Behind(<<"'">>, YaccWords({"\\", "1", "3", "'", "n", "\""}, 4) \cup YaccWords({"\\", "x", "a", "2", "\n", "'"}, 4))
              \cup Behind(<<"\"">>, YaccWords({"\\", "1", "'", "\""}, 4)),
  tag |-> YaccWords({"<", ">", "-", "[", "]", "a"}, 4),
  poly |-> YaccWords({"<", "[", "'", " ", "a", "1"}, 4) \cup YaccWords({"#", "a", ">"}, 2),
  ident |-> YaccWords({"\"", "a", "\n"}, 3),
  nextc |-> YaccWords({"\n", "/", "*", " ", "a"}, 4) \cup Behind(<<"#", "1">>, YaccWords({" ", "\"", "\n", "#", "1"}, 4)) \cup {YaccString(<<"#", "1", "\"", "#", "2", "\n", ";", "\n", "a">>), YaccString(<<"#", "1", "\n", ";", ";", "#", "2", "\n", "a">>)} \cup Behind(<<"/", "*">>, YaccWords({"\n", "/", "*", "a"}, 4))
            \cup {d \o w : d \in {YaccString(<<"\n", "#", " ", "1", "2", "\n">>), YaccString(<<"\n", "#", "3", " ", "\"", "a", "\"", "\n">>), YaccString(<<" ", "/", "/", "#", "\n", "#", "1", "\n">>)},
                           w \in YaccWords({"#", "1", "\n", ";", "\\"}, 3)}]

\* Two chunks: a free block, a pair A, a closure B with two infix headers; then a free block, C and
\* a weak array W.
PtrA == Adr(4)
PtrB == Adr(7)
PtrB1 == Adr(9)
PtrB2 == Adr(11)
PtrC == Adr(16)
OutsideCode == <<"outside", 1, 0>>
IntegerOne == <<"integer", 1, 0>>
MCCompactHeaps ==
  {<<BlueHd(1, 0), NullWord, Hd(2, 0), a1, a2, Hd(6, Closure_tag), OutsideCode, InfixHd(2), OutsideCode, InfixHd(4), OutsideCode, env,
     BlueHd(1, 0), NullWord, Hd(1, 1), c, Hd(3, Abstract_tag), NullWord, w, NullWord, BlueHd(1, 0), NullWord, r1, r2, Adr(18)>> :
     a1 \in {PtrB, PtrB1, PtrB2}, a2 \in {IntegerOne, PtrB1, PtrC}, env \in {IntegerOne, PtrA, PtrB1, PtrB2}, c \in {PtrA, PtrB2},
     w \in {NullWord, PtrA, PtrB1}, r1 \in {IntegerOne, PtrA, PtrB, PtrB1, PtrB2, PtrC}, r2 \in {PtrB2, PtrC}}
  \* The same with three live blocks in the place of the free ones.
  \cup {<<Hd(1, 0), Adr(14), Hd(2, 0), PtrB, a2, Hd(6, Closure_tag), OutsideCode, InfixHd(2), OutsideCode, InfixHd(4), OutsideCode, PtrA,
     Hd(1, 0), x, Hd(1, 1), PtrA, Hd(3, Abstract_tag), NullWord, PtrA, NullWord, Hd(1, 0), PtrB2, PtrC, Adr(2), Adr(18)>> :
     a2 \in {IntegerOne, PtrB1}, x \in {IntegerOne, Adr(22)}}
MCChunkStarts == <<1, 13, 23>>

\* Named values, with the bucket each name hashes to.
MCValueNames == "a" :> 0 @@ "b" :> 0 @@ "c" :> 1

\* Bytecode files, command lines and code to load.
Section(name, data) == [name |-> name, data |-> data]
NameList(kind, ks) == SX!FlattenSeq([i \in DOMAIN ks |-> <<<<kind, ks[i]>>, Terminator>>])
SecCode == Section("CODE", <<<<"code", 1>>, <<"code", 2>>, <<"code", 3>>>>)
SecData == Section("DATA", <<<<"data", 1>>, <<"data", 2>>>>)
SecPrim(ks) == Section("PRIM", NameList("prim", ks))
SecPath(ks) == Section("DLPT", NameList("dir", ks))
SecLibs(ks) == Section("DLLS", NameList("dll", ks))
MCSections ==
  { <<SecCode, SecPath(<<1>>), SecLibs(<<1, 2>>), SecPrim(<<3, 1, 2>>), SecData, Section("SYMB", <<<<"symb", 1>>>>)>>,
    <<SecCode, SecLibs(<<2>>), SecPrim(<<1, 3>>), SecData>>,
    <<SecData, SecPrim(<<2, 1>>), SecCode>>,
    <<SecCode, SecPath(<<2, 1>>), SecLibs(<<1>>), SecPrim(<<2, 1>>), SecData>>,
    <<SecCode, SecCode, SecPrim(<<>>), SecData>>,
    <<SecCode, SecPrim(<<1>>)>>, <<SecCode, SecData>>, <<SecPrim(<<1>>), SecData>> }
MCStartFiles == [head : {"#!", "elf", "none"}, sections : MCSections, cut : 0 .. 3]
MCStartOptions == { <<>>, <<<<"-v", 0>>>>, <<<<"-I", 0>>, <<"dir", 2>>>>, <<<<"-b", 0>>, <<"-I", 0>>, <<"dir", 1>>, <<"-v", 0>>>>, <<<<"-p", 0>>>>, <<<<"-z", 0>>>> }
MCStartArgs == { <<>>, <<<<"arg", 1>>>>, <<<<"-v", 0>>, <<"arg", 2>>>> }
MCDlls == <<1, 1>> :> {2, 3} @@ <<2, 1>> :> {2} @@ <<3, 2>> :> {3}
MCInstrs == { <<0>>, <<1, 3>>, <<2, 4, 0>>, <<3, 1 + 8 * 2, 4, 3, 1>>, <<3, 0>>, <<4, 2, 1, 3, 4>>, <<5>> }
MCCodeBlocks == UNION {[1 .. n -> MCInstrs] : n \in 0 .. 3}
MCLdLibraryPath == <<>>
MCLdConf == <<3>>
MCRunParams == UNION {[1 .. n -> {<<"s", <<"3", "2">>, "k">>, <<"s", <<"1">>, "">>, <<"h", <<"0">>, "M">>, <<"O", <<"2", "0", "0">>, "">>, <<"o", <<"1", "0">>, "k">>}] : n \in 0 .. 3}

(***************************************************************************)
(* Integers, as the runtime system computes with them: the boxed integers   *)
(* of ints.c, their numerals, and the natural numbers of the num library    *)
(* agree with the integers (Numbers.tla, Bignum.tla).                       *)
(***************************************************************************)
NumbersExact == ArithmeticExact /\ NumeralsExact /\ NaturalsExact

(***************************************************************************)
(* The table driven engines agree with what their tables denote: strstubs.c *)
(* with the regular expressions, lexing.c with the longest match, and the   *)
(* scanners of yacc/reader.c with the lexical rules of the text they copy   *)
(* (Regexp.tla, Lexing.tla, YaccText.tla).                                  *)
(***************************************************************************)
EnginesExact == MatchesExact /\ TokensExact /\ TextsExact

(***************************************************************************)
(* The Windows ports keep the promises of the calls they emulate: select    *)
(* answers for the descriptors it was asked about and leaves its workers    *)
(* idle, and a condition variable wakes exactly the threads that wait       *)
(* (Select.tla, WinThreads.tla).                                            *)
(***************************************************************************)
WindowsSound == SelectSound /\ CondvarsSound

(***************************************************************************)
(* The tables and parameters the runtime system starts from and keeps: the  *)
(* page table, global roots and named values, the parameters of the memory  *)
(* manager, and the program loaded from a bytecode file (Tables.tla,        *)
(* GcCtrl.tla, Startup.tla), and the digests by which the files of that     *)
(* program know each other (Digest.tla).                                    *)
(***************************************************************************)
RuntimeSound == TablesSound /\ SettingsSound /\ CollectionsSound /\ ChunksSound /\ ProgramsLoaded /\ DigestExact

Init == MarshalInit \/ NumbersInit \/ ValuesInit \/ BignumInit \/ BigarrayInit \/ RegexpInit \/ LexingInit \/ SelectInit
        \/ YaccTextInit \/ CompactInit \/ TablesInit \/ DigestInit \/ WinInit \/ StartupInit \/ GcCtrlInit
Next == MarshalNext \/ NumbersNext \/ ValuesNext \/ BignumNext \/ BigarrayNext \/ RegexpNext \/ LexingNext \/ SelectNext
        \/ YaccTextNext \/ CompactNext \/ TablesNext \/ DigestNext \/ WinNext \/ StartupNext \/ GcCtrlNext
Spec == Init /\ [][Next]_vars
=============================================================================
