---- MODULE MCYacc ----
(***************************************************************************)
(* Grammar files for Yacc: operators with precedence, an LALR(1) grammar   *)
(* that is not SLR(1), nullable symbols, error productions, two entry      *)
(* points with given token values, mutual right recursion, the dangling    *)
(* else, a reduce/reduce conflict, and every file that differs from two of *)
(* these by one token less.                                                *)
(***************************************************************************)
EXTENDS Yacc

K(k) == <<k, "", 0>>
N(x) == <<"name", x, 0>>
L(x, c) == <<"lit", x, c>>
T(x) == <<"tag", x, 0>>
A(i) == <<"action", "", i>>

Names(q) == [i \in DOMAIN q |-> N(q[i])]

Rule(lhs, alts) ==
    <<N(lhs), K(":")>> \o SX!FoldLeft(LAMBDA a, i : a \o (IF i = 1 THEN <<>> ELSE <<K("|")>>) \o Names(alts[i]) \o <<A(0)>>,
                                      <<>>, [i \in DOMAIN alts |-> i])

Head_(toks, start) ==
    <<K("%token")>> \o Names(toks) \o <<K("%start"), N(start), K("%type"), T("t"), N(start)>>

Operators ==
    <<K("%token"), T("int"), N("NUM"), K("%token")>> \o Names(<<"EQ", "PLUS", "TIMES", "POW", "EOF">>)
    \o <<K("%nonassoc"), N("EQ"), K("%left"), N("PLUS"), K("%left"), N("TIMES"), K("%right"), N("POW"),
         K("%start"), N("main"), K("%type"), T("t"), N("main"), K("%%")>>
    \o Rule("main", << <<"e", "EOF">> >>)
    \o Rule("e", << <<"NUM">>, <<"e", "EQ", "e">>, <<"e", "PLUS", "e">>, <<"e", "TIMES", "e">>, <<"e", "POW", "e">> >>)

Pointers ==
    Head_(<<"ID", "EQ", "STAR", "EOF">>, "main") \o <<K("%%")>>
    \o Rule("main", << <<"s", "EOF">> >>)
    \o Rule("s", << <<"l", "EQ", "r">>, <<"r">> >>)
    \o Rule("l", << <<"STAR", "r">>, <<"ID">> >>)
    \o Rule("r", << <<"l">> >>)

Nullables ==
    Head_(<<"A", "B", "C", "EOF">>, "main") \o <<K("%%")>>
    \o Rule("main", << <<"a", "b", "c", "EOF">> >>)
    \o Rule("a", << <<>>, <<"A">> >>)
    \o Rule("b", << <<>>, <<"B", "a">> >>)
    \o Rule("c", << <<>>, <<"C", "b">> >>)

Errors ==
    Head_(<<"ID", "SEMI", "END", "EOF">>, "main") \o <<K("%%")>>
    \o Rule("main", << <<"p", "EOF">> >>)
    \o Rule("p", << <<>>, <<"p", "s", "SEMI">> >>)
    \o Rule("s", << <<"ID">>, <<"ID", "p", "END">>, <<"error">> >>)

Entries ==
    <<K("%{"), K("%token"), N("A"), <<"num", "", 258>>, N("B"), N("C"), <<"num", "", 257>>, N("D"), N("EOF"),
      K("%start"), N("one"), N("two"), K("%type"), T("t"), N("one"), N("two"), K("%%")>>
    \o Rule("one", << <<"x", "EOF">> >>)
    \o <<N("two"), K(":"), K("|"), N("A"), L("'x'", 120), N("A"), A(0), K("|"), N("x"), N("B"), N("EOF"), A(1)>>
    \o Rule("x", << <<"A", "y">>, <<"C">> >>)
    \o Rule("y", << <<"B", "x">>, <<"D">> >>) \o <<K("%%")>>

Dangling ==
    Head_(<<"IF", "ELSE", "ID", "EOF">>, "main") \o <<K("%%")>>
    \o Rule("main", << <<"s", "EOF">> >>)
    \o Rule("s", << <<"IF", "s">>, <<"IF", "s", "ELSE", "s">>, <<"ID">> >>)

Ambiguous ==
    Head_(<<"A", "B", "EOF">>, "main") \o <<K("%%")>>
    \o Rule("main", << <<"a", "EOF">>, <<"b", "EOF">> >>)
    \o Rule("a", << <<"A">>, <<"A", "B">> >>)
    \o Rule("b", << <<"A">> >>)

Prefixed ==
    <<K("%token"), N("NUM"), N("MINUS"), N("EOF"), K("%left"), N("MINUS"), K("%nonassoc"), N("uminus"),
      K("%start"), N("main"), K("%type"), T("t"), N("main"), K("%%"),
      N("main"), K(":"), N("e"), N("EOF"), A(1),
      N("e"), K(":"), N("NUM"), A(0), K("|"), N("e"), N("MINUS"), N("e"), A(3),
      K("|"), N("MINUS"), N("e"), K("%prec"), N("uminus"), A(2)>>

Polymorphic == <<K("%token"), N("A"), K("%start"), N("m"), K("%type"), T("'a"), N("m"), K("%%")>>
               \o Rule("m", << <<"A">> >>)

Good == <<Operators, Pointers, Nullables, Errors, Entries, Dangling, Prefixed>>

Without(q, k) == SubSeq(q, 1, k - 1) \o SubSeq(q, k + 1, Len(q))

Defective(q) == [k \in DOMAIN q |-> Without(q, k)]

MCSources ==
    Good \o <<Ambiguous, Polymorphic,
              <<K("%start"), N("a"), N("b"), N("c"), N("d"), K("%%")>>,
              <<K("%token"), N("a"), K("%%"), K("%start"), N("a"), N("m"), K(":")>>,
              <<K("%%"), K("%start"), N("m"), K("%type")>>,
              <<K("%type"), N("m")>>, <<K("%%"), N("$end"), K(":")>>, <<K("%%"), K("%%")>> >>
    \o Defective(Entries) \o Defective(Prefixed)
====
