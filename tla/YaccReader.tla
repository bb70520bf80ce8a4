---- MODULE YaccReader ----
(***************************************************************************)
(* The front end of ocamlyacc (yacc/main.c, reader.c, symtab.c, error.c):  *)
(* the grammar file, read one construct at a time into the symbol list and *)
(* the rules, and packed into the numbered grammar the table builder uses. *)
(*                                                                         *)
(* A file is a sequence of the lexical tokens nextc and its callers find   *)
(* in it: <<kind, spelling, number>>.  Comments, blanks, line directives   *)
(* and the text of actions are gone; an action keeps the $-reference it    *)
(* makes (0 if none), a literal its character code (-1 if it is a string   *)
(* of several characters).                                                 *)
(***************************************************************************)
EXTENDS Integers, Sequences, FiniteSets, TLC

CONSTANTS MaxEntries,       \* 256 in declare_start
          PolymorphicTags   \* the type expressions is_polymorphic accepts

VARIABLES file, rd

TOKEN == 0
LEFT == 1
RIGHT == 2
NONASSOC == 3
UNDEFINED == -1
UNKNOWN == "UNKNOWN"
TERM == "TERM"
NONTERM == "NONTERM"

Assocs == "%token" :> TOKEN @@ "%left" :> LEFT @@ "%right" :> RIGHT @@ "%nonassoc" :> NONASSOC

EntryNames == <<"'\\001'", "'\\002'", "'\\003'", "'\\004'">>

-----------------------------------------------------------------------------
(* The symbol table (symtab.c): the list first_symbol .. last_symbol, in    *)
(* the order in which the names are first met.                              *)

make_bucket(name) ==
    [name |-> name, class |-> UNKNOWN, tag |-> "", value |-> UNDEFINED, prec |-> 0,
     assoc |-> TOKEN, entry |-> 0, true_token |-> FALSE]

create_symbol_table == <<[make_bucket("error") EXCEPT !.class = TERM]>>

Known(syms, name) == \E i \in 1 .. Len(syms) : syms[i].name = name

lookup(syms, name) == IF Known(syms, name) THEN syms ELSE Append(syms, make_bucket(name))

At(syms, name) == CHOOSE i \in 1 .. Len(syms) : syms[i].name = name

is_reserved(name) == name \in {".", "$accept", "$end", "$$1"}

-----------------------------------------------------------------------------
(* Reading.  r is the reader's state; a fatal error ends in done(1).        *)

EOF == <<"eof", "", 0>>

nextc(r) == IF r.pos <= Len(file) THEN file[r.pos] ELSE EOF

After(r) == [r EXCEPT !.pos = @ + 1]

Kind(r) == nextc(r)[1]

Fail(r, e) == [r EXCEPT !.mode = "failed", !.err = e]

unexpected_EOF(r) == Fail(r, "unexpected end-of-file")

syntax_error(r) == Fail(r, "syntax error")

IsSymbol(r) == Kind(r) \in {"name", "lit"}

get_name(r) ==
    IF is_reserved(nextc(r)[2])
    THEN Fail(r, "illegal use of reserved symbol")
    ELSE [After(r) EXCEPT !.syms = lookup(@, nextc(r)[2]), !.sym = nextc(r)[2]]

get_literal(r) ==
    LET name == nextc(r)[2]
        syms == lookup(r.syms, name)
        i == At(syms, name)
    IN  [After(r) EXCEPT !.sym = name,
                         !.syms = [syms EXCEPT ![i].class = TERM,
                                               ![i].value = IF nextc(r)[3] >= 0 /\ @ = UNDEFINED
                                                            THEN nextc(r)[3] ELSE @]]

get_symbol(r) == IF Kind(r) = "lit" THEN get_literal(r) ELSE get_name(r)

Sym(r) == r.syms[At(r.syms, r.sym)]

keyword(r) == Kind(r)

\* The head of a %token, %left, %right or %nonassoc declaration: a declaration
\* of associativity takes the next precedence level.
declare_tokens(r) ==
    LET r1 == [After(r) EXCEPT !.assoc = Assocs[keyword(r)], !.tag = "",
                               !.prec = IF keyword(r) = "%token" THEN @ ELSE @ + 1]
    IN  CASE Kind(r1) = "eof" -> unexpected_EOF(r1)
          [] Kind(r1) = "tag" -> [After(r1) EXCEPT !.tag = nextc(r1)[2], !.mode = "tokens"]
          [] OTHER            -> [r1 EXCEPT !.mode = "tokens"]

Declared(r, b) ==
    [b EXCEPT !.class = TERM,
              !.tag = IF r.tag # "" THEN r.tag ELSE @,
              !.true_token = IF r.assoc = TOKEN THEN TRUE ELSE @,
              !.assoc = IF r.assoc = TOKEN THEN @ ELSE r.assoc,
              !.prec = IF r.assoc = TOKEN THEN @ ELSE r.prec,
              !.value = IF b.name = "EOF" THEN 0 ELSE @]

\* One symbol of such a declaration, with the number that may follow it.
declare_token(r) ==
    LET r1 == get_symbol(r)
        r2 == [r1 EXCEPT !.syms[At(r1.syms, r1.sym)] = Declared(r1, @)]
    IN  CASE Kind(r) = "eof"       -> unexpected_EOF(r)
          [] ~IsSymbol(r)          -> [r EXCEPT !.mode = "decl"]
          [] r1.mode = "failed"    -> r1
          [] Sym(r1).name = r1.goal -> Fail(r1, "start symbol declared to be a token")
          [] Kind(r2) = "eof"      -> unexpected_EOF(r2)
          [] Kind(r2) = "num"      -> [After(r2) EXCEPT !.syms[At(r2.syms, r2.sym)].value = nextc(r2)[3]]
          [] OTHER                 -> r2

declare_types(r) ==
    LET r1 == After(r)
    IN  CASE Kind(r1) = "eof" -> unexpected_EOF(r1)
          [] Kind(r1) # "tag" -> syntax_error(r1)
          [] OTHER            -> [After(r1) EXCEPT !.tag = nextc(r1)[2], !.mode = "types"]

declare_type(r) ==
    LET r1 == get_symbol(r)
    IN  CASE ~IsSymbol(r)       -> [r EXCEPT !.mode = "decl"]
          [] r1.mode = "failed" -> r1
          [] OTHER -> [r1 EXCEPT !.syms[At(r1.syms, r1.sym)].tag = r1.tag]

\* One name of a %start declaration: it becomes the next entry point.
declare_start(r) ==
    LET r1 == get_name(r)
        r2 == [r1 EXCEPT !.entries = @ + 1, !.syms[At(r1.syms, r1.sym)].entry = r1.entries + 1]
    IN  CASE Kind(r) # "name"      -> [r EXCEPT !.mode = r.back]
          [] r1.mode = "failed"    -> r1
          [] Sym(r1).class = TERM  -> Fail(r1, "the entry point is a token")
          [] r2.entries = MaxEntries -> Fail(r2, "more than 256 entry points")
          [] OTHER                 -> r2

Starting(r) == [After(r) EXCEPT !.back = r.mode, !.mode = "start"]

read_declarations(r) ==
    CASE Kind(r) = "eof"            -> unexpected_EOF(r)
      [] keyword(r) = "%%"          -> [After(r) EXCEPT !.mode = "goal"]
      [] keyword(r) = "%{"          -> After(r)
      [] keyword(r) \in DOMAIN Assocs -> declare_tokens(r)
      [] keyword(r) = "%type"       -> declare_types(r)
      [] keyword(r) = "%start"      -> Starting(r)
      [] OTHER                      -> syntax_error(r)

-----------------------------------------------------------------------------
(* The rules.  The last element of rules is the one under construction.     *)

start_rule(r, name) ==
    IF r.syms[At(r.syms, name)].class = TERM
    THEN Fail(r, "a token appears on the lhs of a production")
    ELSE [r EXCEPT !.syms[At(r.syms, name)].class = NONTERM, !.at_first = TRUE,
                   !.rules = Append(@, [lhs |-> name, rhs |-> <<>>,
                                        prec |-> UNDEFINED, assoc |-> TOKEN])]

end_rule(r) ==
    IF ~r.last_was_action THEN Fail(r, "no action specified for this production")
    ELSE [r EXCEPT !.last_was_action = FALSE]

Last(r) == Len(r.rules)

advance_to_start(r) ==
    LET r1 == get_name(r)
        r2 == [r1 EXCEPT !.goal = IF @ = "" THEN r1.sym ELSE @]
        r3 == start_rule(r2, r2.sym)
    IN  CASE keyword(r) = "%%"     -> Fail(r, "no grammar has been specified")
          [] keyword(r) = "%{"     -> After(r)
          [] keyword(r) = "%start" -> Starting(r)
          [] Kind(r) # "name"      -> syntax_error(r)
          [] r1.mode = "failed"    -> r1
          [] r1.goal = "" /\ Sym(r1).class = TERM -> Fail(r1, "the entry point is a token")
          [] Kind(r2) = "eof"      -> unexpected_EOF(r2)
          [] Kind(r2) # ":"        -> syntax_error(r2)
          [] r3.mode = "failed"    -> r3
          [] OTHER                 -> [After(r3) EXCEPT !.mode = "rule"]

NewRule(r, name) == IF r.mode = "failed" THEN r ELSE start_rule(r, name)

Skip(r) == IF r.mode = "failed" THEN r ELSE After(r)

add_symbol(r) ==
    LET r1 == get_symbol(r)
    IN  CASE r1.mode = "failed"  -> r1
          [] Kind(r1) = ":"      -> Skip(NewRule(end_rule(r1), r1.sym))
          [] r1.last_was_action  -> syntax_error(r1)
          [] OTHER               -> [r1 EXCEPT !.rules[Last(r1)].rhs = Append(@, r1.sym)]

\* The action of a rule may name, by its place, a nonterminal of the right
\* hand side or a token that carries a value.
copy_action(r) ==
    LET i == nextc(r)[3]
        rhs == r.rules[Last(r)].rhs
        b == r.syms[At(r.syms, rhs[i])]
    IN  CASE r.last_was_action       -> syntax_error(r)
          [] i < 0 \/ i > Len(rhs)   -> Fail(r, "$i is unbound")
          [] i > 0 /\ b.class = TERM /\ b.tag = "" -> Fail(r, "$i refers to a terminal without argument")
          [] OTHER                   -> [After(r) EXCEPT !.last_was_action = TRUE]

mark_symbol(r) ==
    LET r1 == After(r)
        r2 == get_symbol(r1)
    IN  CASE ~IsSymbol(r1)       -> syntax_error(r1)
          [] r2.mode = "failed"  -> r2
          [] OTHER               -> [r2 EXCEPT !.rules[Last(r2)].prec = Sym(r2).prec,
                                               !.rules[Last(r2)].assoc = Sym(r2).assoc]

EndOfRules(r) ==
    LET r1 == end_rule(r) IN IF r1.mode = "failed" THEN r1 ELSE [r1 EXCEPT !.mode = "read"]

read_grammar(r) ==
    LET r0 == IF Kind(r) = "|" /\ r.at_first THEN After(r) ELSE r
        r1 == [r0 EXCEPT !.at_first = FALSE]
    IN  CASE Kind(r1) \in {"eof", "%%"} -> EndOfRules(r1)
          [] IsSymbol(r1)         -> add_symbol(r1)
          [] Kind(r1) = "action"  -> copy_action(r1)
          [] Kind(r1) = "|"       -> Skip(NewRule(end_rule(r1), r1.rules[Last(r1)].lhs))
          [] Kind(r1) = "%prec"   -> mark_symbol(r1)
          [] OTHER                -> syntax_error(r1)

-----------------------------------------------------------------------------
(* After the last rule.                                                     *)

\* One entry rule  %entry% : '\00k' symbol  for each entry point.
EntryRule(r, i) ==
    LET b == r.syms[i]
        name == EntryNames[b.entry]
        syms == lookup(r.syms, name)
        r1 == start_rule([r EXCEPT !.syms = [syms EXCEPT ![At(syms, name)].class = TERM,
                                                         ![At(syms, name)].value = b.entry]],
                         "%entry%")
    IN  CASE r.mode = "failed" \/ b.entry = 0 -> r
          [] b.tag = ""                   -> Fail(r, "no type declared for the start symbol")
          [] b.tag \in PolymorphicTags    -> Fail(r, "the start symbol has a polymorphic type")
          [] OTHER -> [r1 EXCEPT !.rules[Last(r1)].rhs = <<name, b.name>>]

RECURSIVE EntryRules(_, _)
EntryRules(r, i) == IF i > Len(r.syms) THEN r ELSE EntryRules(EntryRule(r, i), i + 1)

make_goal(r) ==
    EntryRules([r EXCEPT !.goal = "%entry%", !.nrules = Len(r.rules),
                         !.syms = lookup(@, "%entry%")], 1)

check_symbols(r) ==
    CASE r.mode = "failed" -> r
      [] r.syms[At(r.syms, r.goal)].class = UNKNOWN -> Fail(r, "the start symbol is undefined")
      [] \E i \in 1 .. Len(r.syms) : r.syms[i].class = UNKNOWN -> Fail(r, "a symbol is undefined")
      [] OTHER -> [r EXCEPT !.mode = "checked"]

Sorted(S) ==
    [i \in 1 .. Cardinality(S) |-> CHOOSE x \in S : Cardinality({y \in S : y < x}) = i - 1]

\* The places in the symbol list, in the order of the packed numbers 1 .. nsyms - 1
\* (start_symbol, which is $accept, has none).
PackedOrder(r) ==
    LET Places(c) == {i \in 1 .. Len(r.syms) : r.syms[i].class = c}
        goal == At(r.syms, r.goal)
    IN  [terms |-> Sorted(Places(TERM)), vars |-> <<goal>> \o Sorted(Places(NONTERM) \ {goal})]

\* The values of the tokens that the file gives none: from 257 on, without
\* those the file uses.
RECURSIVE TokenValues(_, _, _, _)
TokenValues(r, terms, i, n) ==
    IF i > Len(terms) THEN <<>>
    ELSE LET v == r.syms[terms[i]].value
             Used == {r.syms[terms[k]].value : k \in 1 .. Len(terms)}
             m == CHOOSE x \in n .. n + Len(terms) :
                      x \notin Used /\ \A y \in n .. x - 1 : y \in Used
         IN  IF v # UNDEFINED THEN <<v>> \o TokenValues(r, terms, i + 1, n)
             ELSE IF i = 1 THEN <<256>> \o TokenValues(r, terms, i + 1, n)
             ELSE <<m>> \o TokenValues(r, terms, i + 1, m + 1)

\* $end is symbol 0, the tokens 1 .. ntokens - 1, $accept start_symbol, the
\* goal start_symbol + 1 and then the other nonterminals.
pack_symbols(r) ==
    LET o == PackedOrder(r)
        ntokens == Len(o.terms) + 1
        nsyms == ntokens + 1 + Len(o.vars)
        values == TokenValues(r, o.terms, 1, 257)
        Bkt(s) == IF s < ntokens THEN r.syms[o.terms[s]] ELSE r.syms[o.vars[s - ntokens]]
        Bare(s) == s = 0 \/ s = ntokens
    IN  [ntokens |-> ntokens, nsyms |-> nsyms, start_symbol |-> ntokens,
         symbol_name |-> [s \in 0 .. nsyms - 1 |->
             IF s = 0 THEN "$end" ELSE IF s = ntokens THEN "$accept" ELSE Bkt(s).name],
         symbol_value |-> [s \in 0 .. nsyms - 1 |->
             CASE s = 0 -> 0 [] s = ntokens -> -1
               [] s < ntokens -> values[s] [] OTHER -> s - ntokens - 1],
         symbol_prec |-> [s \in 0 .. nsyms - 1 |-> IF Bare(s) THEN 0 ELSE Bkt(s).prec],
         symbol_assoc |-> [s \in 0 .. nsyms - 1 |-> IF Bare(s) THEN TOKEN ELSE Bkt(s).assoc],
         symbol_true_token |-> [s \in 0 .. nsyms - 1 |-> ~Bare(s) /\ Bkt(s).true_token]]

IndexOf(s, name) == CHOOSE i \in 0 .. s.nsyms - 1 : s.symbol_name[i] = name

\* The precedence of a rule is that of %prec, or of its last token.
RulePrec(s, rule) ==
    LET toks == {i \in 1 .. Len(rule.rhs) : IndexOf(s, rule.rhs[i]) < s.ntokens}
        last == IndexOf(s, rule.rhs[CHOOSE i \in toks : \A j \in toks : j <= i])
    IN  CASE rule.prec # UNDEFINED -> <<rule.prec, rule.assoc>>
          [] toks = {}             -> <<0, TOKEN>>
          [] OTHER                 -> <<s.symbol_prec[last], s.symbol_assoc[last]>>

RECURSIVE Items(_, _, _)
Items(s, rules, i) ==
    IF i > Len(rules) THEN <<>>
    ELSE [k \in 1 .. Len(rules[i].rhs) |-> IndexOf(s, rules[i].rhs[k])]
         \o <<-(i + 2)>> \o Items(s, rules, i + 1)

ZeroBased(q) == [i \in 0 .. Len(q) - 1 |-> q[i + 1]]

\* Rule 2 is  $accept : goal $end ; the rules of the file are numbered from 3.
\* Each right hand side ends with the negated number of its rule.
pack_grammar(r) ==
    LET s == pack_symbols(r)
        n == Len(r.rules)
        q == <<-1, s.start_symbol + 1, 0, -2>> \o Items(s, r.rules, 1)
        ritem == ZeroBased(q)
        End(i) == CHOOSE k \in DOMAIN ritem : ritem[k] = -i
    IN  [s |-> s, nrules |-> n + 3, nitems |-> Len(q), ritem |-> ritem,
         rlhs |-> [i \in 2 .. n + 2 |->
                     IF i = 2 THEN s.start_symbol ELSE IndexOf(s, r.rules[i - 2].lhs)],
         rrhs |-> [i \in 2 .. n + 3 |-> IF i = 2 THEN 1 ELSE IF i = 3 THEN 4 ELSE End(i - 1) + 1],
         rprec |-> [i \in 2 .. n + 2 |-> IF i = 2 THEN 0 ELSE RulePrec(s, r.rules[i - 2])[1]],
         rassoc |-> [i \in 2 .. n + 2 |-> IF i = 2 THEN TOKEN ELSE RulePrec(s, r.rules[i - 2])[2]],
         entries |-> {i \in r.nrules + 3 .. n + 2 : TRUE}]

-----------------------------------------------------------------------------
ReaderInit ==
    rd = [mode |-> "decl", pos |-> 1, err |-> "", sym |-> "", tag |-> "", assoc |-> TOKEN,
          prec |-> 0, entries |-> 0, back |-> "", goal |-> "", syms |-> create_symbol_table,
          rules |-> <<>>, nrules |-> 0, last_was_action |-> FALSE, at_first |-> FALSE]

ReadDeclarations == rd.mode = "decl" /\ rd' = read_declarations(rd)
DeclareToken == rd.mode = "tokens" /\ rd' = declare_token(rd)
DeclareType == rd.mode = "types" /\ rd' = declare_type(rd)
DeclareStart == rd.mode = "start" /\ rd' = declare_start(rd)
AdvanceToStart == rd.mode = "goal" /\ rd' = advance_to_start(rd)
ReadGrammar == rd.mode = "rule" /\ rd' = read_grammar(rd)
FinishReading == rd.mode = "read" /\ rd' = check_symbols(make_goal(rd))

ReaderNext ==
    \/ ReadDeclarations \/ DeclareToken \/ DeclareType \/ DeclareStart
    \/ AdvanceToStart \/ ReadGrammar \/ FinishReading
====
