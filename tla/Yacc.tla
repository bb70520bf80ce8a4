---- MODULE Yacc ----
(***************************************************************************)
(* ocamlyacc from the command line to the parser it generates: main.c runs *)
(* the reader, the table builder and the output phase over a set of files  *)
(* that it must remove or leave behind; byterun/parsing.c then interprets  *)
(* the tables on any sequence of tokens, with the ML loop of               *)
(* stdlib/parsing.ml around it.                                            *)
(***************************************************************************)
EXTENDS YaccReader, YaccTables

CONSTANTS Sources,      \* the grammar files
          FaultySources,\* those on which files fail to open and signals arrive
          MaxTokens,    \* tokens the lexer returns before it only returns EOF
          InitStack,    \* the size of the stacks at first (100 in parsing.ml)
          MaxRaises,    \* Parse_error raised by semantic actions in one parse
          RaiseAnywhere \* whether they also raise in an empty production, or right after an error

ASSUME BoundsAssumption ==
    /\ MaxEntries \in Nat /\ MaxTokens \in Nat /\ InitStack \in Nat \ {0, 1}
    /\ MaxRaises \in Nat /\ RaiseAnywhere \in BOOLEAN

VARIABLES source,   \* which grammar file
          phase,    \* where main is; then where the generated parser is
          fs,       \* the files of ocamlyacc
          g, lr, la, par, tab,   \* what the phases produce
          lang,     \* the sentences and viable prefixes of the grammar, up to MaxTokens
          env       \* the parser's environment

vars == <<file, rd, source, phase, fs, g, lr, la, par, tab, lang, env>>

None == [none |-> TRUE]

-----------------------------------------------------------------------------
(* main.c: the files.                                                       *)

Temps == {"action", "entry", "text"}
Outputs == {"ml", "mli"}
OpenOrder == <<"action", "entry", "text", "ml", "mli">>

\* done(k): a file is removed if its stream is open, an output only on failure.
done(k) ==
    /\ fs' = [f \in DOMAIN fs |->
                IF fs[f].stream /\ (f \in Temps \/ k > 0)
                THEN [fs[f] EXCEPT !.exists = FALSE] ELSE fs[f]]
    /\ phase' = IF k = 0 THEN "generated" ELSE "failed"

Nothing == UNCHANGED <<g, lr, la, par, tab, lang, env>>

\* open_files, one fopen at a time.
open_files ==
    /\ phase = "open"
    /\ LET f == OpenOrder[Cardinality({x \in DOMAIN fs : fs[x].stream}) + 1]
       IN  \/ /\ fs' = [fs EXCEPT ![f] = [exists |-> TRUE, stream |-> TRUE]]
              /\ phase' = IF f = "mli" THEN "reader" ELSE "open"
           \/ source \in FaultySources /\ done(2)
    /\ UNCHANGED <<file, rd, source>> /\ Nothing

onintr ==
    /\ source \in FaultySources
    /\ phase \in {"open", "reader", "lr0", "lalr", "make_parser", "output", "actions", "entries", "exit"}
    /\ done(1)
    /\ UNCHANGED <<file, rd, source>> /\ Nothing

reader ==
    /\ phase = "reader"
    /\ ReaderNext
    /\ IF rd'.mode = "failed" THEN done(1)
       ELSE /\ phase' = IF rd'.mode = "checked" THEN "lr0" ELSE phase
            /\ UNCHANGED fs
    /\ IF rd'.mode = "checked"
       THEN g' = pack_grammar(rd') /\ lr' = initialize_states(g')
       ELSE UNCHANGED <<g, lr>>
    /\ UNCHANGED <<file, source, la, par, tab, lang, env>>

lr0 ==
    /\ phase = "lr0"
    /\ lr' = generate_state(g, lr)
    /\ phase' = IF Generated(lr') THEN "lalr" ELSE phase
    /\ UNCHANGED <<file, rd, source, fs, g, la, par, tab, lang, env>>

Lalr ==
    /\ phase = "lalr"
    /\ la' = lalr(g, lr)
    /\ phase' = "make_parser"
    /\ UNCHANGED <<file, rd, source, fs, g, lr, par, tab, lang, env>>

MakeParser ==
    /\ phase = "make_parser"
    /\ par' = make_parser(g, lr, la)
    /\ phase' = "output"
    /\ UNCHANGED <<file, rd, source, fs, g, lr, la, tab, lang, env>>

\* output_stored_text and copy_file: a temporary file is closed and opened
\* again for reading.
Reopen(f, next) ==
    \/ phase' = next /\ UNCHANGED fs
    \/ /\ source \in FaultySources
       /\ phase' = "failed"
       /\ fs' = [x \in DOMAIN fs |->
                    IF x = f THEN [fs[x] EXCEPT !.stream = FALSE]
                    ELSE IF fs[x].stream THEN [fs[x] EXCEPT !.exists = FALSE] ELSE fs[x]]

Output ==
    /\ phase = "output"
    /\ Reopen("text", "actions")
    /\ tab' = output(g, lr, la, par)
    /\ UNCHANGED <<file, rd, source, g, lr, la, par, lang, env>>

output_semantic_actions ==
    /\ phase = "actions"
    /\ Reopen("action", "entries")
    /\ UNCHANGED <<file, rd, source>> /\ Nothing

output_entries ==
    /\ phase = "entries"
    /\ Reopen("entry", "exit")
    /\ UNCHANGED <<file, rd, source>> /\ Nothing

Exit ==
    /\ phase = "exit"
    /\ done(0)
    /\ UNCHANGED <<file, rd, source>> /\ Nothing

-----------------------------------------------------------------------------
(* Reference: the strings of at most MaxTokens tokens that a symbol derives, *)
(* and the prefixes of all it derives (every symbol of the grammars used     *)
(* here derives some string).                                                *)

Cut(q) == SubSeq(q, 1, IF Len(q) < MaxTokens THEN Len(q) ELSE MaxTokens)

RECURSIVE Concats(_, _)
Concats(d, rhs) ==
    IF rhs = <<>> THEN {<<>>}
    ELSE {x \in {a \o b : a \in d[Head(rhs)], b \in Concats(d, Tail(rhs))} : Len(x) <= MaxTokens}

RECURSIVE Prefixes(_, _, _)
Prefixes(d, p, rhs) ==
    IF rhs = <<>> THEN {<<>>}
    ELSE p[Head(rhs)] \cup {Cut(a \o b) : a \in d[Head(rhs)], b \in Prefixes(d, p, Tail(rhs))}

RECURSIVE Derived(_)
Derived(dp) ==
    LET d2 == [X \in DOMAIN dp.d |-> IF X < g.s.start_symbol THEN dp.d[X]
                ELSE UNION {Concats(dp.d, Rhs(g, rule)) : rule \in derives(g, X)}]
        p2 == [X \in DOMAIN dp.d |-> IF X < g.s.start_symbol THEN dp.p[X]
                ELSE UNION {Prefixes(dp.d, dp.p, Rhs(g, rule)) : rule \in derives(g, X)}]
    IN  IF d2 = dp.d /\ p2 = dp.p THEN dp ELSE Derived([d |-> d2, p |-> p2])

Language ==
    LET Tok(X) == X < g.s.start_symbol
        dp == Derived([d |-> [X \in 0 .. g.s.nsyms - 1 |-> IF Tok(X) THEN {<<X>>} ELSE {}],
                       p |-> [X \in 0 .. g.s.nsyms - 1 |-> IF Tok(X) THEN {<<>>, <<X>>} ELSE {}]])
    IN  [entry \in g.entries |-> [d |-> dp.d[Rhs(g, entry)[2]], p |-> dp.p[Rhs(g, entry)[2]]]]

-----------------------------------------------------------------------------
(* The parser.  A semantic value is the derivation it was computed from:    *)
(* the symbol, the rule (0 for a token) and the values of the right hand    *)
(* side.                                                                    *)

ERRCODE == 256
Leaf(sym) == [sym |-> sym, rule |-> 0, kids |-> <<>>]
Unit == Leaf(-1)

TokenOf(v) == CHOOSE tok \in Tokens(g) \ {0} : g.s.symbol_value[tok] = v

\* yyparse, up to the first call of the engine.
yyparse(entry) ==
    /\ phase = "generated"
    /\ entry \in g.entries
    /\ phase' = "loop"
    /\ env' = [s_stack |-> [i \in 0 .. InitStack - 1 |-> 0],
               v_stack |-> [i \in 0 .. InitStack - 1 |-> Unit],
               start_stack |-> [i \in 0 .. InitStack - 1 |-> 0],
               end_stack |-> [i \in 0 .. InitStack - 1 |-> 0],
               stackbase |-> 1, curr_char |-> g.s.symbol_value[Rhs(g, entry)[1]],
               lval |-> Unit, symb_start |-> 0, symb_end |-> 0,
               sp |-> 0, asp |-> 0, state |-> 0, errflag |-> 0, rule |-> 0,
               entry |-> entry, read |-> 0, shifted |-> <<>>, errors |-> 0, raises |-> 0]
    /\ lang' = Language
    /\ UNCHANGED <<file, rd, source, fs, g, lr, la, par, tab>>

ParserKeeps == UNCHANGED <<file, rd, source, fs, g, lr, la, par, tab, lang>>

StackSize(e) == Cardinality(DOMAIN e.s_stack)

\* The place of key in the vector at base n1, or -1.
Lookup(n1, key) ==
    LET n2 == n1 + key
    IN  IF n1 # 0 /\ n2 >= 0 /\ n2 <= tab.tablesize /\ tab.check[n2] = key THEN n2 ELSE -1

\* Label reduce of caml_parse_engine, up to the call of the semantic action.
Reduced(e, n) ==
    LET sp == e.sp - tab.len[n] + 1
        m == tab.lhs[n]
        state1 == e.s_stack[sp - 1]
        n2 == Lookup(tab.gindex[m], state1)
    IN  [e EXCEPT !.asp = e.sp, !.rule = n, !.sp = sp,
                  !.state = IF n2 >= 0 THEN tab.table[n2] ELSE tab.dgoto[m]]

AfterReduce(e) == IF e.sp < StackSize(e) THEN "action" ELSE "grow2"

Pushed(e) ==
    [e EXCEPT !.s_stack[e.sp] = e.state, !.v_stack[e.sp] = e.lval,
              !.start_stack[e.sp] = e.symb_start, !.end_stack[e.sp] = e.symb_end]

ShiftTo(e, n2) ==
    LET e1 == [e EXCEPT !.state = tab.table[n2], !.sp = @ + 1]
    IN  IF e1.sp < StackSize(e1)
        THEN env' = Pushed(e1) /\ phase' = "loop"
        ELSE env' = e1 /\ phase' = "grow1"

\* Labels loop and testshift: a default reduction, or the action on the current
\* token; a token is asked for when there is none.
loop ==
    /\ phase = "loop"
    /\ LET n == tab.defred[env.state]
       IN  \/ n # 0 /\ env' = Reduced(env, n) /\ phase' = AfterReduce(env')
           \/ n = 0 /\ env.curr_char >= 0 /\ phase' = "testshift" /\ UNCHANGED env
           \/ n = 0 /\ env.curr_char < 0 /\ phase' = "read" /\ UNCHANGED env
    /\ ParserKeeps

\* Read_token and TOKEN_READ: the k-th token lies between the positions 2k - 1
\* and 2k.  At the end of its input the lexer returns EOF.
TokenRead ==
    /\ phase = "read"
    /\ \E tok \in tab.transl :
          /\ env.read >= MaxTokens => g.s.symbol_name[tok] = "EOF"
          /\ env' = [env EXCEPT !.curr_char = g.s.symbol_value[tok], !.lval = Leaf(tok),
                                !.symb_start = 2 * env.read + 1, !.symb_end = 2 * env.read + 2,
                                !.read = IF @ < MaxTokens THEN @ + 1 ELSE @]
    /\ phase' = "testshift"
    /\ ParserKeeps

testshift ==
    /\ phase = "testshift"
    /\ LET s == Lookup(tab.sindex[env.state], env.curr_char)
           r == Lookup(tab.rindex[env.state], env.curr_char)
       IN  \/ /\ s >= 0
              /\ ShiftTo([env EXCEPT !.curr_char = -1, !.errflag = IF @ > 0 THEN @ - 1 ELSE 0,
                                     !.shifted = Append(@, TokenOf(env.curr_char))], s)
           \/ s < 0 /\ r >= 0 /\ env' = Reduced(env, tab.table[r]) /\ phase' = AfterReduce(env')
           \/ s < 0 /\ r < 0 /\ env.errflag > 0 /\ phase' = "recover" /\ UNCHANGED env
           \/ s < 0 /\ r < 0 /\ env.errflag = 0 /\ phase' = "error" /\ UNCHANGED env
    /\ ParserKeeps

\* The error function returns; Error_detected.
ErrorDetected ==
    /\ phase = "error"
    /\ phase' = "recover"
    /\ env' = [env EXCEPT !.errors = @ + 1]
    /\ ParserKeeps

\* The states from the top down to the base that can shift the error token.
Recovering(e) == {i \in e.stackbase .. e.sp : Lookup(tab.sindex[e.s_stack[i]], ERRCODE) >= 0}

recover ==
    /\ phase = "recover"
    /\ LET places == Recovering(env)
           i == CHOOSE x \in places : \A y \in places : y <= x
       IN  \/ /\ env.errflag < 3 /\ places # {}
              /\ ShiftTo([env EXCEPT !.sp = i, !.errflag = 3],
                         Lookup(tab.sindex[env.s_stack[i]], ERRCODE))
           \/ env.errflag < 3 /\ places = {} /\ phase' = "Parse_error" /\ UNCHANGED env
           \/ env.errflag = 3 /\ env.curr_char = 0 /\ phase' = "Parse_error" /\ UNCHANGED env
           \/ /\ env.errflag = 3 /\ env.curr_char # 0
              /\ env' = [env EXCEPT !.curr_char = -1]
              /\ phase' = "loop"
    /\ ParserKeeps

Doubled(f, default) ==
    LET n == Cardinality(DOMAIN f) IN [i \in 0 .. 2 * n - 1 |-> IF i < n THEN f[i] ELSE default]

grow_stacks(e) ==
    [e EXCEPT !.s_stack = Doubled(@, 0), !.v_stack = Doubled(@, Unit),
              !.start_stack = Doubled(@, 0), !.end_stack = Doubled(@, 0)]

GrowStacks1 ==
    /\ phase = "grow1"
    /\ env' = Pushed(grow_stacks(env))
    /\ phase' = "loop"
    /\ ParserKeeps

GrowStacks2 ==
    /\ phase = "grow2"
    /\ env' = grow_stacks(env)
    /\ phase' = "action"
    /\ ParserKeeps

peek_val(e, n) == e.v_stack[e.asp - n]

\* The generated action: a node over the values of the right hand side; an entry
\* rule leaves the parser with the value of its symbol.
SemanticAction ==
    /\ phase = "action"
    /\ LET n == tab.len[env.rule]
           node == [sym |-> g.rlhs[env.rule + 2], rule |-> env.rule + 2,
                    kids |-> [k \in 1 .. n |-> peek_val(env, n - k)]]
       IN  \/ /\ env.rule + 2 \in g.entries
              /\ env' = [env EXCEPT !.lval = peek_val(env, 0)]
              /\ phase' = "YYexit"
           \/ /\ env.rule + 2 \notin g.entries
              /\ env' = [env EXCEPT !.s_stack[env.sp] = env.state, !.v_stack[env.sp] = node,
                                    !.end_stack[env.sp] = env.end_stack[env.asp],
                                    !.start_stack[env.sp] =
                                        IF env.sp > env.asp THEN env.end_stack[env.asp] ELSE @]
              /\ phase' = "loop"
           \/ /\ env.rule + 2 \notin g.entries
              /\ env.raises < MaxRaises /\ (RaiseAnywhere \/ (n > 0 /\ env.errflag < 3))
              /\ env' = [env EXCEPT !.raises = @ + 1]
              /\ phase' = "recover"
    /\ ParserKeeps

Stop ==
    /\ phase \in {"failed", "YYexit", "Parse_error"}
    /\ UNCHANGED vars

-----------------------------------------------------------------------------
Init ==
    /\ source \in DOMAIN Sources
    /\ file = Sources[source]
    /\ ReaderInit
    /\ phase = "open"
    /\ fs = [f \in Temps \cup Outputs |-> [exists |-> FALSE, stream |-> FALSE]]
    /\ g = None /\ lr = None /\ la = None /\ par = None /\ tab = None /\ lang = None /\ env = None

Next ==
    \/ open_files \/ onintr \/ reader \/ lr0 \/ Lalr \/ MakeParser
    \/ Output \/ output_semantic_actions \/ output_entries \/ Exit
    \/ phase = "generated" /\ \E entry \in g.entries : yyparse(entry)
    \/ loop \/ TokenRead \/ testshift \/ ErrorDetected \/ recover
    \/ GrowStacks1 \/ GrowStacks2 \/ SemanticAction \/ Stop

Spec == Init /\ [][Next]_vars

-----------------------------------------------------------------------------
(* Properties                                                               *)

\* When ocamlyacc ends, the .ml and .mli files are there exactly if it
\* succeeded, and no temporary file is left but one that could not be opened
\* again (done, open_error and onintr of main.c at every step of main).
OutputsWhole ==
    /\ phase = "failed" =>
          /\ \A f \in Outputs : ~fs[f].exists
          /\ \A f \in Temps : fs[f].exists => ~fs[f].stream
    /\ phase = "generated" =>
          (\A f \in Outputs : fs[f].exists) /\ (\A f \in Temps : ~fs[f].exists)

\* lalr.c computes, with its relations and one traversal of each, exactly the
\* lookaheads that merging the canonical LR(1) sets of equal core gives.
LookaheadsExact == phase = "make_parser" => la.LA = MergedLookaheads(g, lr)

RowsExact(s) ==
    LET live == {par.parser[s][i] : i \in {k \in DOMAIN par.parser[s] : par.parser[s][k].suppressed = 0}}
        Acts(tok, code) == {a.number : a \in {b \in live : b.symbol = tok /\ b.code = code}}
    IN  \A tok \in Tokens(g) :
          LET v == g.s.symbol_value[tok]
              n2 == Lookup(tab.sindex[s], v)
              n3 == Lookup(tab.rindex[s], v)
              twins == {t \in Tokens(g) : g.s.symbol_value[t] = v}
          IN  /\ UNION {Acts(t, "SHIFT") : t \in twins} = IF n2 >= 0 THEN {tab.table[n2]} ELSE {}
              /\ UNION {Acts(t, "REDUCE") : t \in twins} \ {par.defred[s]}
                    = IF n3 >= 0 THEN {tab.table[n3] + 2} ELSE {}

GotosExact(X) ==
    LET v == g.s.symbol_value[X]
    IN  \A s \in States(lr) : X \in DOMAIN Shift(lr, s) =>
          LET n2 == Lookup(tab.gindex[v], s)
          IN  Shift(lr, s)[X] = IF n2 >= 0 THEN tab.table[n2] ELSE tab.dgoto[v]

\* The packed tables, read the way parsing.c reads them, give for every state
\* and token the action that conflict resolution left, for every state and
\* nonterminal the goto of the automaton; the report of -v says the same.  No two
\* tokens have the same value, although the file gives some of them theirs.
TablesExact ==
    phase = "actions" =>
        /\ \A s, t \in 1 .. g.s.ntokens - 1 :
              s # t => g.s.symbol_value[s] # g.s.symbol_value[t]
        /\ \A s \in States(lr) : RowsExact(s)
        /\ \A X \in Vars(g) \ {g.s.start_symbol} : GotosExact(X)
        /\ \A s \in States(lr) :
              LET rep == verbose(g, lr, par)[s]
              IN  /\ \A x \in rep.shifts : tab.table[Lookup(tab.sindex[s], g.s.symbol_value[x[1]])] = x[2]
                  /\ \A x \in rep.reductions : tab.table[Lookup(tab.rindex[s], g.s.symbol_value[x[1]])] = x[2]
                  /\ rep.default = tab.defred[s]
                  /\ rep.gotos = {<<x.sym, x.to>> : x \in {la.gotos[k] : k \in {j \in DOMAIN la.gotos :
                                                                la.gotos[j].from = s}}}
                  /\ rep.nulls # {} => s \in {q \in States(lr) : \E i \in lr.reds[q + 1] : i \in rep.nulls}

RECURSIVE Yield(_)
Yield(v) ==
    IF v.rule = 0 THEN <<v.sym>>
    ELSE SX!FoldLeft(LAMBDA acc, k : acc \o Yield(k), <<>>, v.kids)

RECURSIVE IsDerivation(_)
IsDerivation(v) ==
    v.rule # 0 => /\ Len(v.kids) = Len(Rhs(g, v.rule))
                  /\ \A k \in DOMAIN v.kids : Rhs(g, v.rule)[k] \in {1, v.kids[k].sym}
                  /\ v.sym = g.rlhs[v.rule]
                  /\ \A k \in DOMAIN v.kids : IsDerivation(v.kids[k])

Parsing == {"loop", "read", "testshift", "error"}

\* At every step of a parse, before and after errors are recovered from and the
\* stacks have grown, the stack is a path of the automaton from state 0 along
\* the symbols of its values, each value was computed by derivations of the
\* grammar, and positions do not decrease; the parser goes on in the state on top.
StackSound ==
    phase \in Parsing =>
        /\ phase = "loop" /\ env.sp > 0 => env.state = env.s_stack[env.sp]
        /\ \A i \in 1 .. env.sp :
               LET below == IF i = 1 THEN 0 ELSE env.s_stack[i - 1]
                   sym == IF i = 1 THEN Rhs(g, env.entry)[1]
                          ELSE IF Accessing(lr, env.s_stack[i]) = 1 THEN 1 ELSE env.v_stack[i].sym
               IN  /\ sym \in DOMAIN Shift(lr, below)
                   /\ env.s_stack[i] = Shift(lr, below)[sym]
                   /\ i > 1 /\ sym # 1 => IsDerivation(env.v_stack[i])
                   /\ env.start_stack[i] <= env.end_stack[i]
                   /\ i > 1 => env.end_stack[i - 1] <= env.end_stack[i]

Unambiguous == \A s \in States(lr) : \A i \in DOMAIN par.parser[s] : par.parser[s][i].suppressed = 0

\* In a derivation of operators, the operand to the left of an operator binds
\* tighter or equally if the operator associates to the left, and the operand
\* to its right tighter or equally if it associates to the right.
RECURSIVE Ordered(_)
Ordered(v) ==
    /\ \A k \in DOMAIN v.kids : Ordered(v.kids[k])
    /\ v.rule # 0 /\ Len(v.kids) = 3 /\ v.kids[1].sym = v.sym /\ v.kids[3].sym = v.sym =>
         LET Binary(x) == x.rule # 0 /\ Len(x.kids) = 3 /\ x.kids[1].sym = x.sym /\ g.rprec[x.rule] > 0
             p == g.rprec[v.rule]
         IN  p > 0 =>
             /\ Binary(v.kids[1]) => \/ g.rprec[v.kids[1].rule] > p
                                     \/ g.rprec[v.kids[1].rule] = p /\ g.rassoc[v.rule] = LEFT
             /\ Binary(v.kids[3]) => \/ g.rprec[v.kids[3].rule] > p
                                     \/ g.rprec[v.kids[3].rule] = p /\ g.rassoc[v.rule] = RIGHT

\* Without errors, a parse that succeeds has read a sentence of its entry point,
\* and its value is a derivation of that sentence.  If no conflict had to be
\* resolved, a syntax error is detected at the first token that no sentence
\* continues with, before that token is shifted.  %left, %right and %nonassoc
\* decide how operators group.
LanguageExact ==
    LET w == Tail(env.shifted)
    IN  /\ phase = "YYexit" /\ env.errors = 0 /\ env.raises = 0 =>
              /\ Len(w) <= MaxTokens => w \in lang[env.entry].d
              /\ Yield(env.lval) = w
              /\ Ordered(env.lval)
        /\ phase = "error" /\ env.errors = 0 /\ env.raises = 0 /\ Unambiguous /\ Len(w) < MaxTokens =>
              Append(w, TokenOf(env.curr_char)) \notin lang[env.entry].p

\* What ocamlyacc leaves on disk: whole files, and tables that say what the grammar does.
FilesExact == OutputsWhole /\ TablesExact

\* A parse, through parsing.c and parsing.ml: sound at every step, right at its end.
ParsesExact == StackSound /\ LanguageExact

====
