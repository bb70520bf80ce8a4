---- MODULE YaccTables ----
(***************************************************************************)
(* The table builder of ocamlyacc (yacc/closure.c, warshall.c, lr0.c,      *)
(* lalr.c, mkpar.c, verbose.c, output.c): from the packed grammar g to the *)
(* LR(0) automaton, the LALR(1) lookaheads, the action of every state and  *)
(* token after the conflicts are resolved, and the comb-packed tables that *)
(* byterun/parsing.c interprets.                                           *)
(*                                                                         *)
(* An item is an index into g.ritem; a set of items stands for the sorted  *)
(* array of the code.                                                      *)
(***************************************************************************)
EXTENDS Integers, Sequences, FiniteSets

SX == INSTANCE SequencesExt

\* 1 .. Cardinality(S) in increasing order.
Ascending(S) ==
    [i \in 1 .. Cardinality(S) |-> CHOOSE x \in S : Cardinality({y \in S : y < x}) = i - 1]

FoldLeft(op(_, _), base, q) == SX!FoldLeft(op, base, q)

ISVAR(g, sym) == sym >= g.s.start_symbol
ISTOKEN(g, sym) == sym >= 0 /\ sym < g.s.start_symbol

Tokens(g) == 0 .. g.s.ntokens - 1
Vars(g) == g.s.start_symbol .. g.s.nsyms - 1
Rules(g) == 2 .. g.nrules - 1
Rhs(g, rule) == [k \in 1 .. g.rrhs[rule + 1] - g.rrhs[rule] - 1 |-> g.ritem[g.rrhs[rule] + k - 1]]

derives(g, X) == {rule \in Rules(g) : g.rlhs[rule] = X}

-----------------------------------------------------------------------------
(* closure.c and lr0.c                                                      *)

RECURSIVE set_nullable(_, _)
set_nullable(g, N) ==
    LET more == {g.rlhs[rule] : rule \in {x \in Rules(g) :
                     \A k \in DOMAIN Rhs(g, x) : Rhs(g, x)[k] \in N}}
    IN  IF more \subseteq N THEN N ELSE set_nullable(g, N \cup more)

WarshallStep(R, i) == [j \in DOMAIN R |-> IF i \in R[j] THEN R[j] \cup R[i] ELSE R[j]]

transitive_closure(R) == FoldLeft(WarshallStep, R, Ascending(DOMAIN R))

reflexive_transitive_closure(R) ==
    LET T == transitive_closure(R) IN [X \in DOMAIN R |-> T[X] \cup {X}]

\* EFF[X]: the nonterminals with which a sentential form of X can begin
\* when no symbol is erased.
set_EFF(g) ==
    reflexive_transitive_closure(
        [X \in Vars(g) |-> {g.ritem[g.rrhs[rule]] : rule \in derives(g, X)} \cap Vars(g)])

set_first_derives(g) ==
    LET EFF == set_EFF(g) IN [X \in Vars(g) |-> UNION {derives(g, Y) : Y \in EFF[X]}]

closure(g, first_derives, nucleus) ==
    LET ruleset == UNION {first_derives[g.ritem[i]] : i \in {k \in nucleus : ISVAR(g, g.ritem[k])}}
    IN  nucleus \cup {g.rrhs[rule] : rule \in ruleset}

\* The automaton under construction: the states in the order of their numbers
\* (cores[s + 1] is state s) and, for those already processed, their shifts
\* and reductions.
initialize_states(g) ==
    [cores |-> <<{g.rrhs[rule] : rule \in derives(g, g.s.start_symbol)}>>, accessing |-> <<0>>,
     shift |-> <<>>, reds |-> <<>>, nullable |-> set_nullable(g, {}),
     first_derives |-> set_first_derives(g)]

new_itemsets(g, itemset) ==
    LET syms == {g.ritem[i] : i \in itemset} \cap (1 .. g.s.nsyms - 1)
    IN  [sym \in syms |-> {i + 1 : i \in {k \in itemset : g.ritem[k] = sym}}]

save_reductions(g, itemset) == {-g.ritem[i] : i \in {k \in itemset : g.ritem[k] < 0}}

\* get_state: the state of a kernel, found or created.
get_state(lr, kernel, sym) ==
    IF \E n \in DOMAIN lr.cores : lr.cores[n] = kernel THEN lr
    ELSE [lr EXCEPT !.cores = Append(@, kernel), !.accessing = Append(@, sym)]

StateOf(lr, kernel) == (CHOOSE n \in DOMAIN lr.cores : lr.cores[n] = kernel) - 1

\* One round of generate_states: the next state is closed, its reductions and
\* shifts are saved, and the states it leads to are numbered in the order of
\* the symbols.
generate_state(g, lr) ==
    LET this == Len(lr.shift) + 1
        itemset == closure(g, lr.first_derives, lr.cores[this])
        kernels == new_itemsets(g, itemset)
        append_states == FoldLeft(LAMBDA a, sym : get_state(a, kernels[sym], sym),
                                 lr, Ascending(DOMAIN kernels))
    IN  [append_states EXCEPT
            !.shift = Append(@, [sym \in DOMAIN kernels |-> StateOf(append_states, kernels[sym])]),
            !.reds = Append(@, save_reductions(g, itemset))]

Generated(lr) == Len(lr.shift) = Len(lr.cores)

States(lr) == 0 .. Len(lr.cores) - 1
Shift(lr, s) == lr.shift[s + 1]
Accessing(lr, s) == lr.accessing[s + 1]

-----------------------------------------------------------------------------
(* lalr.c: lookaheads by DeRemer and Pennello's relations.  A goto is a     *)
(* transition on a nonterminal; gotos are numbered from 1 by symbol, then   *)
(* by state.                                                                *)

set_goto_map(g, lr) ==
    LET From(X) == Ascending({s \in States(lr) : X \in DOMAIN Shift(lr, s)})
        Column(X) == [k \in DOMAIN From(X) |->
                         [from |-> From(X)[k], sym |-> X, to |-> Shift(lr, From(X)[k])[X]]]
    IN  FoldLeft(LAMBDA q, X : q \o Column(X), <<>>, Ascending(Vars(g)))

goto_map(gotos, X) == Cardinality({k \in DOMAIN gotos : gotos[k].sym < X}) + 1

RECURSIVE MapGoto(_, _, _, _)
MapGoto(gotos, s, low, high) ==
    LET middle == (low + high) \div 2
    IN  CASE gotos[middle].from = s -> middle
          [] gotos[middle].from < s -> MapGoto(gotos, s, middle + 1, high)
          [] OTHER                  -> MapGoto(gotos, s, low, middle - 1)

map_goto(gotos, s, X) == MapGoto(gotos, s, goto_map(gotos, X), goto_map(gotos, X + 1))

\* digraph: F[i] becomes the union of the F[j] with j reachable from i in R,
\* by one depth-first traversal that shares the result within a strongly
\* connected component.
Lower(x, y) == IF y < x THEN y ELSE x

PopOne(st, i, infinity) ==
    [st EXCEPT !.vertices = SubSeq(@, 1, Len(@) - 1), !.index[i] = infinity]

RECURSIVE PopComponent(_, _, _)
PopComponent(st, i, infinity) ==
    LET j == st.vertices[Len(st.vertices)]
        popped == [st EXCEPT !.vertices = SubSeq(@, 1, Len(@) - 1), !.index[j] = infinity,
                             !.F[j] = st.F[i]]
    IN  IF j = i THEN popped ELSE PopComponent(popped, i, infinity)

RECURSIVE traverse(_, _, _)
RECURSIVE VisitEdges(_, _, _, _)
VisitEdges(R, st, i, edges) ==
    IF edges = <<>> THEN st
    ELSE LET j == Head(edges)
             a == IF st.index[j] = 0 THEN traverse(R, st, j) ELSE st
             b == [a EXCEPT !.index[i] = Lower(@, a.index[j]), !.F[i] = @ \cup a.F[j]]
         IN  VisitEdges(R, b, i, Tail(edges))
traverse(R, st, i) ==
    LET height == Len(st.vertices) + 1
        entered == [st EXCEPT !.vertices = Append(@, i), !.index[i] = height]
        visited == VisitEdges(R, entered, i, R[i])
    IN  IF visited.index[i] = height THEN PopComponent(visited, i, Len(R) + 2) ELSE visited

digraph(R, F) ==
    LET Visit(st, i) == IF st.index[i] = 0 /\ R[i] # <<>> THEN traverse(R, st, i) ELSE st
        st0 == [F |-> F, index |-> [i \in DOMAIN F |-> 0], vertices |-> <<>>]
    IN  FoldLeft(Visit, st0, [i \in DOMAIN F |-> i]).F

\* The tokens read directly after a goto, and through nullable nonterminals.
initialize_F(g, lr, gotos) ==
    LET next(i) == DOMAIN Shift(lr, gotos[i].to)
        direct == [i \in DOMAIN gotos |-> {t \in next(i) : ISTOKEN(g, t)}
                                          \cup (IF i = 1 THEN {0} ELSE {})]
        nulls(i) == Ascending({X \in next(i) : ISVAR(g, X) /\ X \in lr.nullable})
        reads == [i \in DOMAIN gotos |->
                     [k \in DOMAIN nulls(i) |-> map_goto(gotos, gotos[i].to, nulls(i)[k])]]
    IN  digraph(reads, direct)

\* The states passed through by the right hand side of a rule from state s.
RECURSIVE Path(_, _, _)
Path(lr, s, rhs) == IF rhs = <<>> THEN <<s>> ELSE <<s>> \o Path(lr, Shift(lr, s)[Head(rhs)], Tail(rhs))

\* The gotos of path that the goto in question includes: from the right end,
\* as long as what follows can be erased.
RECURSIVE IncludedFrom(_, _, _, _, _, _)
IncludedFrom(g, lr, gotos, path, rhs, length) ==
    IF length = 0 \/ ~ISVAR(g, rhs[length]) THEN {}
    ELSE {map_goto(gotos, path[length], rhs[length])}
         \cup (IF rhs[length] \in lr.nullable
               THEN IncludedFrom(g, lr, gotos, path, rhs, length - 1) ELSE {})

build_relations(g, lr, gotos) ==
    LET Ways == {<<i, rule>> \in (DOMAIN gotos) \X Rules(g) : g.rlhs[rule] = gotos[i].sym}
        path(w) == Path(lr, gotos[w[1]].from, Rhs(g, w[2]))
        edges(i) == UNION {IncludedFrom(g, lr, gotos, path(w), Rhs(g, w[2]), Len(Rhs(g, w[2]))) :
                              w \in {x \in Ways : x[1] = i}}
        alledges == [i \in DOMAIN gotos |-> edges(i)]
        transpose == [j \in DOMAIN gotos |-> Ascending({i \in DOMAIN gotos : j \in alledges[i]})]
        ends == [w \in Ways |-> path(w)[Len(path(w))]]
    IN  [includes |-> transpose,
         lookback |-> [s \in States(lr) |-> [rule \in lr.reds[s + 1] |->
                          {w[1] : w \in {x \in Ways : x[2] = rule /\ ends[x] = s}}]]]

lalr(g, lr) ==
    LET gotos == set_goto_map(g, lr)
        rel == build_relations(g, lr, gotos)
        compute_FOLLOWS == digraph(rel.includes, initialize_F(g, lr, gotos))
    IN  [gotos |-> gotos,
         LA |-> [s \in States(lr) |-> [rule \in lr.reds[s + 1] |->
                    UNION {compute_FOLLOWS[i] : i \in rel.lookback[s][rule]}]]]

-----------------------------------------------------------------------------
(* mkpar.c: the actions of a state, in the order of the tokens, a shift     *)
(* before the reductions of the same token and these by rule number.        *)

Act(sym, code, number, prec, assoc) ==
    [symbol |-> sym, code |-> code, number |-> number, prec |-> prec, assoc |-> assoc,
     suppressed |-> 0]

get_shifts(g, lr, s, tok) ==
    IF tok \in DOMAIN Shift(lr, s)
    THEN <<Act(tok, "SHIFT", Shift(lr, s)[tok], g.s.symbol_prec[tok], g.s.symbol_assoc[tok])>>
    ELSE <<>>

add_reductions(g, la, s, tok) ==
    LET rules == Ascending({rule \in DOMAIN la.LA[s] : tok \in la.LA[s][rule]})
    IN  [k \in DOMAIN rules |-> Act(tok, "REDUCE", rules[k], g.rprec[rules[k]], g.rassoc[rules[k]])]

parse_actions(g, lr, la, s) ==
    FoldLeft(LAMBDA q, tok : q \o get_shifts(g, lr, s, tok) \o add_reductions(g, la, s, tok),
            <<>>, Ascending(Tokens(g)))

find_final_state(g, lr) == Shift(lr, 0)[g.ritem[1]]

\* The preferred action of a token against the next one of the same token.
Resolve(final, pref, p) ==
    CASE final /\ p.symbol = 0 -> "sr"
      [] pref.code # "SHIFT"   -> "rr"
      [] pref.prec = 0 \/ p.prec = 0 -> "sr"
      [] pref.prec < p.prec    -> "reduce"
      [] pref.prec > p.prec    -> "shift"
      [] pref.assoc = 1        -> "reduce"
      [] pref.assoc = 2        -> "shift"
      [] OTHER                 -> "neither"

RECURSIVE RemoveConflicts(_, _, _, _)
RemoveConflicts(final, acts, pref, i) ==
    LET p == acts[i]
        what == Resolve(final, acts[pref], p)
        mark1 == [acts EXCEPT ![i].suppressed = 1]
        markp == [acts EXCEPT ![i].suppressed = 2]
        markf == [acts EXCEPT ![pref].suppressed = 2]
    IN  CASE i > Len(acts) -> acts
          [] i = 1 \/ p.symbol # acts[pref].symbol -> RemoveConflicts(final, acts, i, i + 1)
          [] what \in {"sr", "rr"} -> RemoveConflicts(final, mark1, pref, i + 1)
          [] what = "reduce"  -> RemoveConflicts(final, markf, i, i + 1)
          [] what = "shift"   -> RemoveConflicts(final, markp, pref, i + 1)
          [] what = "neither" -> RemoveConflicts(final, [markf EXCEPT ![i].suppressed = 2], pref, i + 1)

remove_conflicts(final, acts) == RemoveConflicts(final, acts, 1, 1)

sole_reduction_eager(acts) ==
    LET reds == {acts[i].number : i \in {k \in DOMAIN acts : acts[k].suppressed = 0
                                                             /\ acts[k].code = "REDUCE"}}
    IN  IF Cardinality(reds) = 1 THEN CHOOSE rule \in reds : TRUE ELSE 0

\* A state whose only action left is one reduction, on some token other than
\* error, needs no lookahead.
sole_reduction(acts) ==
    LET live == {i \in DOMAIN acts : acts[i].suppressed = 0}
        rules == {acts[i].number : i \in live}
    IN  IF /\ \A i \in live : acts[i].code = "REDUCE"
           /\ Cardinality(rules) = 1
           /\ \E i \in live : acts[i].symbol # 1
        THEN CHOOSE rule \in rules : TRUE
        ELSE 0

make_parser(g, lr, la) ==
    LET final == find_final_state(g, lr)
        parser == [s \in States(lr) |-> remove_conflicts(s = final, parse_actions(g, lr, la, s))]
    IN  [parser |-> parser, final |-> final,
         defred |-> [s \in States(lr) |-> sole_reduction(parser[s])],
         unused |-> {rule \in 3 .. g.nrules - 1 : \A s \in States(lr) : \A i \in DOMAIN parser[s] :
                        ~(parser[s][i].code = "REDUCE" /\ parser[s][i].suppressed = 0
                          /\ parser[s][i].number = rule)}]

-----------------------------------------------------------------------------
(* verbose.c: what the report says of a state.                              *)

print_shifts(acts) ==
    {<<acts[i].symbol, acts[i].number>> : i \in {k \in DOMAIN acts :
        acts[k].code = "SHIFT" /\ acts[k].suppressed = 0}}

print_reductions(acts, defred) ==
    {<<acts[i].symbol, acts[i].number - 2>> : i \in {k \in DOMAIN acts :
        acts[k].code = "REDUCE" /\ acts[k].number # defred /\ acts[k].suppressed = 0}}

print_nulls(g, acts) ==
    {acts[i].number : i \in {k \in DOMAIN acts : acts[k].code = "REDUCE"
        /\ acts[k].suppressed < 2 /\ Rhs(g, acts[k].number) = <<>>}}

print_gotos(g, lr, s) == {<<X, Shift(lr, s)[X]>> : X \in {Y \in DOMAIN Shift(lr, s) : ISVAR(g, Y)}}

print_conflicts(acts) == {i \in DOMAIN acts : acts[i].suppressed = 1}

verbose(g, lr, par) ==
    [s \in States(lr) |->
        [shifts |-> print_shifts(par.parser[s]),
         reductions |-> print_reductions(par.parser[s], par.defred[s]),
         default |-> IF par.defred[s] > 0 THEN par.defred[s] - 2 ELSE 0,
         gotos |-> print_gotos(g, lr, s), nulls |-> print_nulls(g, par.parser[s]),
         conflicts |-> print_conflicts(par.parser[s])]]

-----------------------------------------------------------------------------
(* output.c: the rows of shifts (vectors 0 .. nstates - 1) and reductions,  *)
(* the columns of gotos, packed into one table with a check array.          *)

Live(acts, code) == {i \in DOMAIN acts : acts[i].code = code /\ acts[i].suppressed = 0}

\* A vector lists where its entries are (the value of a token, a state) and
\* what they hold, in the order of the symbols.
Vector(keys, from(_), to(_)) ==
    LET k == Ascending(keys) IN [i \in DOMAIN k |-> <<from(k[i]), to(k[i])>>]

shift_row(g, par, s) ==
    LET acts == par.parser[s]
        At_(tok) == CHOOSE i \in Live(acts, "SHIFT") : acts[i].symbol = tok
    IN  Vector({acts[i].symbol : i \in Live(acts, "SHIFT")},
               LAMBDA tok : g.s.symbol_value[tok], LAMBDA tok : acts[At_(tok)].number)

reduce_row(g, par, s) ==
    LET acts == par.parser[s]
        some == {i \in Live(acts, "REDUCE") : acts[i].number # par.defred[s]}
        At_(tok) == CHOOSE i \in some : acts[i].symbol = tok
    IN  Vector({acts[i].symbol : i \in some},
               LAMBDA tok : g.s.symbol_value[tok], LAMBDA tok : acts[At_(tok)].number - 2)

Column(la, X) == {k \in DOMAIN la.gotos : la.gotos[k].sym = X}

\* The state most gotos of X lead to, the lowest of these.
default_goto(la, X) ==
    LET tos == {la.gotos[k].to : k \in Column(la, X)}
        count(s) == Cardinality({k \in Column(la, X) : la.gotos[k].to = s})
    IN  IF tos = {} THEN 0
        ELSE CHOOSE s \in tos : \A t \in tos : count(t) < count(s) \/ (count(t) = count(s) /\ s <= t)

save_column(la, X, default) ==
    Vector({k \in Column(la, X) : la.gotos[k].to # default},
           LAMBDA k : la.gotos[k].from, LAMBDA k : la.gotos[k].to)

Width(v) ==
    LET f == {v[i][1] : i \in DOMAIN v}
    IN  (CHOOSE x \in f : \A y \in f : y <= x) - (CHOOSE x \in f : \A y \in f : y >= x) + 1

\* sort_actions: the wide vectors first, among these the full ones; those that
\* tie stay in the order of their numbers.
sort_actions(vectors) ==
    LET some == {i \in DOMAIN vectors : vectors[i] # <<>>}
        Before(i, j) == LET wi == Width(vectors[i]) wj == Width(vectors[j])
                            ti == Len(vectors[i])   tj == Len(vectors[j])
                        IN  wi > wj \/ (wi = wj /\ (ti > tj \/ (ti = tj /\ i < j)))
    IN  [k \in 1 .. Cardinality(some) |->
            CHOOSE i \in some : Cardinality({j \in some : Before(j, i)}) = k - 1]

\* A row equal to one already placed shares its place; columns never match.
matching_vector(vectors, nstates, pk, i) ==
    LET same == {j \in DOMAIN pk.base : vectors[j] = vectors[i]}
    IN  IF i >= 2 * nstates \/ same = {} THEN -1 ELSE CHOOSE j \in same : TRUE

RECURSIVE FindPlace_shared(_, _, _)
FindPlace_shared(pk, v, j) ==
    IF j # 0 /\ \A k \in DOMAIN v : j + v[k][1] \notin DOMAIN pk.check
    THEN j ELSE FindPlace_shared(pk, v, j + 1)

RECURSIVE FindPlace(_, _, _)
FindPlace(pk, v, j) ==
    IF /\ j # 0
       /\ \A k \in DOMAIN v : j + v[k][1] \notin DOMAIN pk.check
       /\ \A i \in DOMAIN pk.base : pk.base[i] # j
    THEN j ELSE FindPlace(pk, v, j + 1)

Put(f, x, y) == [z \in DOMAIN f \cup {x} |-> IF z = x THEN y ELSE f[z]]

FirstFree(cells) == CHOOSE n \in 0 .. Cardinality(cells) : n \notin cells /\ \A m \in 0 .. n - 1 : m \in cells

pack_vector(pk, v) ==
    LET lowest == CHOOSE x \in {pk.lowzero - v[k][1] : k \in DOMAIN v} :
                      \A k \in DOMAIN v : pk.lowzero - v[k][1] <= x
        j == FindPlace(pk, v, lowest)
        Fill(p, e) == [p EXCEPT !.table = Put(@, j + e[1], e[2]), !.check = Put(@, j + e[1], e[1])]
        full == FoldLeft(Fill, pk, v)
    IN  <<j, [full EXCEPT !.lowzero = FirstFree(DOMAIN full.check)]>>

PlaceVector(vectors, nstates, pk, i) ==
    LET m == matching_vector(vectors, nstates, pk, i)
        p == pack_vector(pk, vectors[i])
    IN  IF m >= 0 THEN [pk EXCEPT !.base = Put(@, i, pk.base[m])]
        ELSE [p[2] EXCEPT !.base = Put(@, i, p[1])]

EmptyPack == [base |-> <<>>, table |-> <<>>, check |-> <<>>, lowzero |-> 0]

pack_table(vectors, nstates) ==
    FoldLeft(LAMBDA pk, i : PlaceVector(vectors, nstates, pk, i), EmptyPack, sort_actions(vectors))

\* A table is written as a string of 16-bit numbers and read back by Short.
output_short(n) == ((n + 32768) % 65536) - 32768

output(g, lr, la, par) ==
    LET n == Len(lr.cores)
        nvars == g.s.nsyms - g.s.ntokens
        dgoto == [X \in Vars(g) |-> default_goto(la, X)]
        vectors == [i \in 0 .. 2 * n + nvars - 2 |->
                      IF i < n THEN shift_row(g, par, i)
                      ELSE IF i < 2 * n THEN reduce_row(g, par, i - n)
                      ELSE save_column(la, g.s.start_symbol + 1 + i - 2 * n,
                                       dgoto[g.s.start_symbol + 1 + i - 2 * n])]
        pk == pack_table(vectors, n)
        Base(i) == IF i \in DOMAIN pk.base THEN output_short(pk.base[i]) ELSE 0
        high == CHOOSE x \in DOMAIN pk.check : \A y \in DOMAIN pk.check : y <= x
    IN  [lhs |-> [rule \in 1 .. g.nrules - 3 |-> output_short(g.s.symbol_value[g.rlhs[rule + 2]])],
         len |-> [rule \in 1 .. g.nrules - 3 |-> output_short(Len(Rhs(g, rule + 2)))],
         defred |-> [s \in States(lr) |-> IF par.defred[s] # 0 THEN par.defred[s] - 2 ELSE 0],
         dgoto |-> [v \in 0 .. nvars - 2 |-> output_short(dgoto[g.s.start_symbol + 1 + v])],
         sindex |-> [s \in States(lr) |-> Base(s)],
         rindex |-> [s \in States(lr) |-> Base(n + s)],
         gindex |-> [v \in 0 .. nvars - 2 |-> Base(2 * n + v)],
         tablesize |-> high,
         table |-> [x \in 0 .. high |-> IF x \in DOMAIN pk.table THEN output_short(pk.table[x]) ELSE 0],
         check |-> [x \in 0 .. high |-> IF x \in DOMAIN pk.check THEN output_short(pk.check[x]) ELSE -1],
         transl |-> {tok \in Tokens(g) : g.s.symbol_true_token[tok]}]

-----------------------------------------------------------------------------
(* References: the LALR(1) lookaheads as the canonical LR(1) sets merged by *)
(* core.  An LR(1) item is <<item, token>>.                                 *)

First(g, first, nullable, q, t) ==
    LET reach == {k \in DOMAIN q : \A m \in 1 .. k - 1 : q[m] \in nullable}
    IN  UNION {IF ISTOKEN(g, q[k]) THEN {q[k]} ELSE first[q[k]] : k \in reach}
        \cup (IF \A m \in DOMAIN q : q[m] \in nullable THEN {t} ELSE {})

RECURSIVE Firsts(_, _, _)
Firsts(g, nullable, f) ==
    LET f2 == [X \in Vars(g) |-> UNION {First(g, f, nullable, Rhs(g, rule), -1) : rule \in derives(g, X)} \ {-1}]
    IN  IF f2 = f THEN f ELSE Firsts(g, nullable, f2)

RuleOf(g, item) ==
    CHOOSE rule \in Rules(g) : g.rrhs[rule] <= item /\ item < g.rrhs[rule + 1]

RestOf(g, item) == SubSeq(Rhs(g, RuleOf(g, item)), item - g.rrhs[RuleOf(g, item)] + 2,
                          Len(Rhs(g, RuleOf(g, item))))

RECURSIVE Closure1(_, _, _, _)
Closure1(g, first, nullable, I) ==
    LET more == UNION {{<<g.rrhs[rule], t>> : rule \in derives(g, g.ritem[x[1]]),
                                             t \in First(g, first, nullable, RestOf(g, x[1]), x[2])} :
                          x \in {y \in I : ISVAR(g, g.ritem[y[1]])}}
    IN  IF more \subseteq I THEN I ELSE Closure1(g, first, nullable, I \cup more)

Successors1(g, I) ==
    {{<<x[1] + 1, x[2]>> : x \in {y \in I : g.ritem[y[1]] = sym}} :
        sym \in {g.ritem[x[1]] : x \in I} \cap (1 .. g.s.nsyms - 1)}

RECURSIVE Canonical(_, _, _, _, _)
Canonical(g, first, nullable, done, new) ==
    IF new = {} THEN done
    ELSE LET next == UNION {Successors1(g, Closure1(g, first, nullable, I)) : I \in new}
         IN  Canonical(g, first, nullable, done \cup new, next \ (done \cup new))

MergedLookaheads(g, lr) ==
    LET first == Firsts(g, lr.nullable, [X \in Vars(g) |-> {}])
        kernels == Canonical(g, first, lr.nullable, {}, {{<<g.rrhs[2], 0>>}})
        closed == {<<I, Closure1(g, first, lr.nullable, I)>> : I \in kernels}
        Core(I) == {x[1] : x \in I}
    IN  [s \in States(lr) |-> [rule \in lr.reds[s + 1] |->
            UNION {{x[2] : x \in {y \in c[2] : g.ritem[y[1]] = -rule}} :
                      c \in {d \in closed : Core(d[1]) = lr.cores[s + 1]}}]]
====
