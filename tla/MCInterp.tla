------------------------------- MODULE MCInterp -------------------------------
(***************************************************************************)
(* Small programs for Interp, compiled as bytecomp/bytegen.ml does, and a  *)
(* reference evaluator that knows nothing of stacks, frames or closures.   *)
(***************************************************************************)
EXTENDS Interp

(***************************************************************************)
(* Terms.                                                                  *)
(***************************************************************************)
Num(n) == [t |-> "int", n |-> n]
Flt(d) == [t |-> "flt", n |-> d]
Var(x) == [t |-> "var", x |-> x]
Fun(ps, b) == [t |-> "fun", ps |-> ps, b |-> b]
App(f, as) == [t |-> "app", f |-> f, as |-> as]
Let(x, a, b) == [t |-> "let", x |-> x, a |-> a, b |-> b]
LetRec(fs, b) == [t |-> "rec", fs |-> fs, b |-> b]
Assign(x, a) == [t |-> "set", x |-> x, a |-> a]
Seqn(a, b) == [t |-> "seq", a |-> a, b |-> b]
If(c, a, b) == [t |-> "if", c |-> c, a |-> a, b |-> b]
While(c, b) == [t |-> "while", c |-> c, b |-> b]
Try(a, x, b) == [t |-> "try", a |-> a, x |-> x, b |-> b]
Throw(a) == [t |-> "throw", a |-> a]
Make(tag, as) == [t |-> "make", tag |-> tag, as |-> as]
Floats(as) == [t |-> "floats", as |-> as]
\* op is the instruction, n its immediate operand.
Prim(op, n, as) == [t |-> "prim", op |-> op, n |-> n, as |-> as]
CCall(f, as) == [t |-> "ccall", f |-> f, as |-> as]
\* op tells how the method is found: GETPUBMET, GETDYNMET or, by its place, GETMETHOD.
Send(op, o, tag, as) == [t |-> "send", op |-> op, o |-> o, n |-> tag, as |-> as]
Case(a, cs, ts) == [t |-> "case", a |-> a, cs |-> cs, ts |-> ts]
CmpBr(op, n, a) == [t |-> "cmpbr", op |-> op, n |-> n, a |-> a]

(***************************************************************************)
(* Compilation.  An environment lists variables with their places; the     *)
(* latest one of a name counts.  Function bodies stand where the closure   *)
(* is built, behind a branch over them.                                    *)
(***************************************************************************)
Ins(op, args) == [op |-> op, push |-> FALSE, args |-> args]
Fusible == {"ACC", "ENVACC", "OFFSETCLOSURE", "GETGLOBAL", "GETGLOBALFIELD", "ATOM", "CONSTINT"}
PushThen(c, d) ==
  IF Head(d).op \in Fusible THEN c \o <<[Head(d) EXCEPT !.push = TRUE]>> \o Tail(d)
  ELSE c \o <<Ins("PUSH", <<>>)>> \o d

Latest(env, x) == LET S == {i \in DOMAIN env : env[i].x = x}
                  IN env[CHOOSE i \in S : \A j \in S : j <= i]
Stk(x, p) == [x |-> x, at |-> "stack", p |-> p]
Bind(x, at, p) == [x |-> x, at |-> at, p |-> p]

Access(l, sz) == CASE l.at = "stack" -> <<Ins("ACC", <<sz - l.p>>)>>
                   [] l.at = "env" -> <<Ins("ENVACC", <<l.p>>)>>
                   [] l.at = "rec" -> <<Ins("OFFSETCLOSURE", <<l.p>>)>>

RECURSIVE Comp(_, _, _, _), CompArgs(_, _, _), Capture(_, _, _), CompRec(_, _, _)
\* Pushes the variables of env from the last one on; the first one is left in accu.
Capture(env, sz, i) ==
  IF i = Len(env) THEN Access(env[i], sz)
  ELSE PushThen(Capture(env, sz, i + 1), Access(env[i], sz + Len(env) - i))
Captured(env, base) == [i \in DOMAIN env |-> Bind(env[i].x, "env", base + i)]
Params(ps) == [i \in DOMAIN ps |-> Stk(ps[i], Len(ps) - i + 1)]

\* The code of a function whose environment is env, with its RESTART and GRAB.
Body(ps, b, env) ==
  (IF Len(ps) > 1 THEN <<Ins("RESTART", <<>>), Ins("GRAB", <<Len(ps) - 1>>)>> ELSE <<>>)
  \o Comp(b, env \o Params(ps), Len(ps), TRUE)
Entry(ps) == IF Len(ps) > 1 THEN 1 ELSE 0

Ret(tail, sz) == IF tail THEN <<Ins("RETURN", <<sz>>)>> ELSE <<>>

\* Arguments from right to left: the first one is left in accu.
CompArgs(as, env, sz) ==
  IF Len(as) = 1 THEN Comp(as[1], env, sz, FALSE)
  ELSE PushThen(CompArgs(Tail(as), env, sz), Comp(as[1], env, sz + Len(as) - 1, FALSE))

CompRec(fs, env, i) ==
  LET nf == Len(fs)
      recs == [j \in 1 .. nf |-> Bind(fs[j].x, "rec", 2 * (j - i))]
      inner == Captured(env, 2 * nf - 2 - 2 * (i - 1)) \o recs
  IN Body(fs[i].ps, fs[i].b, inner)

Comp(e, env, sz, tail) ==
  CASE e.t = "int" -> <<Ins("CONSTINT", <<e.n>>)>> \o Ret(tail, sz)
    [] e.t = "flt" -> <<Ins("CONSTDOUBLE", <<e.n>>)>> \o Ret(tail, sz)
    [] e.t = "var" -> Access(Latest(env, e.x), sz) \o Ret(tail, sz)
    [] e.t = "fun" ->
         LET b == Body(e.ps, e.b, Captured(env, 0))
             cap == IF env = <<>> THEN <<>> ELSE Capture(env, sz, 1)
         IN <<Ins("BRANCH", <<Len(b) + 1>>)>> \o b \o cap
            \o <<Ins("CLOSURE", <<Len(env), Entry(e.ps) - Len(b) - Len(cap)>>)>> \o Ret(tail, sz)
    [] e.t = "rec" ->
         LET nf == Len(e.fs)
             bodies == [i \in 1 .. nf |-> CompRec(e.fs, env, i)]
             b == IF nf = 1 THEN bodies[1] ELSE bodies[1] \o bodies[2]
             cap == IF env = <<>> THEN <<>> ELSE Capture(env, sz, 1)
             start == [i \in 1 .. nf |-> (IF i = 1 THEN 0 ELSE Len(bodies[1])) + Entry(e.fs[i].ps)]
             locs == [i \in 1 .. nf |-> Stk(e.fs[i].x, sz + i)]
         IN <<Ins("BRANCH", <<Len(b) + 1>>)>> \o b \o cap
            \o <<Ins("CLOSUREREC", <<Len(env), [i \in 1 .. nf |-> start[i] - Len(b) - Len(cap)]>>)>>
            \o Comp(e.b, env \o locs, sz + nf, tail)
            \o (IF tail THEN <<>> ELSE <<Ins("POP", <<nf>>)>>)
    [] e.t = "app" ->
         LET n == Len(e.as)
             frame == ~tail /\ n > 3
             s0 == IF frame THEN sz + 3 ELSE sz
             c == PushThen(CompArgs(e.as, env, s0), Comp(e.f, env, s0 + n, FALSE))
         IN IF tail THEN c \o <<Ins("APPTERM", <<n, sz + n>>)>>
            ELSE IF frame THEN <<Ins("PUSH_RETADDR", <<Len(c) + 2>>)>> \o c \o <<Ins("APPLY", <<n>>)>>
            ELSE c \o <<Ins("APPLYn", <<n>>)>>
    [] e.t = "let" ->
         PushThen(Comp(e.a, env, sz, FALSE), Comp(e.b, Append(env, Stk(e.x, sz + 1)), sz + 1, tail))
         \o (IF tail THEN <<>> ELSE <<Ins("POP", <<1>>)>>)
    [] e.t = "set" -> Comp(e.a, env, sz, FALSE) \o <<Ins("ASSIGN", <<sz - Latest(env, e.x).p>>)>> \o Ret(tail, sz)
    [] e.t = "seq" -> Comp(e.a, env, sz, FALSE) \o Comp(e.b, env, sz, tail)
    [] e.t = "if" ->
         LET a == Comp(e.a, env, sz, tail)
             b == Comp(e.b, env, sz, tail)
         IN Comp(e.c, env, sz, FALSE) \o <<Ins("BRANCHIFNOT", <<Len(a) + 2>>)>> \o a
            \o <<Ins("BRANCH", <<Len(b) + 1>>)>> \o b
    [] e.t = "while" ->
         LET c == Comp(e.c, env, sz, FALSE)
             b == <<Ins("CHECK_SIGNALS", <<>>)>> \o Comp(e.b, env, sz, FALSE)
         IN <<Ins("BRANCH", <<Len(b) + 1>>)>> \o b \o c
            \o <<Ins("BRANCHIF", <<0 - Len(c) - Len(b)>>), Ins("CONSTINT", <<0>>)>> \o Ret(tail, sz)
    [] e.t = "try" ->
         LET a == Comp(e.a, env, sz + 4, FALSE) \o <<Ins("POPTRAP", <<>>)>>
             b == PushThen(<<>>, Comp(e.b, Append(env, Stk(e.x, sz + 1)), sz + 1, FALSE)) \o <<Ins("POP", <<1>>)>>
         IN <<Ins("PUSHTRAP", <<Len(a) + 2>>)>> \o a \o <<Ins("BRANCH", <<Len(b) + 1>>)>> \o b \o Ret(tail, sz)
    [] e.t = "throw" -> Comp(e.a, env, sz, FALSE) \o <<Ins("RAISE", <<>>)>>
    [] e.t = "make" -> (IF e.as = <<>> THEN <<Ins("ATOM", <<e.tag>>)>>
                        ELSE CompArgs(e.as, env, sz) \o <<Ins("MAKEBLOCK", <<Len(e.as), e.tag>>)>>) \o Ret(tail, sz)
    [] e.t = "floats" -> CompArgs(e.as, env, sz) \o <<Ins("MAKEFLOATBLOCK", <<Len(e.as)>>)>> \o Ret(tail, sz)
    [] e.t = "prim" -> (IF e.as = <<>> THEN <<>> ELSE CompArgs(e.as, env, sz)) \o <<Ins(e.op, e.n)>> \o Ret(tail, sz)
    [] e.t = "ccall" -> CompArgs(e.as, env, sz)
         \o <<Ins(IF Len(e.as) > 2 THEN "C_CALLN" ELSE "C_CALL", <<e.f, Len(e.as)>>)>> \o Ret(tail, sz)
    [] e.t = "send" ->
         LET n == Len(e.as) + 1
             c == PushThen(CompArgs(e.as, env, sz), Comp(e.o, env, sz + Len(e.as), FALSE))
         IN (IF e.op = "GETPUBMET" THEN c ELSE PushThen(c, <<Ins("CONSTINT", <<e.n>>)>>))
            \o <<Ins(e.op, <<e.n>>), Ins("APPLYn", <<n>>)>> \o Ret(tail, sz)
    [] e.t = "case" ->
         LET bs == [i \in 1 .. Len(e.cs) + Len(e.ts) |->
                      Comp(IF i <= Len(e.cs) THEN e.cs[i] ELSE e.ts[i - Len(e.cs)], env, sz, FALSE)]
             RECURSIVE Size(_), Lay(_)
             Size(i) == IF i > Len(bs) THEN 0 ELSE Len(bs[i]) + 1 + Size(i + 1)
             Lay(i) == IF i > Len(bs) THEN <<>>
                       ELSE bs[i] \o <<Ins("BRANCH", <<Size(i + 1) + 1>>)>> \o Lay(i + 1)
             ofs == [i \in 1 .. Len(bs) |-> 1 + Size(1) - Size(i)]
         IN Comp(e.a, env, sz, FALSE)
            \o <<Ins("SWITCH", <<SubSeq(ofs, 1, Len(e.cs)), SubSeq(ofs, Len(e.cs) + 1, Len(bs))>>)>>
            \o Lay(1) \o Ret(tail, sz)
    [] e.t = "cmpbr" ->
         Comp(e.a, env, sz, FALSE)
         \o <<Ins(e.op, <<e.n, 3>>), Ins("CONSTINT", <<0>>), Ins("BRANCH", <<2>>), Ins("CONSTINT", <<1>>)>>
         \o Ret(tail, sz)

(***************************************************************************)
(* The reference evaluator.  st: the store, the polls made so far and the  *)
(* exceptions that handlers raise at given polls.                          *)
(***************************************************************************)
Half == 2^(W - 1)
Norm(n) == ((n + Half \div 2) % Half) - Half \div 2
IntV(n) == [k |-> "int", n |-> Norm(n)]
BoolV(b) == IntV(IF b THEN 1 ELSE 0)
Ok(v, st) == [exn |-> FALSE, v |-> v, st |-> st]
Exn(v, st) == [exn |-> TRUE, v |-> v, st |-> st]

RefPrim(op, a, b) ==
  LET u == a % Half v == b % Half IN
  CASE op = "ADDINT" -> IntV(a + b) [] op = "SUBINT" -> IntV(a - b) [] op = "MULINT" -> IntV(a * b)
    [] op = "DIVINT" -> IntV(Trunc(a, b)) [] op = "MODINT" -> IntV(a - b * Trunc(a, b))
    [] op = "ANDINT" -> IntV(u & v) [] op = "ORINT" -> IntV(u | v) [] op = "XORINT" -> IntV(u ^^ v)
    [] op = "LSLINT" -> IntV(u * 2^b) [] op = "LSRINT" -> IntV(u \div 2^b) [] op = "ASRINT" -> IntV(a \div 2^b)
    [] op \in {"EQ", "BEQ"} -> BoolV(a = b) [] op \in {"NEQ", "BNEQ"} -> BoolV(a # b)
    [] op \in {"LTINT", "BLTINT"} -> BoolV(a < b) [] op \in {"LEINT", "BLEINT"} -> BoolV(a <= b)
    [] op \in {"GTINT", "BGTINT"} -> BoolV(a > b) [] op \in {"GEINT", "BGEINT"} -> BoolV(a >= b)
    [] op \in {"ULTINT", "BULTINT"} -> BoolV(u < v) [] op \in {"UGEINT", "BUGEINT"} -> BoolV(u >= v)

\* One look at the pending signals: the exception raised there, if any.
Polls(st) == [st EXCEPT !.polls = @ + 1]
Injected(st) == {x \in st.raised : x[1] = st.polls + 1}
Injection(st) == (CHOOSE x \in Injected(st) : TRUE)[2]

Closure(ps, b, env, recs) == [k |-> "fun", ps |-> ps, b |-> b, env |-> env, recs |-> recs, got |-> <<>>]
RecEnv(fs, env) == env \o [i \in DOMAIN fs |-> [x |-> fs[i].x, v |-> Closure(fs[i].ps, fs[i].b, env, fs)]]

RECURSIVE Eval(_, _, _), EvalArgs(_, _, _), Apply(_, _, _)
\* The values of a list of terms, evaluated from the right.
EvalArgs(as, env, st) ==
  IF as = <<>> THEN Ok(<<>>, st)
  ELSE LET r == EvalArgs(Tail(as), env, st) IN
       IF r.exn THEN r
       ELSE LET h == Eval(as[1], env, r.st) IN
            IF h.exn THEN h ELSE Ok(<<h.v>> \o r.v, h.st)

Apply(f, vs, st) ==
  LET all == f.got \o vs
      n == Len(f.ps)
  IN IF Len(all) < n THEN Ok([f EXCEPT !.got = all], st)
     ELSE LET env == (IF f.recs = <<>> THEN f.env ELSE RecEnv(f.recs, f.env))
                     \o [i \in 1 .. n |-> [x |-> f.ps[i], v |-> all[i]]]
              r == Eval(f.b, env, st)
          IN IF r.exn \/ Len(all) = n THEN r
             ELSE Apply(r.v, SubSeq(all, n + 1, Len(all)), r.st)

Call(f, vs, st) ==
  IF Injected(st) # {} THEN Exn(Injection(st), Polls(st)) ELSE Apply(f, vs, Polls(st))

Place(env, x) == LET S == {i \in DOMAIN env : env[i].x = x} IN CHOOSE i \in S : \A j \in S : j <= i

\* Primitives on the store.  A block is [tag, f]; a boxed float is a value.
RefBlock(e, vs, st) ==
  LET b == vs[1]
      get(i) == st.store[b.loc].f[i + 1]
      put(i, v) == [st EXCEPT !.store[b.loc].f[i + 1] = v]
  IN CASE e.op \in {"GETFIELD", "GETFLOATFIELD"} -> Ok(get(e.n[1]), st)
       [] e.op \in {"SETFIELD", "SETFLOATFIELD"} -> Ok(IntV(0), put(e.n[1], vs[2]))
       [] e.op \in {"GETVECTITEM", "GETSTRINGCHAR"} -> Ok(get(vs[2].n), st)
       [] e.op \in {"SETVECTITEM", "SETSTRINGCHAR"} -> Ok(IntV(0), put(vs[2].n, vs[3]))
       [] e.op = "VECTLENGTH" -> Ok(IntV(Len(st.store[b.loc].f)), st)
       [] e.op = "OFFSETREF" -> Ok(IntV(0), put(0, IntV(get(0).n + e.n[1])))

EvalPrim(e, vs, st) ==
  CASE e.op = "GETGLOBAL" -> Ok(st.global[e.n[1]], st)
    [] e.op = "GETGLOBALFIELD" -> Ok(st.store[st.global[e.n[1]].loc].f[e.n[2] + 1], st)
    [] e.op = "SETGLOBAL" -> Ok(IntV(0), [st EXCEPT !.global[e.n[1]] = vs[1]])
    [] e.op = "NEGINT" -> Ok(IntV(-vs[1].n), st)
    [] e.op = "OFFSETINT" -> Ok(IntV(vs[1].n + e.n[1]), st)
    [] e.op = "BOOLNOT" -> Ok(BoolV(vs[1].n = 0), st)
    [] e.op = "ISINT" -> Ok(BoolV(vs[1].k = "int"), st)
    [] e.op \in {"DIVINT", "MODINT"} /\ vs[2].n = 0 -> Exn(IntV(-3), st)
    [] e.op \in ArithOps -> Ok(IF vs[1].k = "int" THEN RefPrim(e.op, vs[1].n, vs[2].n)
                               ELSE BoolV((vs[1] = vs[2]) = (e.op = "EQ")), st)
    [] OTHER -> RefBlock(e, vs, st)

\* A primitive that calls back counts one poll, as any application.
EvalC(f, vs, st) ==
  LET r == Call(vs[1], Tail(vs), st) IN
  CASE f = "identity" -> Ok(vs[Len(vs)], st)
    [] f = "caml_eq_float" -> Ok(BoolV(vs[1] = vs[2]), st)
    [] f = "raise" -> Exn(vs[1], st)
    [] f = "callback" -> r
    [] f = "callback_exn" -> Ok(r.v, r.st)

Eval(e, env, st) ==
  CASE e.t = "int" -> Ok(IntV(e.n), st)
    [] e.t = "flt" -> Ok([k |-> "flt", d |-> e.n], st)
    [] e.t = "var" -> Ok(LET b == env[Place(env, e.x)] IN IF b.v.k = "cell" THEN st.store[b.v.loc].f[1] ELSE b.v, st)
    [] e.t = "fun" -> Ok(Closure(e.ps, e.b, env, <<>>), st)
    [] e.t = "rec" -> Eval(e.b, RecEnv(e.fs, env), st)
    [] e.t = "app" ->
         LET r == EvalArgs(<<e.f>> \o e.as, env, st)
         IN IF r.exn THEN r ELSE Call(r.v[1], Tail(r.v), r.st)
    [] e.t = "let" ->
         LET r == Eval(e.a, env, st)
         IN IF r.exn THEN r
            ELSE Eval(e.b, Append(env, [x |-> e.x, v |-> [k |-> "cell", loc |-> Len(r.st.store) + 1]]),
                      [r.st EXCEPT !.store = Append(@, [tag |-> 0, f |-> <<r.v>>])])
    [] e.t = "set" ->
         LET r == Eval(e.a, env, st)
         IN IF r.exn THEN r ELSE Ok(IntV(0), [r.st EXCEPT !.store[env[Place(env, e.x)].v.loc].f[1] = r.v])
    [] e.t = "seq" -> LET r == Eval(e.a, env, st) IN IF r.exn THEN r ELSE Eval(e.b, env, r.st)
    [] e.t = "if" ->
         LET r == Eval(e.c, env, st)
         IN IF r.exn THEN r ELSE IF r.v # IntV(0) THEN Eval(e.a, env, r.st) ELSE Eval(e.b, env, r.st)
    [] e.t = "while" ->
         LET r == Eval(e.c, env, st) IN
         IF r.exn \/ r.v = IntV(0) THEN [r EXCEPT !.v = IF r.exn THEN @ ELSE IntV(0)]
         ELSE IF Injected(r.st) # {} THEN Exn(Injection(r.st), Polls(r.st))
         ELSE LET b == Eval(e.b, env, Polls(r.st)) IN IF b.exn THEN b ELSE Eval(e, env, b.st)
    [] e.t = "try" ->
         LET r == Eval(e.a, env, st)
             body == IF r.exn THEN r
                     ELSE IF Injected(r.st) # {} THEN Exn(Injection(r.st), Polls(r.st))
                     ELSE [r EXCEPT !.st = Polls(@)]
         IN IF body.exn THEN Eval(e.b, Append(env, [x |-> e.x, v |-> body.v]), body.st) ELSE body
    [] e.t = "throw" -> LET r == Eval(e.a, env, st) IN [r EXCEPT !.exn = TRUE]
    [] e.t \in {"make", "floats"} ->
         LET r == EvalArgs(e.as, env, st)
         IN IF r.exn THEN r
            ELSE Ok([k |-> "ref", loc |-> Len(r.st.store) + 1],
                    [r.st EXCEPT !.store = Append(@, [tag |-> IF e.t = "make" THEN e.tag ELSE -1, f |-> r.v])])
    [] e.t = "prim" -> LET r == EvalArgs(e.as, env, st) IN IF r.exn THEN r ELSE EvalPrim(e, r.v, r.st)
    [] e.t = "ccall" -> LET r == EvalArgs(e.as, env, st) IN IF r.exn THEN r ELSE EvalC(e.f, r.v, r.st)
    [] e.t = "send" ->
         LET r == EvalArgs(<<e.o>> \o e.as, env, st)
             meths == r.st.store[r.st.store[r.v[1].loc].f[1].loc].f
             i == CHOOSE j \in 4 .. Len(meths) : j % 2 = 0 /\ meths[j] = IntV(e.n)
         IN IF r.exn THEN r ELSE Call(IF e.op = "GETMETHOD" THEN meths[e.n + 1] ELSE meths[i - 1], r.v, r.st)
    [] e.t = "case" ->
         LET r == Eval(e.a, env, st)
         IN IF r.exn THEN r
            ELSE Eval(IF r.v.k = "int" THEN e.cs[r.v.n + 1] ELSE e.ts[r.st.store[r.v.loc].tag + 1], env, r.st)
    [] e.t = "cmpbr" -> LET r == Eval(e.a, env, st) IN IF r.exn THEN r ELSE Ok(RefPrim(e.op, e.n, r.v.n), r.st)

(***************************************************************************)
(* The programs.                                                           *)
(***************************************************************************)
Add(a, b) == Prim("ADDINT", <<>>, <<a, b>>)
Mix(a, b) == Add(Prim("MULINT", <<>>, <<a, Num(3)>>), b)
RECURSIVE MixAll(_)
MixAll(vs) == IF Len(vs) = 1 THEN Var(vs[1]) ELSE Mix(MixAll(SubSeq(vs, 1, Len(vs) - 1)), Var(vs[Len(vs)]))
Names(x, n) == SubSeq(IF x = "x" THEN <<"x1", "x2", "x3", "x4">> ELSE <<"y1", "y2">>, 1, n)
Ints(i, n) == [j \in 1 .. n |-> Num(i + j - 1)]
\* A function of n arguments that returns a function of k more.
Curried(n, k) == Fun(Names("x", n), Fun(Names("y", k), MixAll(Names("x", n) \o Names("y", k))))

\* Every split of the arguments of a curried function into two applications ...
Splits == {<<n, k, i>> \in (1 .. 3) \X (1 .. 2) \X (1 .. 4) : i < n + k}
TwoCalls(s) == App(App(Curried(s[1], s[2]), Ints(1, s[3])), Ints(1 + s[3], s[1] + s[2] - s[3]))
\* ... also where the first one is a tail call of a function given the others too.
TailCall(s) == App(Fun(<<"u">>, App(Curried(s[1], s[2]), Ints(1, s[3]))),
                   <<Num(0)>> \o Ints(1 + s[3], s[1] + s[2] - s[3]))

Inner == Try(App(Fun(<<"a">>, Throw(Add(Var("a"), Num(1)))), <<Num(4)>>), "e", Add(Var("e"), Num(10)))
Swap == Fun(<<"a", "b">>, Mix(Var("b"), Var("a")))
Down == [x |-> "down", ps |-> <<"n">>,
         b |-> If(Prim("EQ", <<>>, <<Var("n"), Num(0)>>), Num(7),
                  Add(Num(1), App(Var("down"), <<Prim("SUBINT", <<>>, <<Var("n"), Num(1)>>)>>)))]
Even == <<[x |-> "even", ps |-> <<"n">>,
           b |-> If(Var("n"), App(Var("odd"), <<Prim("OFFSETINT", <<-1>>, <<Var("n")>>), Num(5)>>), Var("k"))],
          [x |-> "odd", ps |-> <<"n", "d">>,
           b |-> If(Var("n"), App(Var("even"), <<Prim("OFFSETINT", <<-1>>, <<Var("n")>>)>>), Var("d"))]>>

Dummy == Make(0, <<>>)
Meth(n) == Fun(<<"self", "a">>, Mix(Var("a"), Num(n)))
\* Classes with one, two and three public methods, tags in increasing order.
Class1 == Make(0, <<Num(1), Num(0), Meth(1), Num(6)>>)
Class2 == Make(0, <<Num(2), Num(1), Meth(2), Num(3), Meth(3), Num(6)>>)
Class3 == Make(0, <<Num(3), Num(3), Meth(4), Num(-2), Meth(5), Num(3), Meth(6), Num(6), Dummy, Dummy>>)
Obj(c) == Make(0, <<c, Num(0)>>)
CallMeth == Fun(<<"o">>, Send("GETPUBMET", Var("o"), 6, <<Num(2)>>))

Loop == Let("r", Make(0, <<Num(2)>>),
          Let("s", Num(0),
            Seqn(While(Prim("GTINT", <<>>, <<Prim("GETFIELD", <<0>>, <<Var("r")>>), Num(0)>>),
                   Seqn(Assign("s", Add(Var("s"), Num(5))), Prim("OFFSETREF", <<-1>>, <<Var("r")>>))),
                 Var("s"))))
Vector == Let("v", Make(0, <<Num(1), Num(2), Num(3)>>),
            Seqn(Prim("SETVECTITEM", <<>>, <<Var("v"), Num(1), Num(9)>>),
              Seqn(Prim("SETFIELD", <<2>>, <<Var("v"), Num(8)>>),
                Mix(Prim("GETVECTITEM", <<>>, <<Var("v"), Num(1)>>),
                    Mix(Prim("GETSTRINGCHAR", <<>>, <<Var("v"), Num(2)>>), Prim("VECTLENGTH", <<>>, <<Var("v")>>))))))
FloatsProg == Let("v", Floats(<<Flt(1), Flt(2), Flt(3)>>),
            Seqn(Prim("SETFLOATFIELD", <<1>>, <<Var("v"), Flt(5)>>),
              Mix(Prim("VECTLENGTH", <<>>, <<Var("v")>>),
                  CCall("caml_eq_float", <<Prim("GETFLOATFIELD", <<1>>, <<Var("v")>>), Flt(5)>>))))
Global == Seqn(Prim("SETGLOBAL", <<1>>, <<Make(1, <<Num(3), Num(4)>>)>>),
            Case(Prim("GETGLOBAL", <<1>>, <<>>), <<Num(1), Num(2)>>,
                 <<Num(3), Add(Prim("GETGLOBALFIELD", <<1, 1>>, <<>>),
                               Case(Num(1), <<Num(1), Num(20)>>, <<Num(9)>>))>>))

Terms == <<
  Try(Inner, "e", Num(9)),
  Try(Add(Inner, Num(1)), "e", Num(9)),
  Try(Try(Inner, "e", Throw(Add(Var("e"), Num(1)))), "f", Add(Var("f"), Num(1))),
  \* exceptions across callbacks, caught on either side of the C frame
  Try(CCall("callback", <<Fun(<<"a">>, Throw(Add(Var("a"), Num(2)))), Num(3)>>), "e", Var("e")),
  CCall("callback", <<Fun(<<"a">>, Try(CCall("raise", <<Var("a")>>), "e", Add(Var("e"), Num(1)))), Num(3)>>),
  Add(CCall("callback_exn", <<Fun(<<"a">>, Throw(Var("a"))), Num(3)>>),
      CCall("callback_exn", <<Swap, Num(1), Num(2)>>)),
  App(CCall("callback", <<Swap, Num(5)>>), <<CCall("identity", <<Num(1), Num(2), Num(6)>>)>>),
  Try(CCall("callback", <<Fun(<<"g">>, CCall("callback", <<Var("g"), Num(1)>>)),
                          Fun(<<"a">>, Prim("DIVINT", <<>>, <<Var("a"), Num(0)>>))>>), "e", Add(Var("e"), Num(1))),
  LetRec(<<Down>>, Try(App(Var("down"), <<Num(3)>>), "e", Var("e"))),
  Try(LetRec(<<Down>>, App(Var("down"), <<Num(8)>>)), "e", Var("e")),
  Try(Add(Num(1), LetRec(<<Down>>, Try(App(Var("down"), <<Num(20)>>), "e", Throw(Var("e"))))), "e", Var("e")),
  Let("k", Num(2), LetRec(Even, App(Var("even"), <<Num(3)>>))),
  Let("o", Obj(Class3), Add(App(CallMeth, <<Var("o")>>), App(Fun(<<"u">>, Send("GETDYNMET", Var("u"), 3, <<Num(1)>>)), <<Var("o")>>))),
  Let("f", CallMeth, Mix(App(Var("f"), <<Obj(Class3)>>), Mix(App(Var("f"), <<Obj(Class2)>>), App(Var("f"), <<Obj(Class1)>>)))),
  Let("f", CallMeth, Mix(App(Var("f"), <<Obj(Class2)>>), Mix(App(Var("f"), <<Obj(Class2)>>), App(Var("f"), <<Obj(Class3)>>)))),
  Send("GETMETHOD", Obj(Class2), 4, <<Num(7)>>),
  Loop, Vector, FloatsProg, Global,
  Mix(Prim("NEGINT", <<>>, <<Num(5)>>), Mix(Prim("BOOLNOT", <<>>, <<Num(0)>>), Prim("ISINT", <<>>, <<Make(0, <<Num(1)>>)>>)))
>>
\* Arithmetic is enumerated: every operator on small, large and negative operands.
Operands == {-64, -5, -1, 0, 1, 6, 63}
ShiftOps == {"LSLINT", "LSRINT", "ASRINT"}
ProgIds ==
  {<<"term", "", i, 0, 0>> : i \in DOMAIN Terms}
  \cup {<<"two", "", s[1], s[2], s[3]>> : s \in Splits}
  \cup {<<"tail", "", s[1], s[2], s[3]>> : s \in Splits}
  \cup {<<"arith", op, a, b, 0>> : op \in ArithOps \ ShiftOps, a \in Operands, b \in Operands}
  \cup {<<"arith", op, a, b, 0>> : op \in ShiftOps, a \in Operands, b \in {0, 1, 7}}
  \cup {<<"branch", op, a, b, 0>> : op \in BranchOps, a \in Operands, b \in Operands}
Term(p) ==
  CASE p[1] = "term" -> Terms[p[3]]
    [] p[1] = "two" -> TwoCalls(<<p[3], p[4], p[5]>>)
    [] p[1] = "tail" -> TailCall(<<p[3], p[4], p[5]>>)
    [] p[1] = "arith" -> Prim(p[2], <<>>, <<Num(p[3]), Num(p[4])>>)
    [] p[1] = "branch" -> CmpBr(p[2], p[3], Num(p[4]))

\* The handler of signal 2 catches its own exception, the handler of 1 raises; the finalisation
\* function raises if it is told to.
HandlerBody(s) == IF s = 2 THEN Try(Throw(Var("s")), "e", Var("e")) ELSE Throw(Num(Handler_exn))
HandlerCode(s) == Body(<<"s">>, HandlerBody(s), <<>>)
FinaliserCode == Body(<<"v">>, If(Var("v"), Throw(Num(41)), Num(0)), <<>>)
callback_code == <<Ins("ACC", <<0>>), Ins("APPLY", <<0>>), Ins("POP", <<1>>), Ins("STOP", <<>>)>>
Main(p) == callback_code \o Comp(Term(p), <<>>, 0, FALSE) \o <<Ins("STOP", <<>>)>>
MCCode == [p \in ProgIds |->
  [ins |-> Main(p) \o HandlerCode(1) \o HandlerCode(2) \o FinaliserCode,
   finaliser |-> Len(Main(p) \o HandlerCode(1) \o HandlerCode(2)) + 1,
   handlers |-> <<Len(Main(p)) + 1, Len(Main(p)) + Len(HandlerCode(1)) + 1>>]]
MCView == <<prog, m, act, heap, sig, dbg, hist>>
MCDebugged == {<<"term", "", 1, 0, 0>>}
\* The events that reach a program: three for an application inside two tries, two for most others,
\* one where the stack overflows and for the splits of arguments.
MCMaxSignals == [p \in ProgIds |->
  CASE p[1] = "term" /\ p[3] = 2 -> 3
    [] p[1] = "term" /\ p[3] \in 3 .. 9 \cup 12 .. 17 -> 2
    [] (p[1] = "term" /\ p \notin MCDebugged) \/ (p[1] = "tail" /\ p[3] = 2) -> 1
    [] OTHER -> 0]

(***************************************************************************)
(* Properties.                                                             *)
(***************************************************************************)
Expected ==
  Eval(Term(prog), <<>>, [store |-> <<>>, global |-> [g \in 0 .. 1 |-> IntV(0)], polls |-> 0,
         raised |-> {<<x[1], IntV(Long_val(x[2]))>> : x \in hist.raised}])
\* A program ends with the value or the exception that its source denotes, where a handler
\* that raises does so at the application or the end of the try that noticed its signal,
\* inside the innermost try around it: whatever the splits of its arguments, the callbacks,
\* the growth of the stack, the stops of the debugger and the caches of methods.
CodeAgrees ==
  m.mode = "done" =>
    /\ m.exn = Expected.exn
    /\ Expected.v.k = "int" => m.accu = Val_long(Expected.v.n)

RECURSIVE TrapsAbove(_)
\* The trap frames from address a on are linked in order up to the base of the stack.
TrapsAbove(a) ==
  \/ a = m.high
  \/ /\ a \in Sp(m) .. m.high - 4
     /\ m.stk[Slot(m, a)].k = "code" /\ m.stk[Slot(m, a) + 1].k = "addr"
     /\ Trap_link(m, a) \in a + 4 .. m.high
     /\ TrapsAbove(Trap_link(m, a))
InC(a) == a.c \in {"callback", "callback_exn"}
\* The trap frames form a chain within the stack, the stack has room, an exception raised
\* by C goes to the innermost activation of the interpreter, and local roots and callback
\* depth are those of the activations under way.
FramesSound ==
  /\ TrapsAbove(m.trapsp)
  /\ Len(m.stk) <= m.size /\ m.size <= 2 * caml_max_stack_size
  /\ m.ext = Cur /\ m.depth = Cur
  /\ m.lroots = Cardinality({i \in 1 .. Cur : InC(act[i])})
  /\ m.mode = "done" => m.stk = <<>>

\* A recorded signal is found by the next poll, or an event under way comes to it: the loop of
\* caml_process_pending_signals, or what follows the finalisation function that now runs.  The only
\* other ones are those left behind by an exception out of the very event that was to come to them;
\* the next signal recorded makes them known again.
SignalsKnown ==
  \A s \in sig.pending \ hist.left : Noticed \/ \E i \in 1 .. Cur : Reached(i, s)

\* What the interpreter keeps between two instructions for those it may call or be called by,
\* the exceptions and the signals, whatever they interrupt (interp.c, callback.c, signals.c).
MachineSound == FramesSound /\ SignalsKnown
===============================================================================
