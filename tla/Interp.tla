-------------------------------- MODULE Interp --------------------------------
(***************************************************************************)
(* The bytecode interpreter: byterun/interp.c with its stack (stacks.c),   *)
(* exceptions (fail.c), callbacks from C (callback.c) and the processing   *)
(* of signals (signals.c, signals_byt.c).                                  *)
(*                                                                         *)
(* A code word and its operands are one slot of the code:   a branch       *)
(* operand counts slots from the slot of its own instruction, as pc + *pc  *)
(* does.  PUSHxxx is xxx with "push" set.  The stack is a sequence whose   *)
(* head is sp[0]; stk[i+1] is sp[i] and sp is high - Len(stk).  Links of   *)
(* trap frames, trapsp and trap_barrier are absolute addresses, because    *)
(* caml_realloc_stack has to relocate them.                                *)
(***************************************************************************)
EXTENDS Integers, Sequences, FiniteSets, Bitwise

CONSTANTS
  Code,            \* the programs: [ins: their slots [op, push, args], handlers, finaliser:
                   \* where the handlers of the signals and a finalisation function begin]
  W,               \* width of a machine word; Caml integers have W - 1 bits
  Sigs,            \* signal numbers, 1 .. n
  MaxSignals,      \* for each program, bound on the signals and other events that reach it
  MaxRequests,     \* bound on the requests of a debugger
  Debugged,        \* the programs run under the debugger
  Stack_size, Stack_threshold, caml_max_stack_size

ASSUME InterpAssumptions ==
  /\ W \in Nat \ {0, 1} /\ Stack_threshold < Stack_size
  /\ MaxSignals \in [DOMAIN Code -> Nat] /\ MaxRequests \in Nat

VARIABLES
  prog,        \* the program that runs
  code,        \* caml_start_code: the program, loaded
  m,           \* registers and stack of the machine
  act,         \* activations of caml_interprete, the innermost last
  heap,        \* blocks, in order of allocation
  sig,         \* signals: pending, the flags, the mask; the finalisation functions to call, the hook
  dbg,         \* patched instructions, caml_event_count, trap barrier
  hist         \* what the properties compare: polls so far, where a handler raised, the signals left behind

vars == <<prog, code, m, act, heap, sig, dbg, hist>>

(***************************************************************************)
(* Machine words.                                                          *)
(***************************************************************************)
Word == 2^W
Signed(w) == IF w >= 2^(W - 1) THEN w - Word ELSE w
Val_word(n) == (2 * n + 1) % Word
Long_word(w) == Signed(w) \div 2

Val_long(n) == [k |-> "int", w |-> Val_word(n)]
Long_val(v) == Long_word(v.w)
Val_unit == Val_long(0)
Val_bool(b) == Val_long(IF b THEN 1 ELSE 0)
CodePtr(c) == [k |-> "code", pc |-> c]
Addr(a) == [k |-> "addr", a |-> a]
\* A double inside a block takes Double_wosize words.
Double_wosize == 2
Double_array_tag == 254
Double_tag == 253
Closure_tag == 247
Double(d, i) == [k |-> "double", d |-> d, half |-> i]
Ptr(b, o) == [k |-> "ptr", b |-> b, o |-> o]
Atom == Ptr(1, 0)

Trunc(a, b) == LET q == (IF a < 0 THEN -a ELSE a) \div (IF b < 0 THEN -b ELSE b)
               IN IF (a < 0) = (b < 0) THEN q ELSE -q

\* Two-operand arithmetic on tagged words, accu first.
Arith(op, x, y) ==
  CASE op = "ADDINT" -> (x + y - 1) % Word
    [] op = "SUBINT" -> (x - y + 1) % Word
    [] op = "MULINT" -> Val_word(Long_word(x) * Long_word(y))
    [] op = "DIVINT" -> Val_word(Trunc(Long_word(x), Long_word(y)))
    [] op = "MODINT" -> Val_word(Long_word(x) - Long_word(y) * Trunc(Long_word(x), Long_word(y)))
    [] op = "ANDINT" -> x & y
    [] op = "ORINT"  -> x | y
    [] op = "XORINT" -> (x ^^ y) | 1
    [] op = "LSLINT" -> ((x - 1) * 2^Long_word(y) + 1) % Word
    [] op = "LSRINT" -> ((x - 1) \div 2^Long_word(y)) | 1
    [] op = "ASRINT" -> (((Signed(x) - 1) \div 2^Long_word(y)) % Word) | 1
    [] op = "EQ"     -> Val_word(IF x = y THEN 1 ELSE 0)
    [] op = "NEQ"    -> Val_word(IF x # y THEN 1 ELSE 0)
    [] op = "LTINT"  -> Val_word(IF Signed(x) < Signed(y) THEN 1 ELSE 0)
    [] op = "LEINT"  -> Val_word(IF Signed(x) <= Signed(y) THEN 1 ELSE 0)
    [] op = "GTINT"  -> Val_word(IF Signed(x) > Signed(y) THEN 1 ELSE 0)
    [] op = "GEINT"  -> Val_word(IF Signed(x) >= Signed(y) THEN 1 ELSE 0)
    [] op = "ULTINT" -> Val_word(IF x < y THEN 1 ELSE 0)
    [] op = "UGEINT" -> Val_word(IF x >= y THEN 1 ELSE 0)

ArithOps == {"ADDINT", "SUBINT", "MULINT", "DIVINT", "MODINT", "ANDINT", "ORINT", "XORINT",
             "LSLINT", "LSRINT", "ASRINT", "EQ", "NEQ", "LTINT", "LEINT", "GTINT", "GEINT",
             "ULTINT", "UGEINT"}

\* A branch compares its operand, as a long, with the integer in accu.
Branches(op, n, w) ==
  LET a == Long_word(w) u == a % Word v == n % Word IN
  CASE op = "BEQ" -> n = a [] op = "BNEQ" -> n # a
    [] op = "BLTINT" -> n < a [] op = "BLEINT" -> n <= a
    [] op = "BGTINT" -> n > a [] op = "BGEINT" -> n >= a
    [] op = "BULTINT" -> v < u [] op = "BUGEINT" -> v >= u

BranchOps == {"BEQ", "BNEQ", "BLTINT", "BLEINT", "BGTINT", "BGEINT", "BULTINT", "BUGEINT"}

(***************************************************************************)
(* Fetching.                                                               *)
(***************************************************************************)
I == code.ins[m.pc]
\* The first two slots are callback_code, whose operands every callback rewrites.
Arg(i) == CASE m.pc = 1 -> m.cb + 3 [] m.pc = 2 -> m.cb [] OTHER -> I.args[i]
At(op) == /\ m.mode = "run"
          /\ m.skip \/ dbg.patch[m.pc] = "none"
          /\ I.op = op
In(ops) == \E o \in ops : At(o)

\* The machine once a PUSHxxx instruction has pushed accu.
D == IF I.push THEN [m EXCEPT !.stk = <<m.accu>> \o @] ELSE m
Drop(s, n) == SubSeq(s, n + 1, Len(s))
Top(s, n) == SubSeq(s, 1, n)

Next(r) == m' = [r EXCEPT !.pc = @ + 1, !.skip = FALSE]
Jump(r, c) == m' = [r EXCEPT !.pc = c, !.skip = FALSE]
Accu(r, v) == Next([r EXCEPT !.accu = v])

Block(p) == heap[p.b]
Field(p, i) == heap[p.b].f[p.o + i + 1]
Code_val(v) == Field(v, 0).pc
Alloc(tag, f) == heap' = Append(heap, [tag |-> tag, f |-> f])
Fresh == Ptr(Len(heap) + 1, 0)
Modify(p, i, v) == heap' = [heap EXCEPT ![p.b].f[p.o + i + 1] = v]

Regs == <<prog, code, act, sig, dbg, hist>>
Only == UNCHANGED <<Regs, heap>>

(***************************************************************************)
(* Stack, environment, constants, globals and blocks.                      *)
(***************************************************************************)
ACC == At("ACC") /\ Accu(D, D.stk[Arg(1) + 1]) /\ Only
PUSH == At("PUSH") /\ Next([m EXCEPT !.stk = <<m.accu>> \o @]) /\ Only
POP == At("POP") /\ Next([m EXCEPT !.stk = Drop(@, Arg(1))]) /\ Only
ASSIGN == At("ASSIGN") /\ Next([m EXCEPT !.stk[Arg(1) + 1] = m.accu, !.accu = Val_unit]) /\ Only
ENVACC == At("ENVACC") /\ Accu(D, Field(m.env, Arg(1))) /\ Only
CONSTINT == At("CONSTINT") /\ Accu(D, Val_long(Arg(1))) /\ Only
ATOM == At("ATOM") /\ Accu(D, Atom) /\ Only
GETGLOBAL == At("GETGLOBAL") /\ Accu(D, m.global[Arg(1)]) /\ Only
GETGLOBALFIELD == At("GETGLOBALFIELD") /\ Accu(D, Field(m.global[Arg(1)], Arg(2))) /\ Only
SETGLOBAL == At("SETGLOBAL") /\ Next([m EXCEPT !.global[Arg(1)] = m.accu, !.accu = Val_unit]) /\ Only

\* accu is field 0 and the rest is popped, whatever the generation of the block.
MakeFields(n) == <<m.accu>> \o Top(m.stk, n - 1)
MAKEBLOCK ==
  /\ At("MAKEBLOCK")
  /\ Alloc(Arg(2), MakeFields(Arg(1)))
  /\ Next([m EXCEPT !.accu = Fresh, !.stk = Drop(@, Arg(1) - 1)])
  /\ UNCHANGED Regs

Doubles(vs) == [i \in 1 .. Double_wosize * Len(vs) |->
                 Double(Field(vs[(i - 1) \div Double_wosize + 1], 0).d, (i - 1) % Double_wosize)]
MAKEFLOATBLOCK ==
  /\ At("MAKEFLOATBLOCK")
  /\ Alloc(Double_array_tag, Doubles(<<m.accu>> \o Top(m.stk, Arg(1) - 1)))
  /\ Next([m EXCEPT !.accu = Fresh, !.stk = Drop(@, Arg(1) - 1)])
  /\ UNCHANGED Regs
\* CONSTDOUBLE stands for a GETGLOBAL of a boxed float constant.
CONSTDOUBLE ==
  /\ At("CONSTDOUBLE")
  /\ Alloc(Double_tag, <<Double(Arg(1), 0), Double(Arg(1), 1)>>)
  /\ Accu(D, Fresh) /\ UNCHANGED Regs
GETFLOATFIELD ==
  /\ At("GETFLOATFIELD")
  /\ LET d == Field(m.accu, Double_wosize * Arg(1)).d
     IN Alloc(Double_tag, <<Double(d, 0), Double(d, 1)>>)
  /\ Accu(m, Fresh) /\ UNCHANGED Regs
SETFLOATFIELD ==
  /\ At("SETFLOATFIELD")
  /\ LET d == Field(m.stk[1], 0).d
         i == m.accu.o + Double_wosize * Arg(1) + 1
     IN heap' = [heap EXCEPT ![m.accu.b].f[i] = Double(d, 0), ![m.accu.b].f[i + 1] = Double(d, 1)]
  /\ Next([m EXCEPT !.accu = Val_unit, !.stk = Drop(@, 1)])
  /\ UNCHANGED Regs

GETFIELD == At("GETFIELD") /\ Accu(m, Field(m.accu, Arg(1))) /\ Only
SETFIELD ==
  /\ At("SETFIELD")
  /\ Modify(m.accu, Arg(1), m.stk[1])
  /\ Next([m EXCEPT !.accu = Val_unit, !.stk = Drop(@, 1)])
  /\ UNCHANGED Regs
VECTLENGTH ==
  /\ At("VECTLENGTH")
  /\ LET size == Len(Block(m.accu).f)
     IN Accu(m, Val_long(IF Block(m.accu).tag = Double_array_tag THEN size \div Double_wosize ELSE size))
  /\ Only
\* Items of vectors; strings are blocks whose fields are their bytes.
GETVECTITEM ==
  /\ In({"GETVECTITEM", "GETSTRINGCHAR"})
  /\ Next([m EXCEPT !.accu = Field(m.accu, Long_val(m.stk[1])), !.stk = Drop(@, 1)])
  /\ Only
SETVECTITEM ==
  /\ In({"SETVECTITEM", "SETSTRINGCHAR"})
  /\ Modify(m.accu, Long_val(m.stk[1]), m.stk[2])
  /\ Next([m EXCEPT !.accu = Val_unit, !.stk = Drop(@, 2)])
  /\ UNCHANGED Regs
OFFSETREF ==
  /\ At("OFFSETREF")
  /\ Modify(m.accu, 0, [k |-> "int", w |-> (Field(m.accu, 0).w + 2 * Arg(1)) % Word])
  /\ Accu(m, Val_unit) /\ UNCHANGED Regs
OFFSETINT == At("OFFSETINT") /\ Accu(m, [k |-> "int", w |-> (m.accu.w + 2 * Arg(1)) % Word]) /\ Only
NEGINT == At("NEGINT") /\ Accu(m, [k |-> "int", w |-> (2 - m.accu.w) % Word]) /\ Only
ISINT == At("ISINT") /\ Accu(m, Val_bool(m.accu.k = "int")) /\ Only
BOOLNOT == At("BOOLNOT") /\ Accu(m, Val_long(1 - Long_val(m.accu))) /\ Only

(***************************************************************************)
(* Branches.                                                               *)
(***************************************************************************)
BRANCH == At("BRANCH") /\ Jump(m, m.pc + Arg(1)) /\ Only
BRANCHIF ==
  /\ In({"BRANCHIF", "BRANCHIFNOT"})
  /\ IF (m.accu # Val_long(0)) = (I.op = "BRANCHIF") THEN Jump(m, m.pc + Arg(1)) ELSE Next(m)
  /\ Only
CompareBranch ==
  /\ In(BranchOps)
  /\ IF Branches(I.op, Arg(1), m.accu.w) THEN Jump(m, m.pc + Arg(2)) ELSE Next(m)
  /\ Only
\* Arg(1) and Arg(2): the branches of the constants and of the tags, from 0.
SWITCH ==
  /\ At("SWITCH")
  /\ Jump(m, m.pc + IF m.accu.k = "ptr" THEN Arg(2)[Block(m.accu).tag + 1]
                                         ELSE Arg(1)[Long_val(m.accu) + 1])
  /\ Only

(***************************************************************************)
(* Closures.                                                               *)
(***************************************************************************)
CLOSURE ==
  /\ At("CLOSURE")
  /\ LET n == Arg(1)
         s == IF n > 0 THEN <<m.accu>> \o m.stk ELSE m.stk
     IN /\ Alloc(Closure_tag, <<CodePtr(m.pc + Arg(2))>> \o Top(s, n))
        /\ Next([m EXCEPT !.accu = Fresh, !.stk = Drop(s, n)])
  /\ UNCHANGED Regs
\* Infix headers separate the functions, and the variables follow the last one.
CLOSUREREC ==
  /\ At("CLOSUREREC")
  /\ LET n == Arg(1)
         offs == Arg(2)
         nf == Len(offs)
         s == IF n > 0 THEN <<m.accu>> \o m.stk ELSE m.stk
         body == [i \in 1 .. 2 * nf - 1 |-> IF i % 2 = 1 THEN CodePtr(m.pc + offs[(i + 1) \div 2])
                                            ELSE [k |-> "infix", o |-> i]]
     IN /\ Alloc(Closure_tag, body \o Top(s, n))
        /\ Next([m EXCEPT !.accu = Fresh,
                   !.stk = [i \in 1 .. nf |-> Ptr(Len(heap) + 1, 2 * (nf - i))] \o Drop(s, n)])
  /\ UNCHANGED Regs
OFFSETCLOSURE == At("OFFSETCLOSURE") /\ Accu(D, [m.env EXCEPT !.o = @ + Arg(1)]) /\ Only

RESTART ==
  /\ At("RESTART")
  /\ LET f == Block(m.env).f
         n == Len(f) - 2
     IN Next([m EXCEPT !.stk = SubSeq(f, 3, n + 2) \o @, !.env = f[2], !.extra = @ + n])
  /\ Only
Returned(s) == [m EXCEPT !.pc = s[1].pc, !.env = s[2], !.extra = Long_val(s[3]),
                         !.stk = Drop(s, 3), !.skip = FALSE]
GRAB_enough(n) == m.extra >= n
GRAB ==
  /\ At("GRAB")
  /\ IF GRAB_enough(Arg(1))
     THEN Next([m EXCEPT !.extra = @ - Arg(1)]) /\ UNCHANGED heap
     ELSE /\ Alloc(Closure_tag, <<CodePtr(m.pc - 1), m.env>> \o Top(m.stk, m.extra + 1))
          /\ m' = [Returned(Drop(m.stk, m.extra + 1)) EXCEPT !.accu = Fresh]
  /\ UNCHANGED Regs
RETURN ==
  /\ At("RETURN")
  /\ LET s == Drop(m.stk, Arg(1)) IN
     IF m.extra > 0
     THEN m' = [m EXCEPT !.stk = s, !.extra = @ - 1, !.pc = Code_val(m.accu), !.env = m.accu,
                         !.skip = FALSE]
     ELSE m' = Returned(s)
  /\ Only
PUSH_RETADDR ==
  /\ At("PUSH_RETADDR")
  /\ Next([m EXCEPT !.stk = <<CodePtr(m.pc + Arg(1)), m.env, Val_long(m.extra)>> \o @])
  /\ Only

(***************************************************************************)
(* Stack growth.                                                           *)
(***************************************************************************)
Sp(r) == r.high - Len(r.stk)
Suffix(s, n) == SubSeq(s, Len(s) - n + 1, Len(s))

\* The slot sp[i] of address a, and the link of a trap frame there.
Slot(r, a) == a - Sp(r) + 1
Trap_link(r, a) == r.stk[Slot(r, a) + 1].a

RECURSIVE NewSize(_, _)
\* The next doubling that has room, or 0 when the limit is reached first.
NewSize(size, need) ==
  IF size >= caml_max_stack_size THEN 0
  ELSE IF 2 * size >= need THEN 2 * size ELSE NewSize(2 * size, need)

RECURSIVE ShiftLinks(_, _, _)
ShiftLinks(r, a, d) ==
  IF a >= r.high THEN r.stk
  ELSE LET next == Trap_link(r, a)
       IN ShiftLinks([r EXCEPT !.stk[Slot(r, a) + 1] = Addr(next + d)], next, d)

\* The links of the trap frames are copied as they are.
caml_realloc_stack_copies(r, size) ==
  LET d == 2 * size IN
  [r EXCEPT !.size = size, !.high = @ + d, !.trapsp = @ + d]

\* The stack moves to a new area of the given size; what points into it moves along.
caml_realloc_stack(r, size) ==
  LET d == 2 * size IN
  [r EXCEPT !.size = size, !.high = @ + d, !.trapsp = @ + d,
            !.stk = ShiftLinks(r, r.trapsp, d)]

(***************************************************************************)
(* Raising and calling back: the C side.                                   *)
(***************************************************************************)
Cur == Len(act)
\* siglongjmp to caml_external_raise: the activations above it are gone.
Longjmp(r, a, v) ==
  /\ act' = [SubSeq(a, 1, r.ext) EXCEPT ![r.ext].c = "none"]
  /\ m' = [r EXCEPT !.mode = "raise", !.accu = v, !.lroots = a[r.ext].lroots,
                    !.pc = a[r.ext].saved_pc, !.skip = FALSE]

caml_raise(r, a, v) ==
  IF r.ext = 0 THEN m' = [r EXCEPT !.mode = "fatal", !.accu = v] /\ act' = a
  ELSE Longjmp(r, a, v)

\* What a callback pushes; slot 3 is the POP of callback_code.
Callback_frame(closure, args) == args \o <<CodePtr(3), Val_unit, Val_long(0), closure>>

\* Enters caml_interprete on callback_code; r and a are the registers and activations of
\* the C code that calls.
caml_callbackN_exn(r, a, closure, args) ==
  LET stk == Callback_frame(closure, args) \o r.stk IN
  /\ m' = [r EXCEPT !.stk = stk, !.cb = Len(args), !.mode = "run", !.pc = 1, !.extra = 0,
                    !.env = Atom, !.accu = Val_long(0), !.depth = @ + 1,
                    !.ext = Len(a) + 1, !.skip = FALSE]
  /\ act' = Append([a EXCEPT ![Len(a)].narg = Len(args)],
                    [off |-> Len(stk), ext |-> r.ext, lroots |-> r.lroots, saved_pc |-> 0,
                     c |-> "none", pc |-> 0, extra |-> 0, n |-> 0, narg |-> 0, sig |-> 0, mask |-> {}])

(***************************************************************************)
(* Signals.                                                                *)
(***************************************************************************)
\* The program's own look at caml_something_to_do, in applications and POPTRAP, is numbered;
\* at is the number of the one under way.
InHandler == \E i \in 1 .. Cur : act[i].c = "event"
Poll == IF InHandler THEN hist.polls ELSE hist.polls + 1
Polled == [hist EXCEPT !.polls = Poll, !.at = IF InHandler THEN @ ELSE Poll]
Event_frame(r) == <<r.accu, Val_unit, Val_unit, CodePtr(r.pc), r.env, Val_long(r.extra)>>
Restore_after_event(r) ==
  [r EXCEPT !.accu = r.stk[1], !.pc = r.stk[4].pc, !.env = r.stk[5],
            !.extra = Long_val(r.stk[6]), !.stk = Drop(@, 6), !.mode = "run", !.skip = FALSE]

\* The lowest signal recorded above s is handled next; the loop ends when there is none.
NextSignals(pending, s) == {n \in pending : n > s}
Least(S) == CHOOSE n \in S : \A k \in S : n <= k

\* caml_execute_signal: its signal is blocked, then the handler is called back.
caml_execute_signal(r, a, s, n) ==
  /\ sig' = [s EXCEPT !.pending = @ \ {n}, !.mask = @ \cup {n}]
  /\ heap' = Append(heap, [tag |-> Closure_tag, f |-> <<CodePtr(code.handlers[n])>>])
  /\ caml_callbackN_exn(r, [a EXCEPT ![Len(a)].sig = n, ![Len(a)].mask = s.mask],
                        Fresh, <<Val_long(n)>>)

\* The end of caml_process_event: caml_async_action_hook, if it is set, is called.
NSIG == 64
RunHook(r, a, s) ==
  /\ UNCHANGED heap
  /\ IF s.hook THEN /\ m' = [r EXCEPT !.mode = "hook"]
                    /\ act' = [a EXCEPT ![Len(a)].sig = NSIG]
                    /\ sig' = [s EXCEPT !.hook = FALSE]
     ELSE m' = Restore_after_event(r) /\ act' = [a EXCEPT ![Len(a)].c = "none"] /\ sig' = s

\* The loop of caml_process_pending_signals from signal i + 1 on.
SignalsFrom(r, a, s, i) ==
  LET todo == NextSignals(s.pending, i) IN
  IF todo # {} THEN caml_execute_signal(r, a, s, Least(todo)) ELSE RunHook(r, a, s)
caml_process_pending_signals(r, a, s) ==
  IF s.are_pending THEN SignalsFrom(r, a, [s EXCEPT !.are_pending = FALSE], 0) ELSE RunHook(r, a, s)

\* caml_final_do_calls: one function at a time, none while one runs.  An activation that has called
\* a finalisation function has sig = Finaliser.
Finaliser == -1
Finalising(a) == \E i \in DOMAIN a : a[i].c = "event" /\ a[i].sig = Finaliser
caml_final_do_calls(r, a, s) ==
  IF s.to_do = 0 \/ Finalising([a EXCEPT ![Len(a)].c = "none"]) THEN caml_process_pending_signals(r, a, s)
  ELSE /\ sig' = [s EXCEPT !.to_do = @ - 1]
       /\ heap' = Append(heap, [tag |-> Closure_tag, f |-> <<CodePtr(code.finaliser)>>])
       /\ \E v \in {0, 1} :
            caml_callbackN_exn(r, [a EXCEPT ![Len(a)].sig = Finaliser, ![Len(a)].mask = s.mask], Fresh, <<Val_long(v)>>)
\* The slice of the major collector may find a value to finalise.
caml_minor_collection(r, a, s) ==
  \E n \in {0, 1} : caml_final_do_calls(r, a, [s EXCEPT !.force = FALSE, !.to_do = @ + n])

\* caml_process_event: the collector, then the signals, then the hook.  What each of them runs may
\* raise, and what comes after it is then left undone, although nothing is said to be to do any more.
caml_process_event(r, a, s) ==
  IF s.force THEN caml_minor_collection(r, a, s) ELSE caml_process_pending_signals(r, a, s)
process_signal(r) ==
  caml_process_event([r EXCEPT !.stk = Event_frame(r) \o @], [act EXCEPT ![Cur].c = "event"], [sig EXCEPT !.todo = FALSE])

CHECK_SIGNALS_at(r) ==
  IF sig.todo THEN process_signal(r)
  ELSE m' = [r EXCEPT !.skip = FALSE] /\ UNCHANGED <<act, sig, heap>>

Overflow == Val_long(-2)
Zero_divide == Val_long(-3)
Handler_exn == 40

\* check_stacks, to which every application jumps.
check_stacks(r) ==
  LET size == NewSize(r.size, Len(r.stk) + Stack_threshold)
      low == Len(r.stk) > r.size - Stack_threshold
  IN /\ UNCHANGED <<prog, code>>
     /\ hist' = [Polled EXCEPT !.raised = IF low /\ size = 0 /\ ~InHandler
                                          THEN @ \cup {<<Poll, Overflow>>} ELSE @]
     /\ IF ~low THEN CHECK_SIGNALS_at(r) /\ UNCHANGED dbg
        ELSE IF size = 0 THEN caml_raise(r, act, Overflow) /\ UNCHANGED <<sig, heap, dbg>>
        ELSE /\ CHECK_SIGNALS_at(caml_realloc_stack(r, size))
             /\ dbg' = [dbg EXCEPT !.barrier = @ + 2 * size]

Applied(r) == [r EXCEPT !.pc = Code_val(r.accu), !.env = r.accu]
\* APPLY finds the return frame already pushed; APPLY1 .. 3 slide it under the arguments.
APPLY ==
  /\ At("APPLY")
  /\ check_stacks([Applied(m) EXCEPT !.extra = Arg(1) - 1])
APPLYn ==
  /\ At("APPLYn")
  /\ check_stacks([Applied(m) EXCEPT !.extra = Arg(1) - 1,
       !.stk = Top(@, Arg(1)) \o <<CodePtr(m.pc + 1), m.env, Val_long(m.extra)>> \o Drop(@, Arg(1))])
APPTERM ==
  /\ At("APPTERM")
  /\ check_stacks([Applied(m) EXCEPT !.extra = @ + Arg(1) - 1,
                                     !.stk = Top(@, Arg(1)) \o Drop(@, Arg(2))])
CHECK_SIGNALS ==
  /\ At("CHECK_SIGNALS")
  /\ CHECK_SIGNALS_at([m EXCEPT !.pc = @ + 1])
  /\ hist' = Polled /\ UNCHANGED <<prog, code, dbg>>

(***************************************************************************)
(* Exceptions.                                                             *)
(***************************************************************************)
PUSHTRAP ==
  /\ At("PUSHTRAP")
  /\ LET r == [m EXCEPT !.stk = <<CodePtr(m.pc + Arg(1)), Addr(m.trapsp), m.env, Val_long(m.extra)>>
                                 \o @]
     IN Next([r EXCEPT !.trapsp = Sp(r)])
  /\ Only
\* The frame is popped first, and the signal handled afterwards.
POPTRAP_first ==
  /\ At("POPTRAP")
  /\ hist' = Polled /\ UNCHANGED <<prog, code, dbg>>
  /\ LET r == [m EXCEPT !.trapsp = m.stk[2].a, !.stk = Drop(@, 4), !.pc = @ + 1]
     IN CHECK_SIGNALS_at(r)
\* With something to do the instruction is restarted after it is done.
POPTRAP ==
  /\ At("POPTRAP")
  /\ hist' = IF sig.todo THEN [hist EXCEPT !.at = IF InHandler THEN @ ELSE Poll] ELSE Polled
  /\ UNCHANGED <<prog, code, dbg>>
  /\ IF sig.todo THEN process_signal(m)
     ELSE /\ Next([m EXCEPT !.trapsp = m.stk[2].a, !.stk = Drop(@, 4)])
          /\ UNCHANGED <<act, sig, heap>>
RAISE == At("RAISE") /\ m' = [m EXCEPT !.mode = "raise", !.skip = FALSE] /\ Only

\* The innermost activation returns v to the C code that called it; exn: as an exception.
ReturnToC(v, exn, stk) ==
  LET up == Cur - 1 IN
  /\ m' = [m EXCEPT !.mode = IF up = 0 THEN "done" ELSE "cret", !.accu = v, !.exn = exn,
                    !.stk = stk, !.ext = act[Cur].ext, !.depth = @ - 1, !.skip = FALSE]
  /\ act' = SubSeq(act, 1, up)

Uncaught == m.trapsp >= m.high - act[Cur].off

\* The debugger has asked to be told of exceptions that leave the frame of the barrier.
AtBarrier == dbg.on /\ m.trapsp >= dbg.barrier
raise_exception ==
  /\ m.mode = "raise" /\ (m.skip \/ ~AtBarrier)
  /\ IF Uncaught
     THEN ReturnToC(m.accu, TRUE, Suffix(m.stk, act[Cur].off))
     ELSE LET s == Suffix(m.stk, m.high - m.trapsp) IN
          /\ m' = [m EXCEPT !.mode = "run", !.pc = s[1].pc, !.trapsp = s[2].a, !.env = s[3],
                            !.extra = Long_val(s[4]), !.stk = Drop(s, 4), !.skip = FALSE]
          /\ UNCHANGED act
  /\ UNCHANGED <<prog, code, heap, sig, dbg, hist>>

STOP == At("STOP") /\ ReturnToC(m.accu, FALSE, m.stk) /\ UNCHANGED <<prog, code, heap, sig, dbg, hist>>

\* Integer division raises through the C function, so with a C-call frame.
Arithmetic ==
  /\ In(ArithOps)
  /\ LET r == [m EXCEPT !.stk = Drop(@, 1)] IN
     IF I.op \in {"DIVINT", "MODINT"} /\ Long_val(m.stk[1]) = 0
     THEN /\ caml_raise([r EXCEPT !.stk = <<m.env>> \o @],
                        [act EXCEPT ![Cur].saved_pc = m.pc], Zero_divide)
          /\ UNCHANGED <<heap, prog, code, sig, dbg, hist>>
     ELSE /\ LET y == m.stk[1] IN
             IF m.accu.k = "int" /\ y.k = "int"
             THEN Accu(r, [k |-> "int", w |-> Arith(I.op, m.accu.w, y.w)])
             ELSE Accu(r, Val_bool((m.accu = y) = (I.op = "EQ")))
          /\ Only

(***************************************************************************)
(* C primitives.  The argument vector is accu and the next words of the    *)
(* stack; C_CALLN pushes accu first.  Five primitives stand for all: two   *)
(* return, one raises, two call a closure back.                            *)
(***************************************************************************)
\* The registers after Setup_for_c_call and the activation that waits for the primitive.
C_regs == [m EXCEPT !.stk = <<m.env>> \o (IF I.op = "C_CALLN" THEN <<m.accu>> \o @ ELSE @)]
C_act(f, n) == [act EXCEPT ![Cur].c = f, ![Cur].saved_pc = m.pc, ![Cur].pc = m.pc,
                           ![Cur].extra = m.extra, ![Cur].n = n]
\* Restore_after_c_call and the pops of C_CALLn: back in the activation at the top of a.
C_return(r, a, v) ==
  LET t == a[Len(a)] IN
  /\ m' = [r EXCEPT !.mode = "run", !.accu = v, !.env = r.stk[1], !.pc = t.pc + 1,
                    !.extra = t.extra, !.stk = Drop(@, 1 + t.n), !.skip = FALSE]
  /\ act' = [a EXCEPT ![Len(a)].c = "none", ![Len(a)].saved_pc = 0]

C_CALL ==
  /\ In({"C_CALL", "C_CALLN"})
  /\ LET n == Arg(2)
         args == <<m.accu>> \o Top(m.stk, n - 1)
         a == C_act(Arg(1), IF I.op = "C_CALLN" THEN n ELSE n - 1)
         r == C_regs
     IN CASE Arg(1) = "identity" -> C_return(r, a, args[n])
          [] Arg(1) = "caml_eq_float" -> C_return(r, a, Val_bool(Field(args[1], 0) = Field(args[2], 0)))
          [] Arg(1) = "raise" -> caml_raise(r, a, args[1])
          [] Arg(1) \in {"callback", "callback_exn"} ->
               caml_callbackN_exn([r EXCEPT !.lroots = @ + 1], a, args[1], Drop(args, 1))
  /\ UNCHANGED <<prog, code, heap, sig, dbg, hist>>

\* PR#1228: an exception leaves the callback frame to be popped.
AfterCallback(r, n) == IF r.exn THEN [r EXCEPT !.stk = Drop(@, n + 4)] ELSE r

\* caml_callback and caml_callback_exn return to the primitive, and the primitive returns.
CallbackReturns ==
  /\ m.mode = "cret" /\ act[Cur].c \in {"callback", "callback_exn"}
  /\ LET r == AfterCallback(m, act[Cur].narg)
     IN IF m.exn /\ act[Cur].c = "callback"
        THEN caml_raise(r, act, m.accu)
        ELSE C_return([r EXCEPT !.lroots = @ - 1], act, m.accu)
  /\ UNCHANGED <<prog, code, heap, sig, dbg, hist>>

InHandlerBelow == \E i \in 1 .. Cur - 1 : act[i].c = "event"

\* The signals recorded that the next poll finds, or the activation i comes to.
Noticed == sig.are_pending /\ sig.todo
Reached(i, s) == act[i].c = "event" /\ IF act[i].sig = Finaliser THEN sig.are_pending ELSE act[i].sig < s
\* An exception leaves the event under way; left are the signals that only this event knew of.
EventRaises(r, v) ==
  /\ caml_raise(r, act, v)
  /\ hist' = [hist EXCEPT !.raised = IF InHandlerBelow THEN @ ELSE @ \cup {<<hist.at, v>>},
        !.left = @ \cup {s \in sig.pending : ~Noticed /\ \A i \in 1 .. Cur - 1 : ~Reached(i, s)}]

\* The handler of a signal is over: the mask is restored, an exception goes on.
HandlerReturns ==
  /\ m.mode = "cret" /\ act[Cur].c = "event"
  /\ LET r == AfterCallback(m, act[Cur].narg)
         s == [sig EXCEPT !.mask = act[Cur].mask]
     IN IF m.exn THEN EventRaises(r, m.accu) /\ sig' = s /\ UNCHANGED heap
        ELSE /\ UNCHANGED hist
             /\ IF act[Cur].sig = Finaliser THEN caml_final_do_calls(r, act, s) ELSE SignalsFrom(r, act, s, act[Cur].sig)
  /\ UNCHANGED <<prog, code, dbg>>

\* thread_reschedule: the thread comes back to where it was, or with the exception of a signal
\* handler that the scheduler ran while it waited.
thread_reschedule ==
  /\ m.mode = "hook"
  /\ \/ m' = Restore_after_event(m) /\ act' = [act EXCEPT ![Cur].c = "none"] /\ UNCHANGED hist
     \/ EventRaises(m, Val_long(Handler_exn))
  /\ UNCHANGED <<prog, code, heap, sig, dbg>>

(***************************************************************************)
(* The debugger.  Instructions are patched in place; EVENT and BREAK stop  *)
(* there and then run the saved instruction.  m.skip: that instruction is  *)
(* dispatched, or the barrier passed, without another stop.                *)
(***************************************************************************)
Stops(kind) == m.mode = "run" /\ ~m.skip /\ dbg.patch[m.pc] = kind
Setup_for_debugger(r) ==
  [r EXCEPT !.stk = <<r.accu, CodePtr(r.pc), r.env, Val_long(r.extra)>> \o @, !.mode = "debug"]

EVENT ==
  /\ Stops("EVENT")
  /\ dbg' = [dbg EXCEPT !.count = @ - 1]
  /\ m' = IF dbg.count = 1 THEN Setup_for_debugger(m) ELSE [m EXCEPT !.skip = TRUE]
  /\ UNCHANGED <<prog, code, act, heap, sig, hist>>
BREAK ==
  /\ Stops("BREAK")
  /\ m' = Setup_for_debugger(m) /\ Only
TrapBarrier ==
  /\ m.mode = "raise" /\ ~m.skip /\ AtBarrier
  /\ m' = [m EXCEPT !.mode = "trapped"] /\ Only

Serving == m.mode \in {"debug", "trapped", "start"} /\ dbg.requests < MaxRequests
\* REQ_SET_EVENT, REQ_SET_BREAKPOINT and REQ_RESET_INSTR.
caml_set_instruction(pos, kind) ==
  /\ Serving /\ dbg.patch[pos] # kind
  /\ dbg' = [dbg EXCEPT !.patch[pos] = kind, !.requests = @ + 1]
  /\ UNCHANGED <<prog, code, m, act, heap, sig, hist>>
\* REQ_SET_TRAP_BARRIER, with the depth of a frame of the debugger's walk.
SetTrapBarrier(i) ==
  /\ Serving
  /\ dbg' = [dbg EXCEPT !.barrier = m.high - i, !.requests = @ + 1]
  /\ UNCHANGED <<prog, code, m, act, heap, sig, hist>>
\* REQ_GO: the count of events until the next stop.
Go(n) ==
  /\ m.mode \in {"debug", "trapped", "start"}
  /\ dbg' = [dbg EXCEPT !.count = n]
  /\ m' = CASE m.mode = "debug" -> [m EXCEPT !.stk = Drop(@, 4), !.mode = "run", !.skip = TRUE]
             [] m.mode = "trapped" -> [m EXCEPT !.mode = "raise", !.skip = TRUE]
             [] m.mode = "start" -> [m EXCEPT !.mode = "run"]
  /\ UNCHANGED <<prog, code, act, heap, sig, hist>>

(***************************************************************************)
(* Method lookup.                                                          *)
(***************************************************************************)
RECURSIVE Bisect(_, _, _, _)
\* meths: field 0 counts the methods, 1 is the mask, then method and tag alternate.
Bisect(meths, tag, li, hi) ==
  IF li >= hi THEN li
  ELSE LET half == (li + hi) \div 2
           mi == IF half % 2 = 0 THEN half + 1 ELSE half
       IN IF Signed(tag.w) < Signed(Field(meths, mi).w) THEN Bisect(meths, tag, li, mi - 2)
          ELSE Bisect(meths, tag, mi, hi)
Last(meths) == Field(meths, 0).w

Hit(meths, tag, ofs) == Field(meths, 3 + ofs) = tag
\* The cache of the instruction is an offset that another class may have left there.
GETPUBMET ==
  /\ At("GETPUBMET")
  /\ LET meths == Field(m.accu, 0)
         tag == Val_long(Arg(1))
         ofs == m.cache[m.pc] % (Field(meths, 1).w + 1)
         r == [m EXCEPT !.stk = <<m.accu>> \o @]
     IN IF Hit(meths, tag, ofs)
        THEN Accu(r, Field(meths, 2 + ofs))
        ELSE LET li == Bisect(meths, tag, 3, Last(meths))
             IN Accu([r EXCEPT !.cache[m.pc] = li - 3], Field(meths, li - 1))
  /\ Only
GETDYNMET ==
  /\ At("GETDYNMET")
  /\ LET meths == Field(m.stk[1], 0)
     IN Accu(m, Field(meths, Bisect(meths, m.accu, 3, Last(meths)) - 1))
  /\ Only
GETMETHOD ==
  /\ At("GETMETHOD")
  /\ Accu(m, Field(Field(m.stk[1], 0), Long_val(m.accu)))
  /\ Only

(***************************************************************************)
(* The outside world, and the specification.                               *)
(***************************************************************************)
Running == m.mode \notin {"done", "fatal"} /\ hist.signals < MaxSignals[prog]
\* handle_signal outside a blocking section.
caml_record_signal(s) ==
  /\ Running /\ s \notin sig.mask
  /\ sig' = [sig EXCEPT !.pending = @ \cup {s}, !.are_pending = TRUE, !.todo = TRUE]
  /\ hist' = [hist EXCEPT !.signals = @ + 1, !.left = {}]
  /\ UNCHANGED <<prog, code, m, act, heap, dbg>>
\* Something is to do: the next poll looks at every recorded signal, if any is known to be recorded.
ToDo(s) ==
  /\ Running /\ ~sig.todo
  /\ sig' = [s EXCEPT !.todo = TRUE]
  /\ hist' = [hist EXCEPT !.signals = @ + 1, !.left = IF sig.are_pending THEN {} ELSE @]
  /\ UNCHANGED <<prog, code, m, act, heap, dbg>>
\* An allocation asks for a slice of the collector at the next poll.
caml_urge_major_slice == ToDo([sig EXCEPT !.force = TRUE])
\* otherlibs/threads: the running thread is to give way.
thread_request_reschedule == ToDo([sig EXCEPT !.hook = TRUE])

MachineInit ==
  /\ prog \in DOMAIN Code
  /\ code = Code[prog]
  /\ m = [mode |-> IF prog \in Debugged THEN "start" ELSE "run",
          pc |-> 5, accu |-> Val_long(0), stk |-> <<>>, env |-> Atom, extra |-> 0,
          trapsp |-> Stack_size, high |-> Stack_size, size |-> Stack_size, ext |-> 1, lroots |-> 0,
          depth |-> 1, exn |-> FALSE, cb |-> 0, skip |-> FALSE, global |-> [g \in 0 .. 1 |-> Val_unit],
          cache |-> [p \in {q \in DOMAIN code.ins : code.ins[q].op = "GETPUBMET"} |-> 0]]
  /\ act = <<[off |-> 0, ext |-> 0, lroots |-> 0, saved_pc |-> 0, c |-> "none", pc |-> 0,
              extra |-> 0, n |-> 0, narg |-> 0, sig |-> 0, mask |-> {}]>>
  /\ heap = <<[tag |-> 0, f |-> <<>>]>>
  /\ sig = [pending |-> {}, are_pending |-> FALSE, todo |-> FALSE, mask |-> {}, force |-> FALSE, to_do |-> 0, hook |-> FALSE]
  /\ dbg = [on |-> prog \in Debugged, patch |-> [p \in DOMAIN code.ins |-> "none"],
            count |-> 0, barrier |-> Stack_size + 1, requests |-> 0]
  /\ hist = [polls |-> 0, at |-> 0, raised |-> {}, left |-> {}, signals |-> 0]

Instruction ==
  \/ ACC \/ PUSH \/ POP \/ ASSIGN \/ ENVACC \/ CONSTINT \/ ATOM
  \/ GETGLOBAL \/ GETGLOBALFIELD \/ SETGLOBAL
  \/ MAKEBLOCK \/ MAKEFLOATBLOCK \/ CONSTDOUBLE \/ GETFLOATFIELD \/ SETFLOATFIELD
  \/ GETFIELD \/ SETFIELD \/ VECTLENGTH \/ GETVECTITEM \/ SETVECTITEM
  \/ OFFSETREF \/ OFFSETINT \/ NEGINT \/ ISINT \/ BOOLNOT \/ Arithmetic
  \/ BRANCH \/ BRANCHIF \/ CompareBranch \/ SWITCH
  \/ CLOSURE \/ CLOSUREREC \/ OFFSETCLOSURE \/ RESTART \/ GRAB \/ RETURN
  \/ PUSH_RETADDR \/ APPLY \/ APPLYn \/ APPTERM \/ CHECK_SIGNALS
  \/ PUSHTRAP \/ POPTRAP \/ RAISE \/ C_CALL \/ GETPUBMET \/ GETDYNMET \/ GETMETHOD \/ STOP

Debugger ==
  \/ EVENT \/ BREAK \/ TrapBarrier
  \/ \E pos \in 5 .. Len(code.ins) : \E kind \in {"EVENT", "BREAK", "none"} :
       caml_set_instruction(pos, kind)
  \/ \E i \in {0, Len(m.stk)} : SetTrapBarrier(i)
  \/ \E n \in 1 .. 2 : Go(n)

MachineNext ==
  \/ Instruction
  \/ raise_exception \/ CallbackReturns \/ HandlerReturns \/ thread_reschedule
  \/ Debugger
  \/ \E s \in Sigs : caml_record_signal(s)
  \/ caml_urge_major_slice \/ thread_request_reschedule

MachineSpec == MachineInit /\ [][MachineNext]_vars
===============================================================================
