------------------------------ MODULE WeakFinal ------------------------------
(***************************************************************************)
(* Weak arrays (byterun/weak.c) and finalisation functions                 *)
(* (byterun/finalise.c) on top of the major collector of MajorGC: what     *)
(* mark_slice does with them in its subphases, between the end of marking  *)
(* and the beginning of sweeping, while the mutator runs between slices.   *)
(*                                                                         *)
(* A weak array is an Abstract block with one weak pointer.  The recent    *)
(* set of finalise.c is empty whenever a slice runs, since the minor       *)
(* collection before it empties that set, so one table stands for both.    *)
(***************************************************************************)
EXTENDS MajorGC, SequencesExt

CONSTANTS
  MaxWeak,    \* bound on the number of weak arrays allocated at one time
  MaxFinal    \* bound on the number of finalisation functions outstanding

ASSUME BoundAssumption == MaxWeak \in Nat /\ MaxFinal \in Nat
\* Weak arrays are the only Abstract blocks.
ASSUME WeakTag == "Abstract" \notin Tags

VARIABLES
  weak_list_head,   \* caml_weak_list_head
  weak_next,        \* Field (ar, 0) of a weak array: the next one in the list
  weak,             \* its weak pointer; Nil is caml_weak_none
  weak_prev,        \* the block that holds *weak_prev, Nil for the list head
  subphase,         \* caml_gc_subphase
  final_table,      \* the finalisable set: functions and values
  to_do,            \* the finalising set, in the order of the calls
  to_darken,        \* values caml_final_update has still to darken
  running           \* running_finalisation_function

weakvars  == <<weak_list_head, weak_next, weak, weak_prev>>
finalvars == <<final_table, to_do, to_darken, running>>
allvars   == <<vars, weakvars, subphase, finalvars>>

\* What the finalisers keep alive (caml_final_do_strong_roots).
FinalRoots ==
  ({e.fun : e \in ToSet(final_table) \cup ToSet(to_do)} \cup {e.val : e \in ToSet(to_do)})
    \ {Nil}

\* The blocks the program can get at, now or in a finalisation function.
StrongReachable ==
  {b \in Block : \A S \in SUBSET Block :
                   roots \cup FinalRoots \subseteq S /\ Closed(S) => b \in S}

-----------------------------------------------------------------------------
(* Weak arrays, as the mutator uses them.                                  *)

WeakArray == {b \in Block : color[b] # "blue" /\ tag[b] = "Abstract"}

caml_weak_create(b) ==
  /\ Cardinality(WeakArray) < MaxWeak
  /\ Alloc(b, "Abstract", [i \in Fields |-> Nil])
  /\ weak' = [weak EXCEPT ![b] = Nil]
  /\ weak_next' = [weak_next EXCEPT ![b] = weak_list_head]
  /\ weak_list_head' = b
  /\ UNCHANGED <<weak_prev, subphase, finalvars>>

caml_weak_set(a, v) ==
  /\ pc = "mutator"
  /\ weak' = [weak EXCEPT ![a] = v]
  /\ UNCHANGED <<vars, weak_list_head, weak_next, weak_prev, subphase, finalvars>>

\* The mutator takes the pointer v out of a weak array, or out of the block a
\* weak array points to, and darkens it.
TakeWeak(v) ==
  /\ v # Nil
  /\ roots' = roots \cup {v}
  /\ IF phase = "mark" THEN caml_darken(v) ELSE UNCHANGED <<color, stack>>
  /\ UNCHANGED <<tag, field, gcvars, weakvars, subphase, finalvars>>

caml_weak_get(a) == pc = "mutator" /\ TakeWeak(weak[a])

\* The copy is a young block, whose pointers are roots.
caml_weak_get_copy(a) ==
  /\ pc = "mutator" /\ weak[a] # Nil
  /\ \E v \in Succ(weak[a]) : TakeWeak(v)

\* The source loses its pointer if weak1 is under way and its block is white.
caml_weak_blit(s, d) ==
  /\ pc = "mutator"
  /\ LET erase == /\ phase = "mark" /\ subphase = "weak1"
                  /\ weak[s] # Nil /\ color[weak[s]] = "white"
         v == IF erase THEN Nil ELSE weak[s]
     IN weak' = [weak EXCEPT ![s] = v, ![d] = v]
  /\ UNCHANGED <<vars, weak_list_head, weak_next, weak_prev, subphase, finalvars>>

-----------------------------------------------------------------------------
(* Finalisation functions, as the mutator registers and runs them.         *)

caml_final_register(f, v) ==
  /\ pc = "mutator"
  /\ Len(final_table) + Len(to_do) < MaxFinal
  /\ final_table' = Append(final_table, [fun |-> f, val |-> v])
  /\ UNCHANGED <<vars, weakvars, subphase, to_do, to_darken, running>>

\* The function and its argument are on the stack while it runs.
caml_final_do_calls ==
  /\ pc = "mutator" /\ ~running /\ to_do # <<>>
  /\ running' = TRUE
  /\ roots' = (roots \cup {Head(to_do).fun, Head(to_do).val}) \ {Nil}
  /\ to_do' = Tail(to_do)
  /\ UNCHANGED <<color, tag, field, stack, gcvars, weakvars, subphase, final_table, to_darken>>

\* Mutant: the flag is not reset.
caml_final_release_not ==
  /\ pc = "mutator" /\ running
  /\ UNCHANGED allvars

\* The function returns, raises an exception or calls Gc.finalise_release.
caml_final_release ==
  /\ pc = "mutator" /\ running
  /\ running' = FALSE
  /\ UNCHANGED <<vars, weakvars, subphase, final_table, to_do, to_darken>>

-----------------------------------------------------------------------------
(* The collector.                                                          *)

\* Mutant: the roots of the finalisers are not visited.
StartSliceF_few_roots ==
  /\ pc = "mutator"
  /\ IF phase = "idle" THEN pc' = "roots" /\ pending' = roots
                       ELSE pc' = phase /\ UNCHANGED pending
  /\ UNCHANGED <<color, tag, field, roots, stack, markhp, phase, sweep_hp, scan_v, scan_i,
                 weakvars, subphase, finalvars>>

\* caml_darken_all_roots visits the finalisers' roots as well.
StartSliceF ==
  /\ pc = "mutator"
  /\ IF phase = "idle" THEN pc' = "roots" /\ pending' = roots \cup FinalRoots
                       ELSE pc' = phase /\ UNCHANGED pending
  /\ UNCHANGED <<color, tag, field, roots, stack, markhp, phase, sweep_hp, scan_v, scan_i,
                 weakvars, subphase, finalvars>>

CycleStartedF == CycleStarted /\ subphase' = "main" /\ UNCHANGED <<weakvars, finalvars>>

MarkStep ==
  /\ (\E v \in pending : DarkenRoot(v)) \/ MarkPop \/ MarkField \/ MarkHeap \/ MarkImpure
  /\ UNCHANGED <<weakvars, subphase, finalvars>>

unmarked == <<color, tag, field, roots, stack, markhp, phase, sweep_hp, pending,
              scan_v, scan_i>>

\* mark_slice, Subphase_main: marking is over.
MainDone ==
  /\ MarkingDone /\ subphase = "main"
  /\ subphase' = "weak1" /\ weak_prev' = Nil
  /\ UNCHANGED <<vars, weak_list_head, weak_next, weak, finalvars>>

\* *weak_prev
Cur == IF weak_prev = Nil THEN weak_list_head ELSE weak_next[weak_prev]

\* Mutant: nothing is erased.
Cleaned_never(v) ==
  IF v # Nil /\ ShortCircuits(v) /\ field[v][1] # Nil THEN field[v][1] ELSE v

\* What a weak pointer becomes: short of a Forward block that forwards to a
\* block, and empty when its block is white.
Cleaned(v) ==
  LET w == IF v # Nil /\ ShortCircuits(v) /\ field[v][1] # Nil THEN field[v][1] ELSE v
  IN IF w # Nil /\ color[w] = "white" THEN Nil ELSE w

\* Mutant: weak pointers are erased while blocks are still gray.
Weak1Step_early ==
  /\ pc = "mark" /\ subphase = "weak1" /\ Cur # Nil
  /\ weak' = [weak EXCEPT ![Cur] = Cleaned(weak[Cur])]
  /\ weak_prev' = Cur
  /\ Yield("mark")
  /\ UNCHANGED <<unmarked, weak_list_head, weak_next, subphase, finalvars>>

\* mark_slice, Subphase_weak1: one weak array.
Weak1Step ==
  /\ MarkingDone /\ subphase = "weak1" /\ Cur # Nil
  /\ weak' = [weak EXCEPT ![Cur] = Cleaned(weak[Cur])]
  /\ weak_prev' = Cur
  /\ Yield("mark")
  /\ UNCHANGED <<unmarked, weak_list_head, weak_next, subphase, finalvars>>

Weak1Done ==
  /\ MarkingDone /\ subphase = "weak1" /\ Cur = Nil
  /\ subphase' = "weak2" /\ weak_prev' = Nil
  /\ UNCHANGED <<vars, weak_list_head, weak_next, weak, finalvars>>

\* mark_slice, Subphase_weak2: unlink a dead array or go past a live one.
Weak2Step ==
  /\ MarkingDone /\ subphase = "weak2" /\ Cur # Nil
  /\ IF color[Cur] # "white"
     THEN weak_prev' = Cur /\ UNCHANGED <<weak_list_head, weak_next>>
     ELSE /\ IF weak_prev = Nil
             THEN weak_list_head' = weak_next[Cur] /\ UNCHANGED weak_next
             ELSE weak_next' = [weak_next EXCEPT ![weak_prev] = weak_next[Cur]]
                  /\ UNCHANGED weak_list_head
          /\ UNCHANGED weak_prev
  /\ Yield("mark")
  /\ UNCHANGED <<unmarked, weak, subphase, finalvars>>

White(v) == v # Nil /\ color[v] = "white"

\* caml_final_update on one entry: a white Forward block is bypassed.
Resolved(e) ==
  IF White(e.val) /\ ShortCircuits(e.val) THEN [e EXCEPT !.val = field[e.val][1]] ELSE e

\* An entry whose value is dead, or was a Forward block to an immediate.
Dead(e) == White(e.val) /\ (White(Resolved(e).val) \/ Resolved(e).val = Nil)

\* The elements of a set of positions, in order.
InOrder(D) ==
  {f \in [1..Cardinality(D) -> D] : \A i, k \in 1..Cardinality(D) : i < k => f[i] < f[k]}

\* caml_final_update, called at the end of Subphase_weak2: move the dead
\* entries, in order, to a new batch; the calls will take it from its end.
caml_final_update ==
  /\ MarkingDone /\ subphase = "weak2" /\ Cur = Nil
  /\ LET D == {k \in DOMAIN final_table : Dead(final_table[k])}
     IN \E dead \in InOrder(D), alive \in InOrder(DOMAIN final_table \ D) :
          LET batch == [k \in DOMAIN dead |-> Resolved(final_table[dead[k]])]
          IN /\ final_table' = [k \in DOMAIN alive |-> Resolved(final_table[alive[k]])]
             /\ to_do' = to_do \o Reverse(batch)
             /\ to_darken' = [k \in DOMAIN batch |-> batch[k].val]
  /\ pc' = "final"
  /\ UNCHANGED <<unmarked, weakvars, subphase, running>>

\* The last loop of caml_final_update: darken one value of the batch.
DarkenFinal ==
  /\ pc = "final" /\ to_darken # <<>>
  /\ caml_darken(Head(to_darken))
  /\ to_darken' = Tail(to_darken)
  /\ UNCHANGED <<tag, field, roots, gcvars, weakvars, subphase, final_table, to_do, running>>

FinalUpdated ==
  /\ pc = "final" /\ to_darken = <<>>
  /\ pc' = "mark" /\ subphase' = "final"
  /\ UNCHANGED <<unmarked, weakvars, finalvars>>

InitSweepF == subphase = "final" /\ InitSweep /\ UNCHANGED <<weakvars, subphase, finalvars>>

\* A block that is freed is a weak array no more.
SweepStep ==
  /\ SweepBlock \/ SweepDone
  /\ LET freed == {b \in Block : color[b] # "blue" /\ color'[b] = "blue"}
     IN /\ weak' = [b \in Block |-> IF b \in freed THEN Nil ELSE weak[b]]
        /\ weak_next' = [b \in Block |-> IF b \in freed THEN Nil ELSE weak_next[b]]
  /\ UNCHANGED <<weak_list_head, weak_prev, subphase, finalvars>>

CollectorF ==
  \/ CycleStartedF \/ MarkStep
  \/ MainDone \/ Weak1Step \/ Weak1Done \/ Weak2Step
  \/ caml_final_update \/ DarkenFinal \/ FinalUpdated
  \/ InitSweepF \/ SweepStep

-----------------------------------------------------------------------------
InitF ==
  /\ Init
  /\ weak_list_head = Nil /\ weak_prev = Nil
  /\ weak_next = [b \in Block |-> Nil] /\ weak = [b \in Block |-> Nil]
  /\ subphase = "main"
  /\ final_table = <<>> /\ to_do = <<>> /\ to_darken = <<>> /\ running = FALSE

MutatorF ==
  \/ Mutator /\ UNCHANGED <<weakvars, subphase, finalvars>>
  \/ \E b \in Block : caml_weak_create(b)
  \/ \E a \in roots \cap WeakArray :
       \/ \E v \in roots \cup {Nil} : caml_weak_set(a, v)
       \/ caml_weak_get(a) \/ caml_weak_get_copy(a)
       \/ \E d \in roots \cap WeakArray : caml_weak_blit(a, d)
  \/ \E f \in roots \cup {Nil}, v \in roots : caml_final_register(f, v)

NextF == MutatorF \/ caml_final_do_calls \/ caml_final_release \/ StartSliceF \/ CollectorF

SpecF == InitF /\ [][NextF]_allvars

\* Slices keep coming; caml_minor_collection calls the functions of the
\* finalising set after each, and the functions themselves return.  The
\* fairness is strong because a slice may begin before the call.
FairSpecF ==
  /\ SpecF
  /\ WF_allvars(StartSliceF) /\ WF_allvars(CollectorF)
  /\ SF_allvars(caml_final_do_calls) /\ SF_allvars(caml_final_release)

-----------------------------------------------------------------------------
(* Properties.                                                             *)

\* No finalisation function, no value awaiting one and nothing that they can
\* reach is ever freed, even registered in the middle of a cycle, when
\* caml_final_do_strong_roots has already run.
NoStrongFree == StrongReachable \cap Colored("blue") = {}

\* The weak arrays on the list, by the least set closed under weak_next.
WeakList ==
  {b \in Block : \A S \in SUBSET Block :
     /\ weak_list_head # Nil => weak_list_head \in S
     /\ \A a \in S : weak_next[a] # Nil => weak_next[a] \in S
     => b \in S}

\* A full weak pointer of an array the program can reach points to a block
\* that is allocated: what weak.mli promises of Weak.get.  The list of weak
\* arrays leads through allocated arrays only and misses none that the program
\* can reach, across Weak2Step and sweeping.
WeakSound ==
  /\ \A a \in StrongReachable \cap WeakArray : weak[a] \notin Colored("blue")
  /\ WeakList \subseteq WeakArray
  /\ StrongReachable \cap WeakArray \subseteq WeakList

\* The collector empties a weak pointer only if the program cannot reach the
\* block it points to.
EraseOnlyDead ==
  [][pc # "mutator" =>
       \A a \in StrongReachable \cap WeakArray :
         weak[a] # Nil /\ weak'[a] = Nil => weak[a] \notin StrongReachable]_allvars

\* A finalisation function is scheduled only when the program can no longer
\* reach its value.
FinaliseOnlyDead ==
  [][\A k \in (Len(to_do) + 1)..Len(to_do') : to_do'[k].val \notin StrongReachable]_allvars

\* A value with a finalisation function that becomes unreachable is given to
\* a call of it (what it forwards to is, for a Forward block), and garbage is
\* freed, unless its finalisation or a weak pointer revives it.
Finalised ==
  /\ \A b \in Block :
       /\ \E e \in ToSet(final_table) : e.val = b
       /\ tag[b] # "Forward" /\ b \notin StrongReachable
       ~> b \in roots
  /\ \A b \in Block : color[b] # "blue" /\ b \notin StrongReachable ~>
                        color[b] = "blue" \/ b \in StrongReachable

=============================================================================
