--------------------------- MODULE SysThreadsProofs ---------------------------
(***************************************************************************)
(* Proofs about the master lock and the system threads, for any finite set *)
(* of threads: the lock is a lock, its count of waiters is exact and no    *)
(* wake-up is lost; the threads, fork included, use it as MasterLock says, *)
(* and the circular list that the garbage collector walks holds the        *)
(* threads it must scan.                                                   *)
(***************************************************************************)
EXTENDS SysThreads, FiniteSetTheorems, TLAPS

\* One step of the lock keeps its types and the count.
LEMMA LockTypesStep ==
  LockTypeOK /\ WaitersExact /\ [LockNext]_lockvars => (LockTypeOK /\ WaitersExact)'
<1> DEFINE W == At("wait") \cup At("woken")
<1> SUFFICES ASSUME LockTypeOK, WaitersExact, [LockNext]_lockvars
             PROVE  (LockTypeOK /\ WaitersExact)'
  OBVIOUS
<1>1. W \subseteq Thread /\ IsFiniteSet(W)
  <2>1. W \subseteq Thread
    BY DEF At
  <2> QED BY <2>1, ThreadAssumption, FS_Subset
<1>2. waiters = Cardinality(W) /\ waiters \in Nat
  BY DEF WaitersExact, LockTypeOK
<1>3. CASE UNCHANGED lockvars
  BY <1>3 DEF lockvars, LockTypeOK, WaitersExact, At
<1>4. ASSUME NEW p \in Thread, st_masterlock_acquire(p)
      PROVE  (LockTypeOK /\ WaitersExact)'
  <2>1. p \notin W
    BY <1>4 DEF st_masterlock_acquire, At
  <2>2. CASE busy
    <3>1. W' = W \cup {p}
      BY <1>4, <2>2 DEF st_masterlock_acquire, Enter, At, LockTypeOK
    <3>2. Cardinality(W') = waiters + 1
      BY <3>1, <2>1, <1>1, <1>2, FS_AddElement
    <3> QED BY <3>2, <1>2, <1>4, <2>2
            DEF st_masterlock_acquire, Enter, LockTypeOK, WaitersExact, Places
  <2>3. CASE ~busy
    <3>1. W' = W
      BY <1>4, <2>3 DEF st_masterlock_acquire, Enter, At, LockTypeOK
    <3> QED BY <3>1, <1>2, <1>4, <2>3
            DEF st_masterlock_acquire, Enter, LockTypeOK, WaitersExact, Places
  <2> QED BY <2>2, <2>3
<1>5. ASSUME NEW p \in Thread, Resume(p)
      PROVE  (LockTypeOK /\ WaitersExact)'
  <2>1. p \in W
    BY <1>5 DEF Resume, At
  <2>2. Cardinality(W \ {p}) = waiters - 1 /\ waiters - 1 \in Nat
    <3>1. IsFiniteSet(W \ {p}) /\ Cardinality(W \ {p}) = waiters - 1
      BY <2>1, <1>1, <1>2, FS_RemoveElement
    <3> QED BY <3>1, FS_CardinalityType
  <2>3. CASE busy
    <3>1. W' = W
      BY <1>5, <2>3, <2>1 DEF Resume, Enter, At, LockTypeOK
    <3>2. waiters' = waiters
      BY <2>2, <1>2, <1>5, <2>3 DEF Resume, Enter
    <3>3. WaitersExact'
      BY <3>1, <3>2, <1>2 DEF WaitersExact
    <3>4. LockTypeOK'
      BY <3>2, <1>2, <1>5, <2>3 DEF Resume, Enter, LockTypeOK, Places
    <3> QED BY <3>3, <3>4
  <2>4. CASE ~busy
    <3>1. W' = W \ {p}
      BY <1>5, <2>4, <2>1 DEF Resume, Enter, At, LockTypeOK
    <3> QED BY <3>1, <2>2, <1>2, <1>5, <2>4
            DEF Resume, Enter, LockTypeOK, WaitersExact, Places
  <2> QED BY <2>3, <2>4
<1>6. ASSUME NEW p \in Thread, Spurious(p) \/ st_masterlock_release(p) \/ Signal(p)
      PROVE  (LockTypeOK /\ WaitersExact)'
  <2>1. W' = W
    BY <1>6 DEF Spurious, st_masterlock_release, Signal, At, LockTypeOK
  <2> QED BY <2>1, <1>6
          DEF Spurious, st_masterlock_release, Signal, At, LockTypeOK, WaitersExact, Places
<1> QED BY <1>3, <1>4, <1>5, <1>6 DEF LockNext

\* The steps of st_masterlock_acquire and st_masterlock_release keep the types
\* of the flag, of the count (given that it is exact) and of the places.
THEOREM LockTypes == LockSpec => [](LockTypeOK /\ WaitersExact)
<1>1. LockInit => LockTypeOK /\ WaitersExact
  <2>1. SUFFICES ASSUME LockInit PROVE LockTypeOK /\ WaitersExact
    OBVIOUS
  <2>2. At("wait") \cup At("woken") = {}
    BY <2>1 DEF LockInit, st_masterlock_init, At
  <2>3. WaitersExact
    BY <2>1, <2>2, FS_EmptySet DEF LockInit, st_masterlock_init, WaitersExact
  <2>4. LockTypeOK
    BY <2>1 DEF LockInit, st_masterlock_init, LockTypeOK, Places
  <2> QED BY <2>3, <2>4
<1> QED BY <1>1, LockTypesStep, PTL DEF LockSpec

\* One step of the lock keeps the exclusion.
LEMMA ExclusionStep ==
  LockTypeOK /\ MutualExclusion /\ [LockNext]_lockvars => MutualExclusion'
<1> SUFFICES ASSUME LockTypeOK, MutualExclusion, [LockNext]_lockvars
             PROVE  MutualExclusion'
  OBVIOUS
<1> USE DEF LockTypeOK, MutualExclusion, At
<1>1. CASE UNCHANGED lockvars
  BY <1>1 DEF lockvars
<1>2. ASSUME NEW p \in Thread, st_masterlock_acquire(p) PROVE MutualExclusion'
  BY <1>2 DEF st_masterlock_acquire, Enter
<1>3. ASSUME NEW p \in Thread, Resume(p) PROVE MutualExclusion'
  BY <1>3 DEF Resume, Enter
<1>4. ASSUME NEW p \in Thread, Spurious(p) PROVE MutualExclusion'
  BY <1>4 DEF Spurious
<1>5. ASSUME NEW p \in Thread, st_masterlock_release(p) PROVE MutualExclusion'
  BY <1>5 DEF st_masterlock_release
<1>6. ASSUME NEW p \in Thread, Signal(p) PROVE MutualExclusion'
  BY <1>6 DEF Signal
<1> QED BY <1>1, <1>2, <1>3, <1>4, <1>5, <1>6 DEF LockNext

\* No two threads are past st_masterlock_acquire at a time.
THEOREM LockExclusion == LockSpec => []MutualExclusion
<1>1. LockInit => MutualExclusion
  BY ThreadAssumption DEF LockInit, st_masterlock_init, MutualExclusion, At
<1> QED BY <1>1, ExclusionStep, LockTypes, PTL DEF LockSpec

\* One step of the lock keeps the wake-up.
LEMMA WakeupStep ==
  LockTypeOK /\ NoLostWakeup /\ [LockNext]_lockvars => NoLostWakeup'
<1> SUFFICES ASSUME LockTypeOK, NoLostWakeup, [LockNext]_lockvars
             PROVE  NoLostWakeup'
  OBVIOUS
<1> USE DEF LockTypeOK, NoLostWakeup, At
<1>1. CASE UNCHANGED lockvars
  BY <1>1 DEF lockvars
<1>2. ASSUME NEW p \in Thread, st_masterlock_acquire(p) PROVE NoLostWakeup'
  BY <1>2 DEF st_masterlock_acquire, Enter
<1>3. ASSUME NEW p \in Thread, Resume(p) PROVE NoLostWakeup'
  BY <1>3 DEF Resume, Enter
<1>4. ASSUME NEW p \in Thread, Spurious(p) PROVE NoLostWakeup'
  BY <1>4 DEF Spurious
<1>5. ASSUME NEW p \in Thread, st_masterlock_release(p) PROVE NoLostWakeup'
  BY <1>5 DEF st_masterlock_release
<1>6. ASSUME NEW p \in Thread, Signal(p) PROVE NoLostWakeup'
  BY <1>6 DEF Signal
<1> QED BY <1>1, <1>2, <1>3, <1>4, <1>5, <1>6 DEF LockNext

\* The signal after the unlock of st_masterlock_release reaches a waiter
\* whenever the lock is free and somebody waits.
THEOREM WakeupKept == LockSpec => []NoLostWakeup
<1>1. LockInit => NoLostWakeup
  BY DEF LockInit, st_masterlock_init, NoLostWakeup
<1> QED BY <1>1, WakeupStep, LockTypes, PTL DEF LockSpec

\* One step of the lock takes or gives the abstract lock, or leaves it alone.
LEMMA RefinementStep ==
  LockTypeOK /\ MutualExclusion /\ [LockNext]_lockvars => [L!Next]_(At("in"))
<1> SUFFICES ASSUME LockTypeOK, MutualExclusion, [LockNext]_lockvars
             PROVE  [L!Next]_(At("in"))
  OBVIOUS
<1> USE DEF LockTypeOK, At
<1>1. CASE UNCHANGED lockvars
  BY <1>1 DEF lockvars
<1>2. ASSUME NEW p \in Thread, st_masterlock_acquire(p) \/ Resume(p)
      PROVE  [L!Next]_(At("in"))
  <2>1. CASE busy
    BY <1>2, <2>1 DEF st_masterlock_acquire, Resume, Enter
  <2>2. CASE ~busy
    <3>1. At("in") = {}
      BY <2>2 DEF MutualExclusion
    <3>2. At("in")' = {p}
      BY <3>1, <1>2, <2>2 DEF st_masterlock_acquire, Resume, Enter
    <3> QED BY <3>1, <3>2 DEF L!Next, L!Take
  <2> QED BY <2>1, <2>2
<1>3. ASSUME NEW p \in Thread, st_masterlock_release(p)
      PROVE  [L!Next]_(At("in"))
  <2>1. At("in") = {p}
    BY <1>3 DEF st_masterlock_release, MutualExclusion
  <2>2. At("in")' = {}
    BY <2>1, <1>3 DEF st_masterlock_release
  <2> QED BY <2>1, <2>2 DEF L!Next, L!Give
<1>4. ASSUME NEW p \in Thread, Spurious(p) \/ Signal(p)
      PROVE  [L!Next]_(At("in"))
  BY <1>4 DEF Spurious, Signal
<1> QED BY <1>1, <1>2, <1>3, <1>4 DEF LockNext

\* The master lock implements Lock: its steps take or give the lock of the
\* abstract specification, or leave it alone.
THEOREM LockRefinement == LockSpec => ImplementsLock
<1>1. LockInit => L!Init
  BY ThreadAssumption DEF LockInit, st_masterlock_init, L!Init, At
<1> QED BY <1>1, RefinementStep, LockTypes, LockExclusion, PTL DEF LockSpec, ImplementsLock, L!Spec

-----------------------------------------------------------------------------
(* Circular lists.                                                         *)

\* next and prev are inverse on M, and one turn along next visits all of M.
Ring(nx, pv, M) ==
  /\ M \subseteq Thread
  /\ \A q \in M : nx[q] \in M /\ pv[q] \in M /\ pv[nx[q]] = q /\ nx[pv[q]] = q
  /\ \A S \in SUBSET M : S # {} /\ (\A q \in S : nx[q] \in S) => S = M

\* What MasterLock proves of the lock.
Exclusion == LockTypeOK /\ WaitersExact /\ MutualExclusion /\ NoLostWakeup

\* The places of each thread agree with its use of the master lock.
PlacesInv ==
  /\ at \in [Thread -> Blocked \cup Acquiring \cup Inside \cup {"none", "foreign", "start", "dead", "gone"}]
  /\ \A p \in Thread :
       /\ at[p] \in Inside => lpc[p] = "in"
       /\ lpc[p] = "in" => at[p] \in Acquiring \cup Inside
       /\ lpc[p] \in {"wait", "woken"} => at[p] \in Acquiring
       /\ at[p] \in {"foreign", "registering", "registered", "describing", "unregistering"} => p \in Foreign
       /\ at[p] = "stopping" => p \in MayExit
       /\ at[p] = "unregistering" => p \in tls
       /\ p \in Foreign /\ at[p] \in Blocked \cup Inside \cup {"leaving", "registered"} => p \in tls
       /\ p \in Foreign => at[p] \notin {"none", "start"}

\* The registers and the stacks that the info blocks hold.
RegsInv ==
  /\ saved \in [Thread -> Thread \cup {NULL}]
  /\ \A p \in Thread :
       /\ at[p] \in Inside => curr_thread = p /\ stack = p
       /\ p \in CamlThread /\ at[p] \notin Inside => saved[p] = p
       /\ at[p] = "registering" => saved[p] = p /\ p \in info

\* The list holds the Caml threads.  When C code may register threads, the
\* head of the list stays in it.
ListInv ==
  /\ next \in [Thread -> Thread] /\ prev \in [Thread -> Thread]
  /\ Ring(next, prev, CamlThread)
  /\ CamlThread \subseteq info
  /\ Foreign # {} => all_threads \in CamlThread \cap (Forkers \cup {Main})

\* Joined threads.
JoinInv ==
  /\ target \in [Thread -> Thread \cup {NULL}]
  /\ terminated \subseteq Thread
  /\ \A p \in terminated : at[p] \in {"stopping", "dead", "gone"}
  /\ \A p \in Thread : at[p] \notin {"join", "dead", "gone"} => target[p] \in terminated \cup {NULL}

\* With Exclusion, the inductive invariant.
State == PlacesInv /\ RegsInv /\ ListInv /\ JoinInv

-----------------------------------------------------------------------------
(* Lemmas about the list.                                                  *)

LEMMA RingAlone ==
  ASSUME NEW nx, NEW pv, NEW p \in Thread, nx[p] = p, pv[p] = p
  PROVE  Ring(nx, pv, {p})
BY DEF Ring

LEMMA RingInsert ==
  ASSUME NEW nx \in [Thread -> Thread], NEW pv \in [Thread -> Thread], NEW M,
         Ring(nx, pv, M), NEW head \in M, NEW th \in Thread \ M
  PROVE  Ring([nx EXCEPT ![th] = nx[head], ![head] = th],
              [pv EXCEPT ![th] = head, ![nx[head]] = th], M \cup {th})
<1> DEFINE nx1 == [nx EXCEPT ![th] = nx[head], ![head] = th]
           pv1 == [pv EXCEPT ![th] = head, ![nx[head]] = th]
<1>1. M \subseteq Thread /\ head # th
  BY DEF Ring
<1>2. nx1[th] = nx[head] /\ nx1[head] = th /\ \A q \in M \ {head} : nx1[q] = nx[q]
  BY <1>1
<1>3. nx[head] \in M /\ nx[head] # th
  BY DEF Ring
<1>4. pv1[th] = head /\ pv1[nx[head]] = th /\ \A q \in M \ {nx[head]} : pv1[q] = pv[q]
  BY <1>1, <1>3
<1> HIDE DEF nx1, pv1
<1>5. \A q \in M \cup {th} : nx1[q] \in M \cup {th} /\ pv1[q] \in M \cup {th}
  BY <1>2, <1>3, <1>4 DEF Ring
<1>6. \A q \in M \cup {th} : pv1[nx1[q]] = q
  BY <1>1, <1>2, <1>3, <1>4 DEF Ring
<1>7. \A q \in M \cup {th} : nx1[pv1[q]] = q
  BY <1>1, <1>2, <1>3, <1>4 DEF Ring
<1>8. ASSUME NEW S \in SUBSET (M \cup {th}), S # {}, \A q \in S : nx1[q] \in S
      PROVE  S = M \cup {th}
  <2>1. S \ {th} \in SUBSET M
    OBVIOUS
  <2>2. S \ {th} # {}
    BY <1>2, <1>3, <1>8
  <2>3. \A q \in S \ {th} : nx[q] \in S \ {th}
    BY <1>2, <1>3, <1>8 DEF Ring
  <2>4. S \ {th} = M
    BY <2>1, <2>2, <2>3 DEF Ring
  <2>5. th \in S
    BY <1>2, <1>8, <2>4
  <2> QED BY <2>4, <2>5
<1> QED BY <1>1, <1>5, <1>6, <1>7, <1>8 DEF Ring, nx1, pv1

LEMMA RingRemove ==
  ASSUME NEW nx \in [Thread -> Thread], NEW pv \in [Thread -> Thread], NEW M,
         Ring(nx, pv, M), NEW th \in M
  PROVE  Ring([nx EXCEPT ![pv[th]] = nx[th]], [pv EXCEPT ![nx[th]] = pv[th]], M \ {th})
<1> DEFINE nx1 == [nx EXCEPT ![pv[th]] = nx[th]]
           pv1 == [pv EXCEPT ![nx[th]] = pv[th]]
<1>1. M \subseteq Thread /\ nx[th] \in M /\ pv[th] \in M /\ nx[pv[th]] = th /\ pv[nx[th]] = th
  BY DEF Ring
<1>2. nx1[pv[th]] = nx[th] /\ \A q \in M \ {pv[th]} : nx1[q] = nx[q]
  BY <1>1
<1>3. pv1[nx[th]] = pv[th] /\ \A q \in M \ {nx[th]} : pv1[q] = pv[q]
  BY <1>1
<1> HIDE DEF nx1, pv1
<1>4. \A q \in M : nx[q] = th <=> q = pv[th]
  BY <1>1 DEF Ring
<1>5. \A q \in M : pv[q] = th <=> q = nx[th]
  BY <1>1 DEF Ring
<1>6. \A q \in M \ {th} : nx1[q] \in M \ {th} /\ pv1[q] \in M \ {th}
  BY <1>1, <1>2, <1>3, <1>4, <1>5 DEF Ring
<1>7. \A q \in M \ {th} : pv1[nx1[q]] = q /\ nx1[pv1[q]] = q
  BY <1>1, <1>2, <1>3, <1>4, <1>5, <1>6 DEF Ring
<1>8. ASSUME NEW S \in SUBSET (M \ {th}), S # {}, \A q \in S : nx1[q] \in S
      PROVE  S = M \ {th}
  <2>1. CASE pv[th] \in S
    <3>1. nx[th] \in S
      BY <1>2, <1>8, <2>1
    <3>2. \A q \in S \cup {th} : nx[q] \in S \cup {th}
      BY <1>2, <1>4, <1>8, <3>1
    <3>3. S \cup {th} \in SUBSET M
      OBVIOUS
    <3>4. S \cup {th} = M
      BY <3>2, <3>3 DEF Ring
    <3> QED BY <3>4
  <2>2. CASE pv[th] \notin S
    <3>1. \A q \in S : nx[q] \in S
      BY <1>2, <1>8, <2>2
    <3>2. S \in SUBSET M
      OBVIOUS
    <3> QED BY <1>8, <3>1, <3>2 DEF Ring
  <2> QED BY <2>1, <2>2
<1> QED BY <1>1, <1>6, <1>7, <1>8 DEF Ring, nx1, pv1

\* From a block of the ring, caml_thread_scan_roots comes to all of it and to nothing else.
LEMMA RingScanned ==
  ASSUME NEW M, Ring(next, prev, M), curr_thread \in M
  PROVE  Scanned = M
<1>1. M \in SUBSET Thread /\ \A r \in M : next[r] \in M
  BY DEF Ring
<1>2. Scanned \subseteq M
  BY <1>1 DEF Scanned
<1>3. ASSUME NEW q \in M, NEW S \in SUBSET Thread, curr_thread \in S, \A r \in S : next[r] \in S
      PROVE  q \in S
  <2>1. S \cap M \in SUBSET M /\ S \cap M # {}
    BY <1>3
  <2>2. \A r \in S \cap M : next[r] \in S \cap M
    BY <1>1, <1>3
  <2>3. S \cap M = M
    BY <2>1, <2>2 DEF Ring
  <2> QED BY <2>3
<1> QED BY <1>1, <1>2, <1>3 DEF Scanned

-----------------------------------------------------------------------------
(* The lock.                                                               *)

\* Every step but fork uses the lock through its operations.
LEMMA LockUse ==
  ASSUME NEW p \in Thread, LockStep(p) \/ UnsentWakeup(p) \/ Continue(p) \/ Program(p), ~Fork(p)
  PROVE  [LockNext]_lockvars
<1>1. CASE LockStep(p) \/ UnsentWakeup(p)
  BY <1>1 DEF LockStep, UnsentWakeup, LockNext
<1>2. CASE Continue(p)
  BY <1>2 DEF Continue, LockNext, caml_thread_leave_blocking_section, caml_thread_start, Stopped,
              Register, Registered, Described, Unregister, caml_thread_enter_blocking_section
<1>3. CASE Program(p)
  BY <1>3 DEF Program, LockNext, BlockingCall, CallReturns, caml_thread_yield, caml_thread_stop,
              caml_threadstatus_wait, caml_thread_new, caml_thread_join, caml_c_thread_register,
              caml_c_thread_unregister, ReturnToC, CallBack, caml_mutex_lock, MutexLocked,
              caml_mutex_try_lock, caml_mutex_unlock, caml_condition_wait, CondWait, SpuriousWakeup,
              caml_condition_signal, caml_condition_broadcast, Wake, caml_thread_enter_blocking_section
<1> QED BY <1>1, <1>2, <1>3

\* In the child the lock is the one thread's.
LEMMA ForkLock ==
  ASSUME NEW p \in Thread, Fork(p)
  PROVE  Exclusion' /\ At("in")' = {p}
<1>1. busy' = TRUE /\ waiters' = 0 /\ lpc' = [q \in Thread |-> IF q = p THEN "in" ELSE "out"]
  BY DEF Fork
<1>2. At("wait")' \cup At("woken")' = {} /\ At("in")' = {p}
  BY <1>1 DEF At
<1>3. WaitersExact'
  BY <1>1, <1>2, FS_EmptySet DEF WaitersExact
<1>4. LockTypeOK' /\ MutualExclusion' /\ NoLostWakeup'
  BY <1>1, <1>2 DEF LockTypeOK, Places, MutualExclusion, NoLostWakeup
<1> QED BY <1>2, <1>3, <1>4 DEF Exclusion

LEMMA ExclusionKept ==
  ASSUME Exclusion, [ThreadNext]_thrvars
  PROVE  Exclusion'
<1>1. CASE [LockNext]_lockvars
  BY <1>1, LockTypesStep, ExclusionStep, WakeupStep DEF Exclusion
<1>2. CASE UNCHANGED thrvars
  BY <1>1, <1>2 DEF thrvars
<1>3. CASE ThreadNext
  BY <1>1, <1>3, LockUse, ForkLock DEF ThreadNext
<1> QED BY <1>2, <1>3

LEMMA ExclusionInit ==
  ThreadInit => Exclusion /\ L!Init
<1> SUFFICES ASSUME ThreadInit PROVE Exclusion /\ L!Init
  OBVIOUS
<1>1. st_masterlock_init
  BY DEF ThreadInit
<1>2. At("wait") \cup At("woken") = {} /\ At("in") = {Main}
  BY <1>1, ThreadAssumption DEF st_masterlock_init, At
<1>3. WaitersExact
  BY <1>1, <1>2, FS_EmptySet DEF st_masterlock_init, WaitersExact
<1>4. LockTypeOK /\ MutualExclusion /\ NoLostWakeup /\ L!Init
  BY <1>1, <1>2, ThreadAssumption
     DEF st_masterlock_init, LockTypeOK, Places, MutualExclusion, NoLostWakeup, L!Init
<1> QED BY <1>3, <1>4 DEF Exclusion

\* The thread that forked holds the lock on both sides of the step.
LEMMA LockUsed ==
  ASSUME Exclusion, [ThreadNext]_thrvars
  PROVE  [L!Next]_(At("in"))
<1>1. CASE [LockNext]_lockvars
  BY <1>1, RefinementStep DEF Exclusion
<1>2. CASE UNCHANGED thrvars
  BY <1>1, <1>2 DEF thrvars
<1>3. ASSUME NEW p \in Thread, Fork(p) PROVE [L!Next]_(At("in"))
  <2>1. At("in") = {p}
    BY <1>3 DEF Fork, Running, Exclusion, MutualExclusion, At
  <2> QED BY <1>3, <2>1, ForkLock
<1>4. CASE ThreadNext
  BY <1>1, <1>3, <1>4, LockUse DEF ThreadNext
<1> QED BY <1>2, <1>4

\* Threads and fork keep the count of waiters exact, the lock exclusive and the wake-ups.
THEOREM ThreadsExclude == ThreadSpec => [](WaitersExact /\ MutualExclusion /\ NoLostWakeup)
<1>1. Exclusion => WaitersExact /\ MutualExclusion /\ NoLostWakeup
  BY DEF Exclusion
<1> QED BY <1>1, ExclusionInit, ExclusionKept, PTL DEF ThreadSpec

\* st_stubs.c uses the master lock as Lock says: a thread takes it when it is free, and only
\* the thread that holds it gives it up; fork leaves it with the thread that forked.
THEOREM ThreadsUseLock == ThreadSpec => ImplementsLock
BY ExclusionInit, ExclusionKept, LockUsed, PTL DEF ThreadSpec, ImplementsLock, L!Spec

-----------------------------------------------------------------------------
(* The list of threads.                                                    *)

\* caml_thread_remove_info leaves all_threads at a block that it frees when that block is the
\* head of a longer list.  No harm is done when C code registers no threads, for nothing
\* else reads all_threads, or when the heads, the first thread and those that fork, stay.
HeadStays == Foreign = {} \/ (Forkers \cup {Main}) \cap (MayExit \cup Foreign) = {}

LEMMA StateInit ==
  ThreadInit => State
<1> SUFFICES ASSUME ThreadInit PROVE State
  OBVIOUS
<1> USE ThreadAssumption, ForeignAssumption
<1>1. CamlThread = {Main}
  BY DEF ThreadInit, CamlThread, Blocked, Inside
<1>2. PlacesInv
  BY DEF ThreadInit, st_masterlock_init, PlacesInv, Blocked, Acquiring, Inside
<1>4. RegsInv
  BY <1>1 DEF ThreadInit, RegsInv, Inside
<1>5. ListInv
  <2>1. next \in [Thread -> Thread] /\ prev \in [Thread -> Thread] /\ next[Main] = Main /\ prev[Main] = Main
    BY DEF ThreadInit
  <2>2. Ring(next, prev, {Main})
    BY <2>1, RingAlone
  <2> QED BY <1>1, <2>1, <2>2 DEF ThreadInit, ListInv
<1>6. JoinInv
  BY DEF ThreadInit, JoinInv
<1> QED BY <1>2, <1>4, <1>5, <1>6 DEF State

\* The one thread with the lock is p, and inside the runtime system the registers are its own.
LEMMA Runner ==
  ASSUME Exclusion, State, NEW p \in Thread, lpc[p] = "in"
  PROVE  /\ \A q \in Thread \ {p} : lpc[q] # "in" /\ at[q] \notin Inside
         /\ at[p] \in Inside => curr_thread = p /\ stack = p /\ p \in CamlThread
<1>1. \A q \in Thread \ {p} : lpc[q] # "in"
  BY DEF Exclusion, MutualExclusion, At
<1> QED BY <1>1 DEF State, PlacesInv, RegsInv, CamlThread

\* What a step leaves alone, when the list, the registers and the set of Caml threads stay.
LEMMA ListFrame ==
  ASSUME ListInv, UNCHANGED <<next, prev, all_threads>>, CamlThread' = CamlThread, info \subseteq info'
  PROVE  ListInv'
BY DEF ListInv, Ring

LEMMA LockStepKeeps ==
  ASSUME Exclusion, State, NEW p \in Thread, LockStep(p) \/ UnsentWakeup(p)
  PROVE  State'
<1>1. UNCHANGED <<at, list, regs, tls, sync>> /\ lpc \in [Thread -> Places]
  BY DEF LockStep, UnsentWakeup, Exclusion, LockTypeOK
<1>2. CamlThread' = CamlThread
  BY <1>1 DEF CamlThread
<1>3. \A q \in Thread : /\ lpc'[q] = "in" => lpc[q] = "in" \/ at[q] \in Acquiring
                        /\ lpc[q] = "in" => lpc'[q] = "in"
                        /\ lpc'[q] \in {"wait", "woken"} => at[q] \in Acquiring
  BY <1>1 DEF LockStep, UnsentWakeup, State, PlacesInv, st_masterlock_acquire, Resume, Enter, Spurious, Signal, At
<1>4. PlacesInv'
  BY <1>1, <1>3 DEF State, PlacesInv
<1>6. RegsInv'
  BY <1>1, <1>2 DEF State, RegsInv, regs, list
<1>7. ListInv'
  BY <1>1, <1>2, ListFrame DEF State, list
<1>8. JoinInv'
  BY <1>1 DEF State, JoinInv, sync
<1> QED BY <1>4, <1>6, <1>7, <1>8 DEF State

\* A thread that has the lock goes back into the runtime system.
LEMMA ReturnKeeps ==
  ASSUME Exclusion, State, NEW p \in Thread, caml_thread_leave_blocking_section(p) \/ Registered(p)
  PROVE  State'
<1>1. /\ lpc[p] = "in" /\ curr_thread' = p /\ stack' = saved[p]
      /\ UNCHANGED <<lockvars, list, saved, tls, sync>>
  BY DEF caml_thread_leave_blocking_section, Registered
<1> PICK place \in {"run", "describing"} :
      /\ at[p] = IF place = "run" THEN "leaving" ELSE "registered"
      /\ at' = [at EXCEPT ![p] = place]
  BY DEF caml_thread_leave_blocking_section, Registered, Goto
<1>2. \A q \in Thread \ {p} : at[q] \notin Inside /\ at'[q] = at[q]
  BY <1>1, Runner DEF State, PlacesInv
<1>3. at'[p] = place /\ place \in Inside /\ place # "stopping" /\ at[p] \notin Inside
  BY DEF State, PlacesInv, Inside
<1>4. CamlThread' = CamlThread /\ p \in CamlThread
  BY <1>1, <1>2, <1>3 DEF CamlThread, Blocked, Inside
<1>5. PlacesInv'
  BY <1>1, <1>2, <1>3 DEF State, PlacesInv, lockvars, Acquiring, Blocked, Inside
<1>6. saved[p] = p
  BY <1>3, <1>4 DEF State, RegsInv
<1>7. RegsInv'
  BY <1>1, <1>2, <1>3, <1>4, <1>6 DEF State, RegsInv, list
<1>8. ListInv'
  BY <1>1, <1>4, ListFrame DEF State, list
<1>9. JoinInv'
  BY <1>1, <1>2, <1>3 DEF State, JoinInv, sync
<1> QED BY <1>5, <1>7, <1>8, <1>9 DEF State

\* A thread leaves the runtime system for a blocking section.
LEMMA BlockKeeps ==
  ASSUME Exclusion, State, NEW p \in Thread, NEW place \in Blocked \cup {"leaving", "foreign"},
         at[p] \in {"run", "describing"}, place # "foreign" => at[p] = "run",
         caml_thread_enter_blocking_section(p, place), place = "foreign" => p \in Foreign,
         UNCHANGED terminated,
         target' \in [Thread -> Thread \cup {NULL}],
         \A q \in Thread : target'[q] \in {target[q], NULL} \/ (q = p /\ place = "join")
  PROVE  State'
<1>1. /\ lpc[p] = "in" /\ at[p] \in Inside
      /\ at' = [at EXCEPT ![p] = place] /\ saved' = [saved EXCEPT ![curr_thread] = stack]
      /\ lpc' = [lpc EXCEPT ![p] = "signal"]
      /\ UNCHANGED <<list, curr_thread, stack, tls>>
  BY DEF caml_thread_enter_blocking_section, Goto, st_masterlock_release, Inside
<1>2. curr_thread = p /\ stack = p /\ \A q \in Thread \ {p} : at[q] \notin Inside
  BY <1>1, Runner
<1>3. saved \in [Thread -> Thread \cup {NULL}] /\ lpc \in [Thread -> Places]
  BY DEF State, RegsInv, Exclusion, LockTypeOK
<1>4. at'[p] = place /\ saved'[p] = p /\ lpc'[p] = "signal"
      /\ \A q \in Thread \ {p} : at'[q] = at[q] /\ saved'[q] = saved[q] /\ lpc'[q] = lpc[q]
  BY <1>1, <1>2, <1>3 DEF State, PlacesInv
<1>5. PlacesInv'
  BY <1>1, <1>4 DEF State, PlacesInv, Blocked, Acquiring, Inside
<1>6. CamlThread' = CamlThread
  BY <1>1, <1>4 DEF State, PlacesInv, CamlThread, Blocked, Inside
<1>7. RegsInv'
  <2>1. \A q \in Thread : at'[q] \notin Inside
    BY <1>2, <1>4 DEF Blocked, Inside
  <2> QED BY <1>1, <1>2, <1>3, <1>4, <1>6, <2>1 DEF State, RegsInv, list, Blocked
<1>8. ListInv'
  BY <1>1, <1>6, ListFrame DEF State, list
<1>9. JoinInv'
  BY <1>1, <1>4 DEF State, JoinInv, Blocked
<1> QED BY <1>5, <1>7, <1>8, <1>9 DEF State

\* A thread moves on outside the runtime system, and stays a Caml thread.
LEMMA MoveKeeps ==
  ASSUME Exclusion, State, NEW p \in Thread, lpc[p] # "in",
         NEW place \in {"lock", "leaving", "waiting", "unregistering"},
         at[p] \in Blocked \cup {"start"} \/ (at[p] = "foreign" /\ p \in tls),
         place = "unregistering" => at[p] = "foreign",
         at[p] = "join" => target[p] \in terminated,
         at' = [at EXCEPT ![p] = place], tls \subseteq tls', tls' \subseteq tls \cup {p},
         at[p] = "foreign" => tls' = tls,
         UNCHANGED <<lockvars, list, regs, terminated, target>>
  PROVE  State'
<1>1. at'[p] = place /\ at[p] \notin Inside /\ at'[p] \notin Inside
      /\ \A q \in Thread \ {p} : at'[q] = at[q]
  BY DEF State, PlacesInv, Blocked, Inside
<1>3. CamlThread' = CamlThread
  BY <1>1 DEF CamlThread, Blocked, Inside
<1>4. PlacesInv'
  <2>1. p \in Foreign => p \in tls'
    BY DEF State, PlacesInv, Blocked
  <2>2. lpc[p] \notin {"wait", "woken"}
    BY DEF State, PlacesInv, Blocked, Acquiring
  <2> QED BY <1>1, <2>1, <2>2 DEF State, PlacesInv, lockvars, Blocked, Acquiring, Inside
<1>5. RegsInv'
  BY <1>1, <1>3 DEF State, RegsInv, regs, list
<1>6. ListInv'
  BY <1>3, ListFrame DEF State, list
<1>7. JoinInv'
  BY <1>1 DEF State, JoinInv, Blocked
<1> QED BY <1>4, <1>5, <1>6, <1>7 DEF State

\* Threads come out of pthread_cond_wait.
LEMMA WakeKeeps ==
  ASSUME State, NEW W, W \subseteq CondWaiting, Wake(W)
  PROVE  State'
<1>1. /\ \A q \in W : at[q] = "waiting" /\ lpc[q] = "out" /\ at'[q] = "lock"
      /\ \A q \in Thread \ W : at'[q] = at[q]
      /\ at' \in [Thread -> Blocked \cup Acquiring \cup Inside \cup {"none", "foreign", "start", "dead", "gone"}]
      /\ UNCHANGED <<lockvars, list, regs, tls, sync>>
  BY DEF Wake, CondWaiting, State, PlacesInv, Blocked
<1>2. CamlThread' = CamlThread
  BY <1>1 DEF CamlThread, Blocked, Inside
<1>3. PlacesInv'
  BY <1>1 DEF State, PlacesInv, lockvars, Blocked, Acquiring, Inside
<1>4. RegsInv'
  BY <1>1, <1>2 DEF State, RegsInv, regs, list, Inside
<1>5. ListInv'
  BY <1>1, <1>2, ListFrame DEF State, list
<1>6. JoinInv'
  BY <1>1 DEF State, JoinInv, sync
<1> QED BY <1>3, <1>4, <1>5, <1>6 DEF State

\* The mutex changes hands and nothing moves.
LEMMA MutexKeeps ==
  ASSUME State, UNCHANGED <<lockvars, at, list, regs, tls, terminated, target>>
  PROVE  State'
<1>1. CamlThread' = CamlThread
  BY DEF CamlThread
<1>2. PlacesInv'
  BY DEF State, PlacesInv, lockvars
<1>3. RegsInv'
  BY <1>1 DEF State, RegsInv, regs, list
<1>4. ListInv'
  BY <1>1, ListFrame DEF State, list
<1>5. JoinInv'
  BY DEF State, JoinInv
<1> QED BY <1>2, <1>3, <1>4, <1>5 DEF State

LEMMA NewKeeps ==
  ASSUME Exclusion, State, NEW p \in Thread, NEW q \in Thread, caml_thread_new(p, q)
  PROVE  State'
<1>1. /\ lpc[p] = "in" /\ at[p] = "run" /\ Running(p) /\ at[q] = "none" /\ q \notin Foreign
      /\ at' = [at EXCEPT ![q] = "start"] /\ saved' = [saved EXCEPT ![q] = q] /\ info' = info \cup {q}
      /\ UNCHANGED <<lockvars, all_threads, curr_thread, stack, tls, terminated, target>>
  BY DEF caml_thread_new, Running, Goto, caml_thread_new_info
<1>2. /\ next' = [next EXCEPT ![q] = next[curr_thread], ![curr_thread] = q]
      /\ prev' = [prev EXCEPT ![q] = curr_thread, ![next[curr_thread]] = q]
  BY DEF caml_thread_new, Insert
<1>3. curr_thread = p /\ stack = p /\ p \in CamlThread
  BY <1>1, Runner DEF Inside
<1>4. /\ at'[q] = "start" /\ saved'[q] = q
      /\ \A u \in Thread \ {q} : at'[u] = at[u] /\ saved'[u] = saved[u]
  BY <1>1 DEF State, PlacesInv, RegsInv
<1>5. q \notin CamlThread /\ CamlThread' = CamlThread \cup {q}
  BY <1>1, <1>4 DEF CamlThread, Blocked, Inside
<1>6. PlacesInv'
  BY <1>1, <1>4 DEF State, PlacesInv, lockvars, Blocked, Acquiring, Inside
<1>8. RegsInv'
  BY <1>1, <1>4, <1>5 DEF State, RegsInv, Inside
<1>9. ListInv'
  <2>1. next \in [Thread -> Thread] /\ prev \in [Thread -> Thread] /\ Ring(next, prev, CamlThread)
    BY DEF State, ListInv
  <2>2. Ring(next', prev', CamlThread \cup {q})
    BY <1>2, <1>3, <1>5, <2>1, RingInsert
  <2>3. next' \in [Thread -> Thread] /\ prev' \in [Thread -> Thread]
    BY <1>2, <1>3, <2>1
  <2> QED BY <1>1, <1>5, <2>2, <2>3 DEF State, ListInv
<1>10. JoinInv'
  BY <1>1, <1>4 DEF State, JoinInv
<1> QED BY <1>6, <1>8, <1>9, <1>10 DEF State

\* The list without a thread that leaves it for good or for C code.
LEMMA RemoveList ==
  ASSUME HeadStays, State, NEW p \in CamlThread, p \in MayExit \cup Foreign,
         caml_thread_remove_info(p), CamlThread' = CamlThread \ {p}
  PROVE  ListInv'
<1>1. /\ next \in [Thread -> Thread] /\ prev \in [Thread -> Thread] /\ Ring(next, prev, CamlThread)
      /\ CamlThread \subseteq info /\ p \in Thread
  BY DEF State, ListInv, CamlThread
<1>2. /\ all_threads' = IF next[p] = p THEN NULL ELSE all_threads
      /\ prev' = [prev EXCEPT ![next[p]] = prev[p]]
      /\ next' = [next EXCEPT ![prev[p]] = next[p]]
      /\ info' = info \ {p}
  BY DEF caml_thread_remove_info
<1>3. Ring(next', prev', CamlThread \ {p})
  BY <1>1, <1>2, RingRemove
<1>4. next' \in [Thread -> Thread] /\ prev' \in [Thread -> Thread]
  BY <1>1, <1>2
<1>5. ASSUME Foreign # {}
      PROVE  all_threads' \in (CamlThread \ {p}) \cap (Forkers \cup {Main})
  <2>1. all_threads \in CamlThread \cap (Forkers \cup {Main}) /\ all_threads # p
    BY <1>5 DEF State, ListInv, HeadStays
  <2>2. next[p] # p
    <3> SUFFICES ASSUME next[p] = p PROVE FALSE
      OBVIOUS
    <3>1. {p} \in SUBSET CamlThread /\ {p} # {} /\ \A u \in {p} : next[u] \in {p}
      OBVIOUS
    <3>2. {p} = CamlThread
      BY <1>1, <3>1 DEF Ring
    <3> QED BY <2>1, <3>2
  <2> QED BY <1>2, <2>1, <2>2
<1> QED BY <1>1, <1>2, <1>3, <1>4, <1>5 DEF ListInv

\* The termination event is triggered before the thread leaves the list.
LEMMA TriggerKeeps ==
  ASSUME Exclusion, State, NEW p \in Thread, caml_thread_stop(p)
  PROVE  State'
<1>1. /\ lpc[p] = "in" /\ at[p] = "run" /\ p \in MayExit
      /\ terminated' = terminated \cup {curr_thread} /\ at' = [at EXCEPT ![p] = "stopping"]
      /\ UNCHANGED <<lockvars, list, regs, tls, target>>
  BY DEF caml_thread_stop, Running, Goto
<1>2. curr_thread = p
  BY <1>1, Runner DEF Inside
<1>3. at'[p] = "stopping" /\ \A q \in Thread \ {p} : at'[q] = at[q]
  BY <1>1 DEF State, PlacesInv
<1>4. CamlThread' = CamlThread
  BY <1>1, <1>3 DEF CamlThread, Inside
<1>5. PlacesInv'
  BY <1>1, <1>3 DEF State, PlacesInv, lockvars, Blocked, Acquiring, Inside
<1>6. RegsInv'
  BY <1>1, <1>3, <1>4 DEF State, RegsInv, regs, list, Inside
<1>7. ListInv'
  BY <1>1, <1>4, ListFrame DEF State, list
<1>8. JoinInv'
  BY <1>1, <1>2, <1>3 DEF State, JoinInv
<1> QED BY <1>5, <1>6, <1>7, <1>8 DEF State

LEMMA StopKeeps ==
  ASSUME HeadStays, Exclusion, State, NEW p \in Thread, Stopped(p)
  PROVE  State'
<1>1. /\ lpc[p] = "in" /\ at[p] = "stopping" /\ p \in MayExit
      /\ at' = [at EXCEPT ![p] = "dead"] /\ lpc' = [lpc EXCEPT ![p] = "signal"]
      /\ UNCHANGED <<regs, tls, sync>>
  BY DEF Stopped, Goto, st_masterlock_release, State, PlacesInv
<1>2. curr_thread = p /\ p \in CamlThread /\ \A q \in Thread \ {p} : at[q] \notin Inside
  BY <1>1, Runner DEF Inside
<1>3. lpc \in [Thread -> Places]
  BY DEF Exclusion, LockTypeOK
<1>4. /\ at'[p] = "dead" /\ lpc'[p] = "signal"
      /\ \A q \in Thread \ {p} : at'[q] = at[q] /\ lpc'[q] = lpc[q]
  BY <1>1, <1>3 DEF State, PlacesInv
<1>5. CamlThread' = CamlThread \ {p}
  BY <1>1, <1>4 DEF CamlThread, Blocked, Inside
<1>6. caml_thread_remove_info(p)
  BY <1>2 DEF Stopped
<1>7. PlacesInv'
  BY <1>1, <1>4 DEF State, PlacesInv, Blocked, Acquiring, Inside
<1>8. RegsInv'
  <2>1. \A q \in Thread : at'[q] \notin Inside
    BY <1>2, <1>4 DEF Inside
  <2>2. info' = info \ {p}
    BY <1>6 DEF caml_thread_remove_info
  <2> QED BY <1>1, <1>2, <1>4, <1>5, <2>1, <2>2 DEF State, RegsInv, regs
<1>9. ListInv'
  BY <1>1, <1>2, <1>5, <1>6, RemoveList
<1>10. JoinInv'
  BY <1>1, <1>4 DEF State, JoinInv, sync
<1> QED BY <1>7, <1>8, <1>9, <1>10 DEF State

LEMMA UnregisterKeeps ==
  ASSUME HeadStays, Exclusion, State, NEW p \in Thread, Unregister(p)
  PROVE  State'
<1>1. /\ lpc[p] = "in" /\ at[p] = "unregistering" /\ tls' = tls \ {p} /\ caml_thread_remove_info(p)
      /\ at' = [at EXCEPT ![p] = "foreign"] /\ lpc' = [lpc EXCEPT ![p] = "signal"]
      /\ UNCHANGED <<regs, sync>>
  BY DEF Unregister, Goto, st_masterlock_release
<1>2. \A q \in Thread \ {p} : at[q] \notin Inside
  BY <1>1, Runner
<1>3. lpc \in [Thread -> Places] /\ p \in CamlThread /\ p \in Foreign
  BY <1>1 DEF Exclusion, LockTypeOK, CamlThread, State, PlacesInv
<1>4. /\ at'[p] = "foreign" /\ lpc'[p] = "signal"
      /\ \A q \in Thread \ {p} : at'[q] = at[q] /\ lpc'[q] = lpc[q]
  BY <1>1, <1>3 DEF State, PlacesInv
<1>5. CamlThread' = CamlThread \ {p}
  BY <1>1, <1>4 DEF CamlThread, Blocked, Inside
<1>6. PlacesInv'
  BY <1>1, <1>3, <1>4 DEF State, PlacesInv, Blocked, Acquiring, Inside
<1>7. RegsInv'
  <2>1. \A q \in Thread : at'[q] \notin Inside
    BY <1>2, <1>4 DEF Inside
  <2>2. info' = info \ {p}
    BY <1>1 DEF caml_thread_remove_info
  <2> QED BY <1>1, <1>2, <1>4, <1>5, <2>1, <2>2 DEF State, RegsInv, regs
<1>8. ListInv'
  BY <1>1, <1>3, <1>5, RemoveList
<1>9. JoinInv'
  BY <1>1, <1>4 DEF State, JoinInv, sync
<1> QED BY <1>6, <1>7, <1>8, <1>9 DEF State

LEMMA AnnounceKeeps ==
  ASSUME Exclusion, State, NEW p \in Thread, caml_c_thread_register(p)
  PROVE  State'
<1>1. /\ at[p] = "foreign" /\ lpc[p] = "out" /\ p \notin tls /\ at' = [at EXCEPT ![p] = "registering"]
      /\ info' = info \cup {p} /\ saved' = [saved EXCEPT ![p] = p]
      /\ UNCHANGED <<lockvars, next, prev, all_threads, curr_thread, stack, tls, sync>>
  BY DEF caml_c_thread_register, caml_thread_new_info, Goto
<1>2. /\ at'[p] = "registering" /\ saved'[p] = p
      /\ \A q \in Thread \ {p} : at'[q] = at[q] /\ saved'[q] = saved[q]
  BY <1>1 DEF State, PlacesInv, RegsInv
<1>3. CamlThread' = CamlThread /\ p \notin CamlThread
  BY <1>1, <1>2 DEF CamlThread, Blocked, Inside
<1>4. PlacesInv'
  BY <1>1, <1>2 DEF State, PlacesInv, lockvars, Blocked, Acquiring, Inside
<1>6. RegsInv'
  BY <1>1, <1>2, <1>3 DEF State, RegsInv, Inside
<1>7. ListInv'
  BY <1>1, <1>3, ListFrame DEF State
<1>8. JoinInv'
  BY <1>1, <1>2 DEF State, JoinInv, sync
<1> QED BY <1>4, <1>6, <1>7, <1>8 DEF State

LEMMA RegisterKeeps ==
  ASSUME Exclusion, State, NEW p \in Thread, Register(p)
  PROVE  State'
<1>1. /\ lpc[p] = "in" /\ at[p] = "registering" /\ tls' = tls \cup {p}
      /\ at' = [at EXCEPT ![p] = "registered"] /\ lpc' = [lpc EXCEPT ![p] = "signal"]
      /\ UNCHANGED <<info, regs, sync>>
  BY DEF Register, Goto, st_masterlock_release
<1>2. \A q \in Thread \ {p} : at[q] \notin Inside
  BY <1>1, Runner
<1>3. lpc \in [Thread -> Places] /\ p \in Foreign /\ p \in info /\ saved[p] = p
  BY <1>1 DEF Exclusion, LockTypeOK, State, PlacesInv, RegsInv
<1>4. /\ at'[p] = "registered" /\ lpc'[p] = "signal"
      /\ \A q \in Thread \ {p} : at'[q] = at[q] /\ lpc'[q] = lpc[q]
  BY <1>1, <1>3 DEF State, PlacesInv
<1>5. p \notin CamlThread /\ CamlThread' = CamlThread \cup {p}
  BY <1>1, <1>4 DEF CamlThread, Blocked, Inside
<1>6. PlacesInv'
  BY <1>1, <1>3, <1>4 DEF State, PlacesInv, Blocked, Acquiring, Inside
<1>7. RegsInv'
  <2>1. \A q \in Thread : at'[q] \notin Inside
    BY <1>2, <1>4 DEF Inside
  <2> QED BY <1>1, <1>2, <1>3, <1>4, <1>5, <2>1 DEF State, RegsInv, regs
<1>8. ListInv'
  <2>1. /\ next \in [Thread -> Thread] /\ prev \in [Thread -> Thread] /\ Ring(next, prev, CamlThread)
        /\ all_threads \in CamlThread \cap (Forkers \cup {Main}) /\ all_threads \in Thread
    BY <1>3 DEF State, ListInv, CamlThread
  <2>2. /\ next' = [next EXCEPT ![p] = next[all_threads], ![all_threads] = p]
        /\ prev' = [prev EXCEPT ![p] = all_threads, ![next[all_threads]] = p]
        /\ all_threads' = all_threads
    BY <2>1, ForeignAssumption DEF Register, Insert
  <2>3. Ring(next', prev', CamlThread \cup {p})
    BY <1>5, <2>1, <2>2, RingInsert
  <2>4. next' \in [Thread -> Thread] /\ prev' \in [Thread -> Thread]
    BY <2>1, <2>2
  <2> QED BY <1>1, <1>3, <1>5, <2>1, <2>2, <2>3, <2>4 DEF State, ListInv
<1>9. JoinInv'
  BY <1>1, <1>4 DEF State, JoinInv, sync
<1> QED BY <1>6, <1>7, <1>8, <1>9 DEF State

LEMMA ForkKeeps ==
  ASSUME Exclusion, State, NEW p \in Thread, Fork(p)
  PROVE  State'
<1>1. /\ lpc[p] = "in" /\ at[p] = "run" /\ Running(p) /\ p \in Forkers
      /\ info' = (info \ Scanned) \cup {curr_thread}
      /\ next' = [next EXCEPT ![curr_thread] = curr_thread]
      /\ prev' = [prev EXCEPT ![curr_thread] = curr_thread]
      /\ all_threads' = curr_thread
      /\ lpc' = [q \in Thread |-> IF q = p THEN "in" ELSE "out"]
      /\ at' = [q \in Thread |-> IF q = p \/ at[q] = "none" THEN at[q] ELSE "gone"]
      /\ UNCHANGED <<regs, tls, sync>>
  BY DEF Fork, Running
<1>2. curr_thread = p /\ stack = p
  BY <1>1, Runner DEF Inside
<1>3. CamlThread' = {p}
  BY <1>1 DEF CamlThread, Blocked, Inside
<1>4. PlacesInv'
  BY <1>1 DEF State, PlacesInv, Blocked, Acquiring, Inside
<1>5. RegsInv'
  BY <1>1, <1>2, <1>3 DEF State, RegsInv, regs, Inside
<1>6. ListInv'
  <2>1. /\ next' \in [Thread -> Thread] /\ prev' \in [Thread -> Thread]
        /\ next'[p] = p /\ prev'[p] = p
    BY <1>1, <1>2 DEF State, ListInv
  <2>2. Ring(next', prev', {p})
    BY <2>1, RingAlone
  <2> QED BY <1>1, <1>2, <1>3, <2>1, <2>2 DEF ListInv
<1>7. JoinInv'
  <2>1. p \notin terminated /\ target[p] \in terminated \cup {NULL}
    BY <1>1 DEF State, JoinInv
  <2>2. terminated \subseteq Thread
    BY DEF State, JoinInv
  <2> QED BY <1>1, <2>1, <2>2 DEF State, JoinInv, sync
<1> QED BY <1>4, <1>5, <1>6, <1>7 DEF State

LEMMA StateKept ==
  ASSUME HeadStays, Exclusion, State, [ThreadNext]_thrvars
  PROVE  State'
<1>0. target \in [Thread -> Thread \cup {NULL}]
  BY DEF State, JoinInv
<1>1. ASSUME NEW p \in Thread, Continue(p) PROVE State'
  <2>1. CASE caml_thread_start(p)
    <3>1. lpc[p] # "in"
      BY <2>1 DEF caml_thread_start, State, PlacesInv, Acquiring, Inside
    <3> QED BY <2>1, <3>1, MoveKeeps DEF caml_thread_start, Goto, sync
  <2>2. CASE Described(p)
    <3>1. /\ at[p] = "describing" /\ caml_thread_enter_blocking_section(p, "foreign")
          /\ UNCHANGED terminated /\ p \in Foreign
          /\ target' = [q \in Thread |-> IF target[q] = p THEN NULL ELSE target[q]]
      BY <2>2 DEF Described, State, PlacesInv
    <3> QED BY <1>0, <3>1, BlockKeeps
  <2> QED BY <1>1, <2>1, <2>2, ReturnKeeps, RegisterKeeps, UnregisterKeeps, StopKeeps DEF Continue
<1>2. ASSUME NEW p \in Thread, Program(p) PROVE State'
  <2>1. CASE BlockingCall(p) \/ caml_thread_yield(p) \/ ReturnToC(p) \/ caml_condition_wait(p)
    BY <1>0, <2>1, BlockKeeps DEF BlockingCall, caml_thread_yield, ReturnToC, caml_condition_wait,
                            Running, Blocked, sync
  <2>2. ASSUME NEW q \in Thread, caml_thread_join(p, q) PROVE State'
    BY <1>0, <2>2, BlockKeeps DEF caml_thread_join, Running, Blocked
  <2>3. CASE CallReturns(p) \/ caml_threadstatus_wait(p) \/ CallBack(p)
             \/ caml_c_thread_unregister(p) \/ MutexLocked(p) \/ CondWait(p)
    <3>1. lpc[p] # "in"
      BY <2>3 DEF CallReturns, caml_threadstatus_wait, CallBack, caml_c_thread_unregister,
                  MutexLocked, CondWait
    <3> QED BY <2>3, <3>1, MoveKeeps
            DEF CallReturns, caml_threadstatus_wait, CallBack, caml_c_thread_unregister,
                MutexLocked, CondWait, Goto, Blocked, sync
  <2>4. CASE caml_mutex_unlock(p) \/ caml_mutex_try_lock(p)
    BY <2>4, MutexKeeps DEF caml_mutex_unlock, caml_mutex_try_lock
  <2>5. CASE caml_mutex_lock(p)
    <3>1. CASE caml_mutex_try_lock(p)
      BY <2>4, <3>1
    <3>2. CASE ~caml_mutex_try_lock(p)
      BY <1>0, <2>5, <3>2, BlockKeeps DEF caml_mutex_lock, Running, Blocked, sync
    <3> QED BY <3>1, <3>2
  <2>6. CASE SpuriousWakeup(p) \/ caml_condition_signal(p) \/ caml_condition_broadcast(p)
    BY <2>6, WakeKeeps DEF SpuriousWakeup, caml_condition_signal, caml_condition_broadcast
  <2> QED BY <1>2, <2>1, <2>2, <2>3, <2>4, <2>5, <2>6, TriggerKeeps, NewKeeps, AnnounceKeeps, ForkKeeps
          DEF Program
<1>3. CASE UNCHANGED thrvars
  BY <1>3, MutexKeeps DEF thrvars, sync
<1> QED BY <1>1, <1>2, <1>3, LockStepKeeps DEF ThreadNext

\* st_stubs.c: the thread in the runtime system has its own registers, caml_thread_scan_roots
\* walks a well linked list of the Caml threads and finds the stack that each of them saved,
\* and a joined thread has left Caml code; fork, exit and threads made by C code included.
THEOREM ThreadsKept ==
  ASSUME HeadStays
  PROVE  ThreadSpec => []ThreadsSound
<1>1. Exclusion /\ State => ThreadsSound
  <2> SUFFICES ASSUME Exclusion, State, NEW p \in Thread, lpc[p] = "in", at[p] \in Inside
               PROVE  /\ curr_thread = p /\ stack = p
                      /\ Scanned = CamlThread /\ Scanned \subseteq info
                      /\ \A q \in Scanned : prev[next[q]] = q /\ (q # p => saved[q] = q)
                      /\ target[p] \notin {NULL, p} => at[target[p]] \in {"dead", "gone"}
    BY DEF ThreadsSound
  <2>1. /\ curr_thread = p /\ stack = p /\ p \in CamlThread
        /\ \A q \in Thread \ {p} : at[q] \notin Inside
    BY Runner
  <2>2. Ring(next, prev, CamlThread) /\ CamlThread \subseteq info
    BY DEF State, ListInv
  <2>3. Scanned = CamlThread
    BY <2>1, <2>2, RingScanned
  <2>4. \A q \in CamlThread : q \in Thread /\ prev[next[q]] = q /\ (q # p => saved[q] = q)
    BY <2>1, <2>2 DEF Ring, State, RegsInv
  <2>5. target[p] \notin {NULL, p} => at[target[p]] \in {"dead", "gone"}
    BY <2>1 DEF State, JoinInv, Inside
  <2> QED BY <2>1, <2>2, <2>3, <2>4, <2>5
<1>2. Exclusion /\ State /\ [ThreadNext]_thrvars => State'
  BY StateKept
<1> QED BY <1>1, <1>2, ExclusionInit, ExclusionKept, StateInit, PTL DEF ThreadSpec
===============================================================================
