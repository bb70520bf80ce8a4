------------------------------ MODULE MasterLock ------------------------------
(***************************************************************************)
(* The master lock of the run-time system (otherlibs/systhreads/           *)
(* st_posix.h): a flag and a count of waiters under a mutex, and a         *)
(* condition variable that is signaled after the mutex is unlocked.        *)
(*                                                                         *)
(* A critical section of the mutex is one step.  Between two of them other *)
(* threads run, and a thread woken on the condition competes for the lock  *)
(* with those that call st_masterlock_acquire.                             *)
(***************************************************************************)
EXTENDS Integers, FiniteSets

CONSTANTS
  Thread,     \* the system threads
  Main        \* the thread that initialises the lock, and so holds it

ASSUME ThreadAssumption == IsFiniteSet(Thread) /\ Main \in Thread

VARIABLES
  busy,       \* the lock is taken
  waiters,    \* number of threads waiting on the lock
  lpc         \* where each thread is in acquire and release

lockvars == <<busy, waiters, lpc>>

\* "out": elsewhere; "wait": in pthread_cond_wait; "woken": out of it, not yet
\* in the mutex again; "in": holds the lock; "signal": has freed it and is
\* about to signal is_free.
Places == {"out", "wait", "woken", "in", "signal"}

At(place) == {p \in Thread : lpc[p] = place}

-----------------------------------------------------------------------------
st_masterlock_init ==
  /\ busy = TRUE /\ waiters = 0
  /\ lpc = [p \in Thread |-> IF p = Main THEN "in" ELSE "out"]

\* The test of the while loop: take the lock, or wait again.  w is the number
\* of waiters without p.
Enter(p, w) ==
  /\ busy' = TRUE
  /\ IF busy THEN waiters' = w + 1 /\ lpc' = [lpc EXCEPT ![p] = "wait"]
             ELSE waiters' = w /\ lpc' = [lpc EXCEPT ![p] = "in"]

st_masterlock_acquire(p) == lpc[p] = "out" /\ Enter(p, waiters)

\* Mutant: woken, the thread takes the lock without testing the flag again.
Resume_if(p) ==
  /\ lpc[p] = "woken"
  /\ busy' = TRUE /\ waiters' = waiters - 1 /\ lpc' = [lpc EXCEPT ![p] = "in"]

\* Back from pthread_cond_wait, with the mutex.
Resume(p) == lpc[p] = "woken" /\ Enter(p, waiters - 1)

\* pthread_cond_wait may return without a signal.
Spurious(p) ==
  /\ lpc[p] = "wait"
  /\ lpc' = [lpc EXCEPT ![p] = "woken"]
  /\ UNCHANGED <<busy, waiters>>

\* Mutant: nobody is signaled.
st_masterlock_release_quiet(p) ==
  /\ lpc[p] = "in"
  /\ busy' = FALSE
  /\ lpc' = [lpc EXCEPT ![p] = "out"]
  /\ UNCHANGED waiters

st_masterlock_release(p) ==
  /\ lpc[p] = "in"
  /\ busy' = FALSE
  /\ lpc' = [lpc EXCEPT ![p] = "signal"]
  /\ UNCHANGED waiters

\* The pthread_cond_signal that ends a release wakes one waiter, if any.
Signal(p) ==
  /\ lpc[p] = "signal"
  /\ \/ \E q \in At("wait") : lpc' = [lpc EXCEPT ![p] = "out", ![q] = "woken"]
     \/ At("wait") = {} /\ lpc' = [lpc EXCEPT ![p] = "out"]
  /\ UNCHANGED <<busy, waiters>>

-----------------------------------------------------------------------------
LockInit == st_masterlock_init

LockNext ==
  \E p \in Thread :
    \/ st_masterlock_acquire(p) \/ Resume(p) \/ Spurious(p)
    \/ st_masterlock_release(p) \/ Signal(p)

LockSpec == LockInit /\ [][LockNext]_lockvars

-----------------------------------------------------------------------------
(* Properties.                                                             *)

\* Types; the count of waiters never becomes negative (st_posix.h).
LockTypeOK == busy \in BOOLEAN /\ waiters \in Nat /\ lpc \in [Thread -> Places]

\* Two threads never run Caml code at a time, and the flag tells whether one does.
MutualExclusion ==
  /\ \A p, q \in At("in") : p = q
  /\ busy <=> At("in") # {}

\* The count that caml_thread_yield reads without the mutex is the number of
\* threads inside pthread_cond_wait or on their way out of it.
WaitersExact == waiters = Cardinality(At("wait") \cup At("woken"))

\* When the lock is free and threads wait for it, some thread is about to
\* signal or has been woken: no wake-up is lost between unlock and signal.
NoLostWakeup == ~busy /\ At("wait") # {} => At("signal") \cup At("woken") # {}

\* What the lock promises (Lock.tla), when its owners are the threads inside.
L == INSTANCE Lock WITH owner <- At("in")

ImplementsLock == L!Spec

=============================================================================
