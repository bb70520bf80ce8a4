------------------------------ MODULE SysThreads ------------------------------
(***************************************************************************)
(* The system threads library (otherlibs/systhreads/st_stubs.c) on top of  *)
(* the master lock: blocking sections and the stack registers they save    *)
(* and restore, the circular list of thread info blocks that the garbage   *)
(* collector walks, creation, exit and join of threads, registration of    *)
(* threads made by C code, one mutex with a condition variable, and fork.  *)
(* Signals, and the mutexes of channels, are in Channels.                  *)
(*                                                                         *)
(* The info block of a thread is named by the thread, and so is its stack. *)
(* A block that is freed keeps its links, as free leaves them.             *)
(***************************************************************************)
EXTENDS MasterLock

CONSTANTS
  Foreign,    \* the threads made by C code; the others are made by Caml
  MayExit,    \* the threads that end, by Thread.exit or by returning
  Forkers,    \* the threads that call Unix.fork
  NULL

ASSUME ForeignAssumption == Foreign \subseteq Thread \ {Main} /\ NULL \notin Thread

VARIABLES
  at,             \* what each thread is doing
  info,           \* the info blocks that are allocated
  next, prev,     \* their links
  all_threads, curr_thread,
  tls,            \* the threads whose thread_descriptor_key is set
  stack,          \* the thread whose stack the stack registers refer to
  saved,          \* the registers saved in each info block, likewise
  descr,          \* the threads that have had a descriptor
  terminated,     \* the threads whose termination event is triggered
  target,         \* the thread whose descriptor each thread joined last, NULL
                  \* when it has got another since
  owner,          \* the holder of the mutex
  tick            \* caml_tick_thread_running

list    == <<info, next, prev, all_threads>>
regs    == <<curr_thread, stack, saved>>
sync    == <<descr, terminated, target, owner>>
thrvars == <<lockvars, at, list, regs, tls, sync, tick>>

\* Places where a thread calls st_masterlock_acquire.
Acquiring == {"leaving", "registering", "registered", "unregistering"}

\* Places inside a blocking section.
Blocked == {"io", "join", "lock", "cond", "waiting"}

\* Places with the master lock and the registers of the thread.
Inside == {"run", "describing", "stopping"}

Running(p) == lpc[p] = "in" /\ at[p] = "run"

Goto(p, place) == at' = [at EXCEPT ![p] = place]

-----------------------------------------------------------------------------
(* The list of threads.                                                    *)

\* Add th after the block head.
Insert(th, head) ==
  /\ next' = [next EXCEPT ![th] = next[head], ![head] = th]
  /\ prev' = [prev EXCEPT ![th] = head, ![next[head]] = th]

\* A block with a fresh stack, in no list.
caml_thread_new_info(th) ==
  /\ info' = info \cup {th}
  /\ saved' = [saved EXCEPT ![th] = th]

caml_thread_remove_info(th) ==
  /\ all_threads' = IF next[th] = th THEN NULL ELSE all_threads
  /\ prev' = [prev EXCEPT ![next[th]] = prev[th]]
  /\ next' = [next EXCEPT ![prev[th]] = next[th]]
  /\ info' = info \ {th}

\* The blocks that caml_thread_scan_roots comes to.
Scanned ==
  {q \in Thread : \A S \in SUBSET Thread :
     curr_thread \in S /\ (\A r \in S : next[r] \in S) => q \in S}

-----------------------------------------------------------------------------
(* Blocking sections.                                                      *)

\* Save the registers and release the master lock.
caml_thread_enter_blocking_section(p, place) ==
  /\ saved' = [saved EXCEPT ![curr_thread] = stack]
  /\ st_masterlock_release(p)
  /\ Goto(p, place)
  /\ UNCHANGED <<list, curr_thread, stack, tls>>

\* A step of st_masterlock_acquire, or the end of st_masterlock_release.
LockStep(p) ==
  /\ \/ at[p] \in Acquiring /\ st_masterlock_acquire(p)
     \/ Resume(p) \/ Signal(p)
  /\ UNCHANGED <<at, list, regs, tls, sync, tick>>

\* A wake-up that nobody sent: POSIX allows it and promises none.
UnsentWakeup(p) == Spurious(p) /\ UNCHANGED <<at, list, regs, tls, sync, tick>>

\* Mutant: curr_thread still refers to the thread that ran before.
caml_thread_leave_blocking_section_stale(p) ==
  /\ lpc[p] = "in" /\ at[p] = "leaving"
  /\ stack' = saved[p]
  /\ Goto(p, "run")
  /\ UNCHANGED <<curr_thread, lockvars, list, saved, tls, sync, tick>>

\* With the master lock: restore the registers.
caml_thread_leave_blocking_section(p) ==
  /\ lpc[p] = "in" /\ at[p] = "leaving"
  /\ curr_thread' = p
  /\ stack' = saved[p]
  /\ Goto(p, "run")
  /\ UNCHANGED <<lockvars, list, saved, tls, sync, tick>>

BlockingCall(p) ==
  /\ Running(p)
  /\ caml_thread_enter_blocking_section(p, "io")
  /\ UNCHANGED <<sync, tick>>

\* The call returns and caml_leave_blocking_section begins.
CallReturns(p) ==
  /\ lpc[p] = "out" /\ at[p] = "io"
  /\ Goto(p, "leaving")
  /\ UNCHANGED <<lockvars, list, regs, tls, sync, tick>>

\* Without waiters caml_thread_yield does nothing; sched_yield returns.
caml_thread_yield(p) ==
  /\ Running(p) /\ waiters > 0
  /\ caml_thread_enter_blocking_section(p, "leaving")
  /\ UNCHANGED <<sync, tick>>

-----------------------------------------------------------------------------
(* Creation and termination.                                               *)

\* If st_thread_create fails, the insertion is undone and nothing changes; the
\* tick thread may fail to start as well.
caml_thread_new(p, q) ==
  /\ Running(p) /\ at[q] = "none" /\ q \notin Foreign
  /\ caml_thread_new_info(q)
  /\ Insert(q, curr_thread)
  /\ descr' = descr \cup {q}
  /\ Goto(q, "start")
  /\ tick' \in {tick, TRUE}
  /\ UNCHANGED <<lockvars, all_threads, curr_thread, stack, tls, terminated, target, owner>>

\* caml_thread_start, up to caml_leave_blocking_section.
caml_thread_start(p) ==
  /\ at[p] = "start"
  /\ tls' = tls \cup {p}
  /\ Goto(p, "leaving")
  /\ UNCHANGED <<lockvars, list, regs, sync, tick>>

\* From caml_thread_exit or at the end of the thread: the termination event is
\* triggered, which lets those that joined the thread go on to the master lock.
caml_thread_stop(p) ==
  /\ Running(p) /\ p \in MayExit
  /\ terminated' = terminated \cup {curr_thread}
  /\ Goto(p, "stopping")
  /\ UNCHANGED <<lockvars, list, regs, tls, descr, target, owner, tick>>

\* The rest of it.
Stopped(p) ==
  /\ lpc[p] = "in" /\ at[p] = "stopping"
  /\ caml_thread_remove_info(curr_thread)
  /\ st_masterlock_release(p)
  /\ Goto(p, "dead")
  /\ UNCHANGED <<regs, tls, sync, tick>>

caml_thread_join(p, q) ==
  /\ Running(p) /\ q \in descr
  /\ caml_thread_enter_blocking_section(p, "join")
  /\ target' = [target EXCEPT ![p] = q]
  /\ UNCHANGED <<descr, terminated, owner, tick>>

\* st_event_wait returns.
caml_threadstatus_wait(p) ==
  /\ lpc[p] = "out" /\ at[p] = "join" /\ target[p] \in terminated
  /\ Goto(p, "leaving")
  /\ UNCHANGED <<lockvars, list, regs, tls, sync, tick>>

-----------------------------------------------------------------------------
(* Threads made by C code.                                                 *)

\* Up to the acquisition of the master lock.
caml_c_thread_register(p) ==
  /\ at[p] = "foreign" /\ lpc[p] = "out" /\ p \notin tls
  /\ caml_thread_new_info(p)
  /\ Goto(p, "registering")
  /\ UNCHANGED <<lockvars, next, prev, all_threads, curr_thread, stack, tls, sync, tick>>

\* With the master lock: link the info block, and release the lock.
Register(p) ==
  /\ lpc[p] = "in" /\ at[p] = "registering"
  /\ IF all_threads = NULL
     THEN /\ next' = [next EXCEPT ![p] = p] /\ prev' = [prev EXCEPT ![p] = p]
          /\ all_threads' = p
     ELSE Insert(p, all_threads) /\ UNCHANGED all_threads
  /\ tls' = tls \cup {p}
  /\ st_masterlock_release(p)
  /\ Goto(p, "registered")
  /\ UNCHANGED <<info, regs, sync, tick>>

\* Back with the master lock: restore the registers.
Registered(p) ==
  /\ lpc[p] = "in" /\ at[p] = "registered"
  /\ curr_thread' = p
  /\ stack' = saved[p]
  /\ Goto(p, "describing")
  /\ UNCHANGED <<lockvars, list, saved, tls, sync, tick>>

\* Make a descriptor, whose allocation may collect garbage, and leave the runtime
\* system.  Its termination event is another one than that of an earlier descriptor.
Described(p) ==
  /\ lpc[p] = "in" /\ at[p] = "describing"
  /\ descr' = descr \cup {p}
  /\ target' = [q \in Thread |-> IF target[q] = p THEN NULL ELSE target[q]]
  /\ tick' \in {tick, TRUE}
  /\ caml_thread_enter_blocking_section(p, "foreign")
  /\ UNCHANGED <<terminated, owner>>

\* The C code of p calls back into the runtime system, and returns from it.
ReturnToC(p) ==
  /\ Running(p) /\ p \in Foreign
  /\ caml_thread_enter_blocking_section(p, "foreign")
  /\ UNCHANGED <<sync, tick>>

CallBack(p) ==
  /\ at[p] = "foreign" /\ lpc[p] = "out" /\ p \in tls
  /\ Goto(p, "leaving")
  /\ UNCHANGED <<lockvars, list, regs, tls, sync, tick>>

caml_c_thread_unregister(p) ==
  /\ at[p] = "foreign" /\ lpc[p] = "out" /\ p \in tls
  /\ Goto(p, "unregistering")
  /\ UNCHANGED <<lockvars, list, regs, tls, sync, tick>>

\* With the master lock; curr_thread and the registers are left as they are.
Unregister(p) ==
  /\ lpc[p] = "in" /\ at[p] = "unregistering"
  /\ tls' = tls \ {p}
  /\ caml_thread_remove_info(p)
  /\ st_masterlock_release(p)
  /\ Goto(p, "foreign")
  /\ UNCHANGED <<regs, sync, tick>>

-----------------------------------------------------------------------------
(* A mutex and a condition variable.                                       *)

\* Nothing records which thread has locked the mutex but owner.
caml_mutex_try_lock(p) ==
  /\ Running(p) /\ owner = NULL
  /\ owner' = p
  /\ UNCHANGED <<lockvars, at, list, regs, tls, descr, terminated, target, tick>>

\* First try to lock without releasing the master lock.
caml_mutex_lock(p) ==
  \/ caml_mutex_try_lock(p)
  \/ /\ Running(p) /\ owner # NULL
     /\ caml_thread_enter_blocking_section(p, "lock")
     /\ UNCHANGED <<sync, tick>>

\* st_mutex_lock returns, in caml_mutex_lock or at the end of the wait.
MutexLocked(p) ==
  /\ lpc[p] = "out" /\ at[p] = "lock" /\ owner = NULL
  /\ owner' = p
  /\ Goto(p, "leaving")
  /\ UNCHANGED <<lockvars, list, regs, tls, descr, terminated, target, tick>>

\* Any thread may unlock.
caml_mutex_unlock(p) ==
  /\ Running(p)
  /\ owner' = NULL
  /\ UNCHANGED <<lockvars, at, list, regs, tls, descr, terminated, target, tick>>

\* The thread leaves the runtime system with the mutex still locked.
caml_condition_wait(p) ==
  /\ Running(p)
  /\ caml_thread_enter_blocking_section(p, "cond")
  /\ UNCHANGED <<sync, tick>>

\* pthread_cond_wait unlocks the mutex and waits; woken, it locks the mutex.
CondWait(p) ==
  /\ lpc[p] = "out" /\ at[p] = "cond"
  /\ owner' = NULL
  /\ Goto(p, "waiting")
  /\ UNCHANGED <<lockvars, list, regs, tls, descr, terminated, target, tick>>

\* The threads of W return from pthread_cond_wait.
Wake(W) ==
  /\ at' = [q \in Thread |-> IF q \in W THEN "lock" ELSE at[q]]
  /\ UNCHANGED <<lockvars, list, regs, tls, sync, tick>>

CondWaiting == {q \in Thread : at[q] = "waiting" /\ lpc[q] = "out"}

caml_condition_signal(p) == Running(p) /\ \E q \in CondWaiting : Wake({q})

caml_condition_broadcast(p) == Running(p) /\ Wake(CondWaiting)

SpuriousWakeup(p) == p \in CondWaiting /\ Wake({p})

-----------------------------------------------------------------------------
\* Mutant: the child inherits the count of waiters.
Fork_keeps_waiters(p) ==
  /\ Running(p) /\ p \in Forkers
  /\ info' = (info \ Scanned) \cup {curr_thread}
  /\ next' = [next EXCEPT ![curr_thread] = curr_thread]
  /\ prev' = [prev EXCEPT ![curr_thread] = curr_thread]
  /\ all_threads' = curr_thread
  /\ lpc' = [q \in Thread |-> IF q = p THEN "in" ELSE "out"]
  /\ at' = [q \in Thread |-> IF q = p \/ at[q] = "none" THEN at[q] ELSE "gone"]
  /\ tick' = FALSE
  /\ UNCHANGED <<busy, waiters, regs, tls, sync>>

\* Unix.fork, seen from the child: the other threads are gone, and
\* caml_thread_reinitialize forgets them.  A mutex they hold stays locked.
Fork(p) ==
  /\ Running(p) /\ p \in Forkers
  /\ info' = (info \ Scanned) \cup {curr_thread}
  /\ next' = [next EXCEPT ![curr_thread] = curr_thread]
  /\ prev' = [prev EXCEPT ![curr_thread] = curr_thread]
  /\ all_threads' = curr_thread
  /\ busy' = TRUE /\ waiters' = 0
  /\ lpc' = [q \in Thread |-> IF q = p THEN "in" ELSE "out"]
  /\ at' = [q \in Thread |-> IF q = p \/ at[q] = "none" THEN at[q] ELSE "gone"]
  /\ tick' = FALSE
  /\ UNCHANGED <<regs, tls, sync>>

\* caml_thread_initialize; the registers are saved at the first blocking section.
ThreadInit ==
  /\ st_masterlock_init
  /\ at = [p \in Thread |-> IF p = Main THEN "run"
                            ELSE IF p \in Foreign THEN "foreign" ELSE "none"]
  /\ info = {Main} /\ all_threads = Main /\ curr_thread = Main
  /\ next = [p \in Thread |-> p] /\ prev = [p \in Thread |-> p]
  /\ tls = {Main}
  /\ stack = Main /\ saved = [p \in Thread |-> NULL]
  /\ descr = {Main} /\ terminated = {} /\ target = [p \in Thread |-> NULL]
  /\ owner = NULL /\ tick = FALSE

\* What p does when nothing keeps it from going on.
Continue(p) ==
  \/ caml_thread_leave_blocking_section(p) \/ caml_thread_start(p) \/ Stopped(p)
  \/ Register(p) \/ Registered(p) \/ Described(p) \/ Unregister(p)

\* What the program decides.
Program(p) ==
  \/ BlockingCall(p) \/ CallReturns(p) \/ caml_thread_yield(p)
  \/ caml_thread_stop(p) \/ caml_threadstatus_wait(p)
  \/ \E q \in Thread : caml_thread_new(p, q) \/ caml_thread_join(p, q)
  \/ caml_c_thread_register(p) \/ caml_c_thread_unregister(p) \/ ReturnToC(p) \/ CallBack(p)
  \/ caml_mutex_lock(p) \/ caml_mutex_try_lock(p) \/ MutexLocked(p) \/ caml_mutex_unlock(p)
  \/ caml_condition_wait(p) \/ CondWait(p) \/ SpuriousWakeup(p)
  \/ caml_condition_signal(p) \/ caml_condition_broadcast(p)
  \/ Fork(p)

ThreadNext == \E p \in Thread : LockStep(p) \/ UnsentWakeup(p) \/ Continue(p) \/ Program(p)

ThreadSpec == ThreadInit /\ [][ThreadNext]_thrvars

\* A thread that can go on does.  Blocking calls may last for ever, the program
\* need not do anything, and a waiter that nobody signals need not wake up.
ThreadFairSpec ==
  /\ ThreadSpec
  /\ \A p \in Thread : WF_thrvars(LockStep(p)) /\ WF_thrvars(Continue(p))

-----------------------------------------------------------------------------
(* Properties.                                                             *)

\* The threads whose stacks may hold Caml values.
CamlThread ==
  {p \in Thread : \/ at[p] \in Blocked \cup Inside \cup {"start", "leaving", "registered", "unregistering"}
                  \/ at[p] = "foreign" /\ p \in tls}

\* When a thread is in the runtime system, and so may collect garbage, the registers
\* are its own, and caml_thread_scan_roots visits every Caml thread, through blocks
\* that are allocated, and finds the stack that each of them saved.  After
\* Thread.join the joined thread runs no Caml code any more, although its
\* termination event is triggered before it leaves the runtime system.
ThreadsSound ==
  \A p \in Thread : lpc[p] = "in" /\ at[p] \in Inside =>
    /\ curr_thread = p /\ stack = p
    /\ Scanned = CamlThread /\ Scanned \subseteq info
    /\ \A q \in Scanned : prev[next[q]] = q /\ (q # p => saved[q] = q)
    /\ target[p] \notin {NULL, p} => at[target[p]] \in {"dead", "gone"}

\* Blocking on a mutex, forking, exiting or unregistering never leaves the
\* threads that want to run Caml code stuck: the signals of st_masterlock_release
\* suffice to wake one of them.
RuntimeAvailable ==
  (\E p \in Thread : at[p] \in Acquiring) ~>
    (\E p \in Thread : lpc[p] = "in" /\ at[p] \in Acquiring \cup Inside)

=============================================================================
