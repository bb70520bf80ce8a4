------------------------------ MODULE VMThreads ------------------------------
(***************************************************************************)
(* The threads of the bytecode virtual machine (otherlibs/threads): one    *)
(* process runs them all, schedule_thread of scheduler.c chooses who goes  *)
(* on, and mutexes and conditions (mutex.ml, condition.ml) are built from  *)
(* sleep and wakeup, with a flag that keeps the timer from preempting.     *)
(*                                                                         *)
(* schedule_thread is cut where the process may block: the scan of the     *)
(* threads, then select.  Time, children and descriptors change between.   *)
(* The mutex and condition code is cut at the function applications, where *)
(* the preemption signal is noticed.                                       *)
(***************************************************************************)
EXTENDS Integers, Sequences, SequencesExt, FiniteSets

CONSTANTS
  Thread,     \* the threads that may exist
  Main,       \* the thread of thread_initialize
  Lockers,    \* the threads that use the mutex and the condition
  Blockers,   \* the threads that wait for descriptors, time, threads and children
  FD,         \* the file descriptors
  NULL

ASSUME VMAssumption == Main \in Thread /\ Lockers \cup Blockers \subseteq Thread /\ NULL \notin Thread

VARIABLES
  ring,        \* the circular list of threads, curr_thread first
  status,      \* flags of each thread; {} is RUNNABLE
  waits,       \* fd, readfds, writefds: the <<descriptor, direction>> waited for
  delay,       \* "none", "pending", or "past": the date is over
  joining, retval,
  cause,       \* the call in which the thread blocked last
  pc,          \* "run", or where schedule_thread is
  run_thread, need_wait,              \* its locals
  asked,       \* the sets it gives to select
  critical_section,                   \* thread.ml
  locked, holder, waiting,            \* a mutex, who locked it, its waiters
  cond_waiting,                       \* the waiters of a condition
  place,       \* where each thread is in mutex.ml and condition.ml
  to_wake,     \* what is left of the list that its List.iter wakes
  torn,        \* history: a list of waiters lost its owner or got a dead member
  child        \* a process: "none", "alive", "exited" or "reaped"

descr  == <<status, waits, delay, joining, retval, cause>>
sched  == <<pc, run_thread, need_wait, asked>>
locks  == <<locked, holder, waiting, cond_waiting, place, to_wake, torn>>
vmvars == <<ring, descr, sched, critical_section, locks, child>>

curr_thread == Head(ring)

Pairs == FD \X {"read", "write"}

RUNNABLE(th) == status[th] = {}
Killed(th)   == status[th] = {"KILLED"}

\* The order of FOREACH_THREAD: curr_thread comes last.
Visited == Tail(ring) \o <<curr_thread>>

Position(s, th) == CHOOSE i \in DOMAIN s : s[i] = th

\* The list s once th is current.
Rotated(s, th) ==
  LET i == Position(s, th) IN SubSeq(s, i, Len(s)) \o SubSeq(s, 1, i - 1)

FirstRunnable(st) ==
  LET R == {i \in DOMAIN Visited : st[Visited[i]] = {}}
  IN IF R = {} THEN NULL ELSE Visited[CHOOSE i \in R : \A j \in R : i <= j]

-----------------------------------------------------------------------------
(* schedule_thread.                                                        *)

\* Activate the thread, which takes its retval (rv), and free what it was
\* waiting on.  The thread that was current is unlinked if it killed itself.
Activate(th, rv) ==
  /\ ring' = Rotated(IF Killed(curr_thread) THEN Tail(ring) ELSE ring, th)
  /\ waits' = [waits EXCEPT ![th] = {}]
  /\ delay' = [delay EXCEPT ![th] = "none"]
  /\ joining' = [joining EXCEPT ![th] = NULL]
  /\ cause' = [cause EXCEPT ![th] = "none"]
  /\ retval' = [rv EXCEPT ![th] = "unit"]
  /\ pc' = "run" /\ run_thread' = NULL /\ need_wait' = FALSE /\ asked' = {}

\* The delay of th is over, the thread it joins is killed.
Expired(th) == "DELAY" \in status[th] /\ delay[th] = "past"
Joined(th)  == "JOIN" \in status[th] /\ Killed(joining[th])

\* waitpid gives the child to the first thread that asks for it.
Reaper ==
  LET R == {i \in DOMAIN Visited : "WAIT" \in status[Visited[i]]}
  IN IF child # "exited" \/ R = {} THEN NULL
     ELSE Visited[CHOOSE i \in R : \A j \in R : i <= j]

OnFds(th) == status[th] \cap {"READ", "WRITE", "SELECT"} # {}

Resumed(th) == Expired(th) \/ Joined(th) \/ th = Reaper

\* Mutant: the search for a runnable thread begins with the current one.
FirstToRun_current(st) == IF st[curr_thread] = {} THEN curr_thread ELSE FirstRunnable(st)

FirstToRun(st) == FirstRunnable(st)

\* From try_again to the select.
Scan ==
  /\ pc = "scan"
  /\ LET st == [th \in Thread |-> IF th \in ToSet(ring) /\ Resumed(th) THEN {} ELSE status[th]]
         fds == UNION {waits[th] : th \in {t \in ToSet(ring) : OnFds(t)}}
         rv == [th \in Thread |->
                  IF th \notin ToSet(ring) THEN retval[th]
                  ELSE IF th = Reaper THEN "RESUMED_WAIT"
                  ELSE IF Joined(th) THEN "RESUMED_JOIN"
                  ELSE IF Expired(th) THEN "RESUMED_DELAY" ELSE retval[th]]
     IN /\ status' = st
        /\ child' = IF Reaper # NULL THEN "reaped" ELSE child
        /\ IF FirstToRun(st) # NULL /\ fds = {}
           THEN Activate(FirstToRun(st), rv)
           ELSE /\ pc' = "select" /\ run_thread' = FirstToRun(st) /\ asked' = fds
                /\ need_wait' = \E th \in ToSet(ring) : "WAIT" \in st[th]
                /\ retval' = rv
                /\ UNCHANGED <<ring, waits, delay, joining, cause>>
  /\ UNCHANGED <<critical_section, locks>>

\* What a thread that was served leaves in the sets: a pair resumes one thread,
\* except that a writer clears its descriptor in the set of the readers.
Clear(th, left) ==
  IF "WRITE" \in status[th]
  THEN {p \in left : p[2] = "write" \/ p[1] \notin {q[1] : q \in waits[th]}}
  ELSE left \ waits[th]

\* The threads resumed by the pass over the list that follows select, among those
\* that wait on descriptors; count is retcode, and the pass ends when it is used up.
Served(ready, count) ==
  LET pass == FoldLeft(LAMBDA acc, th :
                IF OnFds(th) /\ acc.count > 0 /\ waits[th] \cap acc.left # {}
                THEN [left |-> Clear(th, acc.left),
                      count |-> acc.count - Cardinality(waits[th] \cap acc.left),
                      threads |-> acc.threads \cup {th}]
                ELSE acc,
                [left |-> ready, count |-> count, threads |-> {}], Visited)
  IN {th \in ToSet(ring) : OnFds(th) /\ th \in pass.threads}

\* The end of schedule_thread when select has served the threads S.
Selected(S) ==
  LET rv == [th \in Thread |->
               IF th \notin S THEN retval[th]
               ELSE IF "SELECT" \in status[th] THEN "RESUMED_SELECT" ELSE "RESUMED_IO"]
      st == [th \in Thread |-> IF th \in S THEN {} ELSE status[th]]
  IN /\ status' = st
     /\ IF run_thread # NULL THEN Activate(run_thread, rv)
        ELSE IF S # {} THEN Activate(FirstRunnable(st), rv)
        ELSE /\ pc' = "scan" /\ run_thread' = NULL /\ need_wait' = FALSE /\ asked' = {}
             /\ UNCHANGED <<ring, waits, delay, joining, retval, cause>>
     /\ UNCHANGED <<critical_section, locks, child>>

\* Descriptors are ready.
SelectReady ==
  /\ pc = "select"
  /\ \E ready \in SUBSET asked \ {{}} : Selected(Served(ready, Cardinality(ready)))

\* EBADF: the sets are as they were, and retcode becomes FD_SETSIZE.
SelectBad ==
  /\ pc = "select" /\ asked # {}
  /\ Selected(Served(asked, Cardinality(Pairs)))

\* The timeout: none at all if a thread can run, 50 ms if one awaits a child.
SelectTimeout ==
  /\ pc = "select"
  /\ run_thread # NULL \/ need_wait \/ \E th \in ToSet(ring) : Expired(th)
  /\ Selected({})

\* EINTR.
SelectInterrupted == pc = "select" /\ Selected({})

-----------------------------------------------------------------------------
(* The primitives that block or reschedule the current thread.             *)

Running(p) == pc = "run" /\ curr_thread = p

\* The state after the current thread is given these flags and schedule_thread
\* begins.
Block(p, flags, c) ==
  /\ status' = [status EXCEPT ![p] = flags]
  /\ cause' = [cause EXCEPT ![p] = c]
  /\ pc' = "scan"
  /\ UNCHANGED <<ring, run_thread, need_wait, asked, critical_section, child>>

\* A call of the program, outside mutexes and conditions and outside callbacks,
\* where check_callback ends the process and schedule_thread does nothing.
Calls(p) == Running(p) /\ place[p] = "run"

\* thread_yield, and thread_reschedule unless critical_section is set.
Reschedule(p) ==
  /\ retval' = [retval EXCEPT ![p] = "unit"]
  /\ pc' = "scan"
  /\ UNCHANGED <<ring, status, waits, delay, joining, cause, run_thread,
                 need_wait, asked, critical_section, locks, child>>

thread_yield(p) == Running(p) /\ place[p] = "run" /\ Reschedule(p)

preempt(p) == Running(p) /\ ~critical_section /\ Reschedule(p)

\* thread_wait_read and thread_wait_write, with or without a timeout.
thread_wait_rw(p, pair, timed) ==
  /\ Calls(p)
  /\ waits' = [waits EXCEPT ![p] = {pair}]
  /\ delay' = [delay EXCEPT ![p] = IF timed THEN "pending" ELSE @]
  /\ Block(p, {IF pair[2] = "read" THEN "READ" ELSE "WRITE"} \cup (IF timed THEN {"DELAY"} ELSE {}),
           "io")
  /\ UNCHANGED <<joining, retval, locks>>

thread_select(p, pairs, timed) ==
  /\ Calls(p)
  /\ waits' = [waits EXCEPT ![p] = pairs]
  /\ delay' = [delay EXCEPT ![p] = IF timed THEN "pending" ELSE @]
  /\ Block(p, {"SELECT"} \cup (IF timed THEN {"DELAY"} ELSE {}), "select")
  /\ UNCHANGED <<joining, retval, locks>>

thread_delay(p) ==
  /\ Calls(p)
  /\ delay' = [delay EXCEPT ![p] = "pending"]
  /\ Block(p, {"DELAY"}, "delay")
  /\ UNCHANGED <<waits, joining, retval, locks>>

\* Joining a thread that is killed already returns at once.
thread_join(p, th) ==
  /\ Calls(p) /\ th \in Thread /\ ~Killed(th) /\ cause[th] # "unborn"
  /\ joining' = [joining EXCEPT ![p] = th]
  /\ Block(p, {"JOIN"}, "join")
  /\ UNCHANGED <<waits, delay, retval, locks>>

thread_wait_pid(p) ==
  /\ Calls(p) /\ child # "none"
  /\ Block(p, {"WAIT"}, "wait")
  /\ UNCHANGED <<waits, delay, joining, retval, locks>>

\* The new thread goes before the current one, that is, last.
thread_new(p, th) ==
  /\ Running(p) /\ place[p] = "run" /\ cause[th] = "unborn"
  /\ ring' = Append(ring, th)
  /\ cause' = [cause EXCEPT ![th] = "none"]
  /\ status' = [status EXCEPT ![th] = {}]
  /\ UNCHANGED <<waits, delay, joining, retval, sched,
                 critical_section, locks, child>>

\* The lists that hold threads to wake.
Listed == ToSet(waiting) \cup ToSet(cond_waiting) \cup UNION {ToSet(to_wake[p]) : p \in Thread}

\* Thread.kill.  A thread that kills itself is removed when another one has been
\* activated.  Inside a callback nothing checks that: its stack is freed while
\* in use, so the program must not do it.  What a killed thread was waiting for is
\* never looked at again, but the lists of mutexes and conditions keep it, and
\* those it was about to wake are forgotten.
thread_kill(p, th) ==
  /\ Calls(p) /\ th \in ToSet(ring) /\ Len(ring) > 1
  /\ status' = [status EXCEPT ![th] = {"KILLED"}]
  /\ ring' = IF th = p THEN ring ELSE RemoveAt(ring, Position(ring, th))
  /\ pc' = IF th = p THEN "scan" ELSE "run"
  /\ waits' = [waits EXCEPT ![th] = {}]
  /\ delay' = [delay EXCEPT ![th] = "none"]
  /\ joining' = [joining EXCEPT ![th] = NULL]
  /\ cause' = [cause EXCEPT ![th] = "none"]
  /\ retval' = [retval EXCEPT ![th] = "unit"]
  /\ torn' = (torn \/ th \in Listed \/ to_wake[th] # <<>>)
  /\ to_wake' = [to_wake EXCEPT ![th] = <<>>]
  /\ UNCHANGED <<run_thread, need_wait, asked, critical_section, locked, holder, waiting, cond_waiting, place, child>>

-----------------------------------------------------------------------------
(* mutex.ml and condition.ml.                                              *)

\* A step of thread p in that code that does not block, to the next place.
Step(p, from, to) ==
  /\ Running(p) /\ place[p] = from
  /\ place' = [place EXCEPT ![p] = to]
  /\ UNCHANGED <<ring, sched, torn, child>>

Take(p) ==
  /\ locked' = TRUE /\ holder' = p
  /\ UNCHANGED <<waiting, cond_waiting, to_wake, critical_section>>

\* Mutant: the waiter can be preempted before it is on the list.
Enlist_open(p) ==
  /\ locked
  /\ UNCHANGED <<locked, holder, waiting, cond_waiting, to_wake, critical_section>>

\* The first branch of Mutex.lock.
Enlist(p) ==
  /\ locked /\ critical_section' = TRUE
  /\ UNCHANGED <<locked, holder, waiting, cond_waiting, to_wake>>

\* Mutex.lock: test, and take the mutex or prepare to wait.
lock(p, from) ==
  \/ ~locked /\ Step(p, from, "run") /\ Take(p) /\ UNCHANGED descr
  \/ Step(p, from, "enlist") /\ Enlist(p) /\ UNCHANGED descr

\* m.waiting <- Thread.self() :: m.waiting.
LockWaits(p) ==
  /\ Step(p, "enlist", "sleep")
  /\ waiting' = <<p>> \o waiting
  /\ UNCHANGED <<descr, critical_section, locked, holder, cond_waiting, to_wake>>

\* Thread.sleep; Mutex.lock goes on with the test when the thread is woken.
thread_sleep(p) ==
  /\ Running(p) /\ place[p] = "sleep"
  /\ critical_section' = FALSE
  /\ place' = [place EXCEPT ![p] = "lock"]
  /\ status' = [status EXCEPT ![p] = {"SUSPENDED"}]
  /\ cause' = [cause EXCEPT ![p] = "sleep"]
  /\ pc' = "scan"
  /\ UNCHANGED <<ring, waits, delay, joining, retval, run_thread, need_wait, asked,
                 locked, holder, waiting, cond_waiting, to_wake, torn, child>>

\* Mutex.unlock, up to List.iter.
unlock(p, from, to) ==
  /\ holder = p
  /\ Step(p, from, to)
  /\ to_wake' = [to_wake EXCEPT ![p] = waiting]
  /\ waiting' = <<>> /\ locked' = FALSE /\ holder' = NULL
  /\ UNCHANGED <<descr, cond_waiting>>

thread_wakeup(th) ==
  /\ status' = [status EXCEPT ![th] = {}]
  /\ retval' = [retval EXCEPT ![th] = "RESUMED_WAKEUP"]
  /\ UNCHANGED <<waits, delay, joining, cause>>

\* One call of Thread.wakeup in List.iter.  It fails if the thread is not
\* suspended, because it was killed: the exception leaves the others asleep, and
\* out of Condition.wait it leaves critical_section set.
Wake(p, from, to) ==
  /\ to_wake[p] # <<>>
  /\ LET th == Head(to_wake[p])
         ok == status[th] = {"SUSPENDED"}
         left == IF ok THEN Tail(to_wake[p]) ELSE <<>>
     IN /\ IF ok THEN thread_wakeup(th) ELSE UNCHANGED descr
        /\ to_wake' = [to_wake EXCEPT ![p] = left]
        /\ Step(p, from, IF ~ok THEN "run" ELSE IF left = <<>> THEN to ELSE from)
  /\ UNCHANGED <<critical_section, locked, holder, waiting, cond_waiting>>

\* Condition.signal wakes the first waiter, broadcast all.
signal(p, n) ==
  /\ cond_waiting # <<>>
  /\ Step(p, "run", "waking")
  /\ to_wake' = [to_wake EXCEPT ![p] = SubSeq(cond_waiting, 1, n)]
  /\ cond_waiting' = SubSeq(cond_waiting, n + 1, Len(cond_waiting))
  /\ UNCHANGED <<descr, critical_section, locked, holder, waiting>>

\* Condition.wait: unlock the mutex in a critical section, join the waiters.
wait(p) == unlock(p, "run", IF waiting = <<>> THEN "cond" ELSE "condwaking") /\ critical_section' = TRUE

CondWaits(p) ==
  /\ Step(p, "cond", "sleep")
  /\ cond_waiting' = <<p>> \o cond_waiting
  /\ UNCHANGED <<descr, critical_section, locked, holder, waiting, to_wake>>

\* What a thread does inside mutex.ml and condition.ml until it returns.
InLibrary(p) ==
  \/ lock(p, "lock") \/ LockWaits(p) \/ thread_sleep(p)
  \/ Wake(p, "waking", "run") \/ Wake(p, "condwaking", "cond") \/ CondWaits(p)

UsesLocks(p) ==
  /\ p \in Lockers
  /\ \/ holder # p /\ lock(p, "run")
     \/ unlock(p, "run", IF waiting = <<>> THEN "run" ELSE "waking") /\ UNCHANGED critical_section
     \/ wait(p)
     \/ \E n \in {1, Len(cond_waiting)} : signal(p, n)

-----------------------------------------------------------------------------
(* Time passes; the child ends.                                            *)

Tick(th) ==
  /\ delay[th] = "pending"
  /\ delay' = [delay EXCEPT ![th] = "past"]
  /\ UNCHANGED <<ring, status, waits, joining, retval, cause, sched,
                 critical_section, locks, child>>

ChildExits ==
  /\ child = "alive"
  /\ child' = "exited"
  /\ UNCHANGED <<ring, descr, sched, critical_section, locks>>

\* thread_initialize; the process has forked a child.
VMInit ==
  /\ ring = <<Main>>
  /\ status = [th \in Thread |-> {}]
  /\ waits = [th \in Thread |-> {}] /\ delay = [th \in Thread |-> "none"]
  /\ joining = [th \in Thread |-> NULL]
  /\ retval = [th \in Thread |-> "unit"]
  /\ cause = [th \in Thread |-> IF th = Main THEN "none" ELSE "unborn"]
  /\ pc = "run" /\ run_thread = NULL /\ need_wait = FALSE /\ asked = {}
  /\ critical_section = FALSE
  /\ locked = FALSE /\ holder = NULL /\ waiting = <<>> /\ cond_waiting = <<>>
  /\ place = [th \in Thread |-> "run"] /\ to_wake = [th \in Thread |-> <<>>] /\ torn = FALSE
  /\ child = "alive"

schedule_thread == Scan \/ SelectReady \/ SelectBad \/ SelectTimeout \/ SelectInterrupted

Blocks(p) ==
  /\ p \in Blockers
  /\ \/ \E pair \in Pairs, timed \in BOOLEAN : thread_wait_rw(p, pair, timed)
     \/ thread_select(p, {}, TRUE) \/ thread_select(p, Pairs, FALSE)
     \/ thread_delay(p) \/ thread_wait_pid(p)
     \/ \E th \in Thread : thread_join(p, th)

VMNext ==
  \/ schedule_thread
  \/ \E p \in Thread :
       \/ preempt(p) \/ thread_yield(p) \/ Blocks(p)
       \/ \E th \in Thread : thread_new(p, th) \/ thread_kill(p, th)
       \/ InLibrary(p) \/ UsesLocks(p)
       \/ Tick(p)
  \/ ChildExits

VMSpec == VMInit /\ [][VMNext]_vmvars

\* The process runs: schedule_thread goes on, SIGVTALRM preempts, time passes.
\*  Descriptors need not become ready, nor signals arrive.
VMFairSpec ==
  /\ VMSpec
  /\ WF_vmvars(Scan) /\ WF_vmvars(SelectTimeout)
  /\ WF_vmvars(\E p \in Thread : InLibrary(p)) /\ WF_vmvars(\E p \in Thread : preempt(p))
  /\ \A th \in Thread : WF_vmvars(Tick(th))

-----------------------------------------------------------------------------
(* Properties.                                                             *)

\* A thread on a list of waiters is asleep, or is about to sleep and cannot be
\* preempted, so that Thread.wakeup does not fail and leave others asleep; nobody
\* waits for a mutex that is free; and whoever sleeps is on a list (mutex.ml,
\* condition.ml).  That ends when the program kills a thread that is on one of the
\* lists or is going through one.
WaitersSleep ==
  ~torn =>
    /\ \A th \in Listed : status[th] = {"SUSPENDED"} \/ (th = curr_thread /\ critical_section)
    /\ waiting # <<>> => locked
    /\ \A th \in Thread : place[th] = "lock" /\ status[th] = {"SUSPENDED"} => th \in Listed

\* What a thread that has been resumed finds in retval says why it was resumed,
\* and is about the call in which it blocked (schedule_thread).
ResumedForCause ==
  \A th \in ToSet(ring) : RUNNABLE(th) =>
    CASE cause[th] = "none"   -> TRUE
      [] cause[th] = "io"     -> retval[th] \in {"RESUMED_IO", "RESUMED_DELAY"}
      [] cause[th] = "select" -> retval[th] \in {"RESUMED_SELECT", "RESUMED_DELAY"}
      [] cause[th] = "delay"  -> retval[th] = "RESUMED_DELAY" /\ delay[th] = "past"
      [] cause[th] = "join"   -> retval[th] = "RESUMED_JOIN" /\ Killed(joining[th])
      [] cause[th] = "wait"   -> retval[th] = "RESUMED_WAIT" /\ child = "reaped"
      [] cause[th] = "sleep"  -> retval[th] = "RESUMED_WAKEUP"

\* The scheduler and the mutexes and conditions built on it agree on who sleeps and why.
SleepersKnown == WaitersSleep /\ ResumedForCause

\* A thread that can go on: it is runnable, or its delay is over, the thread it
\* joins is dead, or the child it alone awaits has exited.
CanGoOn(th) ==
  /\ th \in ToSet(ring)
  /\ \/ RUNNABLE(th) \/ Expired(th) \/ Joined(th)
     \/ "WAIT" \in status[th] /\ child = "exited" /\ \A q \in Thread \ {th} : "WAIT" \notin status[q]

\* Thread.wakeup has failed inside Condition.wait: until the next Thread.sleep no
\* tick preempts the program.
Unpreemptible == torn /\ critical_section

\* A thread that can go on does, unless a kill left preemption off (schedule_thread).
Resumes == \A th \in Thread : CanGoOn(th) ~> (Running(th) \/ Killed(th) \/ Unpreemptible)

=============================================================================
