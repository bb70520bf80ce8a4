----------------------------- MODULE WinThreads -----------------------------
(***************************************************************************)
(* Mutexes, condition variables and termination events of the system       *)
(* threads under Windows (st_win32.h), where a condition variable is a      *)
(* list, through records on the stacks of the waiting threads, of their     *)
(* events.  Consumers wait for items that thread 0 produces, in the         *)
(* standard way: the condition is tested again after every wait.  A thread  *)
(* that runs Caml code may yield the master lock wherever it is.            *)
(***************************************************************************)
EXTENDS Integers, Sequences, FiniteSets, Jobs

CONSTANTS WinConsumers      \* threads 1 .. WinConsumers, each takes one item

ASSUME WinThreadsAssumption == WinConsumers \in Nat \ {0}

WinThreads == 0 .. WinConsumers
NoThread == -1
Garbage == -2       \* the next field of a record whose frame is gone

(***************************************************************************)
(* The state.  A critical section has an owner and a count of entries; tls  *)
(* is the event a thread owns, an auto-reset one; next is the wait record   *)
(* on its stack; status is the manual-reset event of its termination;       *)
(* resume is where it goes on once it has the master lock.                  *)
(***************************************************************************)
Sections == {"master", "mutex", "condvar"}
WinInit ==
  \E broadcasts, late \in BOOLEAN :
    /\ job = [part |-> "winthreads", broadcasts |-> broadcasts, late |-> late]
    /\ res = [owner |-> [s \in Sections |-> IF s = "master" THEN 0 ELSE NoThread], count |-> [s \in Sections |-> IF s = "master" THEN 1 ELSE 0],
              tls |-> [t \in WinThreads |-> "none"], next |-> [t \in WinThreads |-> Garbage], waiters |-> NoThread, curr |-> NoThread,
              status |-> [t \in WinThreads |-> FALSE], items |-> 0, made |-> 0, pc |-> [t \in WinThreads |-> IF t = 0 THEN "lock" ELSE "acquire"],
              resume |-> [t \in WinThreads |-> "lock"]]

CanEnter(r, t, s) == r.owner[s] \in {NoThread, t}
EnterCriticalSection(r, t, s) == [r EXCEPT !.owner[s] = t, !.count[s] = @ + 1]
LeaveCriticalSection(r, t, s) == [r EXCEPT !.count[s] = @ - 1, !.owner[s] = IF r.count[s] = 1 THEN NoThread ELSE @]
WinGoto(r, t, pc) == [r EXCEPT !.pc[t] = pc]

(***************************************************************************)
(* The master lock and mutexes, as Mutex.lock uses them.                   *)
(***************************************************************************)
WinAcquire(t) ==
  res.pc[t] = "acquire" /\ CanEnter(res, t, "master") /\ res' = WinGoto(EnterCriticalSection(res, t, "master"), t, res.resume[t])
\* Leave the runtime system for the place pc, to go on at resume.
WinRelease(r, t, pc, resume) == [LeaveCriticalSection(r, t, "master") EXCEPT !.pc[t] = pc, !.resume[t] = resume]

\* Threads that wait for the master lock are not counted, so caml_thread_yield always releases it.
WinYield(t) ==
  /\ res.pc[t] \in {"lock", "locked", "unlock", "unlocked", "signal", "signalled"}
  /\ res' = WinRelease(res, t, "acquire", res.pc[t])

\* Mutex.lock: at once if the mutex is free, else in a blocking section.
st_mutex_trylock(t) ==
  /\ res.pc[t] = "lock"
  /\ res' = IF CanEnter(res, t, "mutex") THEN WinGoto(EnterCriticalSection(res, t, "mutex"), t, "locked")
            ELSE WinRelease(res, t, "block", "locked")
st_mutex_lock(t) ==
  res.pc[t] = "block" /\ CanEnter(res, t, "mutex") /\ res' = WinGoto(EnterCriticalSection(res, t, "mutex"), t, "acquire")
st_mutex_unlock(t) ==
  res.pc[t] = "unlock" /\ res' = WinGoto(LeaveCriticalSection(res, t, "mutex"), t, "unlocked")

(***************************************************************************)
(* Condition variables.                                                    *)
(***************************************************************************)
\* A consumer that holds the mutex takes an item, or waits in a blocking section.
Consume(t) ==
  /\ t # 0 /\ res.pc[t] = "locked"
  /\ res' = IF res.items > 0 THEN WinGoto([res EXCEPT !.items = @ - 1], t, "unlock")
            ELSE WinRelease(res, t, "wait", "locked")

\* The event is created by the first wait, and if that fails the wait ends with the mutex still
\* locked; the list is changed under its lock.
WaitFails(t) == res.pc[t] = "wait" /\ res.tls[t] = "none" /\ res' = WinGoto(res, t, "acquire")
WaitInsert(t) ==
  /\ res.pc[t] = "wait" /\ CanEnter(res, t, "condvar")
  /\ res' = WinGoto(EnterCriticalSection([res EXCEPT !.tls[t] = IF @ = "none" THEN "unset" ELSE @], t, "condvar"), t, "insert")
WaitInserted(t) ==
  /\ res.pc[t] = "insert"
  /\ res' = WinGoto(LeaveCriticalSection([res EXCEPT !.next[t] = res.waiters, !.waiters = t], t, "condvar"), t, "inserted")
WaitRelease(t) ==
  /\ res.pc[t] = "inserted"
  /\ res' = WinGoto(LeaveCriticalSection(res, t, "mutex"), t, "blocked")
\* WaitForSingleObject resets the event; the record dies with the frame, after the mutex is reacquired.
WaitWake(t) ==
  res.pc[t] = "blocked" /\ res.tls[t] = "set" /\ res' = WinGoto([res EXCEPT !.tls[t] = "unset"], t, "woken")
WaitReturn(t) ==
  /\ res.pc[t] = "woken" /\ CanEnter(res, t, "mutex")
  /\ res' = WinGoto(EnterCriticalSection([res EXCEPT !.next[t] = Garbage], t, "mutex"), t, "acquire")
st_condvar_wait(t) == WaitFails(t) \/ WaitInsert(t) \/ WaitInserted(t) \/ WaitRelease(t) \/ WaitWake(t) \/ WaitReturn(t)

\* Thread 0: one item and a signal, or all of them and a broadcast; job.late: after it has released the mutex.
Produce ==
  /\ res.pc[0] = "locked"
  /\ LET n == IF job.broadcasts THEN WinConsumers ELSE 1 IN
     res' = WinGoto([res EXCEPT !.items = @ + n, !.made = @ + n], 0, IF job.late THEN "unlock" ELSE "signal")
SignalEnter ==
  /\ res.pc[0] = "signal" /\ CanEnter(res, 0, "condvar")
  /\ res' = WinGoto([EnterCriticalSection(res, 0, "condvar") EXCEPT !.curr = res.waiters], 0, "signalling")
SetEvent(r, t) == [r EXCEPT !.tls[t] = "set"]
SignalEnd(r) == WinGoto(LeaveCriticalSection([r EXCEPT !.curr = NoThread], 0, "condvar"), 0, IF job.late THEN "signalled" ELSE "unlock")
st_condvar_signal ==
  /\ ~ job.broadcasts /\ res.pc[0] = "signalling"
  /\ res' = SignalEnd(IF res.curr = NoThread THEN res ELSE [SetEvent(res, res.curr) EXCEPT !.waiters = res.next[res.curr]])
\* Mutant: the next thread is read from the record of one that was woken.
st_condvar_broadcast_after ==
  /\ job.broadcasts /\ res.pc[0] = "signalling"
  /\ res' = CASE res.curr = NoThread -> SignalEnd([res EXCEPT !.waiters = NoThread])
              [] res.curr # NoThread /\ res.pc[res.curr] \in {"inserted", "blocked"} /\ res.tls[res.curr] # "set" -> SetEvent(res, res.curr)
              [] OTHER -> [res EXCEPT !.curr = res.next[res.curr]]

\* One thread at a time; the next one is read before the event is set.
st_condvar_broadcast ==
  /\ job.broadcasts /\ res.pc[0] = "signalling"
  /\ res' = IF res.curr = NoThread THEN SignalEnd([res EXCEPT !.waiters = NoThread])
            ELSE [SetEvent(res, res.curr) EXCEPT !.curr = res.next[res.curr]]

(***************************************************************************)
(* Termination: a manual-reset event, for which thread 0 waits in a         *)
(* blocking section.                                                       *)
(***************************************************************************)
Continue(t) ==
  \/ t # 0 /\ res.pc[t] = "unlocked" /\ res' = WinGoto([res EXCEPT !.status[t] = TRUE], t, "exit")
  \/ t = 0 /\ job.late /\ res.pc[t] = "unlocked" /\ res' = WinGoto(res, t, "signal")
  \/ /\ t = 0 /\ res.pc[t] = (IF job.late THEN "signalled" ELSE "unlocked")
     /\ res' = IF res.made < WinConsumers THEN WinGoto(res, t, "lock") ELSE WinRelease(res, t, "join", "over")
st_thread_cleanup(t) ==
  res.pc[t] = "exit" /\ res' = [WinRelease(res, t, "over", "over") EXCEPT !.tls[t] = IF @ = "none" THEN @ ELSE "closed"]
st_event_wait == res.pc[0] = "join" /\ (\A t \in WinThreads \ {0} : res.status[t]) /\ res' = WinGoto(res, 0, "over")

WinNext ==
  /\ job.part = "winthreads" /\ UNCHANGED job
  /\ \/ \E t \in WinThreads :
          \/ WinAcquire(t) \/ WinYield(t) \/ st_mutex_trylock(t) \/ st_mutex_lock(t) \/ st_mutex_unlock(t)
          \/ Consume(t) \/ st_condvar_wait(t) \/ Continue(t) \/ st_thread_cleanup(t)
     \/ Produce \/ SignalEnter \/ st_condvar_signal \/ st_condvar_broadcast \/ st_event_wait

(***************************************************************************)
(* Properties.                                                             *)
(***************************************************************************)
InWait == {"inserted", "blocked"}
\* The threads linked from c->waiters.
RECURSIVE Listed(_, _)
Listed(t, seen) == IF t \in {NoThread, Garbage} \cup seen THEN seen ELSE Listed(res.next[t], seen \cup {t})
Asleep(t) == res.pc[t] = "blocked" /\ res.tls[t] # "set"

\* st_win32.h: the list of a condition variable leads through live records to exactly the threads that
\* wait and have not been woken; an event is set only for a thread that has been taken off the list
\* and has not returned, so no wait returns without a signal; broadcast never reads the record of a thread
\* that has gone; after items were produced and signalled, not all consumers that still need one sleep,
\* and the threads always get to their end.
CondvarsSound ==
  job.part = "winthreads" =>
    /\ res.pc[0] # "signalling" =>
         Listed(res.waiters, {}) = {t \in WinThreads : res.pc[t] \in InWait /\ res.tls[t] # "set"}
    /\ \A t \in WinThreads : res.tls[t] = "set" => res.pc[t] \in InWait
    /\ res.waiters # Garbage /\ res.curr # Garbage
    /\ res.pc[0] = "join" /\ res.items > 0 =>
         \E t \in WinThreads \ {0} : res.pc[t] \notin {"exit", "over"} /\ ~ Asleep(t)
    /\ (\A t \in WinThreads : res.pc[t] = "over") \/ ENABLED WinNext
    /\ \A t \in WinThreads : t # 0 /\ res.pc[t] \in {"locked", "unlock"} => res.owner["mutex"] = t /\ res.owner["master"] = t
=============================================================================
