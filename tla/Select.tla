------------------------------- MODULE Select -------------------------------
(***************************************************************************)
(* Unix.select on Windows (otherlibs/win32unix/select.c), which has worker *)
(* threads (winworker.c) watch the descriptors that the system cannot wait *)
(* for together.                                                           *)
(*                                                                         *)
(* A job is a program of some threads; each makes the same query, three    *)
(* lists of descriptors and a timeout, SelectCalls times, and at the end   *)
(* worker_cleanup runs, in the record of caller 0.  The callers, the       *)
(* workers they share and the arrival of input interleave.  A worker has a *)
(* number, its place in res.workers; what a caller or a critical section   *)
(* of hWorkersMutex does to data nobody else can reach is one step.        *)
(*                                                                         *)
(* A caller that an exception of a signal handler takes out of a call      *)
(* makes no other call, so that what it leaves behind keeps its name; a    *)
(* thread that goes on after the exception is another caller.              *)
(***************************************************************************)
EXTENDS Integers, Sequences, FiniteSets, Jobs

CONSTANTS
  DescrKind,               \* descriptor -> "disk", "console", "pipe", "socket", "unbound" or "unknown"
  SelectQueries,           \* sequences of records [read, write, except, timed, fails, quiet, raises], one for each caller
  SelectCalls,             \* calls that each caller makes
  MAXIMUM_SELECT_OBJECTS,  \* 63
  THREAD_WORKERS_MAX       \* 16

ASSUME SelectAssumption ==
  /\ {SelectCalls, MAXIMUM_SELECT_OBJECTS, THREAD_WORKERS_MAX} \subseteq Nat \ {0}
  /\ \A qs \in SelectQueries : /\ 0 \notin DOMAIN qs
                               /\ \A c \in DOMAIN qs : {qs[c].read, qs[c].write, qs[c].except} \subseteq Seq(DOMAIN DescrKind)

\* The most objects that WaitForMultipleObjects takes.
MAXIMUM_WAIT_OBJECTS == MAXIMUM_SELECT_OBJECTS + 1

LOCAL SS == INSTANCE SequencesExt

(***************************************************************************)
(* Dispatching: the list of select data, each to be watched by one worker  *)
(* or static.  New data is put in front.                                   *)
(***************************************************************************)

\* signaled: the queries of a socket_poll whose event is set.
select_data_new(type) ==
  [type |-> type, queries |-> <<>>, results |-> <<>>, state |-> "none", error |-> FALSE, worker |-> 0, signaled |-> {}, freed |-> FALSE]
Query(mode, fd, idx) == [mode |-> mode, fd |-> fd, idx |-> idx]
SelectAnswer(q) == [mode |-> q.mode, idx |-> q.idx]
select_data_query_add(d, q) == IF Len(d.queries) < MAXIMUM_SELECT_OBJECTS THEN [d EXCEPT !.queries = Append(@, q)] ELSE d
select_data_result_add(d, q) == IF Len(d.results) < MAXIMUM_SELECT_OBJECTS THEN [d EXCEPT !.results = Append(@, SelectAnswer(q))] ELSE d

\* The list and the place in it of the first data of the type with room, new data when there is none.
HasRoom(d) == Len(d.queries) < MAXIMUM_SELECT_OBJECTS
select_data_job_search(data, type) ==
  LET J == {i \in DOMAIN data : data[i].type = type /\ HasRoom(data[i])} IN
  IF J = {} THEN [list |-> <<select_data_new(type)>> \o data, at |-> 1]
  ELSE [list |-> data, at |-> CHOOSE k \in J : \A l \in J : k <= l]

\* read_pipe_poll_add and socket_poll_add.
poll_add(data, type, q) ==
  LET found == select_data_job_search(data, type) IN [found.list EXCEPT ![found.at] = select_data_query_add(@, q)]
static_poll_add(data, q) ==
  LET found == select_data_job_search(data, "static") IN
  [found.list EXCEPT ![found.at] = select_data_result_add(select_data_query_add(@, q), q)]
read_console_poll_add(data, q) == <<select_data_query_add(select_data_new("console"), q)>> \o data

select_data_dispatch(data, mode, fd, idx) ==
  LET q == Query(mode, fd, idx)  kind == DescrKind[fd] IN
  CASE kind = "socket" -> poll_add(data, "socket", q)
    [] kind = "unbound" -> IF mode = "except" THEN poll_add(data, "socket", q) ELSE static_poll_add(data, q)
    [] kind = "pipe" /\ mode = "read" -> poll_add(data, "pipe", q)
    [] kind = "console" /\ mode = "read" -> read_console_poll_add(data, q)
    [] mode = "write" \/ (kind = "disk" /\ mode = "read") -> static_poll_add(data, q)
    [] OTHER -> data

\* Descriptors that are already in the list are left out; the number counts the others.
handle_set_mem(done, fd) == \E i \in DOMAIN done : done[i] = fd
handle_set_add(done, fd) == Append(done, fd)
DispatchOne(s, mode, fd) ==
  IF handle_set_mem(s.done, fd) THEN s
  ELSE [data |-> select_data_dispatch(s.data, mode, fd, Len(s.done)), done |-> handle_set_add(s.done, fd)]
DispatchList(data, mode, fds) ==
  LET D[n \in 0 .. Len(fds)] == IF n = 0 THEN [data |-> data, done |-> <<>>] ELSE DispatchOne(D[n - 1], mode, fds[n])
  IN D[Len(fds)].data
Dispatched(q) == DispatchList(DispatchList(DispatchList(<<>>, "read", q.read), "write", q.write), "except", q.except)

\* The descriptor at that place of the list of the caller, which may hold duplicates.
find_handle(q, r) == (CASE r.mode = "read" -> q.read [] r.mode = "write" -> q.write [] OTHER -> q.except)[r.idx + 1]

(***************************************************************************)
(* Workers.  stop and done are events reset by hand, ready and command     *)
(* events that reset when a wait ends.  Nothing waits for hJobStarted.     *)
(***************************************************************************)
worker_new == [pc |-> "start", stop |-> FALSE, done |-> FALSE, ready |-> FALSE, command |-> FALSE, cmd |-> "none", data |-> <<>>]

\* The first worker of the pool, or a new one.
PoppedWorker(s) == IF s.pool = <<>> THEN Len(s.workers) + 1 ELSE Head(s.pool)
worker_pop(s) ==
  LET w == PoppedWorker(s)
      t == IF s.pool = <<>> THEN [s EXCEPT !.workers = Append(@, worker_new)] ELSE [s EXCEPT !.pool = Tail(@)]
  IN [t EXCEPT !.current = @ + 1, !.max = IF s.current + 1 > @ THEN s.current + 1 ELSE @,
               !.workers[w] = [@ EXCEPT !.stop = FALSE, !.done = FALSE, !.data = <<>>]]

\* Whether a worker that comes back is kept.
KeepsWorker(s) == Len(s.pool) < THREAD_WORKERS_MAX
worker_push(s, w) == [s EXCEPT !.pool = IF KeepsWorker(s) THEN <<w>> \o @ ELSE @, !.current = @ - 1]

Command(s, w, cmd) == [s EXCEPT !.workers[w] = [@ EXCEPT !.ready = FALSE, !.cmd = cmd, !.command = TRUE]]

WorkerAt(w, pc) == res.workers[w].pc = pc
JobData(s, w) == s.callers[s.workers[w].data[1]].data[s.workers[w].data[2]]
Fails(w) == job.queries[res.workers[w].data[1]].fails

\* The job of worker w leaves d in its data and goes on at pc.
Works(s, w, d, pc) ==
  [s EXCEPT !.callers[s.workers[w].data[1]].data[s.workers[w].data[2]] = d, !.workers[w].pc = pc]

\* check_error records the first error only.
check_error(d) == IF d.error THEN d ELSE [d EXCEPT !.state = "error", !.error = TRUE]

\* read_console_poll: the stop event comes before the console in the wait.  A record that is not a
\* key is read and dropped.
ConsoleStops(w) == WorkerAt(w, "job") /\ res.workers[w].stop /\ res' = Works(res, w, JobData(res, w), "finish")
ConsoleFails(w) ==
  WorkerAt(w, "job") /\ Fails(w) = "console" /\ res' = Works(res, w, check_error(JobData(res, w)), "finish")
ConsoleRecord(w) ==
  /\ WorkerAt(w, "job") /\ ~res.workers[w].stop /\ res.console # <<>>
  /\ LET d == JobData(res, w) IN
     res' = IF Head(res.console) = "key"
            THEN Works(res, w, [select_data_result_add(d, d.queries[1]) EXCEPT !.state = "signaled"], "finish")
            ELSE Works(res, w, d, "dropping")
ConsoleDrops(w) ==
  /\ WorkerAt(w, "dropping") /\ res.console # <<>>
  /\ \/ res' = [Works(res, w, JobData(res, w), "job") EXCEPT !.console = Tail(@)]
     \/ Fails(w) = "console" /\ res' = Works(res, w, check_error(JobData(res, w)), "finish")
read_console_poll(w) == ConsoleStops(w) \/ ConsoleFails(w) \/ ConsoleRecord(w) \/ ConsoleDrops(w)

\* read_pipe_poll: a turn over the pipes, up to an error; without an answer a wait for the stop
\* event that times out.  A pipe whose other end is closed is ready.
PeekNamedPipe(d, q, w) ==
  IF d.error THEN d ELSE IF Fails(w) = q.fd THEN check_error(d)
  ELSE IF q.fd \in res.input THEN [select_data_result_add(d, q) EXCEPT !.state = "signaled"] ELSE d
PolledPipes(d, w) == SS!FoldLeft(LAMBDA t, q : PeekNamedPipe(t, q, w), d, d.queries)
PipeTurn(w) ==
  /\ WorkerAt(w, "job")
  /\ LET d == JobData(res, w)  polled == PolledPipes(d, w) IN
     res' = Works(res, w, [d EXCEPT !.results = polled.results, !.state = polled.state, !.error = polled.error],
                  IF polled.state = "none" THEN "pause" ELSE "finish")
PipePause(w) ==
  WorkerAt(w, "pause") /\ res' = Works(res, w, JobData(res, w), IF res.workers[w].stop THEN "finish" ELSE "job")
read_pipe_poll(w) == PipeTurn(w) \/ PipePause(w)

\* socket_poll: associate each socket with an event, which is set at once when something has happened
\* already, takes the place of an earlier association of the same socket, and makes the socket
\* non-blocking.  The stop event goes behind them, which is past the end of aEvents when the data is
\* full: that is harmless, or changes the count of the events, with which the wait fails.
Overruns(d) == d.type = "socket" /\ Len(d.queries) = MAXIMUM_SELECT_OBJECTS
SocketAssociate(w) ==
  /\ WorkerAt(w, "job")
  /\ LET d == JobData(res, w)
         good == {i \in DOMAIN d.queries : d.queries[i].fd # Fails(w)}
         last(i) == \A j \in good : d.queries[j].fd = d.queries[i].fd => j <= i
         set == {i \in good : <<d.queries[i].fd, d.queries[i].mode>> \in res.events}
         t == IF good = DOMAIN d.queries THEN [d EXCEPT !.signaled = set] ELSE check_error(d)
         mine(fd) == {i \in good : d.queries[i].fd = fd /\ last(i)} IN
     \E e \in {t} \cup (IF Overruns(d) THEN {check_error(t)} ELSE {}) :
       res' = [Works(res, w, e, IF e.error THEN "finish" ELSE "sockets") EXCEPT
                 !.assoc = [fd \in DOMAIN @ |-> IF mine(fd) = {} THEN @[fd] ELSE <<w, CHOOSE i \in mine(fd) : TRUE>>],
                 !.nonblock = @ \cup {d.queries[i].fd : i \in good}]
\* What lies behind the array was in use: the program is at its end.
SocketCrash(w) == WorkerAt(w, "job") /\ Overruns(JobData(res, w)) /\ res' = [res EXCEPT !.crashed = TRUE]
\* The wait ends: each event that is set gives a result, and the associations are removed.  The
\* sockets stay non-blocking: the mode that is set with ioctlsocket is that one too.
SignaledSockets(d) ==
  LET look(t, i) == IF i \in d.signaled THEN select_data_result_add(t, d.queries[i]) ELSE t IN
  SS!FoldLeft(look, d, [i \in DOMAIN d.queries |-> i])
SocketLook(w) ==
  /\ WorkerAt(w, "sockets")
  /\ LET d == JobData(res, w)
         polled == [d EXCEPT !.results = SignaledSockets(d).results]
         watched == {d.queries[i].fd : i \in DOMAIN d.queries} IN
     /\ res.workers[w].stop \/ d.signaled # {}
     /\ res' = [Works(res, w, IF Fails(w) = "restore" THEN check_error(polled) ELSE polled, "finish")
                  EXCEPT !.assoc = [fd \in DOMAIN @ |-> IF fd \in watched THEN <<>> ELSE @[fd]]]
socket_poll(w) == SocketAssociate(w) \/ SocketCrash(w) \/ SocketLook(w)

funcWorker(w) ==
  LET type == JobData(res, w).type IN
  \/ type = "console" /\ read_console_poll(w)
  \/ type = "pipe" /\ read_pipe_poll(w)
  \/ type = "socket" /\ socket_poll(w)

\* The thread of a worker: ready, then waiting for a command.
worker_wait(w) ==
  \/ WorkerAt(w, "start") /\ res' = [res EXCEPT !.workers[w].ready = TRUE, !.workers[w].pc = "waiting"]
  \/ /\ WorkerAt(w, "waiting") /\ res.workers[w].command
     /\ res' = [res EXCEPT !.workers[w].command = FALSE,
                           !.workers[w].pc = CASE res.workers[w].cmd = "exec" -> "job" [] res.workers[w].cmd = "stop" -> "exited" [] OTHER -> "start"]
  \/ res.workers[w].pc \in {"job", "dropping", "pause", "sockets"} /\ funcWorker(w)
  \/ WorkerAt(w, "finish") /\ res' = [res EXCEPT !.workers[w].done = TRUE, !.workers[w].pc = "start"]

(***************************************************************************)
(* The call of caller c.                                                   *)
(***************************************************************************)
SelectInit ==
  /\ job \in [part : {"select"}, queries : SelectQueries]
  /\ res = [callers |-> [c \in {0} \cup DOMAIN job.queries |->
                           [pc |-> IF c = 0 THEN "program" ELSE "begin", call |-> 1, k |-> 1, data |-> <<>>, err |-> FALSE, timedout |-> FALSE, using |-> 0,
                            out |-> [read |-> <<>>, write |-> <<>>, except |-> <<>>]]],
            workers |-> <<>>, pool |-> <<>>, current |-> 0, max |-> 0, input |-> {}, console |-> <<>>, others |-> 1, events |-> {},
            assoc |-> [fd \in {f \in DOMAIN DescrKind : DescrKind[f] \in {"socket", "unbound"}} |-> <<>>], nonblock |-> {}, crashed |-> FALSE]

Caller(c, pc) == res.callers[c].pc = pc
HasStatic(data) == \E i \in DOMAIN data : data[i].type = "static"
Watched(c) == {res.callers[c].data[i].worker : i \in DOMAIN res.callers[c].data} \ {0}
AllFds(q) == SS!ToSet(q.read) \cup SS!ToSet(q.write) \cup SS!ToSet(q.except)

\* Every descriptor is dispatched; an unknown one raises an error.
Begin(c) ==
  /\ Caller(c, "begin")
  /\ LET q == job.queries[c] IN
     res' = IF \E fd \in AllFds(q) : DescrKind[fd] = "unknown" THEN [res EXCEPT !.callers[c].pc = "raised"]
            ELSE [res EXCEPT !.callers[c] = [@ EXCEPT !.pc = "submit", !.data = Dispatched(q), !.k = 1]]

\* Data that is not static gets a worker; what follows depends on the data that is.
Submit(c) ==
  /\ Caller(c, "submit")
  /\ LET data == res.callers[c].data  k == res.callers[c].k IN
     res' = IF k \notin DOMAIN data
            THEN [res EXCEPT !.callers[c].pc =
                    CASE Watched(c) = {} /\ HasStatic(data) -> "build" [] Watched(c) = {} /\ ~HasStatic(data) -> "sleep"
                      [] Watched(c) # {} /\ HasStatic(data) -> "stop" [] OTHER -> "wait"]
            ELSE IF data[k].type = "static" THEN [res EXCEPT !.callers[c].k = @ + 1]
            ELSE [worker_pop(res) EXCEPT !.callers[c] = [@ EXCEPT !.pc = "ready", !.using = PoppedWorker(res)]]
\* worker_job_submit: the command goes to a worker that is ready.
worker_job_submit(c) ==
  /\ Caller(c, "ready") /\ res.workers[res.callers[c].using].ready
  /\ LET w == res.callers[c].using  k == res.callers[c].k IN
     res' = [Command(res, w, "exec") EXCEPT !.workers[w].data = <<c, k>>,
               !.callers[c] = [@ EXCEPT !.pc = "submit", !.data[k].worker = w, !.k = k + 1]]

Sleep(c) ==
  Caller(c, "sleep") /\ job.queries[c].timed /\ res' = [res EXCEPT !.callers[c] = [@ EXCEPT !.pc = "build", !.timedout = TRUE]]
TooMany(c) == Cardinality(Watched(c)) > MAXIMUM_WAIT_OBJECTS
WaitOne(c) ==
  /\ Caller(c, "wait")
  /\ \/ TooMany(c) /\ res' = [res EXCEPT !.callers[c] = [@ EXCEPT !.pc = "stop", !.err = TRUE]]
     \/ ~TooMany(c) /\ (\E w \in Watched(c) : res.workers[w].done) /\ res' = [res EXCEPT !.callers[c].pc = "stop"]
     \/ ~TooMany(c) /\ job.queries[c].timed /\ res' = [res EXCEPT !.callers[c] = [@ EXCEPT !.pc = "stop", !.timedout = TRUE]]
worker_job_stop(c) ==
  /\ Caller(c, "stop")
  /\ res' = [res EXCEPT !.callers[c].pc = "join",
                        !.workers = [w \in DOMAIN @ |-> IF w \in Watched(c) THEN [@[w] EXCEPT !.stop = TRUE] ELSE @[w]]]
WaitAll(c) ==
  /\ Caller(c, "join")
  /\ TooMany(c) \/ \A w \in Watched(c) : res.workers[w].done
  /\ res' = [res EXCEPT !.callers[c] = [@ EXCEPT !.pc = "build", !.err = res.callers[c].err \/ TooMany(c)]]

\* enter_blocking_section and leave_blocking_section run the handlers of pending signals, and one may
\* raise an exception through the call.  In worker_job_submit the worker taken from the pool stays with
\* the call, told nothing; leave_blocking_section comes when its hWorkerReady is reset already.
SubmitRaises(c) ==
  /\ Caller(c, "ready") /\ job.queries[c].raises
  /\ LET w == res.callers[c].using IN
     \/ res' = [res EXCEPT !.callers[c].pc = "lost"]
     \/ res.workers[w].ready /\ res' = [res EXCEPT !.callers[c].pc = "lost", !.workers[w].ready = FALSE]
\* In unix_select itself, before the waits or behind them, and in worker_job_finish, the workers that
\* have data keep it, and none of this is freed.
CallRaises(c) ==
  /\ job.queries[c].raises
  /\ \/ Caller(c, "submit") /\ res.callers[c].k \notin DOMAIN res.callers[c].data
     \/ Caller(c, "sleep") /\ job.queries[c].timed
     \/ Caller(c, "join") /\ (TooMany(c) \/ \A w \in Watched(c) : res.workers[w].done)
     \/ /\ Caller(c, "free") /\ res.callers[c].k \in DOMAIN res.callers[c].data
        /\ res.callers[c].data[res.callers[c].k].worker # 0
  /\ res' = [res EXCEPT !.callers[c].pc = "broken"]

\* The answers of all the data, each in front of its list; an error of the data counts as well.
AnswerList(data, q, mode) ==
  LET all == SS!FlattenSeq([i \in DOMAIN data |-> data[i].results])
      answers == SelectSeq(all, LAMBDA r : r.mode = mode) IN
  SS!Reverse([i \in DOMAIN answers |-> find_handle(q, answers[i])])
Build(c) ==
  /\ Caller(c, "build")
  /\ LET data == res.callers[c].data
         built == [mode \in {"read", "write", "except"} |-> AnswerList(data, job.queries[c], mode)] IN
     res' = [res EXCEPT !.callers[c] =
               [@ EXCEPT !.pc = "free", !.k = 1, !.out = IF res.callers[c].err THEN res.callers[c].out ELSE built,
                         !.err = res.callers[c].err \/ \E i \in DOMAIN data : data[i].state = "error"]]

\* worker_job_finish waits for the worker and gives it back; then the data is freed.
select_data_free(c) ==
  /\ Caller(c, "free")
  /\ LET data == res.callers[c].data  k == res.callers[c].k  w == data[k].worker IN
     /\ k \in DOMAIN data
     /\ IF w = 0 THEN res' = [res EXCEPT !.callers[c] = [@ EXCEPT !.data[k].freed = TRUE, !.k = k + 1]]
        ELSE /\ res.workers[w].done
             /\ res' = [worker_push(res, w) EXCEPT !.callers[c] =
                          [@ EXCEPT !.data[k].worker = 0, !.pc = IF KeepsWorker(res) THEN "free" ELSE "discard", !.using = w]]
Return(c) ==
  /\ Caller(c, "free") /\ res.callers[c].k \notin DOMAIN res.callers[c].data
  /\ res' = [res EXCEPT !.callers[c].pc = IF res.callers[c].err THEN "raised" ELSE "answered"]

\* A worker that is ready is told to stop, and its thread ends.
worker_free(c) ==
  LET w == res.callers[c].using IN
  \/ /\ res.callers[c].pc \in {"discard", "empty"} /\ w # 0 /\ res.workers[w].ready
     /\ res' = [Command(res, w, "stop") EXCEPT !.callers[c].pc = IF @ = "discard" THEN "discarded" ELSE "emptied"]
  \/ /\ res.callers[c].pc \in {"discarded", "emptied"} /\ WorkerAt(w, "exited")
     /\ res' = [res EXCEPT !.callers[c].pc = IF @ = "discarded" THEN "free" ELSE "cleanup"]

\* At the exit of the program the workers of the pool are stopped.
Returned(c) == res.callers[c].pc \in {"answered", "raised"}
Interrupted(c) == res.callers[c].pc \in {"lost", "broken"}
Ended(c) == Returned(c) \/ Interrupted(c)
worker_cleanup ==
  \/ /\ Caller(0, "program")
     /\ \A c \in DOMAIN job.queries : Ended(c) /\ (Returned(c) => res.callers[c].call = SelectCalls)
     /\ res' = [res EXCEPT !.callers[0].pc = "cleanup"]
  \/ /\ Caller(0, "cleanup")
     /\ res' = IF res.pool = <<>> THEN [res EXCEPT !.callers[0].pc = "exit"]
               ELSE [worker_pop(res) EXCEPT !.callers[0] = [@ EXCEPT !.pc = "empty", !.using = PoppedWorker(res)]]
  \/ worker_free(0)

\* The program reads what there was, and calls again.
Again(c) ==
  /\ Returned(c) /\ res.callers[c].call < SelectCalls
  /\ LET mine == AllFds(job.queries[c]) IN
     res' = [res EXCEPT !.callers[c] = [@ EXCEPT !.pc = "begin", !.call = res.callers[c].call + 1, !.data = <<>>, !.err = FALSE, !.timedout = FALSE],
                        !.input = @ \ mine, !.events = {e \in @ : e[1] \notin mine},
                        !.console = IF \E fd \in mine : DescrKind[fd] = "console" THEN <<>> ELSE @]

\* Input arrives on a pipe, a record on the console, or an event on a socket, which sets the event
\* associated with the socket for that mode.
SocketEvent(s, fd, mode) ==
  LET w == s.assoc[fd][1]  i == s.assoc[fd][2] IN
  IF s.assoc[fd] # <<>> /\ s.workers[w].pc = "sockets" /\ JobData(s, w).queries[i].mode = mode
  THEN Works(s, w, [JobData(s, w) EXCEPT !.signaled = @ \cup {i}], "sockets") ELSE s
Arrives(c) ==
  /\ ~Returned(c) /\ ~job.queries[c].quiet
  /\ LET q == job.queries[c] IN
     \/ \E fd \in AllFds(q) \ res.input : DescrKind[fd] = "pipe" /\ res' = [res EXCEPT !.input = @ \cup {fd}]
     \/ \E mode \in {"read", "write", "except"} : \E fd \in {q[mode][i] : i \in DOMAIN q[mode]} :
          /\ DescrKind[fd] \in {"socket", "unbound"} /\ <<fd, mode>> \notin res.events
          /\ res' = [SocketEvent(res, fd, mode) EXCEPT !.events = @ \cup {<<fd, mode>>}]
     \/ /\ \E fd \in AllFds(q) : DescrKind[fd] = "console"
        /\ \/ ~SS!Contains(res.console, "key") /\ res' = [res EXCEPT !.console = Append(@, "key")]
           \/ res.others > 0 /\ res' = [res EXCEPT !.console = Append(@, "other"), !.others = @ - 1]

SelectStep(c) ==
  \/ Begin(c) \/ Submit(c) \/ worker_job_submit(c) \/ Sleep(c) \/ WaitOne(c) \/ worker_job_stop(c) \/ WaitAll(c)
  \/ SubmitRaises(c) \/ CallRaises(c)
  \/ Build(c) \/ select_data_free(c) \/ Return(c) \/ worker_free(c) \/ Again(c) \/ Arrives(c)
SelectNext ==
  /\ job.part = "select" /\ UNCHANGED job /\ ~res.crashed
  /\ \/ \E c \in DOMAIN job.queries : SelectStep(c)
     \/ \E w \in DOMAIN res.workers : worker_wait(w)
     \/ worker_cleanup
SelectSpec == SelectInit /\ [][SelectNext]_vars

(***************************************************************************)
(* Properties.                                                             *)
(***************************************************************************)
\* What is ready whenever it is asked for, and what is ready now.
Always(mode, fd) ==
  \/ DescrKind[fd] \in {"disk", "unbound"} /\ mode # "except"
  \/ DescrKind[fd] \in {"pipe", "console"} /\ mode = "write"
Ready(mode, fd) ==
  \/ Always(mode, fd)
  \/ mode = "read" /\ DescrKind[fd] = "pipe" /\ fd \in res.input
  \/ mode = "read" /\ DescrKind[fd] = "console" /\ SS!Contains(res.console, "key")
  \/ <<fd, mode>> \in res.events
Idle(w) == res.workers[w].pc \in {"start", "waiting"} /\ ~res.workers[w].command

\* select.c: when a call answers, each descriptor it names was asked for, is named once and is ready;
\* the ones that are always ready are named; an answer is empty only after the timeout.  A call fails
\* only when a descriptor is unknown, a call of the system fails, there are more workers than the system
\* waits for, or socket_poll runs over the end of aEvents, which is also the only end before time.
Causes(c) ==
  LET q == job.queries[c]  data == res.callers[c].data IN
  \/ q.fails # "" \/ \E fd \in AllFds(q) : DescrKind[fd] = "unknown"
  \/ Cardinality({k \in DOMAIN data : data[k].type # "static"}) > MAXIMUM_WAIT_OBJECTS
  \/ \E k \in DOMAIN data : Overruns(data[k])
AnswersExact ==
  job.part = "select" =>
  /\ \A c \in DOMAIN job.queries : Caller(c, "answered") =>
       /\ \A mode \in {"read", "write", "except"} :
            LET asked == job.queries[c][mode]  out == res.callers[c].out[mode] IN
            /\ \A i, j \in DOMAIN out : out[i] = out[j] => i = j
            /\ \A i \in DOMAIN out : SS!Contains(asked, out[i]) /\ Ready(mode, out[i])
            /\ \A i \in DOMAIN asked : Always(mode, asked[i]) => SS!Contains(out, asked[i])
       /\ res.callers[c].timedout \/ \E mode \in {"read", "write", "except"} : res.callers[c].out[mode] # <<>>
  /\ \A c \in DOMAIN job.queries : Caller(c, "raised") => Causes(c)
  /\ res.crashed => \E c \in DOMAIN job.queries : \E k \in DOMAIN res.callers[c].data : Overruns(res.callers[c].data[k])

\* winworker.c: no worker looks at data that is freed or that another worker has, the pool holds idle
\* workers only, none twice, at most its limit.  A call that an exception of a handler has left keeps
\* its workers for good: they never come back to the pool, nor does worker_cleanup stop them.  When no
\* call is under way all the others are in the pool, the count of the workers in use is that of the
\* lost ones, and no other is left after worker_cleanup.
InPool(w) == \E i \in DOMAIN res.pool : res.pool[i] = w
Lost(w) ==
  \E c \in DOMAIN job.queries : Interrupted(c) /\ (w \in Watched(c) \/ (Caller(c, "lost") /\ res.callers[c].using = w))
WorkersOwned ==
  job.part = "select" =>
  /\ \A w \in DOMAIN res.workers :
       res.workers[w].pc \notin {"start", "waiting", "exited"} => ~JobData(res, w).freed /\ JobData(res, w).worker = w
  /\ \A i \in DOMAIN res.pool : /\ Idle(res.pool[i]) /\ ~Lost(res.pool[i])
                                /\ \A j \in DOMAIN res.pool : res.pool[i] = res.pool[j] => i = j
  /\ Len(res.pool) <= THREAD_WORKERS_MAX /\ res.current >= 0
  /\ Caller(0, "program") /\ (\A c \in DOMAIN job.queries : Ended(c)) =>
       /\ res.current = Cardinality({w \in DOMAIN res.workers : Lost(w)})
       /\ \A w \in DOMAIN res.workers : WorkerAt(w, "exited") \/ InPool(w) \/ Lost(w)
  /\ Caller(0, "exit") => \A w \in DOMAIN res.workers : WorkerAt(w, "exited") \/ Lost(w)

\* Unix.select on Windows answers what it was asked; its workers are given back, but for the calls that
\* a handler's exception ends.
SelectSound == AnswersExact /\ WorkersOwned
=============================================================================
